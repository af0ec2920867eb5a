-------------------------- MODULE HammerLockProofs --------------------------
(***************************************************************************)
(* Proofs about HammerLock, for any number of threads and shared holds.    *)
(* The inductive invariant is the conjunction of the properties the runs   *)
(* check: none is inductive alone.  Exclusion needs NoSelfWait (an         *)
(* upgrade's caller is running, so it is the one holder), NoLostWakeup     *)
(* needs Exclusion (the holder that leaves last sees lockcount reach 0).   *)
(***************************************************************************)
EXTENDS HammerLock, FiniteSetTheorems, TLAPS

LockInv == TypeOK /\ Exclusion /\ NoLostWakeup /\ NoSelfWait /\ ExWantedExact

(* Any set of shared holds, and any set of threads, is finite.             *)
LEMMA HoldsFinite ==
  ASSUME NEW S \in SUBSET Hold
  PROVE  IsFiniteSet(S)
<1>1. IsFiniteSet(Hold)
  BY FS_Product, ThreadAssumption DEF Hold
<1> QED
  BY <1>1, FS_Subset

LEMMA ThreadsFinite ==
  ASSUME NEW T \in SUBSET Thread
  PROVE  IsFiniteSet(T) /\ Cardinality(T) \in Nat
  BY FS_Subset, FS_CardinalityType, ThreadAssumption

(* A new shared hold adds one to the holds that are out.                   *)
LEMMA AddHold ==
  ASSUME NEW S \in SUBSET Hold, NEW x \in Hold, x \notin S
  PROVE  /\ S \union {x} \in SUBSET Hold
         /\ Cardinality(S) \in Nat
         /\ Cardinality(S \union {x}) = Cardinality(S) + 1
  BY HoldsFinite, FS_AddElement, FS_CardinalityType

LEMMA RemoveHold ==
  ASSUME NEW S \in SUBSET Hold, NEW x \in S
  PROVE  /\ S \ {x} \in SUBSET Hold
         /\ Cardinality(S) \in Nat
         /\ Cardinality(S \ {x}) = Cardinality(S) - 1
         /\ Cardinality(S) = 1 => S = {x}
<1>1. IsFiniteSet(S)
  BY HoldsFinite
<1>2. Cardinality(S) \in Nat /\ Cardinality(S \ {x}) = Cardinality(S) - 1
  BY <1>1, FS_RemoveElement, FS_CardinalityType
<1>3. ASSUME Cardinality(S) = 1 PROVE S = {x}
  <2>1. IsFiniteSet(S \ {x}) /\ Cardinality(S \ {x}) = 0
    BY <1>1, <1>2, <1>3, FS_RemoveElement
  <2> QED
    BY <2>1, FS_EmptySet
<1> QED
  BY <1>2, <1>3

(* WakeWaiters leaves nobody asleep: without the wanted flag nobody was.   *)
(* The exclusive waiters stay exclusive waiters.                           *)
LEMMA WakeEffect ==
  ASSUME LockInv, WakeWaiters
  PROVE  /\ wanted' = FALSE
         /\ pc' \in [Thread -> {"run", "exsleep", "exwake", "shsleep", "shwake"}]
         /\ Sleepers' = {}
         /\ ExWaiters' = ExWaiters
         /\ \A u \in Thread : pc'[u] # "run" <=> pc[u] # "run"
<1> USE DEF LockInv, TypeOK, WakeWaiters, Sleepers, ExWaiters
<1>1. CASE wanted
  <2>1. pc' = [t \in Thread |-> CASE pc[t] = "exsleep" -> "exwake"
                                [] pc[t] = "shsleep" -> "shwake"
                                [] OTHER            -> pc[t]]
    BY <1>1 DEF Woken
  <2>2. \A u \in Thread : 
           /\ pc[u] = "exsleep" => pc'[u] = "exwake"
           /\ pc[u] = "shsleep" => pc'[u] = "shwake"
           /\ pc[u] \notin {"exsleep", "shsleep"} => pc'[u] = pc[u]
    BY <2>1
  <2> QED
    BY <1>1, <2>1, <2>2
<1>2. CASE ~wanted
  BY <1>2 DEF NoLostWakeup
<1> QED
  BY <1>1, <1>2

(* A thread that was not waiting exclusively and now is: one more waiter.  *)
LEMMA WaiterJoins ==
  ASSUME TypeOK, ExWantedExact, NEW t \in Thread, pc[t] = "run",
         pc' = [pc EXCEPT ![t] = "exsleep"]
  PROVE  exwanted \in Nat /\ Cardinality(ExWaiters') = exwanted + 1
<1>1. ExWaiters' = ExWaiters \union {t} /\ t \notin ExWaiters
  BY DEF TypeOK, ExWaiters
<1>2. ExWaiters \in SUBSET Thread
  BY DEF ExWaiters
<1> QED
  BY <1>1, <1>2, ThreadsFinite, FS_AddElement DEF ExWantedExact

(* A woken exclusive waiter that gets the lock: one waiter less.           *)
LEMMA WaiterLeaves ==
  ASSUME TypeOK, ExWantedExact, NEW t \in Thread, pc[t] = "exwake",
         pc' = [pc EXCEPT ![t] = "run"]
  PROVE  exwanted \in Nat \ {0} /\ Cardinality(ExWaiters') = exwanted - 1
<1>1. ExWaiters' = ExWaiters \ {t} /\ t \in ExWaiters
  BY DEF TypeOK, ExWaiters
<1>2. ExWaiters \in SUBSET Thread /\ ExWaiters' \in SUBSET Thread
  BY DEF ExWaiters
<1>3. IsFiniteSet(ExWaiters) /\ Cardinality(ExWaiters) \in Nat
      /\ Cardinality(ExWaiters') \in Nat
  BY <1>2, ThreadsFinite
<1>4. Cardinality(ExWaiters') = Cardinality(ExWaiters) - 1
  BY <1>1, <1>3, FS_RemoveElement
<1> QED
  BY <1>3, <1>4 DEF ExWantedExact

LEMMA InitInv == Init => LockInv
<1> SUFFICES ASSUME Init PROVE LockInv
  OBVIOUS
<1>1. Cardinality({}) = 0
  BY FS_EmptySet
<1>2. ExWaiters = {} /\ Sleepers = {}
  BY DEF Init, ExWaiters, Sleepers
<1>3. TypeOK
  <2>1. wanted \in BOOLEAN /\ locktd \in Thread \union {NULL}
    BY DEF Init
  <2>2. /\ lockcount \in Int /\ exwanted \in Nat
        /\ pc \in [Thread -> {"run", "exsleep", "exwake", "shsleep", "shwake"}]
        /\ shared \in SUBSET Hold
    BY DEF Init
  <2> QED
    BY <2>1, <2>2 DEF TypeOK
<1>4. Exclusion /\ ExWantedExact
  BY <1>1, <1>2 DEF Init, Exclusion, ExWantedExact
<1>5. NoLostWakeup /\ NoSelfWait
  BY <1>2 DEF Init, NoLostWakeup, NoSelfWait
<1> QED
  BY <1>3, <1>4, <1>5 DEF LockInv

LEMMA RecurseInv ==
  ASSUME LockInv, NEW t \in Thread, Recurse(t)
  PROVE  LockInv'
<1>1. ExWaiters' = ExWaiters /\ Sleepers' = Sleepers
  BY DEF Recurse, ExWaiters, Sleepers
<1> QED
  BY <1>1, ThreadAssumption DEF LockInv, TypeOK, Exclusion, NoLostWakeup,
     NoSelfWait, ExWantedExact, Recurse, Holds, Free

(* hammer_lock_ex: the free lock is taken, or the thread sleeps.           *)
LEMMA TryExInv ==
  ASSUME LockInv, NEW t \in Thread, Holds(t) = {}, locktd # t,
         UNCHANGED shared,
         \/ pc[t] = "run" /\ TryEx(t, 0)
         \/ pc[t] = "exwake" /\ TryEx(t, 1)
  PROVE  LockInv'
<1> USE ThreadAssumption
<1>1. CASE Free
  <2>1. locktd' = t /\ lockcount' = lockcount + 1 /\ wanted' = wanted
        /\ pc' = [pc EXCEPT ![t] = "run"]
    BY <1>1 DEF TryEx
  <2>2. exwanted' \in Nat /\ exwanted' = Cardinality(ExWaiters')
    <3>1. CASE pc[t] = "run" /\ TryEx(t, 0)
      <4>1. ExWaiters' = ExWaiters
        BY <2>1, <3>1 DEF LockInv, TypeOK, ExWaiters
      <4> QED
        BY <1>1, <3>1, <4>1 DEF TryEx, LockInv, TypeOK, ExWantedExact
    <3>2. CASE pc[t] = "exwake" /\ TryEx(t, 1)
      <4>1. exwanted \in Nat \ {0} /\ Cardinality(ExWaiters') = exwanted - 1
        BY <2>1, <3>2, WaiterLeaves DEF LockInv
      <4>2. exwanted' = exwanted - 1
        BY <1>1, <3>2 DEF TryEx
      <4> QED
        BY <4>1, <4>2
    <3> QED
      BY <3>1, <3>2
  <2>3. Sleepers = {}
    BY <1>1 DEF LockInv, NoLostWakeup
  <2>4. Sleepers' = {}
    BY <2>1, <2>3 DEF Sleepers, LockInv, TypeOK
  <2>5. shared = {}
    <3>1. Cardinality(shared) = 0 /\ IsFiniteSet(shared)
      BY <1>1, HoldsFinite, FS_CardinalityType DEF LockInv, TypeOK, Exclusion, Free
    <3> QED
      BY <3>1, FS_EmptySet
  <2>6. TypeOK'
    BY <2>1, <2>2 DEF LockInv, TypeOK
  <2>7. Exclusion'
    BY <1>1, <2>1, <2>5 DEF Exclusion, Free
  <2>8. NoLostWakeup'
    BY <2>1, <2>4 DEF NoLostWakeup, Sleepers
  <2>9. NoSelfWait'
    BY <2>1, <2>5 DEF LockInv, TypeOK, NoSelfWait, Holds
  <2> QED
    BY <2>2, <2>6, <2>7, <2>8, <2>9 DEF LockInv, ExWantedExact
<1>2. CASE ~Free
  <2>1. wanted' = TRUE /\ pc' = [pc EXCEPT ![t] = "exsleep"]
        /\ locktd' = locktd /\ lockcount' = lockcount
    BY <1>2 DEF TryEx
  <2>2. exwanted' \in Nat /\ exwanted' = Cardinality(ExWaiters')
    <3>1. CASE pc[t] = "run" /\ TryEx(t, 0)
      <4>1. exwanted \in Nat /\ Cardinality(ExWaiters') = exwanted + 1
        BY <2>1, <3>1, WaiterJoins DEF LockInv
      <4>2. exwanted' = exwanted - 0 + 1
        BY <1>2, <3>1 DEF TryEx
      <4> QED
        BY <4>1, <4>2
    <3>2. CASE pc[t] = "exwake" /\ TryEx(t, 1)
      <4>1. ExWaiters' = ExWaiters
        BY <2>1, <3>2 DEF LockInv, TypeOK, ExWaiters
      <4> QED
        <5>1. exwanted' = exwanted - 1 + 1
          BY <1>2, <3>2 DEF TryEx
        <5>2. exwanted \in Nat /\ exwanted = Cardinality(ExWaiters')
          BY <4>1 DEF LockInv, TypeOK, ExWantedExact
        <5> QED
          BY <5>1, <5>2
    <3> QED
      BY <3>1, <3>2
  <2>3. TypeOK' /\ Exclusion' /\ NoSelfWait'
    BY <2>1, <2>2 DEF LockInv, TypeOK, Exclusion, NoSelfWait, Holds
  <2>4. NoLostWakeup'
    BY <1>2, <2>1 DEF LockInv, TypeOK, NoLostWakeup, Free, Sleepers
  <2> QED
    BY <2>2, <2>3, <2>4 DEF LockInv, ExWantedExact
<1> QED
  BY <1>1, <1>2

(* A shared hold handed to thread t while nobody owns the lock.            *)
LEMMA GrantSharedInv ==
  ASSUME LockInv, NEW t \in Thread, pc[t] \in {"run", "shwake"}, locktd = NULL,
         NEW h \in Handle \ Holds(t), shared' = shared \union {<<t, h>>},
         lockcount' = lockcount - 1, pc' = [pc EXCEPT ![t] = "run"],
         UNCHANGED <<locktd, wanted, exwanted>>
  PROVE  LockInv'
<1>1. <<t, h>> \in Hold /\ <<t, h>> \notin shared /\ shared \in SUBSET Hold
  BY DEF Hold, Holds, LockInv, TypeOK
<1>2. /\ shared' \in SUBSET Hold /\ Cardinality(shared) \in Nat
      /\ Cardinality(shared') = Cardinality(shared) + 1
  BY <1>1, AddHold
<1>3. ExWaiters' = ExWaiters
  BY DEF ExWaiters, LockInv, TypeOK
<1>4. TypeOK'
  BY <1>2 DEF LockInv, TypeOK
<1>5. Exclusion'
  BY <1>2, ThreadAssumption DEF LockInv, Exclusion
<1>6. NoLostWakeup'
  BY <1>2 DEF LockInv, TypeOK, NoLostWakeup, Exclusion, Sleepers, Free
<1>7. NoSelfWait'
  BY ThreadAssumption DEF LockInv, TypeOK, NoSelfWait, Holds
<1> QED
  BY <1>3, <1>4, <1>5, <1>6, <1>7 DEF LockInv, ExWantedExact

LEMMA TryShInv ==
  ASSUME LockInv, NEW t \in Thread, pc[t] \in {"run", "shwake"}, locktd # t,
         TrySh(t), UNCHANGED <<locktd, exwanted>>
  PROVE  LockInv'
<1>1. CASE locktd = NULL
  <2>1. PICK h \in Handle \ Holds(t) :
           /\ shared' = shared \union {<<t, h>>}
           /\ lockcount' = lockcount - 1
           /\ pc' = [pc EXCEPT ![t] = "run"]
           /\ UNCHANGED wanted
    BY <1>1 DEF TrySh
  <2> QED
    BY <1>1, <2>1, GrantSharedInv
<1>2. CASE locktd # NULL
  <2>1. /\ wanted' = TRUE /\ pc' = [pc EXCEPT ![t] = "shsleep"]
        /\ UNCHANGED <<lockcount, shared>>
    BY <1>2 DEF TrySh
  <2>2. ExWaiters' = ExWaiters
    BY <2>1 DEF ExWaiters, LockInv, TypeOK
  <2>3. TypeOK' /\ Exclusion' /\ NoLostWakeup'
    BY <1>2, <2>1 DEF LockInv, TypeOK, Exclusion, NoLostWakeup, Sleepers, Free
  <2>4. NoSelfWait'
    BY <1>2, <2>1 DEF LockInv, TypeOK, NoSelfWait, Holds, Exclusion
  <2> QED
    BY <2>2, <2>3, <2>4 DEF LockInv, ExWantedExact
<1> QED
  BY <1>1, <1>2

LEMMA UpgradeInv ==
  ASSUME LockInv, NEW t \in Thread, Upgrade(t)
  PROVE  LockInv'
<1>1. PICK h \in Holds(t) : shared' = shared \ {<<t, h>>}
  BY DEF Upgrade
<1>2. <<t, h>> \in shared /\ shared \in SUBSET Hold
  BY <1>1 DEF Holds, LockInv, TypeOK
<1>3. locktd = NULL
  BY <1>2 DEF LockInv, Exclusion
<1>4. Cardinality(shared) = 1
  <2>1. Cardinality(shared) \in Nat
    BY <1>2, RemoveHold
  <2>2. lockcount = -Cardinality(shared) /\ lockcount = -1
    BY <1>3 DEF LockInv, Exclusion, Upgrade
  <2> QED
    BY <2>1, <2>2
<1>5. shared' = {}
  BY <1>1, <1>2, <1>4, RemoveHold
<1>6. ExWaiters' = ExWaiters /\ Sleepers' = Sleepers
  BY DEF Upgrade, ExWaiters, Sleepers
<1>7. TypeOK' /\ Exclusion'
  BY <1>5, ThreadAssumption DEF LockInv, TypeOK, Exclusion, Upgrade
<1>8. NoLostWakeup'
  BY <1>6, ThreadAssumption DEF LockInv, NoLostWakeup, Upgrade, Free
<1>9. NoSelfWait'
  BY <1>5 DEF LockInv, NoSelfWait, Upgrade, Holds
<1> QED
  BY <1>6, <1>7, <1>8, <1>9 DEF LockInv, ExWantedExact, Upgrade

LEMMA DowngradeInv ==
  ASSUME LockInv, NEW t \in Thread, Downgrade(t)
  PROVE  LockInv'
<1>1. PICK h \in Handle \ Holds(t) : shared' = shared \union {<<t, h>>}
  BY DEF Downgrade
<1>2. shared = {} /\ <<t, h>> \in Hold
  BY <1>1, ThreadAssumption DEF LockInv, Exclusion, Downgrade, Hold
<1>3. Cardinality(shared') = 1 /\ shared' \in SUBSET Hold
  BY <1>1, <1>2, AddHold, FS_EmptySet
<1>4. WakeWaiters
  BY DEF Downgrade
<1>5. TypeOK'
  <2>1. wanted' \in BOOLEAN /\ pc' \in [Thread -> {"run", "exsleep", "exwake", "shsleep", "shwake"}]
    BY <1>4, WakeEffect
  <2> QED
    BY <1>3, <2>1 DEF LockInv, TypeOK, Downgrade
<1>8. Exclusion'
  BY <1>3 DEF Exclusion, Downgrade
<1>6. NoLostWakeup'
  BY <1>4, WakeEffect DEF NoLostWakeup, Sleepers
<1>7. NoSelfWait'
  BY <1>1, <1>2, <1>4, WakeEffect, ThreadAssumption
     DEF LockInv, NoSelfWait, Downgrade, Holds
<1> QED
  BY <1>4, <1>5, <1>6, <1>7, <1>8, WakeEffect DEF LockInv, ExWantedExact, Downgrade

LEMMA UnlockShInv ==
  ASSUME LockInv, NEW t \in Thread, UnlockSh(t)
  PROVE  LockInv'
<1>1. PICK h \in Holds(t) : shared' = shared \ {<<t, h>>}
  BY DEF UnlockSh
<1>2. <<t, h>> \in shared /\ shared \in SUBSET Hold
  BY <1>1 DEF Holds, LockInv, TypeOK
<1>3. /\ shared' \in SUBSET Hold /\ Cardinality(shared) \in Nat
      /\ Cardinality(shared') = Cardinality(shared) - 1
  BY <1>1, <1>2, RemoveHold
<1>4. locktd = NULL /\ locktd' = NULL
  BY <1>2 DEF LockInv, Exclusion, UnlockSh
<1>5. Exclusion'
  BY <1>3, <1>4 DEF LockInv, Exclusion, UnlockSh
<1>6. CASE lockcount = -1
  <2>1. WakeWaiters
    BY <1>6 DEF UnlockSh
  <2>2. TypeOK'
    <3>1. wanted' \in BOOLEAN /\ pc' \in [Thread -> {"run", "exsleep", "exwake", "shsleep", "shwake"}]
      BY <2>1, WakeEffect
    <3> QED
      BY <1>3, <3>1 DEF LockInv, TypeOK, UnlockSh
  <2>3. NoLostWakeup' /\ NoSelfWait'
    BY <1>1, <1>4, <2>1, WakeEffect, ThreadAssumption
       DEF LockInv, NoLostWakeup, NoSelfWait, Sleepers, Holds
  <2> QED
    BY <1>5, <2>1, <2>2, <2>3, WakeEffect DEF LockInv, ExWantedExact, UnlockSh
<1>7. CASE lockcount # -1
  <2>1. UNCHANGED <<wanted, pc>> /\ lockcount' # 0
    BY <1>7 DEF UnlockSh, LockInv, TypeOK
  <2>2. ExWaiters' = ExWaiters /\ Sleepers' = Sleepers
    BY <2>1 DEF ExWaiters, Sleepers
  <2>3. TypeOK' /\ NoSelfWait'
    BY <1>1, <1>3, <1>4, <2>1 DEF LockInv, TypeOK, NoSelfWait, UnlockSh, Holds
  <2>4. NoLostWakeup'
    BY <1>4, <2>1, <2>2 DEF LockInv, NoLostWakeup, Free
  <2> QED
    BY <1>5, <2>2, <2>3, <2>4 DEF LockInv, ExWantedExact, UnlockSh
<1> QED
  BY <1>6, <1>7

LEMMA UnlockExInv ==
  ASSUME LockInv, NEW t \in Thread, UnlockEx(t)
  PROVE  LockInv'
<1>1. shared = {} /\ shared' = {}
  BY ThreadAssumption DEF LockInv, Exclusion, UnlockEx
<1>2. CASE lockcount = 1
  <2>1. WakeWaiters /\ locktd' = NULL /\ lockcount' = 0
    BY <1>2 DEF UnlockEx
  <2>2. TypeOK'
    <3>1. wanted' \in BOOLEAN /\ pc' \in [Thread -> {"run", "exsleep", "exwake", "shsleep", "shwake"}]
      BY <2>1, WakeEffect
    <3> QED
      BY <1>1, <2>1, <3>1 DEF LockInv, TypeOK, UnlockEx
  <2>4. Exclusion'
    BY <1>1, <2>1, FS_EmptySet DEF Exclusion
  <2>3. NoLostWakeup' /\ NoSelfWait'
    BY <1>1, <2>1, WakeEffect, ThreadAssumption
       DEF LockInv, NoLostWakeup, NoSelfWait, Sleepers, Holds
  <2> QED
    BY <2>1, <2>2, <2>3, <2>4, WakeEffect DEF LockInv, ExWantedExact, UnlockEx
<1>3. CASE lockcount # 1
  <2>1. UNCHANGED <<locktd, wanted, pc>> /\ lockcount' > 0 /\ lockcount' \in Int
    BY <1>3 DEF UnlockEx, LockInv, TypeOK
  <2>2. ExWaiters' = ExWaiters /\ Sleepers' = Sleepers
    BY <2>1 DEF ExWaiters, Sleepers
  <2>3. TypeOK' /\ Exclusion' /\ NoSelfWait' /\ NoLostWakeup'
    BY <1>1, <2>1, <2>2, ThreadAssumption
       DEF LockInv, TypeOK, Exclusion, NoSelfWait, NoLostWakeup, UnlockEx, Holds, Free
  <2> QED
    BY <2>2, <2>3 DEF LockInv, ExWantedExact, UnlockEx
<1> QED
  BY <1>2, <1>3

LEMMA LockExTryInv ==
  ASSUME LockInv, NEW t \in Thread, LockExTry(t)
  PROVE  LockInv'
<1>1. CASE Recurse(t)
  BY <1>1, RecurseInv
<1>2. CASE ~Recurse(t)
  <2>1. /\ Free /\ locktd' = t /\ lockcount' = lockcount + 1
        /\ UNCHANGED <<wanted, exwanted, pc, shared>> /\ pc[t] = "run"
    BY <1>2 DEF LockExTry
  <2>2. shared = {}
    <3>1. Cardinality(shared) = 0 /\ IsFiniteSet(shared)
      BY <2>1, HoldsFinite, FS_CardinalityType DEF LockInv, TypeOK, Exclusion, Free
    <3> QED
      BY <3>1, FS_EmptySet
  <2>3. ExWaiters' = ExWaiters /\ Sleepers' = Sleepers /\ Sleepers = {}
    BY <2>1 DEF ExWaiters, Sleepers, LockInv, NoLostWakeup
  <2>4. TypeOK' /\ Exclusion' /\ NoSelfWait'
    BY <2>1, <2>2, ThreadAssumption
       DEF LockInv, TypeOK, Exclusion, NoSelfWait, Free, Holds
  <2>5. NoLostWakeup'
    BY <2>1, <2>3, ThreadAssumption DEF NoLostWakeup, Sleepers
  <2> QED
    BY <2>1, <2>3, <2>4, <2>5 DEF LockInv, ExWantedExact
<1> QED
  BY <1>1, <1>2

LEMMA NextInv == LockInv /\ [Next]_vars => LockInv'
<1> SUFFICES ASSUME LockInv, [Next]_vars PROVE LockInv'
  OBVIOUS
<1>1. ASSUME NEW t \in Thread, Acquire(t) PROVE LockInv'
  <2>1. CASE LockEx(t)
    BY <2>1, RecurseInv, TryExInv DEF LockEx
  <2>2. CASE LockExTry(t)
    BY <2>2, LockExTryInv
  <2>3. CASE LockSh(t)
    BY <2>3, RecurseInv, TryShInv DEF LockSh
  <2>4. CASE LockShTry(t)
    <3>1. PICK h \in Handle \ Holds(t) : shared' = shared \union {<<t, h>>}
      BY <2>4 DEF LockShTry
    <3>2. pc' = [pc EXCEPT ![t] = "run"]
      BY <2>4 DEF LockShTry, LockInv, TypeOK
    <3> QED
      BY <2>4, <3>1, <3>2, GrantSharedInv DEF LockShTry
  <2>5. CASE Upgrade(t)
    BY <2>5, UpgradeInv
  <2> QED
    BY <1>1, <2>1, <2>2, <2>3, <2>4, <2>5 DEF Acquire
<1>2. ASSUME NEW t \in Thread, Retry(t) PROVE LockInv'
  <2>1. CASE LockExRetry(t)
    <3>1. Holds(t) = {} /\ locktd # t
      BY <2>1 DEF LockExRetry, LockInv, NoSelfWait
    <3> QED
      BY <2>1, <3>1, TryExInv DEF LockExRetry
  <2>2. CASE LockShRetry(t)
    <3>1. locktd # t
      BY <2>2 DEF LockShRetry, LockInv, NoSelfWait
    <3> QED
      BY <2>2, <3>1, TryShInv DEF LockShRetry
  <2> QED
    BY <1>2, <2>1, <2>2 DEF Retry
<1>3. ASSUME NEW t \in Thread, Release(t) PROVE LockInv'
  BY <1>3, DowngradeInv, UnlockShInv, UnlockExInv DEF Release
<1>4. ASSUME UNCHANGED vars PROVE LockInv'
  BY <1>4 DEF vars, LockInv, TypeOK, Exclusion, NoLostWakeup, NoSelfWait,
     ExWantedExact, Holds, Sleepers, ExWaiters, Free
<1> QED
  BY <1>1, <1>2, <1>3, <1>4 DEF Next

(* The type invariant, exclusion, no lost wakeup, no waiting for oneself   *)
(* and the count of exclusive waiters hold in every reachable state of the *)
(* lock code, for any threads and any number of shared holds.              *)
THEOREM LockCorrect ==
  Spec => [](TypeOK /\ Exclusion /\ NoLostWakeup /\ NoSelfWait /\ ExWantedExact)
<1>1. Spec => []LockInv
  BY InitInv, NextInv, PTL DEF Spec
<1> QED
  BY <1>1, PTL DEF LockInv

(* The wanted flag: whoever sleeps in hammer_lock_ex() or hammer_lock_sh() *)
(* does so on a lock that somebody holds and with the flag set, so that    *)
(* the unlock to come wakes it.                                            *)
THEOREM WakeupsKept == Spec => []NoLostWakeup
BY LockCorrect, PTL

(* The recursion rules: no thread sleeps for a lock it holds itself, so    *)
(* that an exclusive holder taking the lock again never waits.             *)
THEOREM RecursionSafe == Spec => []NoSelfWait
BY LockCorrect, PTL
=============================================================================
