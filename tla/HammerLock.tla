----------------------------- MODULE HammerLock -----------------------------
(***************************************************************************)
(* struct hammer_lock (dfly/vfs/hammer/hammer_subs.c:43-222): a recursive  *)
(* exclusive, shared lock built from a count, an owner, the `wanted' flag  *)
(* and tsleep/wakeup.  Every call runs in a critical section up to the     *)
(* point where it sleeps, so a call, and each retry after a wakeup, is one *)
(* step.                                                                   *)
(*                                                                         *)
(* shared is a history variable: which shared holds are out.  A thread may *)
(* take the lock shared several times (two cursors on one node), so a hold *)
(* is a pair of a thread and a handle.  The callers' rules are in the      *)
(* guards: a thread unlocks, upgrades or downgrades only what it holds.    *)
(*                                                                         *)
(* An operator named after another one with a suffix (X, X_late) is not    *)
(* part of the model: it is a slip the code could have made, which the     *)
(* mutation runs put in the place of X to show that a property sees it.    *)
(***************************************************************************)
EXTENDS Integers, FiniteSets

CONSTANTS Thread,     \* threads
          Handle,     \* shared holds a thread may have at one time
          NULL,       \* no owner
          MaxDepth    \* bound on the recursion of an exclusive hold

ASSUME ThreadAssumption ==
  /\ IsFiniteSet(Thread) /\ IsFiniteSet(Handle)
  /\ NULL \notin Thread
ASSUME DepthAssumption == MaxDepth \in Nat \ {0}

VARIABLES locktd,     \* lock->locktd
          lockcount,  \* lock->lockcount
          wanted,     \* lock->wanted
          exwanted,   \* lock->exwanted
          pc,         \* per thread: "run", or asleep or just woken in a call
          shared      \* the shared holds that are out

vars == <<locktd, lockcount, wanted, exwanted, pc, shared>>

Hold      == Thread \X Handle
Holds(t)  == {h \in Handle : <<t, h>> \in shared}
Sleepers  == {t \in Thread : pc[t] \in {"exsleep", "shsleep"}}
ExWaiters == {t \in Thread : pc[t] \in {"exsleep", "exwake"}}

Init ==
  /\ locktd = NULL /\ lockcount = 0 /\ wanted = FALSE /\ exwanted = 0
  /\ pc = [t \in Thread |-> "run"]
  /\ shared = {}

-----------------------------------------------------------------------------
(* wakeup(lock): every thread asleep on the lock becomes runnable.         *)
Woken(p) == [t \in Thread |-> CASE p[t] = "exsleep" -> "exwake"
                                [] p[t] = "shsleep" -> "shwake"
                                [] OTHER            -> p[t]]

(* if (lock->wanted) { lock->wanted = 0; wakeup(lock); }                   *)
WakeWaiters ==
  /\ wanted' = FALSE
  /\ pc' = IF wanted THEN Woken(pc) ELSE pc

Free == locktd = NULL /\ lockcount = 0

(* The loop test of hammer_lock_ex_ident: take the lock or go to sleep;    *)
(* `waiting' is what this thread adds to exwanted already.                 *)
TryEx(t, waiting) ==
  IF Free
    THEN /\ locktd' = t
         /\ lockcount' = lockcount + 1
         /\ exwanted' = exwanted - waiting
         /\ pc' = [pc EXCEPT ![t] = "run"]
         /\ UNCHANGED wanted
    ELSE /\ exwanted' = exwanted - waiting + 1
         /\ wanted' = TRUE
         /\ pc' = [pc EXCEPT ![t] = "exsleep"]
         /\ UNCHANGED <<locktd, lockcount>>

(* hammer_lock_ex by the owner: one more level.                            *)
Recurse(t) ==
  /\ locktd = t /\ lockcount < MaxDepth
  /\ lockcount' = lockcount + 1
  /\ UNCHANGED <<locktd, wanted, exwanted, pc, shared>>

(* A thread that holds the lock shared must not ask for it exclusively: it *)
(* would wait for itself.  Callers upgrade instead.                        *)
LockEx(t) ==
  /\ pc[t] = "run"
  /\ \/ Recurse(t)
     \/ locktd # t /\ Holds(t) = {} /\ TryEx(t, 0) /\ UNCHANGED shared

LockExRetry(t) ==
  /\ pc[t] = "exwake"
  /\ TryEx(t, 1)
  /\ UNCHANGED shared

(* hammer_lock_ex_try; EAGAIN changes nothing.                             *)
LockExTry(t) ==
  /\ pc[t] = "run"
  /\ \/ Recurse(t)
     \/ /\ Free
        /\ locktd' = t
        /\ lockcount' = lockcount + 1
        /\ UNCHANGED <<wanted, exwanted, pc, shared>>

(* The loop test of hammer_lock_sh: it ignores exclusive waiters.          *)
TryShUnlessWanted(t) ==
  IF locktd = NULL /\ exwanted = 0
    THEN \E h \in Handle \ Holds(t) :
           /\ shared' = shared \union {<<t, h>>}
           /\ lockcount' = lockcount - 1
           /\ pc' = [pc EXCEPT ![t] = "run"]
           /\ UNCHANGED wanted
    ELSE /\ wanted' = TRUE
         /\ pc' = [pc EXCEPT ![t] = "shsleep"]
         /\ UNCHANGED <<lockcount, shared>>
TryShForgetWanted(t) ==
  IF locktd = NULL
    THEN \E h \in Handle \ Holds(t) :
           /\ shared' = shared \union {<<t, h>>}
           /\ lockcount' = lockcount - 1
           /\ pc' = [pc EXCEPT ![t] = "run"]
           /\ UNCHANGED wanted
    ELSE /\ pc' = [pc EXCEPT ![t] = "shsleep"]
         /\ UNCHANGED <<lockcount, shared, wanted>>
TrySh(t) ==
  IF locktd = NULL
    THEN \E h \in Handle \ Holds(t) :
           /\ shared' = shared \union {<<t, h>>}
           /\ lockcount' = lockcount - 1
           /\ pc' = [pc EXCEPT ![t] = "run"]
           /\ UNCHANGED wanted
    ELSE /\ wanted' = TRUE
         /\ pc' = [pc EXCEPT ![t] = "shsleep"]
         /\ UNCHANGED <<lockcount, shared>>

(* A shared request by the exclusive owner counts as one more exclusive    *)
(* level (and drops into the debugger).                                    *)
LockSh(t) ==
  /\ pc[t] = "run"
  /\ \/ Recurse(t)
     \/ /\ locktd # t /\ Holds(t) # Handle
        /\ TrySh(t)
        /\ UNCHANGED <<locktd, exwanted>>

LockShRetry(t) ==
  /\ pc[t] = "shwake"
  /\ TrySh(t)
  /\ UNCHANGED <<locktd, exwanted>>

(* hammer_lock_sh_try; EAGAIN changes nothing.                             *)
LockShTry(t) ==
  /\ pc[t] = "run" /\ locktd = NULL
  /\ \E h \in Handle \ Holds(t) : shared' = shared \union {<<t, h>>}
  /\ lockcount' = lockcount - 1
  /\ UNCHANGED <<locktd, wanted, exwanted, pc>>

(* hammer_lock_upgrade of a shared hold; EDEADLK, with a second hold out,  *)
(* and an upgrade by the owner change nothing.                             *)
UpgradeAlwaysSucceeds(t) ==
  /\ pc[t] = "run" /\ Holds(t) # {}
  /\ lockcount < 0
  /\ lockcount' = 1
  /\ locktd' = t
  /\ \E h \in Holds(t) : shared' = shared \ {<<t, h>>}
  /\ UNCHANGED <<wanted, exwanted, pc>>
Upgrade(t) ==
  /\ pc[t] = "run" /\ Holds(t) # {}
  /\ lockcount = -1
  /\ lockcount' = 1
  /\ locktd' = t
  /\ \E h \in Holds(t) : shared' = shared \ {<<t, h>>}
  /\ UNCHANGED <<wanted, exwanted, pc>>

(* hammer_lock_downgrade                                                   *)
DowngradeSilently(t) ==
  /\ pc[t] = "run" /\ locktd = t /\ lockcount = 1
  /\ lockcount' = -1
  /\ locktd' = NULL
  /\ \E h \in Handle \ Holds(t) : shared' = shared \union {<<t, h>>}
  /\ UNCHANGED <<wanted, exwanted, pc>>
Downgrade(t) ==
  /\ pc[t] = "run" /\ locktd = t /\ lockcount = 1
  /\ lockcount' = -1
  /\ locktd' = NULL
  /\ \E h \in Handle \ Holds(t) : shared' = shared \union {<<t, h>>}
  /\ WakeWaiters
  /\ UNCHANGED exwanted

(* hammer_unlock of a shared hold: the last one out wakes the waiters.     *)
UnlockSh(t) ==
  /\ pc[t] = "run" /\ lockcount < 0
  /\ \E h \in Holds(t) : shared' = shared \ {<<t, h>>}
  /\ lockcount' = lockcount + 1
  /\ IF lockcount = -1 THEN WakeWaiters ELSE UNCHANGED <<wanted, pc>>
  /\ UNCHANGED <<locktd, exwanted>>

(* hammer_unlock of an exclusive level.                                    *)
UnlockEx(t) ==
  /\ pc[t] = "run" /\ locktd = t /\ lockcount > 0
  /\ lockcount' = lockcount - 1
  /\ IF lockcount = 1
       THEN locktd' = NULL /\ WakeWaiters
       ELSE UNCHANGED <<locktd, wanted, pc>>
  /\ UNCHANGED <<exwanted, shared>>

-----------------------------------------------------------------------------
Acquire(t) ==
  LockEx(t) \/ LockExTry(t) \/ LockSh(t) \/ LockShTry(t) \/ Upgrade(t)
Retry(t)   == LockExRetry(t) \/ LockShRetry(t)
Release(t) == Downgrade(t) \/ UnlockSh(t) \/ UnlockEx(t)

Next == \E t \in Thread : Acquire(t) \/ Retry(t) \/ Release(t)

Spec == Init /\ [][Next]_vars

(* A woken thread runs, and no thread keeps the lock exclusively for ever: *)
(* every hold in the code is a bracketed section that ends.                *)
Fairness ==
  \A t \in Thread : /\ WF_vars(Retry(t))
                    /\ WF_vars(UnlockEx(t))
                    /\ SF_vars(lockcount = 1 /\ UnlockEx(t))

FairSpec == Spec /\ Fairness

-----------------------------------------------------------------------------
TypeOK ==
  /\ locktd \in Thread \union {NULL}
  /\ lockcount \in Int
  /\ wanted \in BOOLEAN
  /\ exwanted \in Nat
  /\ pc \in [Thread -> {"run", "exsleep", "exwake", "shsleep", "shwake"}]
  /\ shared \in SUBSET Hold

(* The lock excludes: while a thread owns it nobody holds it shared, and   *)
(* the count says exactly who is in: positive for the owner's levels,      *)
(* minus the number of shared holds otherwise.  (hammer_lock_status() and  *)
(* every KKASSERT on lockcount rely on it.)                                *)
Exclusion ==
  /\ locktd # NULL => lockcount > 0 /\ shared = {}
  /\ locktd = NULL => lockcount = -Cardinality(shared)

(* No lost wakeup: a thread sleeps on the lock only while it is held and   *)
(* the wanted flag obliges the last holder to wake it; and a shared waiter *)
(* sleeps only while the lock is held exclusively.                         *)
NoLostWakeup ==
  /\ Sleepers # {} => wanted /\ ~Free
  /\ \A t \in Thread : pc[t] = "shsleep" => locktd # NULL

(* Nobody waits for himself: a thread that waits for the lock holds none   *)
(* of it, so the holders it waits for can all run.  (hammer_lock_sh: "We   *)
(* do not give pending exclusive locks priority over shared locks as doing *)
(* so could lead to a deadlock.")                                          *)
NoSelfWait ==
  \A t \in Thread : pc[t] # "run" => locktd # t /\ Holds(t) = {}

(* exwanted counts the threads waiting for the lock exclusively.           *)
ExWantedExact == exwanted = Cardinality(ExWaiters)

(* A thread asleep for a shared lock gets to try again, whatever the other *)
(* threads do.  (An exclusive waiter has no such promise: shared holders   *)
(* may overlap for ever.)                                                  *)
SharedWaiterWakes == \A t \in Thread : pc[t] = "shsleep" ~> pc[t] # "shsleep"
=============================================================================
