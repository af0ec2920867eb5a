------------------------- MODULE HammerFlusherProofs -------------------------
(***************************************************************************)
(* The flusher threads for any number of inodes, slaves and clients, and   *)
(* any sizes of groups and work arrays: an inode is in one group and with  *)
(* one slave at a time, and the master's cursor survives what the slaves   *)
(* remove from the list under it (GroupsAreExclusive).                     *)
(*                                                                         *)
(* The second half is about sequence numbers: a sync flushes all that was  *)
(* queued when it was asked for (SyncIsComplete), and an unmount that      *)
(* syncs often enough leaves nothing behind (UnmountIsComplete).           *)
(***************************************************************************)
EXTENDS HammerFlusher, SequenceTheorems, FiniteSetTheorems,
        WellFoundedInduction, TLAPS

Group == [ips : Seq(Inode), total : Nat, closed : BOOLEAN, running : BOOLEAN]
Info  == [runstate : {-1, 0, 1}, work : Seq(Inode), i : Nat,
          pc : {"sleep", "sync", "after", "elock", "llock", "ework", "lwork"}]

Pc    == {"cycle", "pick", "dlock", "dwork", "assign", "join", "flock", "fwork",
          "mlock", "mwork", "done", "sleep", "wake", "exit", "freed"}

TypeOK ==
  /\ groups \in Seq(Group) /\ nextGroup \in 0 .. Len(groups)
  /\ mpc \in Pc
  /\ cursor \in Inode \union {None}
  /\ ready \in Seq(Slave) /\ run \in SUBSET Slave
  /\ info \in [Slave -> Info]
  /\ td \in BOOLEAN

(* No inode is twice in the groups G.                                      *)
Apart(G) ==
  \A g, h \in 1 .. Len(G) :
    \A a \in 1 .. Len(G[g].ips), b \in 1 .. Len(G[h].ips) :
      G[g].ips[a] = G[h].ips[b] => g = h /\ a = b

(* What slave s has still to flush.                                        *)
Left(inf, s) == inf[s].i + 1 .. Len(inf[s].work)

(* It is in the first group, before the cursor, and with no other slave.   *)
Pending(G, inf, cur) ==
  /\ \A s \in Slave : \A k \in Left(inf, s) :
       /\ Len(G) >= 1
       /\ \E a \in 1 .. Len(G[1].ips) :
            /\ G[1].ips[a] = inf[s].work[k]
            /\ \A b \in 1 .. Len(G[1].ips) : G[1].ips[b] = cur => a < b
  /\ \A s, r \in Slave : \A k \in Left(inf, s), j \in Left(inf, r) :
       inf[s].work[k] = inf[r].work[j] => s = r /\ k = j

AtCursor(G, cur) ==
  cur # None => Len(G) >= 1 /\ \E b \in 1 .. Len(G[1].ips) : G[1].ips[b] = cur

(* The slaves' lists.  Only the slave at the head of ready_list, to which  *)
(* the master is assigning inodes, has work without running.               *)
Lists ==
  /\ \A a, b \in 1 .. Len(ready) : ready[a] = ready[b] => a = b
  /\ \A a \in 1 .. Len(ready) : ready[a] \notin run
  /\ \A s \in Slave \ run :
       /\ info[s].i = 0 /\ info[s].pc = "sleep"
       /\ \/ info[s].work = <<>>
          \/ mpc \in {"assign", "freed"} /\ Len(ready) >= 1 /\ s = ready[1]
  /\ \A s \in run : info[s].i =< Len(info[s].work) /\ info[s].pc # "sleep"
  /\ run # {} => mpc \in {"assign", "join", "freed"}
  /\ ~td => mpc \in {"exit", "freed"}

(* The group that runs is the first one, and takes no inodes.              *)
Running ==
  /\ mpc \in InGroup => Len(groups) >= 1
  /\ mpc \in {"assign", "join", "flock", "fwork"} => groups[1].running
  /\ \A g \in 1 .. Len(groups) : groups[g].running => g = 1
  /\ nextGroup > 0 => ~groups[nextGroup].running
  /\ cursor # None => mpc \in {"assign", "freed"}

IInv ==
  /\ TypeOK /\ Lists /\ Running
  /\ Apart(groups) /\ Pending(groups, info, cursor) /\ AtCursor(groups, cursor)
-----------------------------------------------------------------------------
(* The data structures.                                                    *)

LEMMA LeastNat ==
  ASSUME NEW T, T \subseteq Nat, T # {}
  PROVE  \E n \in T : \A m \in T : n =< m
<1> DEFINE R == OpToRel(<, Nat)
<1>1. IsWellFoundedOn(R, Nat)
  BY NatLessThanWellFounded
<1>2. \A x, y \in Nat : x < y => <<x, y>> \in R
  BY DEF OpToRel
<1> HIDE DEF R
<1>3. PICK x \in T : \A y \in T : ~(<<y, x>> \in R)
  BY <1>1, WFMin
<1>4. ASSUME NEW m \in T PROVE x =< m
  <2>1. m \in Nat /\ x \in Nat
    BY <1>4
  <2>2. ~(m < x)
    BY <1>2, <1>3, <2>1
  <2> QED BY <2>1, <2>2
<1> QED
  BY <1>4

(* TAILQ_REMOVE: the elements after the one removed move up by one.        *)
LEMMA RemoveOne ==
  ASSUME NEW S, NEW s \in Seq(S), NEW k \in 1 .. Len(s),
         \A i \in 1 .. Len(s) : s[i] = s[k] => i = k
  PROVE  LET t == RemoveFirst(s, s[k])
         IN /\ t \in Seq(S) /\ Len(t) = Len(s) - 1
            /\ \A i \in 1 .. Len(t) : t[i] = IF i < k THEN s[i] ELSE s[i + 1]
<1>1. {i \in 1 .. Len(s) : s[i] = s[k]} = {k}
  OBVIOUS
<1>2. Min({k}) = k
  BY DEF Min
<1>3. SelectInSeq(s, LAMBDA v : v = s[k]) = k
  BY <1>1, <1>2 DEF SelectInSeq
<1> DEFINE t == RemoveAt(s, k)
           u == SubSeq(s, 1, k - 1)
           v == SubSeq(s, k + 1, Len(s))
<1>4. RemoveFirst(s, s[k]) = t
  BY <1>3 DEF RemoveFirst
<1>5. /\ u \in Seq(S) /\ Len(u) = k - 1 /\ \A i \in 1 .. k - 1 : u[i] = s[i]
  <2>1. \A i \in 1 .. k - 1 : s[i] \in S
    OBVIOUS
  <2>2. /\ u \in Seq(S) /\ Len(u) = IF 1 <= k - 1 THEN (k - 1) - 1 + 1 ELSE 0
        /\ \A i \in 1 .. (k - 1) - 1 + 1 : u[i] = s[1 + i - 1]
    BY <2>1, SubSeqProperties
  <2> QED BY <2>2
<1>6. /\ v \in Seq(S) /\ Len(v) = Len(s) - k /\ \A i \in 1 .. Len(s) - k : v[i] = s[k + i]
  <2>1. \A i \in k + 1 .. Len(s) : s[i] \in S
    OBVIOUS
  <2>2. /\ v \in Seq(S)
        /\ Len(v) = IF k + 1 <= Len(s) THEN Len(s) - (k + 1) + 1 ELSE 0
        /\ \A i \in 1 .. Len(s) - (k + 1) + 1 : v[i] = s[(k + 1) + i - 1]
    BY <2>1, SubSeqProperties
  <2> QED BY <2>2
<1>7. t = u \o v
  BY DEF RemoveAt
<1> HIDE DEF t, u, v
<1>8. /\ t \in Seq(S) /\ Len(t) = Len(u) + Len(v)
      /\ \A i \in 1 .. Len(u) + Len(v) :
           t[i] = IF i <= Len(u) THEN u[i] ELSE v[i - Len(u)]
  BY <1>5, <1>6, <1>7, ConcatProperties
<1>9. Len(t) = Len(s) - 1
  BY <1>5, <1>6, <1>8
<1>10. ASSUME NEW i \in 1 .. Len(t) PROVE t[i] = IF i < k THEN s[i] ELSE s[i + 1]
  <2>1. CASE i < k
    BY <1>5, <1>6, <1>8, <2>1
  <2>2. CASE i >= k
    <3>1. i - (k - 1) \in 1 .. Len(s) - k /\ k + (i - (k - 1)) = i + 1
      BY <1>9, <2>2
    <3>2. t[i] = v[i - (k - 1)]
      BY <1>5, <1>6, <1>8, <2>2
    <3>3. v[i - (k - 1)] = s[k + (i - (k - 1))]
      BY <1>6, <3>1
    <3> QED BY <2>2, <3>1, <3>2, <3>3
  <2> QED BY <2>1, <2>2
<1> QED
  BY <1>4, <1>8, <1>9, <1>10

LEMMA GroupType ==
  ASSUME NEW x \in Group
  PROVE  /\ x.ips \in Seq(Inode) /\ Len(x.ips) \in Nat /\ x.total \in Nat
         /\ x.closed \in BOOLEAN /\ x.running \in BOOLEAN
         /\ \A a \in 1 .. Len(x.ips) : x.ips[a] \in Inode
BY DEF Group

(* Closing groups does not touch their lists.                              *)
LEMMA Closed ==
  ASSUME NEW G \in Seq(Group), NEW n \in Int
  PROVE  /\ close(G, n) \in Seq(Group) /\ Len(close(G, n)) = Len(G)
         /\ \A g \in 1 .. Len(G) : /\ close(G, n)[g].ips = G[g].ips
                                   /\ close(G, n)[g].running = G[g].running
<1> DEFINE H == close(G, n)
<1>1. \A g \in 1 .. Len(G) : G[g] \in Group
  OBVIOUS
<1>2. H = [g \in 1 .. Len(G) |-> IF g =< n THEN [G[g] EXCEPT !.closed = TRUE]
                                           ELSE G[g]]
  BY DEF close
<1>3. ASSUME NEW x \in Group
      PROVE  /\ [x EXCEPT !.closed = TRUE] \in Group
             /\ [x EXCEPT !.closed = TRUE].ips = x.ips
             /\ [x EXCEPT !.closed = TRUE].running = x.running
  BY DEF Group
<1>4. \A g \in 1 .. Len(G) : /\ H[g] \in Group /\ H[g].ips = G[g].ips
                             /\ H[g].running = G[g].running
  BY <1>1, <1>2, <1>3
<1>5. H \in Seq(Group) /\ Len(H) = Len(G)
  <2>1. Len(G) \in Nat /\ H \in [1 .. Len(G) -> Group]
    BY <1>2, <1>4
  <2> HIDE DEF H
  <2> QED BY <2>1
<1> QED
  BY <1>4, <1>5

(* Groups H are groups G with inode i, or nothing, at the end of group k,  *)
(* which may be new.                                                       *)
Joined(G, H, k, i) ==
  /\ H \in Seq(Group) /\ Len(G) =< Len(H)
  /\ \A g \in 1 .. Len(G) :
       /\ H[g].running = G[g].running
       /\ Len(G[g].ips) =< Len(H[g].ips)
       /\ \A a \in 1 .. Len(G[g].ips) : H[g].ips[a] = G[g].ips[a]
  /\ \A g \in 1 .. Len(H) : \A a \in 1 .. Len(H[g].ips) :
       \/ g \in 1 .. Len(G) /\ a \in 1 .. Len(G[g].ips)
       \/ g = k /\ a = Len(H[g].ips) /\ H[g].ips[a] = i
  /\ \A g \in Len(G) + 1 .. Len(H) : ~H[g].running
  /\ k \in 1 .. Len(H) /\ ~H[k].running

(* Inode i is in none of the groups.                                       *)
Absent(G, i) == \A g \in 1 .. Len(G) : \A a \in 1 .. Len(G[g].ips) : G[g].ips[a] # i

(* A smallest member of a set of numbers is what CHOOSE finds.             *)
LEMMA ChooseLeast ==
  ASSUME NEW T, T \subseteq Nat, T # {}
  PROVE  LET n == CHOOSE n \in T : \A m \in T : n =< m
         IN n \in T /\ \A m \in T : n =< m
<1>1. \E n \in T : \A m \in T : n =< m
  BY LeastNat
<1> QED
  BY <1>1

(* hammer_flush_inode() never chooses the running group.                   *)
LEMMA Picked ==
  ASSUME NEW G \in Seq(Group), nextGroup \in 0 .. Len(G),
         \A g \in 1 .. Len(G) : G[g].running => g = 1,
         nextGroup > 0 => ~G[nextGroup].running
  PROVE  /\ pick(G).groups \in Seq(Group)
         /\ pick(G).k \in 1 .. Len(pick(G).groups)
         /\ Len(pick(G).groups) = Len(G) \/ Len(pick(G).groups) = Len(G) + 1
         /\ \A g \in 1 .. Len(G) : /\ pick(G).groups[g].ips = G[g].ips
                                   /\ pick(G).groups[g].running = G[g].running
         /\ \A g \in Len(G) + 1 .. Len(pick(G).groups) :
              pick(G).groups[g].ips = <<>> /\ ~pick(G).groups[g].running
         /\ ~pick(G).groups[pick(G).k].running
<1> DEFINE fit  == {k \in 1 .. Len(G) : nextGroup > 0 /\ k >= nextGroup
                                         /\ G[k].total =< GroupLimit}
           k    == IF fit = {} THEN Len(G) + 1
                   ELSE CHOOSE k \in fit : \A j \in fit : k =< j
           full == nextGroup > 0 /\ k # nextGroup
           G1   == IF full THEN close(G, k - 1) ELSE G
           H    == IF fit = {} THEN Append(G1, NewGroup) ELSE G1
<1>1. pick(G).groups = H /\ pick(G).k = k
  BY DEF pick
<1>2. Len(G) \in Nat /\ nextGroup \in Nat
  OBVIOUS
<1>3. /\ k \in Nat /\ k \in 1 .. Len(G) + 1
      /\ fit = {} => k = Len(G) + 1
      /\ fit # {} => k \in 1 .. Len(G) /\ nextGroup > 0 /\ k >= nextGroup
  <2>1. CASE fit = {}
    BY <1>2, <2>1
  <2>2. CASE fit # {}
    <3>1. fit \subseteq Nat
      BY <1>2
    <3>2. k \in fit
      BY <2>2, <3>1, ChooseLeast
    <3> HIDE DEF k
    <3>3. k \in 1 .. Len(G) /\ nextGroup > 0 /\ k >= nextGroup
      BY <3>2
    <3> QED BY <1>2, <2>2, <3>3
  <2> QED BY <2>1, <2>2
<1> HIDE DEF fit, k
<1>4. /\ G1 \in Seq(Group) /\ Len(G1) = Len(G)
      /\ \A g \in 1 .. Len(G) : G1[g].ips = G[g].ips /\ G1[g].running = G[g].running
  <2>1. k - 1 \in Int
    BY <1>3
  <2> QED BY <2>1, Closed
<1>5. NewGroup \in Group /\ NewGroup.ips = <<>> /\ NewGroup.running = FALSE
  BY DEF NewGroup, Group
<1> HIDE DEF G1
<1>6. CASE fit = {}
  <2>1. /\ H = Append(G1, NewGroup) /\ H \in Seq(Group) /\ Len(H) = Len(G) + 1
        /\ H[Len(G) + 1] = NewGroup /\ \A g \in 1 .. Len(G) : H[g] = G1[g]
    BY <1>4, <1>5, <1>6
  <2> HIDE DEF H
  <2>2. \A g \in Len(G) + 1 .. Len(H) : g = Len(G) + 1
    BY <1>2, <2>1
  <2> QED BY <1>1, <1>2, <1>3, <1>4, <1>5, <1>6, <2>1, <2>2
<1>7. CASE fit # {}
  <2>1. H = G1
    BY <1>7
  <2> HIDE DEF H
  <2>2. k \in 1 .. Len(G) /\ ~G[k].running
    BY <1>2, <1>3, <1>7
  <2>3. \A g \in Len(G) + 1 .. Len(H) : FALSE
    BY <1>2, <1>4, <2>1
  <2> QED BY <1>1, <1>4, <2>1, <2>2, <2>3
<1> QED
  BY <1>6, <1>7

LEMMA GroupUpdated ==
  ASSUME NEW x \in Group, NEW w \in Seq(Inode)
  PROVE  /\ [x EXCEPT !.ips = w] \in Group /\ [x EXCEPT !.ips = w].ips = w
         /\ [x EXCEPT !.ips = w].running = x.running
         /\ [x EXCEPT !.running = TRUE] \in Group
         /\ [x EXCEPT !.running = TRUE].ips = x.ips
         /\ [x EXCEPT !.running = TRUE].running = TRUE
BY DEF Group

LEMMA GroupJoined ==
  ASSUME NEW x \in Group, NEW i \in Inode
  PROVE  LET y == [x EXCEPT !.ips = Append(@, i), !.total = @ + 1]
         IN y \in Group /\ y.ips = Append(x.ips, i) /\ y.running = x.running
<1>1. Append(x.ips, i) \in Seq(Inode) /\ x.total + 1 \in Nat
  BY GroupType
<1> QED
  BY <1>1 DEF Group

(* hammer_flush_inode_core().                                              *)
LEMMA Core ==
  ASSUME NEW p, NEW i \in Inode, p.groups \in Seq(Group), p.k \in 1 .. Len(p.groups)
  PROVE  /\ core(p, i) \in Seq(Group) /\ Len(core(p, i)) = Len(p.groups)
         /\ \A g \in 1 .. Len(p.groups) : g # p.k => core(p, i)[g] = p.groups[g]
         /\ core(p, i)[p.k].ips = Append(p.groups[p.k].ips, i)
         /\ core(p, i)[p.k].running = p.groups[p.k].running
<1>1. PICK x \in Group : x = p.groups[p.k]
  OBVIOUS
<1> DEFINE y == [x EXCEPT !.ips = Append(@, i), !.total = @ + 1]
<1>2. core(p, i) = [p.groups EXCEPT ![p.k] = y]
  BY <1>1 DEF core
<1>3. y \in Group /\ y.ips = Append(x.ips, i) /\ y.running = x.running
  BY GroupJoined
<1> HIDE DEF y
<1> QED
  BY <1>1, <1>2, <1>3

(* A signal wakes a master that sleeps.                                    *)
Stay == mpc' = mpc \/ (mpc = "sleep" /\ mpc' = "wake")

(* hammer_flush_inode(): the inode joins a group that is not running.      *)
LEMMA Queues ==
  ASSUME NEW G \in Seq(Group), nextGroup \in 0 .. Len(G),
         \A g \in 1 .. Len(G) : G[g].running => g = 1,
         nextGroup > 0 => ~G[nextGroup].running,
         NEW i \in Inode, NEW sig \in BOOLEAN,
         NEW j,
         \/ j = i /\ Queue(pick(G), core(pick(G), i), sig)
         \/ j = None /\ Queue(pick(G), pick(G).groups, sig)
  PROVE  Joined(G, groups', nextGroup', j) /\ Stay
<1> DEFINE p == pick(G)
           P == p.groups
           k == p.k
<1>1. /\ P \in Seq(Group) /\ k \in 1 .. Len(P)
      /\ Len(P) = Len(G) \/ Len(P) = Len(G) + 1
      /\ \A g \in 1 .. Len(G) : P[g].ips = G[g].ips /\ P[g].running = G[g].running
      /\ \A g \in Len(G) + 1 .. Len(P) : P[g].ips = <<>> /\ ~P[g].running
      /\ ~P[k].running
  BY Picked
<1> HIDE DEF p
<1>2. PICK H : /\ (j = i /\ H = core(p, i)) \/ H = P
               /\ groups' = IF sig THEN close(H, k) ELSE H
               /\ nextGroup' = k /\ Stay
  <2>1. ASSUME NEW H, Queue(p, H, sig)
        PROVE  /\ groups' = IF sig THEN close(H, k) ELSE H
               /\ nextGroup' = k /\ Stay
    BY <2>1 DEF Queue, Signal, Stay
  <2>2. (j = i /\ Queue(p, core(p, i), sig)) \/ Queue(p, P, sig)
    BY DEF p
  <2> QED BY <2>1, <2>2
<1>3. /\ H \in Seq(Group) /\ Len(H) = Len(P)
      /\ \A g \in 1 .. Len(P) : g # k => H[g].ips = P[g].ips /\ H[g].running = P[g].running
      /\ H[k].ips = P[k].ips \/ (j = i /\ H[k].ips = Append(P[k].ips, i))
      /\ H[k].running = P[k].running
  <2>1. CASE H = P
    BY <1>1, <2>1
  <2>2. CASE j = i /\ H = core(p, i)
    <3>1. /\ core(p, i) \in Seq(Group) /\ Len(core(p, i)) = Len(P)
          /\ \A g \in 1 .. Len(P) : g # k => core(p, i)[g] = P[g]
          /\ core(p, i)[k].ips = Append(P[k].ips, i)
          /\ core(p, i)[k].running = P[k].running
      BY <1>1, Core
    <3> QED BY <2>2, <3>1
  <2> QED BY <1>2, <2>1, <2>2
<1>4. /\ groups' \in Seq(Group) /\ Len(groups') = Len(P)
      /\ \A g \in 1 .. Len(P) : /\ groups'[g].ips = H[g].ips
                                /\ groups'[g].running = H[g].running
  <2>1. CASE sig
    <3>1. k \in Int
      BY <1>1
    <3>2. /\ close(H, k) \in Seq(Group) /\ Len(close(H, k)) = Len(H)
          /\ \A g \in 1 .. Len(H) : /\ close(H, k)[g].ips = H[g].ips
                                    /\ close(H, k)[g].running = H[g].running
      BY <1>3, <3>1, Closed
    <3>3. groups' = close(H, k)
      BY <1>2, <2>1
    <3> QED BY <1>3, <3>2, <3>3
  <2>2. CASE ~sig
    BY <1>2, <1>3, <2>2
  <2> QED BY <2>1, <2>2
<1>5. \A g \in 1 .. Len(P) :
        /\ groups'[g].running = P[g].running
        /\ P[g].ips \in Seq(Inode) /\ Len(P[g].ips) \in Nat
        /\ \/ groups'[g].ips = P[g].ips
           \/ g = k /\ j = i /\ groups'[g].ips = Append(P[g].ips, i)
  <2> TAKE g \in 1 .. Len(P)
  <2>1. P[g] \in Group
    BY <1>1
  <2>2. P[g].ips \in Seq(Inode) /\ Len(P[g].ips) \in Nat
    BY <2>1, GroupType
  <2> QED BY <1>1, <1>3, <1>4, <2>2
<1>6. \A g \in 1 .. Len(P) :
        /\ Len(P[g].ips) =< Len(groups'[g].ips)
        /\ \A a \in 1 .. Len(P[g].ips) : groups'[g].ips[a] = P[g].ips[a]
        /\ \A a \in 1 .. Len(groups'[g].ips) :
             \/ a \in 1 .. Len(P[g].ips)
             \/ g = k /\ a = Len(groups'[g].ips) /\ groups'[g].ips[a] = j
  <2> TAKE g \in 1 .. Len(P)
  <2>1. CASE groups'[g].ips = P[g].ips
    BY <1>5, <2>1
  <2>2. CASE g = k /\ j = i /\ groups'[g].ips = Append(P[g].ips, i)
    <3>1. PICK q \in Seq(Inode) : q = P[g].ips
      BY <1>5
    <3>2. /\ Len(Append(q, i)) = Len(q) + 1 /\ Append(q, i)[Len(q) + 1] = i
          /\ \A a \in 1 .. Len(q) : Append(q, i)[a] = q[a]
          /\ Len(q) \in Nat
      OBVIOUS
    <3>3. /\ Len(groups'[g].ips) = Len(P[g].ips) + 1 /\ Len(P[g].ips) \in Nat
          /\ groups'[g].ips[Len(P[g].ips) + 1] = j
          /\ \A a \in 1 .. Len(P[g].ips) : groups'[g].ips[a] = P[g].ips[a]
      BY <2>2, <3>1, <3>2
    <3>4. \A a \in 1 .. Len(P[g].ips) + 1 :
             a \in 1 .. Len(P[g].ips) \/ a = Len(P[g].ips) + 1
      BY <3>3
    <3>5. Len(P[g].ips) =< Len(groups'[g].ips)
      BY <3>3
    <3>6. \A a \in 1 .. Len(groups'[g].ips) :
             a \in 1 .. Len(P[g].ips) \/ a = Len(groups'[g].ips)
      BY <3>3, <3>4
    <3>7. groups'[g].ips[Len(groups'[g].ips)] = j
      BY <3>3
    <3>8. \A a \in 1 .. Len(groups'[g].ips) :
             \/ a \in 1 .. Len(P[g].ips)
             \/ g = k /\ a = Len(groups'[g].ips) /\ groups'[g].ips[a] = j
      BY <2>2, <3>6, <3>7, Zenon
    <3> QED BY <3>3, <3>5, <3>8, Zenon
  <2> QED BY <1>5, <2>1, <2>2
<1>7. Len(G) \in Nat /\ Len(P) \in Nat
  BY <1>1
<1>8. \A g \in 1 .. Len(P) : g \in 1 .. Len(G) \/ g \in Len(G) + 1 .. Len(P)
  BY <1>1, <1>7
<1>9. \A g \in 1 .. Len(G) :
        /\ groups'[g].running = G[g].running
        /\ Len(G[g].ips) =< Len(groups'[g].ips)
        /\ \A a \in 1 .. Len(G[g].ips) : groups'[g].ips[a] = G[g].ips[a]
  <2> TAKE g \in 1 .. Len(G)
  <2>1. g \in 1 .. Len(P) /\ P[g].ips = G[g].ips /\ P[g].running = G[g].running
    BY <1>1, <1>7
  <2> QED BY <1>5, <1>6, <2>1
<1>10. \A g \in 1 .. Len(P) : \A a \in 1 .. Len(groups'[g].ips) :
         \/ g \in 1 .. Len(G) /\ a \in 1 .. Len(G[g].ips)
         \/ g = k /\ a = Len(groups'[g].ips) /\ groups'[g].ips[a] = j
  <2> TAKE g \in 1 .. Len(P)
  <2> TAKE a \in 1 .. Len(groups'[g].ips)
  <2>1. CASE g \in 1 .. Len(G)
    <3>1. P[g].ips = G[g].ips
      BY <1>1, <2>1
    <3> QED BY <1>6, <2>1, <3>1
  <2>2. CASE g \in Len(G) + 1 .. Len(P)
    <3>1. P[g].ips = <<>> /\ ~(a \in 1 .. 0)
      BY <1>1, <2>2
    <3> QED BY <1>6, <3>1
  <2> QED BY <1>8, <2>1, <2>2
<1>11. \A g \in Len(G) + 1 .. Len(P) : ~groups'[g].running
  <2> TAKE g \in Len(G) + 1 .. Len(P)
  <2>1. g \in 1 .. Len(P)
    BY <1>7
  <2> QED BY <1>1, <1>5, <2>1
<1>12. ~groups'[k].running /\ nextGroup' = k
  BY <1>1, <1>2, <1>5
<1>13. Joined(G, groups', k, j)
  BY <1>1, <1>4, <1>7, <1>9, <1>10, <1>11, <1>12 DEF Joined
<1> QED
  BY <1>2, <1>13

LEMMA JoinedKeeps ==
  ASSUME NEW G \in Seq(Group), NEW H, NEW k, NEW i, Joined(G, H, k, i),
         Apart(G), Absent(G, i), NEW inf, NEW cur,
         Pending(G, inf, cur), AtCursor(G, cur),
         \A g \in 1 .. Len(G) : G[g].running => g = 1
  PROVE  /\ H \in Seq(Group) /\ k \in 1 .. Len(H) /\ ~H[k].running
         /\ Apart(H) /\ Pending(H, inf, cur) /\ AtCursor(H, cur)
         /\ \A g \in 1 .. Len(H) : H[g].running => g = 1
<1>1. /\ H \in Seq(Group) /\ Len(G) =< Len(H) /\ Len(G) \in Nat /\ Len(H) \in Nat
      /\ k \in 1 .. Len(H) /\ ~H[k].running
  BY DEF Joined
<1>2. \A g \in 1 .. Len(G) :
        /\ g \in 1 .. Len(H) /\ H[g].running = G[g].running
        /\ Len(G[g].ips) \in Nat /\ Len(H[g].ips) \in Nat
        /\ Len(G[g].ips) =< Len(H[g].ips)
        /\ \A a \in 1 .. Len(G[g].ips) : H[g].ips[a] = G[g].ips[a]
  <2> TAKE g \in 1 .. Len(G)
  <2>1. G[g] \in Group /\ g \in 1 .. Len(H) /\ H[g] \in Group
    BY <1>1
  <2>2. Len(G[g].ips) \in Nat /\ Len(H[g].ips) \in Nat
    BY <2>1, GroupType
  <2> QED BY <2>1, <2>2 DEF Joined
<1>3. \A g \in 1 .. Len(H) : \A a \in 1 .. Len(H[g].ips) :
        \/ /\ g \in 1 .. Len(G) /\ a \in 1 .. Len(G[g].ips)
           /\ H[g].ips[a] = G[g].ips[a] /\ H[g].ips[a] # i
        \/ g = k /\ a = Len(H[k].ips) /\ H[g].ips[a] = i
  BY <1>2 DEF Joined, Absent
<1>4. Apart(H)
  <2> SUFFICES ASSUME NEW g \in 1 .. Len(H), NEW h \in 1 .. Len(H),
                      NEW a \in 1 .. Len(H[g].ips), NEW b \in 1 .. Len(H[h].ips),
                      H[g].ips[a] = H[h].ips[b]
               PROVE  g = h /\ a = b
    BY DEF Apart
  <2>1. CASE H[g].ips[a] = i
    BY <1>3, <2>1
  <2>2. CASE H[g].ips[a] # i
    <3>1. /\ g \in 1 .. Len(G) /\ a \in 1 .. Len(G[g].ips)
          /\ h \in 1 .. Len(G) /\ b \in 1 .. Len(G[h].ips)
          /\ G[g].ips[a] = G[h].ips[b]
      BY <1>3, <2>2
    <3> QED BY <3>1 DEF Apart
  <2> QED BY <2>1, <2>2
<1>5. \A b \in 1 .. Len(H[1].ips) : Len(G) >= 1 /\ H[1].ips[b] # i =>
         b \in 1 .. Len(G[1].ips) /\ H[1].ips[b] = G[1].ips[b]
  <2>1. Len(G) >= 1 => 1 \in 1 .. Len(H)
    BY <1>1
  <2> QED BY <1>3, <2>1
<1>6. Pending(H, inf, cur)
  <2>1. ASSUME NEW s \in Slave, NEW m \in Left(inf, s)
        PROVE  /\ Len(H) >= 1
               /\ \E a \in 1 .. Len(H[1].ips) :
                    /\ H[1].ips[a] = inf[s].work[m]
                    /\ \A b \in 1 .. Len(H[1].ips) : H[1].ips[b] = cur => a < b
    <3>1. /\ Len(G) >= 1
          /\ \E a \in 1 .. Len(G[1].ips) :
               /\ G[1].ips[a] = inf[s].work[m]
               /\ \A b \in 1 .. Len(G[1].ips) : G[1].ips[b] = cur => a < b
      BY <2>1 DEF Pending
    <3>2. 1 \in 1 .. Len(G)
      BY <1>1, <3>1
    <3>3. PICK a \in 1 .. Len(G[1].ips) :
            /\ G[1].ips[a] = inf[s].work[m]
            /\ \A b \in 1 .. Len(G[1].ips) : G[1].ips[b] = cur => a < b
      BY <3>1
    <3>4. a \in 1 .. Len(H[1].ips) /\ H[1].ips[a] = inf[s].work[m]
      BY <1>2, <3>2, <3>3
    <3>5. ASSUME NEW b \in 1 .. Len(H[1].ips), H[1].ips[b] = cur PROVE a < b
      <4>1. CASE H[1].ips[b] = i
        <5>1. 1 = k /\ b = Len(H[1].ips) /\ ~(b \in 1 .. Len(G[1].ips))
          <6>1. 1 \in 1 .. Len(H)
            BY <1>1, <3>1
          <6>2. b \in 1 .. Len(G[1].ips) => FALSE
            BY <1>2, <3>2, <4>1 DEF Absent
          <6> QED BY <1>3, <3>2, <4>1, <6>1, <6>2
        <5> QED BY <1>2, <3>2, <3>3, <5>1
      <4>2. CASE H[1].ips[b] # i
        BY <1>5, <3>1, <3>3, <3>5, <4>2
      <4> QED BY <4>1, <4>2
    <3>6. Len(H) >= 1
      BY <1>1, <3>1
    <3> QED BY <3>4, <3>5, <3>6, Zenon
  <2> QED BY <2>1 DEF Pending
<1>7. AtCursor(H, cur)
  <2> SUFFICES ASSUME cur # None
               PROVE  Len(H) >= 1 /\ \E b \in 1 .. Len(H[1].ips) : H[1].ips[b] = cur
    BY DEF AtCursor
  <2>1. PICK b \in 1 .. Len(G[1].ips) : G[1].ips[b] = cur
    BY DEF AtCursor
  <2>2. 1 \in 1 .. Len(G)
    BY <1>1 DEF AtCursor
  <2>3. b \in 1 .. Len(H[1].ips) /\ H[1].ips[b] = cur
    BY <1>2, <2>1, <2>2
  <2> QED BY <1>1, <2>2, <2>3
<1>8. \A g \in 1 .. Len(H) : H[g].running => g = 1
  <2> TAKE g \in 1 .. Len(H)
  <2>1. g \in 1 .. Len(G) \/ g \in Len(G) + 1 .. Len(H)
    BY <1>1
  <2> QED BY <1>2, <2>1 DEF Joined
<1> QED
  BY <1>1, <1>4, <1>6, <1>7, <1>8

(* Closing or running a group changes nothing either.                      *)
LEMMA SameKeeps ==
  ASSUME NEW G \in Seq(Group), NEW H \in Seq(Group), Len(H) = Len(G),
         \A g \in 1 .. Len(G) : H[g].ips = G[g].ips, NEW inf, NEW cur,
         Apart(G), Pending(G, inf, cur), AtCursor(G, cur)
  PROVE  Apart(H) /\ Pending(H, inf, cur) /\ AtCursor(H, cur)
<1>1. Apart(H)
  <2> SUFFICES ASSUME NEW g \in 1 .. Len(H), NEW h \in 1 .. Len(H),
                      NEW a \in 1 .. Len(H[g].ips), NEW b \in 1 .. Len(H[h].ips),
                      H[g].ips[a] = H[h].ips[b]
               PROVE  g = h /\ a = b
    BY DEF Apart
  <2>1. /\ g \in 1 .. Len(G) /\ h \in 1 .. Len(G)
        /\ H[g].ips = G[g].ips /\ H[h].ips = G[h].ips
    OBVIOUS
  <2>2. /\ a \in 1 .. Len(G[g].ips) /\ b \in 1 .. Len(G[h].ips)
        /\ G[g].ips[a] = G[h].ips[b]
    BY <2>1
  <2> QED BY <2>1, <2>2 DEF Apart
<1>2. Len(G) >= 1 => H[1].ips = G[1].ips
  <2>1. Len(G) >= 1 => 1 \in 1 .. Len(G)
    OBVIOUS
  <2> QED BY <2>1
<1>3. Pending(H, inf, cur)
  BY <1>2 DEF Pending
<1>4. AtCursor(H, cur)
  BY <1>2 DEF AtCursor
<1> QED
  BY <1>1, <1>3, <1>4

(* hammer_flush_inode_done(): slave s is done with its next inode, x, and  *)
(* takes it off the list of the first group.                               *)
Removed(G, H, s, inf, new, x) ==
  /\ Len(H) = Len(G)
  /\ inf[s].i + 1 \in Left(inf, s) /\ x = inf[s].work[inf[s].i + 1]
  /\ H[1].ips = RemoveFirst(G[1].ips, x)
  /\ \A g \in 2 .. Len(G) : H[g].ips = G[g].ips
  /\ \A r \in Slave : /\ new[r].work = inf[r].work
                       /\ new[r].i = IF r = s THEN inf[s].i + 1 ELSE inf[r].i

LEMMA RemovedKeeps ==
  ASSUME NEW G \in Seq(Group), NEW H, NEW s \in Slave, NEW x,
         NEW inf \in [Slave -> Info], NEW new \in [Slave -> Info], NEW cur,
         Removed(G, H, s, inf, new, x),
         Apart(G), Pending(G, inf, cur), AtCursor(G, cur)
  PROVE  Apart(H) /\ Pending(H, new, cur) /\ AtCursor(H, cur) /\ Absent(H, x)
<1>0. /\ Len(H) = Len(G)
      /\ inf[s].i + 1 \in Left(inf, s) /\ x = inf[s].work[inf[s].i + 1]
      /\ H[1].ips = RemoveFirst(G[1].ips, x)
      /\ \A g \in 2 .. Len(G) : H[g].ips = G[g].ips
      /\ \A r \in Slave : /\ new[r].work = inf[r].work
                           /\ new[r].i = IF r = s THEN inf[s].i + 1 ELSE inf[r].i
  BY DEF Removed
<1> USE <1>0
<1> DEFINE S == G[1].ips
           T == H[1].ips
           n == inf[s].i + 1
<1>1. Len(G) >= 1 /\ Len(G) \in Nat /\ 1 \in 1 .. Len(G)
  BY DEF Pending
<1>2. \A r \in Slave : /\ inf[r].i \in Nat /\ Len(inf[r].work) \in Nat
                       /\ new[r].i \in Nat
  BY DEF Info
<1>3. PICK p \in 1 .. Len(S) : /\ S[p] = x
                               /\ \A b \in 1 .. Len(S) : S[b] = cur => p < b
  BY DEF Pending
<1>4. S \in Seq(Inode) /\ Len(S) \in Nat
  <2>1. G[1] \in Group
    BY <1>1
  <2> QED BY <2>1, GroupType
<1>5. \A a, b \in 1 .. Len(S) : S[a] = S[b] => a = b
  BY <1>1 DEF Apart
<1> HIDE DEF S
<1>6. /\ T \in Seq(Inode) /\ Len(T) = Len(S) - 1
      /\ \A i \in 1 .. Len(T) : T[i] = IF i < p THEN S[i] ELSE S[i + 1]
  <2>1. T = RemoveFirst(S, S[p])
    BY <1>3 DEF S
  <2>2. \A a \in 1 .. Len(S) : S[a] = S[p] => a = p
    BY <1>5
  <2> QED BY <1>4, <2>1, <2>2, RemoveOne
<1> HIDE DEF T
<1>7. \A i \in 1 .. Len(T) : /\ i < p => i \in 1 .. Len(S) /\ T[i] = S[i]
                             /\ i >= p => i + 1 \in 1 .. Len(S) /\ T[i] = S[i + 1]
                             /\ i < p \/ i >= p
  BY <1>4, <1>6
<1>8. \A i \in 1 .. Len(T) : T[i] # x
  <2> TAKE i \in 1 .. Len(T)
  <2>1. CASE i < p
    <3>1. i # p
      BY <1>4, <2>1
    <3> QED BY <1>3, <1>5, <1>7, <2>1, <3>1
  <2>2. CASE i >= p
    <3>1. i + 1 # p
      BY <1>4, <2>2
    <3> QED BY <1>3, <1>5, <1>7, <2>2, <3>1
  <2> QED BY <1>7, <2>1, <2>2
<1>9. \A i \in 1 .. Len(S) : S[i] # x =>
        \/ i < p /\ i \in 1 .. Len(T) /\ T[i] = S[i]
        \/ i > p /\ i - 1 \in 1 .. Len(T) /\ T[i - 1] = S[i]
  <2> TAKE i \in 1 .. Len(S)
  <2> HAVE S[i] # x
  <2>1. i # p
    BY <1>3
  <2>2. CASE i < p
    <3>1. i \in 1 .. Len(T)
      BY <1>4, <1>6, <2>2
    <3> QED BY <1>7, <2>2, <3>1
  <2>3. CASE i > p
    <3>1. i - 1 \in 1 .. Len(T) /\ i - 1 >= p /\ (i - 1) + 1 = i
      BY <1>4, <1>6, <2>3
    <3>2. T[i - 1] = S[(i - 1) + 1]
      BY <1>7, <3>1
    <3> QED BY <2>3, <3>1, <3>2
  <2> QED BY <1>4, <2>1, <2>2, <2>3
<1>10. \A a, b \in 1 .. Len(T) : T[a] = T[b] => a = b
  <2> SUFFICES ASSUME NEW a \in 1 .. Len(T), NEW b \in 1 .. Len(T), T[a] = T[b]
               PROVE  a = b
    OBVIOUS
  <2>1. CASE a < p /\ b < p
    BY <1>5, <1>7, <2>1
  <2>2. CASE a >= p /\ b >= p
    <3>1. a + 1 = b + 1
      BY <1>5, <1>7, <2>2
    <3> QED BY <3>1
  <2>3. CASE a < p /\ b >= p
    <3>1. a = b + 1
      BY <1>5, <1>7, <2>3
    <3> QED BY <1>4, <2>3, <3>1
  <2>4. CASE a >= p /\ b < p
    <3>1. a + 1 = b
      BY <1>5, <1>7, <2>4
    <3> QED BY <1>4, <2>4, <3>1
  <2> QED BY <1>7, <2>1, <2>2, <2>3, <2>4
<1>11. \A g \in 1 .. Len(H) : g = 1 \/ g \in 2 .. Len(G)
  BY <1>1
<1>12. ASSUME NEW g \in 2 .. Len(G), NEW a \in 1 .. Len(G[g].ips)
       PROVE  /\ G[g].ips[a] # x
              /\ \A b \in 1 .. Len(T) : T[b] # G[g].ips[a]
  <2>1. g \in 1 .. Len(G) /\ g # 1
    BY <1>1, <1>12
  <2>2. \A b \in 1 .. Len(S) : S[b] # G[g].ips[a]
    BY <1>1, <1>12, <2>1 DEF Apart, S
  <2> QED BY <1>3, <1>7, <2>2
<1>13. Absent(H, x)
  <2> SUFFICES ASSUME NEW g \in 1 .. Len(H), NEW a \in 1 .. Len(H[g].ips)
               PROVE  H[g].ips[a] # x
    BY DEF Absent
  <2>1. CASE g = 1
    BY <1>8, <2>1 DEF T
  <2>2. CASE g \in 2 .. Len(G)
    BY <1>12, <2>2
  <2> QED BY <1>11, <2>1, <2>2
<1>14. Apart(H)
  <2> SUFFICES ASSUME NEW g \in 1 .. Len(H), NEW h \in 1 .. Len(H),
                      NEW a \in 1 .. Len(H[g].ips), NEW b \in 1 .. Len(H[h].ips),
                      H[g].ips[a] = H[h].ips[b]
               PROVE  g = h /\ a = b
    BY DEF Apart
  <2>1. CASE g = 1 /\ h = 1
    BY <1>10, <2>1 DEF T
  <2>2. CASE g = 1 /\ h \in 2 .. Len(G)
    <3>1. /\ a \in 1 .. Len(T) /\ b \in 1 .. Len(G[h].ips) /\ T[a] = G[h].ips[b]
      BY <2>2 DEF T
    <3> QED BY <1>12, <2>2, <3>1
  <2>3. CASE g \in 2 .. Len(G) /\ h = 1
    <3>1. /\ b \in 1 .. Len(T) /\ a \in 1 .. Len(G[g].ips) /\ T[b] = G[g].ips[a]
      BY <2>3 DEF T
    <3> QED BY <1>12, <2>3, <3>1
  <2>4. CASE g \in 2 .. Len(G) /\ h \in 2 .. Len(G)
    <3>1. g \in 1 .. Len(G) /\ h \in 1 .. Len(G)
      BY <2>4
    <3>2. H[g].ips = G[g].ips /\ H[h].ips = G[h].ips
      BY <2>4
    <3>3. /\ a \in 1 .. Len(G[g].ips) /\ b \in 1 .. Len(G[h].ips)
          /\ G[g].ips[a] = G[h].ips[b]
      BY <3>2
    <3> QED BY <3>1, <3>3 DEF Apart
  <2> QED BY <1>11, <2>1, <2>2, <2>3, <2>4
<1>15. \A r \in Slave : \A j \in Left(new, r) :
         j \in Left(inf, r) /\ new[r].work[j] = inf[r].work[j] /\ (r = s => j # n)
  BY <1>2 DEF Left
<1>16. Pending(H, new, cur)
  <2>1. ASSUME NEW r \in Slave, NEW j \in Left(new, r)
        PROVE  /\ Len(H) >= 1
               /\ \E a \in 1 .. Len(T) :
                    /\ T[a] = new[r].work[j]
                    /\ \A b \in 1 .. Len(T) : T[b] = cur => a < b
    <3>1. /\ j \in Left(inf, r) /\ new[r].work[j] = inf[r].work[j]
          /\ (r = s => j # n)
      BY <1>15, <2>1
    <3>2. PICK a \in 1 .. Len(S) : /\ S[a] = inf[r].work[j]
                                   /\ \A b \in 1 .. Len(S) : S[b] = cur => a < b
      BY <3>1 DEF Pending, S
    <3>3. S[a] # x
      BY <3>1, <3>2 DEF Pending
    <3>4. CASE a < p /\ a \in 1 .. Len(T) /\ T[a] = S[a]
      <4>1. ASSUME NEW b \in 1 .. Len(T), T[b] = cur PROVE a < b
        <5>1. CASE b < p
          BY <1>7, <3>2, <4>1, <5>1
        <5>2. CASE b >= p
          BY <1>4, <3>4, <5>2
        <5> QED BY <1>7, <5>1, <5>2
      <4> QED BY <1>1, <3>1, <3>2, <3>4, <4>1
    <3>5. CASE a > p /\ a - 1 \in 1 .. Len(T) /\ T[a - 1] = S[a]
      <4>1. ASSUME NEW b \in 1 .. Len(T), T[b] = cur PROVE a - 1 < b
        <5>1. CASE b < p
          <6>1. a < b
            BY <1>7, <3>2, <4>1, <5>1
          <6> QED BY <1>4, <6>1
        <5>2. CASE b >= p
          <6>1. a < b + 1
            BY <1>7, <3>2, <4>1, <5>2
          <6> QED BY <1>4, <6>1
        <5> QED BY <1>7, <5>1, <5>2
      <4> QED BY <1>1, <3>1, <3>2, <3>5, <4>1
    <3> QED BY <1>9, <3>3, <3>4, <3>5
  <2>2. ASSUME NEW r \in Slave, NEW q \in Slave, NEW j \in Left(new, r),
               NEW m \in Left(new, q), new[r].work[j] = new[q].work[m]
        PROVE  r = q /\ j = m
    BY <1>15, <2>2 DEF Pending
  <2> QED BY <2>1, <2>2 DEF Pending, T
<1>17. AtCursor(H, cur)
  <2> SUFFICES ASSUME cur # None
               PROVE  Len(H) >= 1 /\ \E b \in 1 .. Len(T) : T[b] = cur
    BY DEF AtCursor, T
  <2>1. PICK b \in 1 .. Len(S) : S[b] = cur
    BY DEF AtCursor, S
  <2>2. p < b
    BY <1>3, <2>1
  <2>3. S[b] # x
    <3>1. b # p
      BY <1>4, <2>2
    <3> QED BY <1>3, <1>5, <3>1
  <2> QED BY <1>1, <1>9, <2>1, <2>3
<1> QED
  BY <1>13, <1>14, <1>16, <1>17
-----------------------------------------------------------------------------
(* One lemma per action.  Most of them move the program counter of the     *)
(* master, close groups, or neither.                                       *)

LEMMA Facts ==
  ASSUME IInv
  PROVE  /\ groups \in Seq(Group) /\ Len(groups) \in Nat /\ nextGroup \in Nat
         /\ nextGroup =< Len(groups) /\ mpc \in Pc /\ ready \in Seq(Slave)
         /\ Len(ready) \in Nat /\ run \subseteq Slave /\ info \in [Slave -> Info]
         /\ \A s \in Slave : /\ info[s].work \in Seq(Inode) /\ info[s].i \in Nat
                             /\ Len(info[s].work) \in Nat
<1>1. info \in [Slave -> Info]
  BY DEF IInv, TypeOK
<1>2. \A s \in Slave : /\ info[s].work \in Seq(Inode) /\ info[s].i \in Nat
                       /\ Len(info[s].work) \in Nat
  BY <1>1 DEF Info
<1> QED
  BY <1>1, <1>2 DEF IInv, TypeOK

LEMMA QuietStep ==
  ASSUME IInv, groups' \in Seq(Group), Len(groups') = Len(groups),
         \A g \in 1 .. Len(groups) : /\ groups'[g].ips = groups[g].ips
                                     /\ groups'[g].running = groups[g].running,
         UNCHANGED <<nextGroup, cursor, slv>>, td' \in BOOLEAN, mpc' \in Pc,
         mpc' \in InGroup => Len(groups) >= 1,
         mpc' \in {"assign", "join", "flock", "fwork"} =>
           mpc \in {"assign", "join", "flock", "fwork"},
         run # {} => mpc' \in {"assign", "join", "freed"},
         mpc = "assign" => mpc' \in {"assign", "freed"}, mpc # "freed",
         ~td' => mpc' \in {"exit", "freed"}
  PROVE  IInv'
<1>1. /\ nextGroup' = nextGroup /\ cursor' = cursor /\ ready' = ready /\ run' = run
      /\ info' = info
  BY DEF slv
<1>2. TypeOK'
  BY <1>1 DEF IInv, TypeOK
<1>3. Lists'
  BY <1>1 DEF IInv, Lists
<1>4. Running'
  <2>1. Len(groups) \in Nat /\ nextGroup \in Nat /\ nextGroup =< Len(groups)
    BY Facts
  <2>2. Len(groups) >= 1 => groups'[1].running = groups[1].running
    <3>1. Len(groups) >= 1 => 1 \in 1 .. Len(groups)
      BY <2>1
    <3> QED BY <3>1
  <2>3. nextGroup > 0 => groups'[nextGroup].running = groups[nextGroup].running
    <3>1. nextGroup > 0 => nextGroup \in 1 .. Len(groups)
      BY <2>1
    <3> QED BY <3>1
  <2>4. mpc \in {"assign", "join", "flock", "fwork"} => Len(groups) >= 1
    BY DEF IInv, Running, InGroup
  <2> QED BY <1>1, <2>2, <2>3, <2>4 DEF IInv, Running
<1>5. Apart(groups') /\ Pending(groups', info, cursor) /\ AtCursor(groups', cursor)
  BY Facts, SameKeeps DEF IInv
<1> QED
  BY <1>1, <1>2, <1>3, <1>4, <1>5 DEF IInv

(* Nothing happens to the groups: the program counter alone moves.         *)
LEMMA MasterMoves ==
  ASSUME IInv, UNCHANGED <<gvars, cursor, slv>>, td' \in BOOLEAN, mpc' \in Pc,
         mpc' \in InGroup => Len(groups) >= 1,
         mpc' \in {"assign", "join", "flock", "fwork"} =>
           mpc \in {"assign", "join", "flock", "fwork"},
         run # {} => mpc' \in {"assign", "join", "freed"},
         mpc = "assign" => mpc' \in {"assign", "freed"}, mpc # "freed",
         ~td' => mpc' \in {"exit", "freed"}
  PROVE  IInv'
<1>1. groups' = groups /\ nextGroup' = nextGroup
  BY DEF gvars
<1> QED
  BY <1>1, QuietStep, Facts

LEMMA StayMoves ==
  ASSUME IInv, Stay, mpc # "freed"
  PROVE  /\ mpc' \in Pc /\ (mpc' \in InGroup => Len(groups) >= 1)
         /\ mpc' \in {"assign", "join", "flock", "fwork"} =>
              mpc \in {"assign", "join", "flock", "fwork"}
         /\ run # {} => mpc' \in {"assign", "join", "freed"}
         /\ mpc = "assign" => mpc' \in {"assign", "freed"}
         /\ ~td => mpc' \in {"exit", "freed"}
BY DEF IInv, TypeOK, Lists, Running, InGroup, Stay, Pc

LEMMA ClientStep ==
  ASSUME NEW c \in Client, IInv, mpc # "freed",
         \/ Sync(c) \/ WaitNext(c) \/ Awake(c) \/ Unmount(c) \/ Drain(c)
         \/ KillMaster(c) \/ Unmounted(c) \/ TeardownBusy(c)
  PROVE  IInv'
<1>1. td \in BOOLEAN
  BY DEF IInv, TypeOK
<1>2. CASE Sync(c) \/ Drain(c)
  <2>1. /\ groups' = close(groups, Len(groups)) /\ Stay
        /\ UNCHANGED <<nextGroup, cursor, slv>> /\ td' = td
    BY <1>2 DEF Sync, Drain, StartSync, AsyncWait, Stay
  <2>2. /\ groups' \in Seq(Group) /\ Len(groups') = Len(groups)
        /\ \A g \in 1 .. Len(groups) : /\ groups'[g].ips = groups[g].ips
                                       /\ groups'[g].running = groups[g].running
    <3>1. groups \in Seq(Group) /\ Len(groups) \in Int
      BY Facts
    <3> QED BY <2>1, <3>1, Closed
  <2> QED BY <1>1, <2>1, <2>2, StayMoves, QuietStep
<1>3. CASE WaitNext(c) \/ Awake(c) \/ KillMaster(c)
  <2>1. Stay /\ UNCHANGED <<gvars, cursor, slv>> /\ td' = td
    BY <1>3 DEF WaitNext, AsyncWait, Awake, KillMaster, Signal, Stay
  <2> QED BY <1>1, <2>1, StayMoves, MasterMoves
<1>4. CASE Unmount(c) \/ Unmounted(c)
  <2>1. Stay /\ UNCHANGED <<gvars, cursor, slv>> /\ td' = td
    BY <1>4 DEF Unmount, Unmounted, Stay, mst
  <2> QED BY <1>1, <2>1, StayMoves, MasterMoves
<1>5. CASE TeardownBusy(c)
  <2>1. mpc' = "freed" /\ UNCHANGED <<gvars, cursor, slv>> /\ td' = td
    BY <1>5 DEF TeardownBusy
  <2> QED BY <1>1, <2>1, MasterMoves DEF Pc, InGroup
<1> QED
  BY <1>2, <1>3, <1>4, <1>5

LEMMA MasterStep1 ==
  ASSUME IInv, \/ Cycle \/ PickNone \/ PickError \/ Join \/ MasterLock \/ CycleDone
               \/ Wake \/ MediaError,
         mpc # "freed"
  PROVE  IInv'
<1>1. td \in BOOLEAN /\ mpc \in Pc
  BY DEF IInv, TypeOK
<1>2. /\ run # {} => mpc \in {"assign", "join"}
      /\ ~td => mpc = "exit"
      /\ mpc \in InGroup => Len(groups) >= 1
  BY DEF IInv, Lists, Running
<1>3. CASE Cycle
  <2>1. /\ mpc = "cycle" /\ mpc' \in {"done", "pick"} /\ td' = td
        /\ UNCHANGED <<gvars, cursor, slv>>
    BY <1>3 DEF Cycle
  <2> QED BY <1>1, <1>2, <2>1, MasterMoves DEF Pc, InGroup
<1>4. CASE PickNone \/ PickError
  <2>1. /\ mpc = "pick" /\ mpc' \in {"mlock", "done"} /\ td' = td
        /\ UNCHANGED <<gvars, cursor, slv>>
    BY <1>4 DEF PickNone, PickError
  <2> QED BY <1>1, <1>2, <2>1, MasterMoves DEF Pc, InGroup
<1>5. CASE Join
  <2>1. /\ mpc = "join" /\ run = {} /\ mpc' = "flock" /\ td' = td
        /\ UNCHANGED <<gvars, cursor, slv>>
    BY <1>5 DEF Join, join_all
  <2> QED BY <1>1, <1>2, <2>1, MasterMoves DEF Pc, InGroup
<1>6. CASE MasterLock
  <2>1. /\ mpc \in {"dlock", "flock", "mlock"} /\ mpc' = Working(mpc) /\ td' = td
        /\ UNCHANGED <<gvars, cursor, slv>>
    BY <1>6 DEF MasterLock
  <2>2. \/ mpc = "dlock" /\ mpc' = "dwork"
        \/ mpc = "flock" /\ mpc' = "fwork"
        \/ mpc = "mlock" /\ mpc' = "mwork"
    BY <2>1 DEF Working
  <2> QED BY <1>1, <1>2, <2>1, <2>2, MasterMoves DEF Pc, InGroup
<1>7. CASE CycleDone
  <2>1. /\ mpc = "done" /\ UNCHANGED <<gvars, cursor, slv>>
        /\ \/ mpc' \in {"cycle", "sleep", "wake"} /\ td' = td
           \/ mpc' = "exit" /\ td' = FALSE
    BY <1>7 DEF CycleDone
  <2> QED BY <1>1, <1>2, <2>1, MasterMoves DEF Pc, InGroup
<1>8. CASE Wake
  <2>1. /\ mpc = "wake" /\ mpc' = "cycle" /\ td' = td
        /\ UNCHANGED <<gvars, cursor, slv>>
    BY <1>8 DEF Wake
  <2> QED BY <1>1, <1>2, <2>1, MasterMoves DEF Pc, InGroup
<1>9. CASE MediaError
  <2>1. Stay /\ UNCHANGED <<gvars, cursor, slv>> /\ td' = td
    BY <1>9 DEF MediaError, Stay, mst
  <2> QED BY <1>1, <2>1, StayMoves, MasterMoves
<1> QED
  BY <1>3, <1>4, <1>5, <1>6, <1>7, <1>8, <1>9

LEMMA InfoPc ==
  ASSUME NEW x \in Info,
         NEW pc \in {"sleep", "sync", "after", "elock", "llock", "ework", "lwork"}
  PROVE  LET y == [x EXCEPT !.pc = pc]
         IN y \in Info /\ y.pc = pc /\ y.i = x.i /\ y.work = x.work
BY DEF Info

LEMMA InfoNext ==
  ASSUME NEW x \in Info
  PROVE  LET y == [x EXCEPT !.i = @ + 1, !.pc = "after"]
         IN y \in Info /\ y.pc = "after" /\ y.i = x.i + 1 /\ y.work = x.work
<1>1. x.i \in Nat /\ x.i + 1 \in Nat
  BY DEF Info
<1> QED
  BY <1>1 DEF Info

LEMMA InfoWork ==
  ASSUME NEW x \in Info, NEW w \in Seq(Inode)
  PROVE  LET y == [x EXCEPT !.work = w]
         IN y \in Info /\ y.pc = x.pc /\ y.i = x.i /\ y.work = w
BY DEF Info

LEMMA InfoKilled ==
  ASSUME NEW x \in Info
  PROVE  LET y == [x EXCEPT !.runstate = -1]
         IN y \in Info /\ y.pc = x.pc /\ y.i = x.i /\ y.work = x.work
<1>1. -1 \in {-1, 0, 1}
  OBVIOUS
<1> QED
  BY <1>1 DEF Info

(* A slave at work on its inodes: info' differs in its pc and its index.   *)
Works(s, n) ==
  /\ s \in run /\ info' \in [Slave -> Info]
  /\ info'[s].work = info[s].work /\ info'[s].i = n /\ info'[s].pc # "sleep"
  /\ \A r \in Slave \ {s} : info'[r] = info[r]

LEMMA SlaveWorks ==
  ASSUME NEW s \in Slave, IInv, NEW n \in Nat,
         n = info[s].i \/ (n = info[s].i + 1 /\ info[s].i < Len(info[s].work)),
         Works(s, n), ready' = ready, run' = run, td' = td, Stay, mpc # "freed"
  PROVE  Lists'
<1>1. run # {} /\ mpc' = mpc /\ mpc \in {"assign", "join"}
  BY DEF IInv, Lists, Stay, Works
<1>2. \A r \in Slave \ run : r \in Slave \ {s} /\ info'[r] = info[r]
  BY DEF Works
<1>3. \A r \in run : info'[r].i =< Len(info'[r].work) /\ info'[r].pc # "sleep"
  <2> TAKE r \in run
  <2>1. CASE r = s
    <3>1. info[s].i =< Len(info[s].work) /\ info[s].i \in Nat /\ Len(info[s].work) \in Nat
      BY Facts DEF IInv, Lists, Works
    <3>2. n =< Len(info[s].work)
      BY <3>1
    <3> QED BY <2>1, <3>2 DEF Works
  <2>2. CASE r # s
    <3>1. info'[r] = info[r]
      BY <2>2, Facts DEF Works
    <3> QED BY <3>1 DEF IInv, Lists
  <2> QED BY <2>1, <2>2
<1> QED
  BY <1>1, <1>2, <1>3 DEF IInv, Lists

(* What is left to a slave that moves on was left to it before.            *)
LEMMA WorksPending ==
  ASSUME NEW s \in Slave, IInv, NEW n \in Nat, n >= info[s].i, Works(s, n)
  PROVE  Pending(groups, info', cursor)
<1>1. \A r \in Slave : \A j \in Left(info', r) :
        j \in Left(info, r) /\ info'[r].work[j] = info[r].work[j]
  <2> TAKE r \in Slave
  <2>1. CASE r = s
    <3>1. Len(info[s].work) \in Nat /\ info[s].i \in Nat
      BY Facts
    <3> QED BY <2>1, <3>1 DEF Left, Works
  <2>2. CASE r # s
    BY <2>2 DEF Left, Works
  <2> QED BY <2>1, <2>2
<1> QED
  BY <1>1 DEF IInv, Pending

(* A slave that is not asleep is on the run list.                          *)
LEMMA AtWork ==
  ASSUME NEW s \in Slave, IInv, info[s].pc # "sleep", mpc # "freed"
  PROVE  s \in run /\ mpc \in {"assign", "join"} /\ Len(groups) >= 1
         /\ groups[1].running
<1>1. s \in run
  BY DEF IInv, Lists
<1>2. mpc \in {"assign", "join"}
  BY <1>1 DEF IInv, Lists
<1> QED
  BY <1>1, <1>2 DEF IInv, Running, InGroup

LEMMA SlaveStep1 ==
  ASSUME NEW s \in Slave, IInv, mpc # "freed",
         SlaveWouldBlock(s) \/ SlaveCheck(s) \/ SlaveLock(s) \/ SlaveFinalize(s)
  PROVE  IInv'
<1>1. /\ UNCHANGED <<gvars, mst, ready, run>> /\ info[s].pc # "sleep"
      /\ \/ info' = SlaveNext(s) /\ info[s].i < Len(info[s].work)
         \/ \E pc \in {"sync", "elock", "llock", "ework", "lwork"} :
              info' = [info EXCEPT ![s].pc = pc]
  <2>1. CASE SlaveWouldBlock(s)
    BY <2>1 DEF SlaveWouldBlock, SlaveBusy
  <2>2. CASE SlaveCheck(s)
    BY <2>2 DEF SlaveCheck
  <2>3. CASE SlaveLock(s)
    BY <2>3 DEF SlaveLock
  <2>4. CASE SlaveFinalize(s)
    BY <2>4 DEF SlaveFinalize
  <2> QED BY <2>1, <2>2, <2>3, <2>4
<1>2. /\ groups' = groups /\ nextGroup' = nextGroup /\ td' = td /\ mpc' = mpc
      /\ cursor' = cursor /\ ready' = ready /\ run' = run
  BY <1>1 DEF gvars, mst
<1>3. s \in run
  BY <1>1, AtWork
<1>4. PICK x \in Info : x = info[s]
  BY Facts
<1>5. \E n \in Nat : /\ n = info[s].i \/ (n = info[s].i + 1 /\ info[s].i < Len(info[s].work))
                     /\ Works(s, n)
  <2>1. CASE info' = SlaveNext(s) /\ info[s].i < Len(info[s].work)
    <3> DEFINE y == [x EXCEPT !.i = @ + 1, !.pc = "after"]
    <3>1. x.i + 1 \in Nat
      BY <1>4, Facts
    <3>2. y \in Info /\ y.pc = "after" /\ y.i = x.i + 1 /\ y.work = x.work
      BY InfoNext
    <3>3. info' = [info EXCEPT ![s] = y]
      BY <1>4, <2>1 DEF SlaveNext
    <3> HIDE DEF y
    <3>4. Works(s, x.i + 1)
      BY <1>3, <1>4, <3>2, <3>3, Facts DEF Works
    <3> QED BY <1>4, <2>1, <3>1, <3>4
  <2>2. ASSUME NEW pc \in {"sync", "elock", "llock", "ework", "lwork"},
               info' = [info EXCEPT ![s].pc = pc]
        PROVE  \E n \in Nat : n = info[s].i /\ Works(s, n)
    <3> DEFINE y == [x EXCEPT !.pc = pc]
    <3>1. y \in Info /\ y.pc = pc /\ y.i = x.i /\ y.work = x.work
      <4>1. pc \in {"sleep", "sync", "after", "elock", "llock", "ework", "lwork"}
        BY <2>2
      <4> QED BY <4>1, InfoPc
    <3>2. info' = [info EXCEPT ![s] = y]
      BY <1>4, <2>2
    <3> HIDE DEF y
    <3>3. Works(s, x.i)
      BY <1>3, <1>4, <3>1, <3>2, Facts DEF Works
    <3> QED BY <1>4, <3>3, Facts
  <2> QED BY <1>1, <2>1, <2>2
<1>6. PICK n \in Nat :
        /\ n = info[s].i \/ (n = info[s].i + 1 /\ info[s].i < Len(info[s].work))
        /\ Works(s, n)
  BY <1>5
<1>7. Lists'
  BY <1>2, <1>6, SlaveWorks DEF Stay
<1>8. Pending(groups, info', cursor)
  <2>1. n >= info[s].i
    BY <1>6, Facts
  <2> QED BY <1>6, <2>1, WorksPending
<1>9. TypeOK'
  BY <1>2, <1>6 DEF IInv, TypeOK, Works
<1>10. Running'
  BY <1>2 DEF IInv, Running
<1> QED
  BY <1>2, <1>7, <1>8, <1>9, <1>10 DEF IInv

(* An inode joins groups G, which are like the current ones but for the    *)
(* inode that is being taken off the first list.                           *)
LEMMA JoinStep ==
  ASSUME IInv, mpc # "freed", NEW G \in Seq(Group), Len(G) = Len(groups),
         \A g \in 1 .. Len(G) : G[g].running = groups[g].running,
         NEW j, Absent(G, j), Joined(G, groups', nextGroup', j),
         Apart(G), Pending(G, info', cursor), AtCursor(G, cursor),
         Stay, cursor' = cursor
  PROVE  /\ groups' \in Seq(Group) /\ nextGroup' \in 0 .. Len(groups')
         /\ Running' /\ Apart(groups') /\ Pending(groups', info', cursor')
         /\ AtCursor(groups', cursor')
<1>1. /\ Len(groups) \in Nat /\ Len(G) =< Len(groups')
      /\ \A g \in 1 .. Len(G) : G[g].running => g = 1
  BY Facts DEF IInv, Running, Joined
<1>2. /\ groups' \in Seq(Group) /\ nextGroup' \in 1 .. Len(groups')
      /\ ~groups'[nextGroup'].running
      /\ Apart(groups') /\ Pending(groups', info', cursor) /\ AtCursor(groups', cursor)
      /\ \A g \in 1 .. Len(groups') : groups'[g].running => g = 1
  BY <1>1, JoinedKeeps
<1>3. Len(groups) >= 1 => groups'[1].running = groups[1].running
  <2>1. Len(groups) >= 1 => 1 \in 1 .. Len(G)
    BY <1>1
  <2> QED BY <2>1 DEF Joined
<1>4. Len(groups') \in Nat /\ (Len(groups) >= 1 => Len(groups') >= 1)
  BY <1>1, <1>2
<1>5. /\ mpc' \in InGroup => Len(groups) >= 1
      /\ mpc' \in {"assign", "join", "flock", "fwork"} =>
           groups[1].running /\ Len(groups) >= 1
      /\ cursor # None => mpc' = "assign"
  BY DEF IInv, Running, Stay, InGroup
<1>6. Running'
  BY <1>2, <1>3, <1>4, <1>5 DEF Running
<1> QED
  BY <1>2, <1>4, <1>6

LEMMA FlushInodeStep ==
  ASSUME NEW i \in Inode, NEW sig \in BOOLEAN, IInv, mpc # "freed", FlushInode(i, sig)
  PROVE  IInv'
<1>1. groups \in Seq(Group) /\ Len(groups) \in Nat
  BY Facts
<1>2. /\ info' = info /\ ready' = ready /\ run' = run /\ td' = td /\ cursor' = cursor
  BY DEF FlushInode, slv
<1>3. \E j : /\ Absent(groups, j)
             /\ \/ j = i /\ Queue(pick(groups), core(pick(groups), i), sig)
                \/ j = None /\ Queue(pick(groups), pick(groups).groups, sig)
  <2>1. CASE i \in AllQueued
    <3>1. Queue(pick(groups), pick(groups).groups, sig)
      BY <2>1 DEF FlushInode
    <3>2. Absent(groups, None)
      <4>1. \A g \in 1 .. Len(groups) : \A a \in 1 .. Len(groups[g].ips) :
               groups[g].ips[a] \in Inode
        BY <1>1, GroupType
      <4> QED BY <4>1, FlusherAssumption DEF Absent
    <3> QED BY <3>1, <3>2
  <2>2. CASE i \notin AllQueued
    <3>1. Queue(pick(groups), core(pick(groups), i), sig)
      BY <2>2 DEF FlushInode
    <3>2. Absent(groups, i)
      <4> SUFFICES ASSUME NEW g \in 1 .. Len(groups), NEW a \in 1 .. Len(groups[g].ips),
                          groups[g].ips[a] = i
                   PROVE  FALSE
        BY DEF Absent
      <4>1. i \in Queued(g) /\ g \in DOMAIN groups
        BY <1>1 DEF Queued, Contains
      <4> QED BY <2>2, <4>1 DEF AllQueued
    <3> QED BY <3>1, <3>2
  <2> QED BY <2>1, <2>2
<1>4. PICK j : /\ Absent(groups, j)
               /\ \/ j = i /\ Queue(pick(groups), core(pick(groups), i), sig)
                  \/ j = None /\ Queue(pick(groups), pick(groups).groups, sig)
  BY <1>3
<1>5. Joined(groups, groups', nextGroup', j) /\ Stay
  <2>1. /\ nextGroup \in 0 .. Len(groups)
        /\ \A g \in 1 .. Len(groups) : groups[g].running => g = 1
        /\ nextGroup > 0 => ~groups[nextGroup].running
    BY DEF IInv, TypeOK, Running
  <2> QED BY <1>1, <1>4, <2>1, Queues
<1>6. /\ groups' \in Seq(Group) /\ nextGroup' \in 0 .. Len(groups')
      /\ Running' /\ Apart(groups') /\ Pending(groups', info', cursor')
      /\ AtCursor(groups', cursor')
  <2>1. Apart(groups) /\ Pending(groups, info', cursor) /\ AtCursor(groups, cursor)
    BY <1>2 DEF IInv
  <2> QED BY <1>1, <1>2, <1>4, <1>5, <2>1, JoinStep
<1>7. TypeOK'
  BY <1>2, <1>5, <1>6 DEF IInv, TypeOK, Stay, Pc
<1>8. Lists'
  BY <1>2, <1>5 DEF IInv, Lists, Stay
<1> QED
  BY <1>6, <1>7, <1>8 DEF IInv

(* The groups once slave s has taken its next inode off the first list.    *)
Shorter(s) == [groups EXCEPT ![1].ips = RemoveFirst(@, SlaveInode(s))]

LEMMA SlaveRemoves ==
  ASSUME NEW s \in Slave, IInv, mpc # "freed", SlaveBusy(s)
  PROVE  /\ Shorter(s) \in Seq(Group) /\ Len(Shorter(s)) = Len(groups)
         /\ Len(groups) >= 1 /\ SlaveInode(s) \in Inode
         /\ Shorter(s)[1].ips = RemoveFirst(groups[1].ips, SlaveInode(s))
         /\ Shorter(s)[1].running = groups[1].running
         /\ \A g \in 2 .. Len(groups) : Shorter(s)[g] = groups[g]
         /\ \A g \in 1 .. Len(groups) : Shorter(s)[g].running = groups[g].running
         /\ \A g \in 1 .. Len(groups) : Shorter(s)[g].running => g = 1
         /\ nextGroup > 0 => ~Shorter(s)[nextGroup].running
         /\ \E a \in 1 .. Len(groups[1].ips) :
              /\ groups[1].ips[a] = SlaveInode(s)
              /\ \A b \in 1 .. Len(groups[1].ips) : groups[1].ips[b] = groups[1].ips[a] => b = a
<1> DEFINE x == SlaveInode(s)
           n == info[s].i + 1
           G == [groups EXCEPT ![1].ips = RemoveFirst(@, x)]
<1>1. info[s].pc = "sync" /\ info[s].i < Len(info[s].work)
  BY DEF SlaveBusy
<1>2. /\ groups \in Seq(Group) /\ Len(groups) \in Nat
      /\ info[s].i \in Nat /\ Len(info[s].work) \in Nat /\ info[s].work \in Seq(Inode)
      /\ nextGroup \in 0 .. Len(groups)
  BY Facts DEF IInv, TypeOK
<1>3. Len(groups) >= 1 /\ 1 \in 1 .. Len(groups)
  BY <1>1, <1>2, AtWork
<1>4. n \in Left(info, s) /\ x = info[s].work[n] /\ x \in Inode
  BY <1>1, <1>2 DEF Left, SlaveInode
<1>5. PICK a \in 1 .. Len(groups[1].ips) : groups[1].ips[a] = x
  BY <1>4 DEF IInv, Pending
<1>6. \A b \in 1 .. Len(groups[1].ips) : groups[1].ips[b] = groups[1].ips[a] => b = a
  BY <1>3 DEF IInv, Apart
<1>7. /\ G \in Seq(Group) /\ Len(G) = Len(groups)
      /\ G[1].ips = RemoveFirst(groups[1].ips, x) /\ G[1].running = groups[1].running
      /\ \A g \in 2 .. Len(groups) : G[g] = groups[g]
  <2>1. PICK z \in Group : z = groups[1]
    BY <1>2, <1>3
  <2> DEFINE w == RemoveFirst(z.ips, x)
             y == [z EXCEPT !.ips = w]
  <2>2. w \in Seq(Inode)
    <3>1. z.ips \in Seq(Inode) /\ a \in 1 .. Len(z.ips) /\ x = z.ips[a]
      BY <1>5, <2>1, GroupType
    <3>2. \A b \in 1 .. Len(z.ips) : z.ips[b] = z.ips[a] => b = a
      BY <1>6, <2>1
    <3> QED BY <3>1, <3>2, RemoveOne
  <2> HIDE DEF w
  <2>3. y \in Group /\ y.ips = w /\ y.running = z.running
    BY <2>2, GroupUpdated
  <2>4. G = [groups EXCEPT ![1] = y]
    BY <2>1 DEF w
  <2> HIDE DEF y, G
  <2>5. 1 \in 1 .. Len(groups) /\ \A g \in 2 .. Len(groups) : g \in 1 .. Len(groups) /\ g # 1
    BY <1>2, <1>3
  <2>6. /\ G \in Seq(Group) /\ Len(G) = Len(groups) /\ G[1] = y
        /\ \A g \in 2 .. Len(groups) : G[g] = groups[g]
    BY <1>2, <2>3, <2>4, <2>5
  <2> QED BY <2>1, <2>3, <2>6 DEF w
<1> HIDE DEF G
<1>8. \A g \in 1 .. Len(groups) : G[g].running = groups[g].running
  <2>1. \A g \in 1 .. Len(groups) : g = 1 \/ g \in 2 .. Len(groups)
    BY <1>2
  <2> QED BY <1>7, <2>1
<1>9. /\ \A g \in 1 .. Len(groups) : G[g].running => g = 1
      /\ nextGroup > 0 => ~G[nextGroup].running
  <2>1. nextGroup > 0 => nextGroup \in 1 .. Len(groups)
    BY <1>2
  <2> QED BY <1>8, <2>1 DEF IInv, Running
<1>10. G = Shorter(s)
  BY DEF G, Shorter
<1> QED
  BY <1>3, <1>4, <1>5, <1>6, <1>7, <1>8, <1>9, <1>10

LEMMA SlaveFlushedStep ==
  ASSUME NEW s \in Slave, IInv, mpc # "freed", SlaveFlushed(s)
  PROVE  IInv'
<1> DEFINE x == SlaveInode(s)
           n == info[s].i + 1
           G == Shorter(s)
<1>1. /\ info[s].pc = "sync" /\ info[s].i < Len(info[s].work) /\ SlaveBusy(s)
      /\ info' = SlaveNext(s) /\ ready' = ready /\ run' = run /\ td' = td
      /\ cursor' = cursor
      /\ \/ \E sig \in BOOLEAN : Queue(pick(G), core(pick(G), x), sig)
         \/ groups' = G /\ nextGroup' = nextGroup /\ mpc' = mpc
  BY DEF SlaveFlushed, SlaveBusy, Shorter
<1>2. /\ groups \in Seq(Group) /\ Len(groups) \in Nat /\ info \in [Slave -> Info]
      /\ info[s].i \in Nat /\ Len(info[s].work) \in Nat /\ info[s].work \in Seq(Inode)
      /\ nextGroup \in 0 .. Len(groups)
  BY Facts DEF IInv, TypeOK
<1>3. /\ s \in run /\ mpc \in {"assign", "join"} /\ Len(groups) >= 1
      /\ groups[1].running
  BY <1>1, AtWork
<1>4. n \in Nat /\ n \in Left(info, s) /\ x = info[s].work[n] /\ x \in Inode
  BY <1>1, <1>2 DEF Left, SlaveInode
<1>5. Works(s, n)
  <2>1. PICK y0 \in Info : y0 = info[s]
    BY <1>2
  <2> DEFINE y == [y0 EXCEPT !.i = @ + 1, !.pc = "after"]
  <2>2. y \in Info /\ y.pc = "after" /\ y.i = y0.i + 1 /\ y.work = y0.work
    BY InfoNext
  <2>3. info' = [info EXCEPT ![s] = y]
    BY <1>1, <2>1 DEF SlaveNext
  <2> HIDE DEF y
  <2> QED BY <1>2, <1>3, <2>1, <2>2, <2>3 DEF Works
<1>6. /\ G \in Seq(Group) /\ Len(G) = Len(groups)
      /\ G[1].ips = RemoveFirst(groups[1].ips, x) /\ G[1].running = groups[1].running
      /\ \A g \in 2 .. Len(groups) : G[g] = groups[g]
      /\ \A g \in 1 .. Len(G) : G[g].running = groups[g].running
      /\ \A g \in 1 .. Len(G) : G[g].running => g = 1
      /\ nextGroup > 0 => ~G[nextGroup].running
  BY <1>1, SlaveRemoves
<1> HIDE DEF G
<1>7. Apart(G) /\ Pending(G, info', cursor) /\ AtCursor(G, cursor) /\ Absent(G, x)
  <2>1. \A r \in Slave : /\ info'[r].work = info[r].work
                         /\ info'[r].i = IF r = s THEN info[s].i + 1 ELSE info[r].i
    BY <1>5 DEF Works
  <2>2. \A g \in 2 .. Len(groups) : G[g].ips = groups[g].ips
    BY <1>6
  <2>3. info' \in [Slave -> Info]
    BY <1>5 DEF Works
  <2>4. Apart(groups) /\ Pending(groups, info, cursor) /\ AtCursor(groups, cursor)
    BY DEF IInv
  <2>5. Removed(groups, G, s, info, info', x)
    BY <1>4, <1>6, <2>1, <2>2 DEF Removed
  <2> HIDE DEF x
  <2> QED BY <1>2, <2>3, <2>4, <2>5, RemovedKeeps
<1>8. /\ groups' \in Seq(Group) /\ nextGroup' \in 0 .. Len(groups')
      /\ Running' /\ Apart(groups') /\ Pending(groups', info', cursor')
      /\ AtCursor(groups', cursor') /\ Stay
  <2>1. ASSUME NEW sig \in BOOLEAN, Queue(pick(G), core(pick(G), x), sig)
        PROVE  Joined(G, groups', nextGroup', x) /\ Stay
    BY <1>2, <1>4, <1>6, <2>1, Queues
  <2>2. CASE \E sig \in BOOLEAN : Queue(pick(G), core(pick(G), x), sig)
    <3>1. Joined(G, groups', nextGroup', x) /\ Stay
      BY <2>1, <2>2
    <3> QED BY <1>1, <1>6, <1>7, <3>1, JoinStep
  <2>3. CASE groups' = G /\ nextGroup' = nextGroup /\ mpc' = mpc
    <3>1. Running'
      BY <1>1, <1>3, <1>6, <2>3 DEF IInv, Running
    <3> QED BY <1>1, <1>2, <1>6, <1>7, <2>3, <3>1 DEF Stay
  <2> QED BY <1>1, <2>2, <2>3
<1>9. Lists'
  BY <1>1, <1>4, <1>5, <1>8, SlaveWorks
<1>10. TypeOK'
  BY <1>1, <1>5, <1>8 DEF IInv, TypeOK, Works, Stay, Pc
<1> QED
  BY <1>8, <1>9, <1>10 DEF IInv

LEMMA Tailed ==
  ASSUME NEW S, NEW q \in Seq(S), q # <<>>
  PROVE  /\ Tail(q) \in Seq(S) /\ Len(q) >= 1 /\ Len(Tail(q)) = Len(q) - 1
         /\ Head(q) = q[1] /\ q[1] \in S
         /\ \A a \in 1 .. Len(Tail(q)) : Tail(q)[a] = q[a + 1] /\ a + 1 \in 1 .. Len(q)
<1>1. /\ Tail(q) \in Seq(S) /\ Len(q) >= 1 /\ Len(q) \in Nat
      /\ Len(Tail(q)) = Len(q) - 1
      /\ \A a \in 1 .. Len(q) - 1 : Tail(q)[a] = q[a + 1]
  BY HeadTailProperties, EmptySeq
<1>2. \A a \in 1 .. Len(q) - 1 : a + 1 \in 1 .. Len(q)
  BY <1>1
<1>3. Head(q) = q[1] /\ q[1] \in S
  BY <1>1
<1> QED
  BY <1>1, <1>2, <1>3

(* Outside the assignment of inodes, and with no slave at work, no slave   *)
(* has anything left to do.                                                *)
LEMMA NothingLeft ==
  ASSUME IInv, run = {}, mpc \notin {"assign", "freed"}
  PROVE  /\ \A s \in Slave : info[s].work = <<>> /\ info[s].i = 0
                             /\ info[s].pc = "sleep"
         /\ cursor = None
         /\ \A G, cur : Pending(G, info, cur)
<1>1. \A s \in Slave : info[s].work = <<>> /\ info[s].i = 0 /\ info[s].pc = "sleep"
  BY DEF IInv, Lists
<1>2. \A s \in Slave : \A k \in Left(info, s) : FALSE
  <2> TAKE s \in Slave
  <2>1. Left(info, s) = 1 .. 0
    BY <1>1 DEF Left
  <2> QED BY <2>1
<1>3. \A G, cur : Pending(G, info, cur)
  BY <1>2 DEF Pending
<1> QED
  BY <1>1, <1>3 DEF IInv, Running

LEMMA RunGroupStep ==
  ASSUME IInv, RunGroup, mpc \in {"pick", "dwork"}, groups # <<>>,
         UNCHANGED <<slv, td>>
  PROVE  IInv'
<1>1. /\ ready' = ready /\ run' = run /\ info' = info /\ td' = td /\ td
      /\ run = {} /\ mpc \notin {"assign", "freed"}
  BY DEF IInv, Lists, slv
<1>2. /\ groups \in Seq(Group) /\ Len(groups) \in Nat /\ nextGroup \in Nat
      /\ nextGroup =< Len(groups) /\ Len(groups) >= 1 /\ 1 \in 1 .. Len(groups)
  BY Facts, Tailed
<1>3. PICK z \in Group : z = groups[1]
  BY <1>2
<1> DEFINE y == [z EXCEPT !.running = TRUE]
<1>4. y \in Group /\ y.ips = z.ips /\ y.running = TRUE
  BY GroupUpdated, <1>3, GroupType
<1>5. groups' = [groups EXCEPT ![1] = y]
  BY <1>3 DEF RunGroup
<1> HIDE DEF y
<1>6. /\ groups' \in Seq(Group) /\ Len(groups') = Len(groups) /\ groups'[1] = y
      /\ \A g \in 1 .. Len(groups) : g # 1 => groups'[g] = groups[g]
  BY <1>2, <1>4, <1>5
<1>7. \A g \in 1 .. Len(groups) : groups'[g].ips = groups[g].ips
  BY <1>3, <1>4, <1>6
<1>8. Apart(groups')
  <2>1. Apart(groups) /\ Pending(groups, info, None) /\ AtCursor(groups, None)
    BY <1>1, NothingLeft DEF IInv, AtCursor
  <2> QED BY <1>2, <1>6, <1>7, <2>1, SameKeeps
<1>9. Pending(groups', info', cursor')
  BY <1>1, NothingLeft
<1>10. AtCursor(groups', cursor') /\ cursor' \in Inode \union {None}
  <2>1. /\ cursor' = IF z.ips = <<>> THEN None ELSE z.ips[1]
        /\ groups'[1].ips = z.ips
    BY <1>3, <1>4, <1>6 DEF RunGroup
  <2>2. CASE z.ips = <<>>
    BY <2>1, <2>2 DEF AtCursor
  <2>3. CASE z.ips # <<>>
    <3>1. z.ips \in Seq(Inode)
      BY GroupType
    <3>2. Len(z.ips) >= 1 /\ z.ips[1] \in Inode /\ Len(z.ips) \in Nat
      BY <2>3, <3>1, Tailed
    <3>3. 1 \in 1 .. Len(z.ips)
      BY <3>2
    <3> QED BY <1>2, <1>6, <2>1, <2>3, <3>2, <3>3 DEF AtCursor
  <2> QED BY <2>2, <2>3
<1>11. /\ nextGroup' \in 0 .. Len(groups') /\ nextGroup' # 1
  BY <1>2, <1>6 DEF RunGroup, next_group
<1>12. \A g \in 1 .. Len(groups) : g # 1 => ~groups'[g].running
  BY <1>6 DEF IInv, Running
<1>13. Running'
  <2>1. nextGroup' > 0 => nextGroup' \in 1 .. Len(groups)
    BY <1>2, <1>6, <1>11
  <2> QED BY <1>2, <1>4, <1>6, <1>11, <1>12, <2>1 DEF Running, RunGroup
<1>14. TypeOK'
  BY <1>1, <1>6, <1>10, <1>11 DEF IInv, TypeOK, RunGroup, Pc
<1>15. Lists'
  BY <1>1, NothingLeft DEF IInv, Lists, RunGroup
<1> QED
  BY <1>8, <1>9, <1>10, <1>13, <1>14, <1>15 DEF IInv

LEMMA PickGroupStep ==
  ASSUME IInv, PickGroup
  PROVE  IInv'
<1>1. mpc = "pick" /\ groups # <<>> /\ UNCHANGED <<slv, td>>
  BY DEF PickGroup
<1>2. CASE RunGroup
  BY <1>1, <1>2, RunGroupStep
<1>3. CASE mpc' = "dlock" /\ UNCHANGED <<gvars, cursor>>
  <2>1. Len(groups) >= 1 /\ run = {} /\ td /\ td' = td
    BY <1>1, Facts, Tailed DEF IInv, Lists
  <2> QED BY <1>1, <1>3, <2>1, MasterMoves DEF Pc, InGroup
<1> QED
  BY <1>2, <1>3 DEF PickGroup

(* The group is done: the others move up.                                  *)
LEMMA GroupDone ==
  ASSUME IInv, mpc = "fwork", groups' = Tail(groups),
         nextGroup' = IF nextGroup = 0 THEN 0 ELSE nextGroup - 1,
         mpc' = "done", UNCHANGED <<cursor, slv, td>>
  PROVE  IInv'
<1>1. /\ ready' = ready /\ run' = run /\ info' = info /\ td' = td /\ td
      /\ run = {} /\ mpc \notin {"assign", "freed"} /\ cursor' = cursor
      /\ Len(groups) >= 1 /\ groups[1].running
  BY DEF IInv, Lists, Running, InGroup, slv
<1>2. /\ groups \in Seq(Group) /\ Len(groups) \in Nat /\ nextGroup \in Nat
      /\ nextGroup =< Len(groups) /\ groups # <<>>
  BY <1>1, Facts
<1>3. /\ groups' \in Seq(Group) /\ Len(groups') = Len(groups) - 1
      /\ \A g \in 1 .. Len(groups') : /\ groups'[g] = groups[g + 1]
                                      /\ g + 1 \in 1 .. Len(groups)
  BY <1>2, Tailed
<1>4. Apart(groups')
  <2> SUFFICES ASSUME NEW g \in 1 .. Len(groups'), NEW h \in 1 .. Len(groups'),
                      NEW a \in 1 .. Len(groups'[g].ips),
                      NEW b \in 1 .. Len(groups'[h].ips),
                      groups'[g].ips[a] = groups'[h].ips[b]
               PROVE  g = h /\ a = b
    BY DEF Apart
  <2>1. /\ groups'[g] = groups[g + 1] /\ g + 1 \in 1 .. Len(groups)
        /\ groups'[h] = groups[h + 1] /\ h + 1 \in 1 .. Len(groups)
    BY <1>3
  <2>2. /\ a \in 1 .. Len(groups[g + 1].ips) /\ b \in 1 .. Len(groups[h + 1].ips)
        /\ groups[g + 1].ips[a] = groups[h + 1].ips[b]
    BY <2>1
  <2>3. g + 1 = h + 1 /\ a = b
    BY <2>1, <2>2 DEF IInv, Apart
  <2> QED BY <2>3
<1>5. Pending(groups', info', cursor') /\ AtCursor(groups', cursor') /\ cursor' = None
  BY <1>1, NothingLeft DEF AtCursor
<1>6. \A g \in 1 .. Len(groups') : ~groups'[g].running
  <2> TAKE g \in 1 .. Len(groups')
  <2>1. g + 1 \in 1 .. Len(groups) /\ g + 1 # 1 /\ groups'[g] = groups[g + 1]
    BY <1>2, <1>3
  <2> QED BY <2>1 DEF IInv, Running
<1>7. nextGroup' \in 0 .. Len(groups') /\ (nextGroup' > 0 => nextGroup' \in 1 .. Len(groups'))
  BY <1>1, <1>2, <1>3
<1>8. Running'
  BY <1>5, <1>6, <1>7 DEF Running, InGroup
<1>9. TypeOK'
  BY <1>1, <1>3, <1>5, <1>7 DEF IInv, TypeOK, Pc
<1>10. Lists'
  BY <1>1, NothingLeft DEF IInv, Lists
<1> QED
  BY <1>4, <1>5, <1>8, <1>9, <1>10 DEF IInv

LEMMA MasterFinalizeStep ==
  ASSUME IInv, MasterFinalize
  PROVE  IInv'
<1>1. mpc \in {"dwork", "fwork", "mwork"} /\ td' = td /\ UNCHANGED <<slv, td>>
  BY DEF MasterFinalize
<1>2. run = {} /\ td
  BY <1>1 DEF IInv, Lists
<1>3. CASE mpc = "dwork" /\ RunGroup
  <2>1. groups # <<>>
    BY <1>3, Facts DEF IInv, Running, InGroup
  <2> QED BY <1>1, <1>3, <2>1, RunGroupStep
<1>4. CASE /\ mpc = "fwork" /\ groups' = Tail(groups) /\ mpc' = "done"
           /\ nextGroup' = IF nextGroup = 0 THEN 0 ELSE nextGroup - 1
           /\ UNCHANGED cursor
  BY <1>1, <1>4, GroupDone
<1>5. CASE mpc # "dwork" /\ mpc' \in {"done", "pick"} /\ UNCHANGED <<gvars, cursor>>
  BY <1>1, <1>2, <1>5, MasterMoves DEF Pc, InGroup
<1> QED
  BY <1>3, <1>4, <1>5 DEF MasterFinalize

(* The master hands inode c, at position b of the list, to slave s.        *)
Assigned(G, s, inf, new, c, b, cur) ==
  /\ Len(G) >= 1 /\ b \in 1 .. Len(G[1].ips) /\ G[1].ips[b] = c
  /\ inf[s].i = 0 /\ new[s].i = 0 /\ new[s].work = Append(inf[s].work, c)
  /\ \A r \in Slave : r # s => new[r] = inf[r]
  /\ cur = IF b = Len(G[1].ips) THEN None ELSE G[1].ips[b + 1]

LEMMA AssignedPending ==
  ASSUME NEW G \in Seq(Group), NEW s \in Slave, NEW new, NEW b,
         NEW inf \in [Slave -> Info], NEW c \in Inode, NEW cur,
         Assigned(G, s, inf, new, c, b, cur), Apart(G), Pending(G, inf, c)
  PROVE  Pending(G, new, cur)
<1>0. /\ Len(G) >= 1 /\ b \in 1 .. Len(G[1].ips) /\ G[1].ips[b] = c
      /\ inf[s].i = 0 /\ new[s].i = 0 /\ new[s].work = Append(inf[s].work, c)
      /\ \A r \in Slave : r # s => new[r] = inf[r]
      /\ cur = IF b = Len(G[1].ips) THEN None ELSE G[1].ips[b + 1]
  BY DEF Assigned
<1> USE <1>0
<1> DEFINE S == G[1].ips
           W == inf[s].work
<1>1. S \in Seq(Inode) /\ Len(S) \in Nat /\ \A a \in 1 .. Len(S) : S[a] \in Inode
  <2>1. G[1] \in Group
    OBVIOUS
  <2> QED BY <2>1, GroupType
<1>2. \A a, d \in 1 .. Len(S) : S[a] = S[d] => a = d
  <2>1. 1 \in 1 .. Len(G)
    OBVIOUS
  <2> QED BY <2>1 DEF Apart
<1>3. W \in Seq(Inode) /\ Len(W) \in Nat
  BY DEF Info
<1> HIDE DEF S, W
<1>4. /\ Len(Append(W, c)) = Len(W) + 1 /\ Append(W, c)[Len(W) + 1] = c
      /\ \A k \in 1 .. Len(W) : Append(W, c)[k] = W[k]
  BY <1>3
<1>5. Left(inf, s) = 1 .. Len(W) /\ Left(new, s) = 1 .. Len(W) + 1
  BY <1>3, <1>4 DEF Left, W
<1>6. \A k \in 1 .. Len(W) + 1 : k \in 1 .. Len(W) \/ k = Len(W) + 1
  BY <1>3
<1>7. \A d \in 1 .. Len(S) : S[d] = cur => d = b + 1
  <2> SUFFICES ASSUME NEW d \in 1 .. Len(S), S[d] = cur PROVE d = b + 1
    OBVIOUS
  <2>1. CASE b = Len(S)
    BY <1>1, <2>1, FlusherAssumption DEF S
  <2>2. CASE b # Len(S)
    <3>1. b + 1 \in 1 .. Len(S) /\ cur = S[b + 1]
      BY <1>1, <2>2 DEF S
    <3> QED BY <1>2, <3>1
  <2> QED BY <2>1, <2>2
<1>8. ASSUME NEW r \in Slave, NEW k \in Left(inf, r)
      PROVE  /\ inf[r].work[k] # c
             /\ \E a \in 1 .. Len(S) : S[a] = inf[r].work[k] /\ a < b
  <2>1. PICK a \in 1 .. Len(S) : /\ S[a] = inf[r].work[k]
                                 /\ \A d \in 1 .. Len(S) : S[d] = c => a < d
    BY <1>8 DEF Pending, S
  <2>2. b \in 1 .. Len(S) /\ S[b] = c /\ a < b
    BY <2>1 DEF S
  <2>3. a # b
    BY <2>2
  <2> QED BY <1>2, <2>1, <2>2, <2>3
<1>9. \A r \in Slave : \A k \in Left(new, r) :
        \/ k \in Left(inf, r) /\ new[r].work[k] = inf[r].work[k]
        \/ r = s /\ k = Len(W) + 1 /\ new[r].work[k] = c
  <2> TAKE r \in Slave
  <2>1. CASE r = s
    <3>1. new[r].work = Append(W, c)
      BY <2>1 DEF W
    <3> QED BY <1>4, <1>5, <1>6, <2>1, <3>1 DEF W
  <2>2. CASE r # s
    BY <2>2 DEF Left
  <2> QED BY <2>1, <2>2
<1>10. ASSUME NEW r \in Slave, NEW k \in Left(new, r)
       PROVE  \E a \in 1 .. Len(S) :
                /\ S[a] = new[r].work[k]
                /\ \A d \in 1 .. Len(S) : S[d] = cur => a < d
  <2>1. PICK a \in 1 .. Len(S) : S[a] = new[r].work[k] /\ a =< b
    <3>1. CASE k \in Left(inf, r) /\ new[r].work[k] = inf[r].work[k]
      <4>1. PICK a \in 1 .. Len(S) : S[a] = inf[r].work[k] /\ a < b
        BY <1>8, <3>1
      <4>2. a =< b
        BY <4>1
      <4> QED BY <3>1, <4>1, <4>2
    <3>2. CASE new[r].work[k] = c
      BY <1>1, <3>2 DEF S
    <3> QED BY <1>9, <1>10, <3>1, <3>2
  <2>2. \A d \in 1 .. Len(S) : S[d] = cur => a < d
    BY <1>7, <2>1
  <2> QED BY <2>1, <2>2
<1>11. ASSUME NEW r \in Slave, NEW q \in Slave, NEW k \in Left(new, r),
              NEW j \in Left(new, q), new[r].work[k] = new[q].work[j]
       PROVE  r = q /\ k = j
  <2>1. CASE new[r].work[k] = c
    <3>1. r = s /\ k = Len(W) + 1
      BY <1>8, <1>9, <2>1
    <3>2. q = s /\ j = Len(W) + 1
      BY <1>8, <1>9, <1>11, <2>1
    <3> QED BY <3>1, <3>2
  <2>2. CASE new[r].work[k] # c
    <3>1. /\ k \in Left(inf, r) /\ j \in Left(inf, q)
          /\ inf[r].work[k] = inf[q].work[j]
      BY <1>9, <1>11, <2>2
    <3> QED BY <3>1 DEF Pending
  <2> QED BY <2>1, <2>2
<1> QED
  BY <1>10, <1>11 DEF Pending, S

(* A slave starts.                                                         *)
LEMMA Started ==
  ASSUME IInv, mpc = "assign", ready # <<>>, mpc' \in {"assign", "join"}, td' = td,
         NEW s, s = Head(ready), ready' = Tail(ready), run' = run \union {s},
         info' \in [Slave -> Info],
         info'[s].i = 0, info'[s].pc # "sleep",
         \A r \in Slave : r # s => info'[r] = info[r]
  PROVE  Lists'
<1>1. /\ ready \in Seq(Slave) /\ Len(ready) \in Nat
      /\ \A r \in Slave : Len(info'[r].work) \in Nat
  BY Facts DEF Info
<1>2. /\ ready' \in Seq(Slave) /\ Len(ready) >= 1 /\ Len(ready') = Len(ready) - 1
      /\ s = ready[1] /\ s \in Slave
      /\ \A a \in 1 .. Len(ready') : /\ ready'[a] = ready[a + 1]
                                     /\ a + 1 \in 1 .. Len(ready)
  BY <1>1, Tailed
<1>3. \A a, b \in 1 .. Len(ready) : ready[a] = ready[b] => a = b
  BY DEF IInv, Lists
<1>4. \A a, b \in 1 .. Len(ready') : ready'[a] = ready'[b] => a = b
  <2> SUFFICES ASSUME NEW a \in 1 .. Len(ready'), NEW b \in 1 .. Len(ready'),
                      ready'[a] = ready'[b]
               PROVE  a = b
    OBVIOUS
  <2>1. a + 1 = b + 1
    BY <1>2, <1>3
  <2> QED BY <2>1
<1>5. \A a \in 1 .. Len(ready') : ready'[a] \notin run'
  <2> TAKE a \in 1 .. Len(ready')
  <2>1. a + 1 # 1 /\ 1 \in 1 .. Len(ready)
    BY <1>1, <1>2
  <2>2. ready'[a] # s
    BY <1>2, <1>3, <2>1
  <2>3. ready'[a] \notin run
    BY <1>2 DEF IInv, Lists
  <2> QED BY <2>2, <2>3
<1>6. \A r \in Slave \ run' : /\ info'[r].i = 0 /\ info'[r].pc = "sleep"
                              /\ info'[r].work = <<>>
  <2> TAKE r \in Slave \ run'
  <2>1. r # s /\ r \in Slave \ run /\ info'[r] = info[r]
    OBVIOUS
  <2> QED BY <1>2, <2>1 DEF IInv, Lists
<1>7. \A r \in run' : info'[r].i =< Len(info'[r].work) /\ info'[r].pc # "sleep"
  <2> TAKE r \in run'
  <2>1. CASE r = s
    BY <1>1, <1>2, <2>1
  <2>2. CASE r # s
    <3>1. r \in run /\ info'[r] = info[r]
      BY <2>2, Facts
    <3> QED BY <3>1 DEF IInv, Lists
  <2> QED BY <2>1, <2>2
<1>8. td
  BY DEF IInv, Lists
<1> QED
  BY <1>4, <1>5, <1>6, <1>7, <1>8 DEF Lists

LEMMA InfoStarted ==
  ASSUME NEW w \in Seq(Inode)
  PROVE  LET y == [runstate |-> 1, work |-> w, i |-> 0, pc |-> "sync"]
         IN y \in Info /\ y.pc = "sync" /\ y.i = 0 /\ y.work = w
BY DEF Info

LEMMA AssignStep ==
  ASSUME IInv, Assign
  PROVE  IInv'
<1> DEFINE s == Head(ready)
           w == Append(info[s].work, cursor)
           S == groups[1].ips
<1>1. /\ mpc = "assign" /\ cursor # None /\ ready # <<>> /\ mpc' = mpc
      /\ groups' = groups /\ nextGroup' = nextGroup /\ td' = td
      /\ cursor' = successor(cursor)
      /\ \/ Len(w) = WorkMax /\ start(s, w)
         \/ info' = [info EXCEPT ![s].work = w] /\ ready' = ready /\ run' = run
  BY DEF Assign, gvars
<1>2. /\ groups \in Seq(Group) /\ Len(groups) \in Nat /\ ready \in Seq(Slave)
      /\ info \in [Slave -> Info]
      /\ cursor \in Inode /\ td
  BY <1>1, Facts DEF IInv, TypeOK, Lists
<1>3. s = ready[1] /\ s \in Slave /\ Len(ready) >= 1 /\ Tail(ready) \in Seq(Slave)
  BY <1>1, <1>2, Tailed
<1>4. s \notin run /\ info[s].i = 0 /\ info[s].pc = "sleep"
  <2>1. 1 \in 1 .. Len(ready)
    BY <1>2, <1>3
  <2>2. s \notin run
    BY <1>3, <2>1 DEF IInv, Lists
  <2> QED BY <1>3, <2>2 DEF IInv, Lists
<1> HIDE DEF s
<1>5. PICK x \in Info : x = info[s]
  BY <1>2, <1>3
<1>6. w \in Seq(Inode) /\ w = Append(info[s].work, cursor)
  BY <1>2, <1>3, Facts
<1> HIDE DEF w
<1>7. /\ info' \in [Slave -> Info] /\ info'[s].i = 0 /\ info'[s].work = w
      /\ \A r \in Slave : r # s => info'[r] = info[r]
      /\ \/ ready' = Tail(ready) /\ run' = run \union {s} /\ info'[s].pc # "sleep"
         \/ ready' = ready /\ run' = run /\ info'[s].pc = "sleep"
  <2>1. CASE start(s, w)
    <3> DEFINE y == [runstate |-> 1, work |-> w, i |-> 0, pc |-> "sync"]
    <3>1. y \in Info /\ y.pc = "sync" /\ y.i = 0 /\ y.work = w
      BY <1>6, InfoStarted
    <3>2. info' = [info EXCEPT ![s] = y] /\ ready' = Tail(ready) /\ run' = run \union {s}
      BY <2>1 DEF start
    <3> HIDE DEF y
    <3> QED BY <1>2, <1>3, <3>1, <3>2
  <2>2. CASE info' = [info EXCEPT ![s].work = w] /\ ready' = ready /\ run' = run
    <3> DEFINE y == [x EXCEPT !.work = w]
    <3>1. y \in Info /\ y.pc = x.pc /\ y.i = x.i /\ y.work = w
      BY <1>6, InfoWork
    <3>2. info' = [info EXCEPT ![s] = y]
      BY <1>5, <2>2
    <3> HIDE DEF y
    <3> QED BY <1>2, <1>3, <1>4, <1>5, <2>2, <3>1, <3>2
  <2> QED BY <1>1, <2>1, <2>2
<1>8. PICK b \in 1 .. Len(S) : S[b] = cursor
  BY <1>1 DEF IInv, AtCursor
<1>9. Len(groups) >= 1 /\ 1 \in 1 .. Len(groups) /\ S \in Seq(Inode) /\ Len(S) \in Nat
  <2>1. Len(groups) >= 1 /\ 1 \in 1 .. Len(groups)
    BY <1>1, <1>2 DEF IInv, AtCursor
  <2>2. groups[1] \in Group
    BY <1>2, <2>1
  <2> QED BY <2>1, <2>2, GroupType
<1>10. cursor' = IF b = Len(S) THEN None ELSE S[b + 1]
  <2>1. \A n \in DOMAIN S : S[n] = cursor <=> n = b
    BY <1>8, <1>9 DEF IInv, Apart
  <2>2. b \in DOMAIN S
    BY <1>9
  <2> DEFINE k == CHOOSE n \in DOMAIN S : S[n] = cursor
  <2>3. k = b
    BY <2>1, <2>2
  <2>4. successor(cursor) = IF k = Len(S) THEN None ELSE S[k + 1]
    BY DEF successor
  <2> HIDE DEF k
  <2> QED BY <1>1, <2>3, <2>4
<1>11. Pending(groups, info', cursor')
  <2>1. Apart(groups) /\ Pending(groups, info, cursor)
    BY DEF IInv
  <2>2. Assigned(groups, s, info, info', cursor, b, cursor')
    BY <1>4, <1>6, <1>7, <1>8, <1>9, <1>10 DEF Assigned
  <2> QED BY <1>2, <1>3, <2>1, <2>2, AssignedPending
<1>12. AtCursor(groups, cursor') /\ cursor' \in Inode \union {None}
  <2>1. CASE b = Len(S)
    BY <1>10, <2>1 DEF AtCursor
  <2>2. CASE b # Len(S)
    <3>1. b + 1 \in 1 .. Len(S) /\ cursor' = S[b + 1]
      BY <1>9, <1>10, <2>2
    <3>2. S[b + 1] \in Inode
      BY <1>9, <3>1
    <3> QED BY <1>9, <3>1, <3>2 DEF AtCursor
  <2> QED BY <2>1, <2>2
<1>13. TypeOK'
  BY <1>1, <1>2, <1>3, <1>7, <1>12 DEF IInv, TypeOK
<1>14. Lists'
  <2>1. CASE ready' = Tail(ready) /\ run' = run \union {s} /\ info'[s].pc # "sleep"
    BY <1>1, <1>7, <2>1, Started DEF s
  <2>2. CASE ready' = ready /\ run' = run /\ info'[s].pc = "sleep"
    <3>1. \A r \in Slave \ run : r # s => info'[r] = info[r]
      BY <1>7
    <3>2. \A r \in run : info'[r] = info[r]
      BY <1>2, <1>4, <1>7, Facts
    <3> QED BY <1>1, <1>3, <1>7, <2>2, <3>1, <3>2 DEF IInv, Lists
  <2> QED BY <1>7, <2>1, <2>2
<1>15. Running'
  BY <1>1 DEF IInv, Running
<1> QED
  BY <1>1, <1>11, <1>12, <1>13, <1>14, <1>15 DEF IInv

LEMMA AssignEndStep ==
  ASSUME IInv, AssignEnd
  PROVE  IInv'
<1> DEFINE s == Head(ready)
<1>1. /\ mpc = "assign" /\ cursor = None /\ ready # <<>> /\ mpc' = "join"
      /\ groups' = groups /\ nextGroup' = nextGroup /\ td' = td /\ cursor' = cursor
      /\ \/ start(s, info[s].work)
         \/ info[s].work = <<>> /\ ready' = ready /\ run' = run /\ info' = info
  BY DEF AssignEnd, gvars, slv
<1>2. ready \in Seq(Slave) /\ info \in [Slave -> Info]
  BY Facts
<1>3. s = ready[1] /\ s \in Slave /\ Len(ready) >= 1 /\ Tail(ready) \in Seq(Slave)
  BY <1>1, <1>2, Tailed
<1>4. info[s].i = 0 /\ info[s].work \in Seq(Inode)
  <2>1. 1 \in 1 .. Len(ready)
    BY <1>2, <1>3
  <2>2. s \notin run
    BY <1>3, <2>1 DEF IInv, Lists
  <2> QED BY <1>3, <2>2, Facts DEF IInv, Lists
<1> HIDE DEF s
<1>5. Running'
  BY <1>1 DEF IInv, Running, InGroup
<1>6. CASE start(s, info[s].work)
  <2>1. PICK w \in Seq(Inode) : w = info[s].work
    BY <1>4
  <2> DEFINE y == [runstate |-> 1, work |-> w, i |-> 0, pc |-> "sync"]
  <2>2. y \in Info /\ y.pc = "sync" /\ y.i = 0 /\ y.work = w
    BY InfoStarted
  <2>3. /\ info' = [info EXCEPT ![s] = y] /\ ready' = Tail(ready)
        /\ run' = run \union {s}
    BY <1>6, <2>1 DEF start
  <2> HIDE DEF y
  <2>4. /\ info' \in [Slave -> Info] /\ info'[s].i = 0 /\ info'[s].pc # "sleep"
        /\ info'[s].work = info[s].work
        /\ \A r \in Slave : r # s => info'[r] = info[r]
    BY <1>2, <1>3, <2>1, <2>2, <2>3
  <2>5. Lists'
    BY <1>1, <2>3, <2>4, Started DEF s
  <2>6. \A r \in Slave : Left(info', r) = Left(info, r) /\ info'[r].work = info[r].work
    BY <1>4, <2>4 DEF Left
  <2>7. Pending(groups, info', cursor)
    BY <2>6 DEF IInv, Pending
  <2>8. TypeOK'
    BY <1>1, <1>3, <2>3, <2>4 DEF IInv, TypeOK, Pc
  <2> QED BY <1>1, <1>5, <2>5, <2>7, <2>8 DEF IInv
<1>7. CASE info[s].work = <<>> /\ ready' = ready /\ run' = run /\ info' = info
  <2>1. TypeOK'
    BY <1>1, <1>7 DEF IInv, TypeOK, Pc
  <2>2. Lists'
    BY <1>1, <1>3, <1>7 DEF IInv, Lists
  <2> QED BY <1>1, <1>5, <1>7, <2>1, <2>2 DEF IInv
<1> QED
  BY <1>1, <1>6, <1>7

LEMMA SlaveDoneStep ==
  ASSUME NEW s \in Slave, IInv, mpc # "freed", SlaveDone(s)
  PROVE  IInv'
<1>1. /\ info[s].pc = "sync" /\ info' = [info EXCEPT ![s] = IdleInfo]
      /\ run' = run \ {s} /\ ready' = Append(ready, s)
      /\ groups' = groups /\ nextGroup' = nextGroup /\ td' = td /\ cursor' = cursor
      /\ mpc' = mpc
  BY DEF SlaveDone, gvars, mst
<1>2. ready \in Seq(Slave) /\ Len(ready) \in Nat /\ info \in [Slave -> Info]
  BY Facts
<1>3. s \in run /\ mpc \in {"assign", "join"}
  BY <1>1, AtWork
<1>4. /\ IdleInfo \in Info /\ IdleInfo.work = <<>> /\ IdleInfo.i = 0
      /\ IdleInfo.pc = "sleep"
  BY DEF IdleInfo, Info
<1>5. /\ info' \in [Slave -> Info] /\ info'[s] = IdleInfo
      /\ \A r \in Slave : r # s => info'[r] = info[r]
  BY <1>1, <1>2, <1>4
<1>6. /\ ready' \in Seq(Slave) /\ Len(ready') = Len(ready) + 1
      /\ ready'[Len(ready) + 1] = s
      /\ \A a \in 1 .. Len(ready) : ready'[a] = ready[a]
      /\ \A a \in 1 .. Len(ready') : a \in 1 .. Len(ready) \/ a = Len(ready) + 1
  BY <1>1, <1>2
<1>7. \A a \in 1 .. Len(ready) : ready[a] # s /\ ready[a] \notin run
  BY <1>3 DEF IInv, Lists
<1>8. \A a, b \in 1 .. Len(ready') : ready'[a] = ready'[b] => a = b
  <2> SUFFICES ASSUME NEW a \in 1 .. Len(ready'), NEW b \in 1 .. Len(ready'),
                      ready'[a] = ready'[b]
               PROVE  a = b
    OBVIOUS
  <2>1. CASE a \in 1 .. Len(ready) /\ b \in 1 .. Len(ready)
    BY <1>6, <2>1 DEF IInv, Lists
  <2>2. CASE a = Len(ready) + 1 \/ b = Len(ready) + 1
    BY <1>6, <1>7, <2>2
  <2> QED BY <1>6, <2>1, <2>2
<1>9. \A a \in 1 .. Len(ready') : ready'[a] \notin run'
  <2> TAKE a \in 1 .. Len(ready')
  <2>1. CASE a \in 1 .. Len(ready)
    BY <1>1, <1>6, <1>7, <2>1
  <2>2. CASE a = Len(ready) + 1
    BY <1>1, <1>6, <2>2
  <2> QED BY <1>6, <2>1, <2>2
<1>10. \A r \in Slave \ run' :
         /\ info'[r].i = 0 /\ info'[r].pc = "sleep"
         /\ \/ info'[r].work = <<>>
            \/ mpc' = "assign" /\ Len(ready') >= 1 /\ r = ready'[1]
  <2> TAKE r \in Slave \ run'
  <2>1. CASE r = s
    BY <1>4, <1>5, <2>1
  <2>2. CASE r # s
    <3>1. r \in Slave \ run /\ info'[r] = info[r]
      BY <1>1, <1>5, <2>2
    <3>2. Len(ready) >= 1 => ready'[1] = ready[1] /\ Len(ready') >= 1
      BY <1>2, <1>6
    <3> QED BY <1>1, <1>3, <3>1, <3>2 DEF IInv, Lists
  <2> QED BY <2>1, <2>2
<1>11. \A r \in run' : info'[r].i =< Len(info'[r].work) /\ info'[r].pc # "sleep"
  BY <1>1, <1>5, Facts DEF IInv, Lists
<1>12. Lists'
  BY <1>1, <1>3, <1>8, <1>9, <1>10, <1>11 DEF IInv, Lists
<1>13. \A r \in Slave : \A k \in Left(info', r) : r # s /\ info'[r] = info[r]
  <2> TAKE r \in Slave
  <2>1. CASE r = s
    <3>1. Left(info', r) = 1 .. 0
      BY <1>4, <1>5, <2>1 DEF Left
    <3> QED BY <3>1
  <2>2. CASE r # s
    BY <1>5, <2>2
  <2> QED BY <2>1, <2>2
<1>14. \A r \in Slave : \A k \in Left(info', r) :
         k \in Left(info, r) /\ info'[r].work[k] = info[r].work[k]
  BY <1>13 DEF Left
<1>15. Pending(groups, info', cursor)
  BY <1>14 DEF IInv, Pending
<1>16. TypeOK'
  BY <1>1, <1>5, <1>6 DEF IInv, TypeOK
<1>17. Running'
  BY <1>1 DEF IInv, Running
<1> QED
  BY <1>1, <1>12, <1>15, <1>16, <1>17 DEF IInv

LEMMA UnmountStep ==
  ASSUME NEW c \in Client, IInv, mpc # "freed", Teardown(c) \/ KillSlave(c)
  PROVE  IInv'
<1>1. CASE Teardown(c)
  <2>1. /\ groups' = <<>> /\ nextGroup' = 0 /\ Stay /\ td' = td /\ cursor' = cursor
        /\ ready' = ready /\ run' = run /\ info' = info
        /\ mpc \notin InGroup /\ run = {}
    BY <1>1 DEF Teardown, Signal, Stay, slv, Busy
  <2>2. cursor = None /\ Pending(groups', info, cursor) /\ mpc \notin {"assign", "freed"}
    BY <2>1, NothingLeft DEF InGroup
  <2>3. groups' \in Seq(Group) /\ Len(groups') = 0
    BY <2>1
  <2>4. \A g \in 1 .. Len(groups') : FALSE
    BY <2>3
  <2>5. Apart(groups') /\ AtCursor(groups', cursor)
    BY <2>2, <2>4 DEF Apart, AtCursor
  <2>6. mpc' \notin InGroup /\ mpc' \in Pc
    BY <2>1 DEF Stay, InGroup, Pc, IInv, TypeOK
  <2>7. Running'
    <3>1. mpc' \notin {"assign", "join", "flock", "fwork"} /\ ~(nextGroup' > 0)
      BY <2>1, <2>6 DEF InGroup
    <3> QED BY <2>1, <2>2, <2>4, <2>6, <3>1 DEF Running
  <2>8. TypeOK'
    BY <2>1, <2>3, <2>6 DEF IInv, TypeOK
  <2>9. Lists'
    <3>1. \A s \in Slave : info[s].work = <<>> /\ info[s].i = 0 /\ info[s].pc = "sleep"
      BY <2>1, <2>2, NothingLeft
    <3> QED BY <2>1, <3>1 DEF IInv, Lists, Stay
  <2> QED BY <2>1, <2>2, <2>5, <2>7, <2>8, <2>9 DEF IInv
<1>2. CASE KillSlave(c)
  <2> DEFINE s == Head(ready)
  <2>1. /\ ~td /\ ready # <<>> /\ info' = [info EXCEPT ![s].runstate = -1]
        /\ ready' = Tail(ready) /\ run' = run /\ groups' = groups
        /\ nextGroup' = nextGroup /\ td' = td /\ cursor' = cursor /\ mpc' = mpc
    BY <1>2 DEF KillSlave, gvars, mst
  <2>2. mpc = "exit" /\ run = {}
    <3>1. mpc = "exit"
      BY <2>1 DEF IInv, Lists
    <3> QED BY <3>1 DEF IInv, Lists
  <2>3. /\ ready \in Seq(Slave) /\ Len(ready) \in Nat /\ info \in [Slave -> Info]
    BY Facts
  <2>4. /\ ready' \in Seq(Slave) /\ s \in Slave
        /\ \A a \in 1 .. Len(ready') : /\ ready'[a] = ready[a + 1]
                                       /\ a + 1 \in 1 .. Len(ready)
    BY <2>1, <2>3, Tailed
  <2> HIDE DEF s
  <2>5. PICK x \in Info : x = info[s]
    BY <2>3, <2>4
  <2> DEFINE y == [x EXCEPT !.runstate = -1]
  <2>6. y \in Info /\ y.pc = x.pc /\ y.i = x.i /\ y.work = x.work
    BY InfoKilled
  <2>7. info' = [info EXCEPT ![s] = y]
    BY <2>1, <2>5
  <2> HIDE DEF y
  <2>8. /\ info' \in [Slave -> Info]
        /\ \A r \in Slave : /\ info'[r].pc = info[r].pc /\ info'[r].i = info[r].i
                            /\ info'[r].work = info[r].work
    <3>1. info' \in [Slave -> Info] /\ info'[s] = y
          /\ \A r \in Slave : r # s => info'[r] = info[r]
      BY <2>3, <2>4, <2>6, <2>7
    <3> QED BY <2>5, <2>6, <3>1
  <2>9. \A r \in Slave : info[r].work = <<>> /\ info[r].i = 0 /\ info[r].pc = "sleep"
    BY <2>2, NothingLeft
  <2>10. \A a, b \in 1 .. Len(ready') : ready'[a] = ready'[b] => a = b
    <3> SUFFICES ASSUME NEW a \in 1 .. Len(ready'), NEW b \in 1 .. Len(ready'),
                        ready'[a] = ready'[b]
                 PROVE  a = b
      OBVIOUS
    <3>1. a + 1 = b + 1
      BY <2>4 DEF IInv, Lists
    <3> QED BY <3>1
  <2>11. Lists'
    BY <2>1, <2>2, <2>8, <2>9, <2>10 DEF Lists
  <2>12. Pending(groups, info', cursor)
    <3>1. \A r \in Slave : Left(info', r) = Left(info, r)
      BY <2>8 DEF Left
    <3> QED BY <2>8, <3>1 DEF IInv, Pending
  <2>13. TypeOK'
    BY <2>1, <2>4, <2>8 DEF IInv, TypeOK
  <2>14. Running'
    BY <2>1 DEF IInv, Running
  <2> QED BY <2>1, <2>11, <2>12, <2>13, <2>14 DEF IInv
<1> QED
  BY <1>1, <1>2
-----------------------------------------------------------------------------
(* The invariant holds in every state.                                     *)

LEMMA InitInv ==
  ASSUME Init
  PROVE  IInv
<1>1. /\ groups = <<>> /\ nextGroup = 0 /\ td = TRUE /\ mpc = "cycle" /\ cursor = None
      /\ ready = SetToSeq(Slave) /\ run = {} /\ info = [s \in Slave |-> IdleInfo]
  BY DEF Init
<1> DEFINE n == Cardinality(Slave)
<1>2. n \in Nat /\ ready \in [1 .. n -> Slave] /\ IsInjective(ready)
  <2>1. n \in Nat /\ ExistsBijection(1 .. n, Slave)
    BY FS_CardinalityType, FlusherAssumption
  <2> HIDE DEF n
  <2>2. \E f \in [1 .. n -> Slave] : IsInjective(f)
    BY <2>1 DEF ExistsBijection, Bijection, Injection
  <2>3. ready = CHOOSE f \in [1 .. n -> Slave] : IsInjective(f)
    BY <1>1 DEF SetToSeq, n
  <2> QED BY <2>1, <2>2, <2>3
<1> HIDE DEF n
<1>3. /\ ready \in Seq(Slave) /\ Len(ready) = n
      /\ \A a, b \in 1 .. Len(ready) : ready[a] = ready[b] => a = b
  BY <1>2 DEF IsInjective
<1>4. /\ IdleInfo \in Info /\ IdleInfo.work = <<>> /\ IdleInfo.i = 0
      /\ IdleInfo.pc = "sleep"
  BY DEF IdleInfo, Info
<1>5. /\ info \in [Slave -> Info]
      /\ \A s \in Slave : info[s].work = <<>> /\ info[s].i = 0 /\ info[s].pc = "sleep"
  BY <1>1, <1>4
<1>6. groups \in Seq(Group) /\ Len(groups) = 0 /\ \A g \in 1 .. Len(groups) : FALSE
  BY <1>1
<1>7. TypeOK
  BY <1>1, <1>3, <1>5, <1>6 DEF TypeOK, Pc
<1>8. Lists
  BY <1>1, <1>3, <1>5 DEF Lists
<1>9. Running
  BY <1>1, <1>6 DEF Running, InGroup
<1>10. Pending(groups, info, cursor)
  <2>1. \A s \in Slave : \A k \in Left(info, s) : FALSE
    <3> TAKE s \in Slave
    <3>1. Left(info, s) = 1 .. 0
      BY <1>5 DEF Left
    <3> QED BY <3>1
  <2> QED BY <2>1 DEF Pending
<1>11. Apart(groups) /\ AtCursor(groups, cursor)
  BY <1>1, <1>6 DEF Apart, AtCursor
<1> QED
  BY <1>7, <1>8, <1>9, <1>10, <1>11 DEF IInv

LEMMA NextInv ==
  ASSUME IInv, [Next]_vars
  PROVE  IInv'
<1>1. CASE UNCHANGED vars
  BY <1>1 DEF vars, gvars, mst, slv, IInv, TypeOK, Lists, Running, Apart, Pending,
              Left, AtCursor
<1>2. CASE Next
  <2>1. mpc # "freed"
    BY <1>2 DEF Next
  <2>2. ASSUME NEW i \in Inode, NEW sig \in BOOLEAN, FlushInode(i, sig) PROVE IInv'
    BY <2>1, <2>2, FlushInodeStep
  <2>3. ASSUME NEW c \in Client, Waiter(c) PROVE IInv'
    BY <2>1, <2>3, ClientStep, UnmountStep DEF Waiter
  <2>4. CASE MasterStep
    BY <2>1, <2>4, MasterStep1, PickGroupStep, AssignStep, AssignEndStep,
       MasterFinalizeStep DEF MasterStep
  <2>5. ASSUME NEW s \in Slave, SlaveStep(s) PROVE IInv'
    BY <2>1, <2>5, SlaveFlushedStep, SlaveStep1, SlaveDoneStep DEF SlaveStep
  <2>6. CASE MediaError
    BY <2>1, <2>6, MasterStep1
  <2> QED BY <1>2, <2>2, <2>3, <2>4, <2>5, <2>6 DEF Next
<1> QED
  BY <1>1, <1>2

(* The inductive invariant of the flusher: the slaves' lists, the running  *)
(* group and its cursor, and what every slave has left to flush.           *)
THEOREM Invariant == Spec => []IInv
<1>1. Init => IInv
  BY InitInv
<1>2. IInv /\ [Next]_vars => IInv'
  BY NextInv
<1> QED
  BY <1>1, <1>2, PTL DEF Spec

LEMMA Exclusive ==
  ASSUME IInv
  PROVE  GroupsExclusive
<1>1. groups \in Seq(Group) /\ DOMAIN groups = 1 .. Len(groups)
  BY Facts
<1>2. ASSUME NEW g \in DOMAIN groups, NEW h \in DOMAIN groups, g # h,
             NEW i \in Queued(g) \cap Queued(h)
      PROVE  FALSE
  <2>1. PICK a \in 1 .. Len(groups[g].ips) : groups[g].ips[a] = i
    BY <1>2 DEF Queued, Contains
  <2>2. PICK b \in 1 .. Len(groups[h].ips) : groups[h].ips[b] = i
    BY <1>2 DEF Queued, Contains
  <2>3. groups[g].ips[a] = groups[h].ips[b] /\ g \in 1 .. Len(groups)
        /\ h \in 1 .. Len(groups)
    BY <1>1, <2>1, <2>2
  <2> QED BY <1>2, <2>3 DEF IInv, Apart
<1>3. ASSUME NEW i, Len(groups) >= 1, NEW a \in 1 .. Len(groups[1].ips),
             groups[1].ips[a] = i
      PROVE  i \in Queued(1)
  <2>1. groups[1] \in Group
    BY <1>1, <1>3
  <2>2. i \in Inode
    BY <1>3, <2>1, GroupType
  <2> QED BY <1>3, <2>2 DEF Queued, Contains
<1>4. ASSUME NEW s \in run, NEW k \in info[s].i + 1 .. Len(info[s].work)
      PROVE  /\ info[s].work[k] \in Queued(1)
             /\ \A r \in run \ {s} : \A j \in info[r].i + 1 .. Len(info[r].work) :
                  info[r].work[j] # info[s].work[k]
  <2>1. s \in Slave /\ k \in Left(info, s)
    BY <1>4, Facts DEF Left
  <2>2. /\ Len(groups) >= 1
        /\ \E a \in 1 .. Len(groups[1].ips) : groups[1].ips[a] = info[s].work[k]
    BY <2>1 DEF IInv, Pending
  <2>3. info[s].work[k] \in Queued(1)
    BY <1>3, <2>2
  <2>4. ASSUME NEW r \in run \ {s}, NEW j \in info[r].i + 1 .. Len(info[r].work)
        PROVE  info[r].work[j] # info[s].work[k]
    <3>1. r \in Slave /\ r # s /\ j \in Left(info, r)
      BY <2>4, Facts DEF Left
    <3> QED BY <2>1, <3>1 DEF IInv, Pending
  <2> QED BY <2>3, <2>4
<1>5. nextGroup > 0 => ~groups[nextGroup].running
  BY DEF IInv, Running
<1>6. \A g \in DOMAIN groups : groups[g].running => g = 1
  BY <1>1 DEF IInv, Running
<1>7. cursor # None => mpc \in {"assign", "freed"} /\ cursor \in Queued(1)
  <2>1. ASSUME cursor # None PROVE cursor \in Queued(1)
    BY <1>3, <2>1 DEF IInv, AtCursor
  <2> QED BY <2>1 DEF IInv, Running
<1>8. mpc \in {"flock", "fwork"} => run = {}
  BY DEF IInv, Lists
<1>9. \A g, h \in DOMAIN groups : g # h => Queued(g) \cap Queued(h) = {}
  BY <1>2
<1> QED
  BY <1>4, <1>5, <1>6, <1>7, <1>8, <1>9 DEF GroupsExclusive

(* However many slaves, inodes and groups there are: an inode is in one    *)
(* group and with one slave at a time, the running group takes no inode,   *)
(* the master's next_ip stays on the list, and the final finalization of a *)
(* group sees no slave at work.                                            *)
THEOREM GroupsAreExclusive == Spec => []GroupsExclusive
<1>1. IInv => GroupsExclusive
  BY Exclusive
<1> QED
  BY <1>1, Invariant, PTL
-----------------------------------------------------------------------------
(***************************************************************************)
(* hammer_flusher_sync() for any number of inodes, slaves and clients:     *)
(* when its wait ends, everything queued before the call is flushed; and   *)
(* the unmount, which syncs until nothing is left, needs three of them.    *)
(*                                                                         *)
(* The sequence number a caller awaits counts the groups ahead of it.  The *)
(* proof keeps, for every waiting caller, the number m of cycles that are  *)
(* still to begin before the one it awaits; what it waits for is in the    *)
(* first m groups, or m + 1 while a cycle is at work on the first.         *)
(***************************************************************************)
(* The master is in a cycle that has not yet removed its group.            *)
Inside   == {"pick", "freed"} \union InGroup
Ahead(p) == IF p \in Inside THEN 1 ELSE 0

(* Between two cycles.                                                     *)
Between  == {"cycle", "sleep", "wake", "exit"}
Awaiting == {"sleep", "check", "dsleep", "dcheck"}
Leaving  == {"drain", "dsleep", "dcheck", "kill", "gone"}

Seqno    == 0 .. SeqSpan - 1
Caller   == [pc : {"idle", "sleep", "check", "drain", "dsleep", "dcheck", "kill", "gone"},
             seq : Seqno, tries : Nat]

(* There are never as many groups as half of the sequence numbers.         *)
Roomy == IsFiniteSet(Inode) /\ Cardinality(Inode) + 4 < SeqSpan \div 2

Cycles ==
  /\ act \in Seqno /\ next = Inc(act) /\ done \in Seqno
  /\ mpc \in Between => done = act
  /\ mpc \notin Between \union {"freed"} => act = Inc(done)
  /\ mpc = "freed" => done = act \/ act = Inc(done)

Callers ==
  /\ cl \in [Client -> Caller] /\ pend \in [Client -> SUBSET Inode]
  /\ critErr \in BOOLEAN
  /\ \A c, d \in Client : cl[c].pc \in Leaving /\ d # c => cl[d].pc = "idle"

(* While the master lives every slave is ready or at work.                 *)
Manned == td => \A s \in Slave : s \in run \/ \E a \in 1 .. Len(ready) : ready[a] = s

RunsNow == \A g \in 1 .. Len(groups) : groups[g].running => mpc \in Inside \/ critErr

(* At most one group has no inode before it runs, and it is the next to    *)
(* take one.                                                               *)
Vacant(G, g) == ~G[g].running /\ G[g].ips = <<>>
Filled(G, n) ==
  \A g \in 1 .. Len(G) : Vacant(G, g) =>
    /\ n > 0 /\ n =< g /\ G[g].total = 0
    /\ \A h \in 1 .. Len(G) : Vacant(G, h) => h = g

(* Inode i is in one of the first n groups.                                *)
Within(G, i, n) ==
  \E g \in 1 .. Len(G) : g =< n /\ \E a \in 1 .. Len(G[g].ips) : G[g].ips[a] = i

Promise(c) ==
  (~critErr /\ pend[c] # {}) =>
    /\ cl[c].pc \in Awaiting
    /\ \E m \in Nat : /\ m + 2 < SeqSpan \div 2
                      /\ cl[c].seq = (next + m) % SeqSpan
                      /\ \A i \in pend[c] : Within(groups, i, m + Ahead(mpc))

SInv ==
  /\ Cycles /\ Callers /\ Manned /\ RunsNow /\ Filled(groups, nextGroup)
  /\ \A c \in Client : Promise(c)
-----------------------------------------------------------------------------
(* Sequence numbers.                                                       *)

LEMMA Span ==
  ASSUME Roomy
  PROVE  /\ SeqSpan \in Nat /\ SeqSpan \div 2 \in Nat /\ 2 * (SeqSpan \div 2) =< SeqSpan
         /\ Cardinality(Inode) \in Nat /\ SeqSpan > 8
<1>1. SeqSpan \in Nat /\ Cardinality(Inode) \in Nat
  BY FlusherAssumption, FS_CardinalityType DEF Roomy
<1>2. SeqSpan \div 2 \in Nat /\ 2 * (SeqSpan \div 2) =< SeqSpan
  BY <1>1
<1> QED
  BY <1>1, <1>2 DEF Roomy

LEMMA Plus ==
  ASSUME Roomy, NEW a \in Seqno, NEW m \in Seqno
  PROVE  /\ (a + m) % SeqSpan \in Seqno
         /\ (a + m) % SeqSpan = IF a + m < SeqSpan THEN a + m ELSE a + m - SeqSpan
BY Span DEF Seqno

LEMMA IncNumber ==
  ASSUME Roomy, NEW n \in Seqno
  PROVE  Inc(n) \in Seqno /\ Inc(n) = IF n + 1 = SeqSpan THEN 0 ELSE n + 1
BY Span DEF Inc, Seqno

LEMMA Minus ==
  ASSUME Roomy, NEW g \in Seqno, NEW a \in Seqno
  PROVE  (g - a) % SeqSpan = IF g >= a THEN g - a ELSE g - a + SeqSpan
BY Span DEF Seqno

(* A cycle begins: the number awaited is one closer.                       *)
LEMMA Closer ==
  ASSUME Roomy, NEW a \in Seqno, NEW m \in Seqno, m >= 1
  PROVE  (Inc(a) + (m - 1)) % SeqSpan = (a + m) % SeqSpan
<1>1. Inc(a) \in Seqno /\ Inc(a) = IF a + 1 = SeqSpan THEN 0 ELSE a + 1
  BY IncNumber
<1>2. m - 1 \in Seqno
  BY Span DEF Seqno
<1>3. (a + m) % SeqSpan = IF a + m < SeqSpan THEN a + m ELSE a + m - SeqSpan
  BY Plus
<1>4. (Inc(a) + (m - 1)) % SeqSpan =
        IF Inc(a) + (m - 1) < SeqSpan THEN Inc(a) + (m - 1)
                                      ELSE Inc(a) + (m - 1) - SeqSpan
  BY <1>1, <1>2, Plus
<1> QED
  BY <1>1, <1>3, <1>4, Span DEF Seqno

(* With m cycles to begin before it, the number awaited is after done.     *)
LEMMA Later ==
  ASSUME Roomy, NEW d \in Seqno, NEW n \in Seqno, n = Inc(d) \/ n = Inc(Inc(d)),
         NEW m \in Nat, m + 2 < SeqSpan \div 2
  PROVE  after((n + m) % SeqSpan, d)
<1>1. /\ SeqSpan \in Nat /\ SeqSpan \div 2 \in Nat /\ 2 * (SeqSpan \div 2) =< SeqSpan
      /\ SeqSpan > 8
  BY Span
<1>2. Inc(d) \in Seqno /\ Inc(d) = IF d + 1 = SeqSpan THEN 0 ELSE d + 1
  BY IncNumber
<1>3. Inc(Inc(d)) = IF Inc(d) + 1 = SeqSpan THEN 0 ELSE Inc(d) + 1
  BY <1>2, IncNumber
<1>4. m \in Seqno
  BY <1>1 DEF Seqno
<1> DEFINE s == (n + m) % SeqSpan
<1>5. s \in Seqno /\ s = IF n + m < SeqSpan THEN n + m ELSE n + m - SeqSpan
  BY <1>4, Plus
<1> HIDE DEF s
<1>6. (s - d) % SeqSpan = IF s >= d THEN s - d ELSE s - d + SeqSpan
  BY <1>5, Minus
<1> DEFINE h == SeqSpan \div 2
<1>7. h \in Nat /\ 2 * h =< SeqSpan /\ m + 2 < h
  BY <1>1
<1> HIDE DEF h
<1>8. (s - d) % SeqSpan = m + 1 \/ (s - d) % SeqSpan = m + 2
  BY <1>1, <1>2, <1>3, <1>5, <1>6, <1>7 DEF Seqno
<1>9. (s - d) % SeqSpan \in 1 .. h - 1
  BY <1>7, <1>8
<1> QED
  BY <1>9 DEF after, s, h
-----------------------------------------------------------------------------
(* The number of groups.                                                   *)

LEMMA Typed ==
  ASSUME IInv, NEW g \in 1 .. Len(groups)
  PROVE  /\ groups[g] \in Group /\ groups[g].ips \in Seq(Inode)
         /\ Len(groups[g].ips) \in Nat
         /\ \A a \in 1 .. Len(groups[g].ips) : groups[g].ips[a] \in Inode
<1>1. groups[g] \in Group
  BY Facts
<1> QED
  BY <1>1, GroupType

LEMMA UpTo ==
  ASSUME NEW n \in Nat
  PROVE  Cardinality(1 .. n) = n /\ (n >= 1 => Cardinality(2 .. n) = n - 1)
<1>1. Cardinality(1 .. n) = IF 1 > n THEN 0 ELSE n - 1 + 1
  BY FS_Interval
<1>2. Cardinality(2 .. n) = IF 2 > n THEN 0 ELSE n - 2 + 1
  BY FS_Interval
<1> QED
  BY <1>1, <1>2

(* A group runs, or has an inode of its own, or is the vacant one.         *)
LEMMA GroupBound ==
  ASSUME Roomy, IInv, Filled(groups, nextGroup)
  PROVE  Len(groups) =< Cardinality(Inode) + 2
<1> DEFINE L == Len(groups)
           S == {g \in 1 .. L : groups[g].ips # <<>>}
           f == [g \in S |-> groups[g].ips[1]]
<1>1. L \in Nat
  BY Facts
<1>2. \A g \in S : 1 \in 1 .. Len(groups[g].ips) /\ groups[g].ips[1] \in Inode
  <2> TAKE g \in S
  <2>1. g \in 1 .. L /\ groups[g].ips # <<>>
    OBVIOUS
  <2>2. groups[g].ips \in Seq(Inode) /\ Len(groups[g].ips) \in Nat
    BY <2>1, Typed
  <2>3. Len(groups[g].ips) >= 1 /\ groups[g].ips[1] \in Inode
    BY <2>1, <2>2, Tailed
  <2> QED BY <2>2, <2>3
<1>3. f \in Injection(S, Inode)
  <2>1. f \in [S -> Inode]
    BY <1>2
  <2>2. ASSUME NEW g \in S, NEW h \in S, f[g] = f[h] PROVE g = h
    <3>1. groups[g].ips[1] = groups[h].ips[1] /\ g \in 1 .. L /\ h \in 1 .. L
      BY <2>2
    <3> QED BY <1>2, <3>1 DEF IInv, Apart
  <2> QED BY <2>1, <2>2 DEF Injection, IsInjective
<1> HIDE DEF f
<1>4. IsFiniteSet(S) /\ Cardinality(S) =< Cardinality(Inode) /\ Cardinality(S) \in Nat
  BY <1>3, FS_Injection, FS_CardinalityType DEF Roomy
<1>5. PICK e : \A g \in 1 .. L : Vacant(groups, g) => g = e
  BY DEF Filled
<1>6. 1 .. L \in SUBSET ((S \cup {1}) \cup {e})
  <2> SUFFICES ASSUME NEW g \in 1 .. L, g \notin S, g # 1 PROVE g = e
    OBVIOUS
  <2>1. ~groups[g].running
    BY DEF IInv, Running
  <2> QED BY <1>5, <2>1 DEF Vacant
<1> HIDE DEF S
<1>7. /\ IsFiniteSet(S \cup {1})
      /\ Cardinality(S \cup {1}) = IF 1 \in S THEN Cardinality(S) ELSE Cardinality(S) + 1
  BY <1>4, FS_AddElement
<1>8. Cardinality(S \cup {1}) \in Nat /\ Cardinality(S \cup {1}) =< Cardinality(S) + 1
  BY <1>4, <1>7
<1> DEFINE T == S \cup {1}
<1>9. /\ IsFiniteSet(T \cup {e})
      /\ Cardinality(T \cup {e}) = IF e \in T THEN Cardinality(T) ELSE Cardinality(T) + 1
  BY <1>7, FS_AddElement
<1>10. Cardinality(T \cup {e}) \in Nat /\ Cardinality(T \cup {e}) =< Cardinality(S) + 2
  BY <1>4, <1>8, <1>9
<1>11. Cardinality(1 .. L) =< Cardinality(T \cup {e})
  BY <1>6, <1>9, FS_Subset
<1>12. Cardinality(1 .. L) = L
  BY <1>1, UpTo
<1> QED
  BY <1>1, <1>4, <1>10, <1>11, <1>12, Span

(* The sequence number of a sync: the groups that do not run yet.          *)
Waiting == {k \in 1 .. Len(groups) : ~groups[k].running}

LEMMA Counted ==
  ASSUME Roomy, IInv, RunsNow
  PROVE  /\ Cardinality(Waiting) \in Nat /\ Cardinality(Waiting) =< Len(groups)
         /\ ~critErr => Len(groups) =< Cardinality(Waiting) + Ahead(mpc)
<1> DEFINE L == Len(groups)
<1>1. L \in Nat
  BY Facts
<1>2. CASE \A k \in 1 .. L : ~groups[k].running
  <2>1. Waiting = 1 .. L
    BY <1>2 DEF Waiting
  <2>2. Cardinality(Waiting) = L
    BY <1>1, <2>1, UpTo
  <2>3. Ahead(mpc) \in Nat
    BY DEF Ahead
  <2> QED BY <1>1, <2>2, <2>3
<1>3. CASE ~ \A k \in 1 .. L : ~groups[k].running
  <2>1. 1 \in 1 .. L /\ groups[1].running /\ \A k \in 1 .. L : groups[k].running <=> k = 1
    BY <1>3 DEF IInv, Running
  <2>2. Waiting = 2 .. L
    BY <1>1, <2>1 DEF Waiting
  <2>3. Cardinality(Waiting) = L - 1 /\ L >= 1
    BY <1>1, <2>1, <2>2, UpTo
  <2>4. ~critErr => Ahead(mpc) = 1
    BY <2>1 DEF RunsNow, Ahead
  <2> QED BY <1>1, <2>3, <2>4
<1> QED
  BY <1>2, <1>3
-----------------------------------------------------------------------------
(* What keeps a promise.                                                   *)

(* Nothing that client c waits for moves back in the groups.               *)
LEMMA PromiseKept ==
  ASSUME NEW c \in Client, Promise(c), next' = next, critErr => critErr',
         mpc \in Inside => mpc' \in Inside \/ critErr' \/ groups = <<>>,
         pend'[c] \subseteq pend[c],
         ~critErr' /\ pend'[c] # {} =>
           cl'[c].pc \in Awaiting /\ cl'[c].seq = cl[c].seq,
         ~critErr' => \A i \in pend'[c] : \A n \in Nat :
                        Within(groups, i, n) => Within(groups', i, n)
  PROVE  Promise(c)'
<1> SUFFICES ASSUME ~critErr', pend'[c] # {}
             PROVE  /\ cl'[c].pc \in Awaiting
                    /\ \E m \in Nat :
                         /\ m + 2 < SeqSpan \div 2
                         /\ cl'[c].seq = (next' + m) % SeqSpan
                         /\ \A i \in pend'[c] : Within(groups', i, m + Ahead(mpc'))
  BY DEF Promise
<1>1. PICK m \in Nat : /\ m + 2 < SeqSpan \div 2
                       /\ cl[c].seq = (next + m) % SeqSpan
                       /\ \A i \in pend[c] : Within(groups, i, m + Ahead(mpc))
  BY DEF Promise
<1>2. Ahead(mpc) = 0 \/ (Ahead(mpc) = 1 /\ mpc \in Inside)
  BY DEF Ahead
<1>3. Ahead(mpc') = 0 \/ Ahead(mpc') = 1
  BY DEF Ahead
<1>4. ASSUME NEW i \in pend'[c] PROVE Within(groups', i, m + Ahead(mpc'))
  <2>1. Within(groups, i, m + Ahead(mpc)) /\ m + Ahead(mpc) \in Nat
    BY <1>1, <1>2, <1>4
  <2>2. Within(groups', i, m + Ahead(mpc))
    BY <1>4, <2>1
  <2>3. groups # <<>>
    <3>1. groups = <<>> => Len(groups) = 0 /\ \A g \in 1 .. 0 : FALSE
      OBVIOUS
    <3> QED BY <2>1, <3>1 DEF Within
  <2>4. Ahead(mpc) =< Ahead(mpc')
    <3>1. mpc \in Inside => mpc' \in Inside
      BY <2>3
    <3> QED BY <3>1 DEF Ahead
  <2>5. PICK g \in 1 .. Len(groups') :
          g =< m + Ahead(mpc) /\ \E a \in 1 .. Len(groups'[g].ips) : groups'[g].ips[a] = i
    BY <2>2 DEF Within
  <2>6. g =< m + Ahead(mpc')
    BY <1>2, <1>3, <2>4, <2>5
  <2> QED BY <2>5, <2>6 DEF Within
<1>5. cl'[c].seq = (next' + m) % SeqSpan
  BY <1>1
<1> QED
  BY <1>1, <1>4, <1>5

(* What a step has to establish that keeps every promise that way.         *)
LEMMA Preserved ==
  ASSUME SInv, Cycles', Callers', Manned', Filled(groups', nextGroup'),
         next' = next, critErr => critErr',
         mpc \in Inside => mpc' \in Inside \/ critErr' \/ groups = <<>>,
         \A g \in 1 .. Len(groups') : groups'[g].running =>
           mpc' \in Inside \/ \E h \in 1 .. Len(groups) : groups[h].running,
         \A c \in Client :
           /\ pend'[c] \subseteq pend[c]
           /\ ~critErr' /\ pend'[c] # {} =>
                cl'[c].pc \in Awaiting /\ cl'[c].seq = cl[c].seq
           /\ ~critErr' => \A i \in pend'[c] : \A n \in Nat :
                             Within(groups, i, n) => Within(groups', i, n)
  PROVE  SInv'
<1>1. ASSUME NEW c \in Client PROVE Promise(c)'
  <2>1. Promise(c)
    BY DEF SInv
  <2> QED BY <1>1, <2>1, PromiseKept
<1>2. RunsNow'
  <2> SUFFICES ASSUME NEW g \in 1 .. Len(groups'), groups'[g].running, mpc' \notin Inside,
                      ~critErr'
               PROVE  FALSE
    BY DEF RunsNow
  <2>1. PICK h \in 1 .. Len(groups) : groups[h].running
    OBVIOUS
  <2>2. mpc \in Inside /\ groups # <<>>
    <3>1. groups = <<>> => Len(groups) = 0 /\ \A k \in 1 .. 0 : FALSE
      OBVIOUS
    <3> QED BY <2>1, <3>1 DEF SInv, RunsNow
  <2> QED BY <2>2
<1> QED
  BY <1>1, <1>2 DEF SInv

(* The promise is enough: the wait does not end while anything is left.    *)
LEMMA Kept ==
  ASSUME Roomy, SInv, NEW c \in Client, ~critErr, pend[c] # {}
  PROVE  after(cl[c].seq, done) /\ cl[c].pc \in Awaiting
<1>1. PICK m \in Nat : m + 2 < SeqSpan \div 2 /\ cl[c].seq = (next + m) % SeqSpan
  BY DEF SInv, Promise
<1>2. done \in Seqno /\ act \in Seqno /\ next = Inc(act) /\ (done = act \/ act = Inc(done))
  BY DEF SInv, Cycles
<1>3. next \in Seqno
  BY <1>2, IncNumber
<1>4. next = Inc(done) \/ next = Inc(Inc(done))
  BY <1>2
<1>5. after((next + m) % SeqSpan, done)
  BY <1>1, <1>2, <1>3, <1>4, Later
<1> QED
  BY <1>1, <1>5 DEF SInv, Promise

-----------------------------------------------------------------------------
(* What happens to the groups.                                             *)

LEMMA ClosedTotal ==
  ASSUME NEW G \in Seq(Group), NEW n \in Int
  PROVE  \A g \in 1 .. Len(G) : close(G, n)[g].total = G[g].total
<1>1. ASSUME NEW x \in Group PROVE [x EXCEPT !.closed = TRUE].total = x.total
  BY DEF Group
<1>2. \A g \in 1 .. Len(G) : G[g] \in Group
  OBVIOUS
<1>3. close(G, n) = [g \in 1 .. Len(G) |-> IF g =< n THEN [G[g] EXCEPT !.closed = TRUE]
                                                     ELSE G[g]]
  BY DEF close
<1> QED
  BY <1>1, <1>2, <1>3

LEMMA FilledKept ==
  ASSUME NEW G, NEW H, NEW n, Filled(G, n), Len(H) = Len(G),
         \A g \in 1 .. Len(H) : Vacant(H, g) => Vacant(G, g) /\ H[g].total = G[g].total
  PROVE  Filled(H, n)
BY DEF Filled

(* hammer_flush_inode() starts a group only when none is vacant.           *)
LEMMA PickFilled ==
  ASSUME NEW G \in Seq(Group), nextGroup \in 0 .. Len(G), Filled(G, nextGroup)
  PROVE  Filled(pick(G).groups, pick(G).k)
<1> DEFINE fit  == {k \in 1 .. Len(G) : nextGroup > 0 /\ k >= nextGroup
                                         /\ G[k].total =< GroupLimit}
           k    == IF fit = {} THEN Len(G) + 1
                   ELSE CHOOSE k \in fit : \A j \in fit : k =< j
           full == nextGroup > 0 /\ k # nextGroup
           G1   == IF full THEN close(G, k - 1) ELSE G
           H    == IF fit = {} THEN Append(G1, NewGroup) ELSE G1
<1>1. pick(G).groups = H /\ pick(G).k = k
  BY DEF pick
<1>2. Len(G) \in Nat /\ nextGroup \in Nat
  OBVIOUS
<1>3. \A g \in 1 .. Len(G) : Vacant(G, g) => g \in fit
  BY <1>2, FlusherAssumption DEF Filled
<1>4. /\ fit = {} => k = Len(G) + 1
      /\ fit # {} => k \in 1 .. Len(G) /\ \A j \in fit : k =< j
  <2>1. CASE fit = {}
    BY <2>1
  <2>2. CASE fit # {}
    <3>1. fit \subseteq Nat
      BY <1>2
    <3>2. k \in fit /\ \A j \in fit : k =< j
      BY <2>2, <3>1, ChooseLeast
    <3> HIDE DEF k
    <3> QED BY <2>2, <3>2
  <2> QED BY <2>1, <2>2
<1>5. k \in Int
  BY <1>2, <1>4
<1> HIDE DEF fit, k
<1>6. /\ G1 \in Seq(Group) /\ Len(G1) = Len(G)
      /\ \A g \in 1 .. Len(G) : /\ G1[g].ips = G[g].ips /\ G1[g].running = G[g].running
                                /\ G1[g].total = G[g].total
  <2>1. k - 1 \in Int
    BY <1>5
  <2> QED BY <2>1, Closed, ClosedTotal
<1> HIDE DEF G1
<1>7. CASE fit = {}
  <2>1. NewGroup \in Group /\ NewGroup.total = 0
    BY DEF NewGroup, Group
  <2>2. /\ H = Append(G1, NewGroup) /\ Len(H) = Len(G) + 1
        /\ H[Len(G) + 1] = NewGroup /\ \A g \in 1 .. Len(G) : H[g] = G1[g]
    BY <1>6, <1>7, <2>1
  <2> HIDE DEF H
  <2>3. \A g \in 1 .. Len(H) : g \in 1 .. Len(G) \/ g = Len(G) + 1
    BY <1>2, <2>2
  <2>4. \A g \in 1 .. Len(G) : ~Vacant(H, g)
    BY <1>3, <1>6, <1>7, <2>2 DEF Vacant
  <2>5. k > 0 /\ k = Len(G) + 1 /\ k =< Len(G) + 1
    BY <1>2, <1>4, <1>7
  <2>6. Filled(H, k)
    BY <2>1, <2>2, <2>3, <2>4, <2>5 DEF Filled
  <2> QED BY <1>1, <2>6
<1>8. CASE fit # {}
  <2>1. H = G1
    BY <1>8
  <2> HIDE DEF H
  <2>2. \A g \in 1 .. Len(H) : Vacant(H, g) => Vacant(G, g) /\ H[g].total = G[g].total
    BY <1>6, <2>1 DEF Vacant
  <2>3. Len(H) = Len(G) /\ k > 0
    BY <1>2, <1>4, <1>6, <1>8, <2>1
  <2>4. Filled(H, k)
    <3> SUFFICES ASSUME NEW g \in 1 .. Len(H), Vacant(H, g)
                 PROVE  /\ k > 0 /\ k =< g /\ H[g].total = 0
                        /\ \A h \in 1 .. Len(H) : Vacant(H, h) => h = g
      BY DEF Filled
    <3>1. Vacant(G, g) /\ H[g].total = G[g].total /\ g \in 1 .. Len(G)
      BY <2>2, <2>3
    <3>2. k =< g
      BY <1>3, <1>4, <1>8, <3>1
    <3> QED BY <2>2, <2>3, <3>1, <3>2 DEF Filled
  <2> QED BY <1>1, <2>4
<1> QED
  BY <1>7, <1>8

LEMMA QueueFilled ==
  ASSUME NEW G \in Seq(Group), nextGroup \in 0 .. Len(G), Filled(G, nextGroup),
         \A g \in 1 .. Len(G) : G[g].running => g = 1,
         nextGroup > 0 => ~G[nextGroup].running,
         NEW i \in Inode, NEW sig \in BOOLEAN, NEW X,
         X = core(pick(G), i) \/ X = pick(G).groups,
         Queue(pick(G), X, sig)
  PROVE  Filled(groups', nextGroup')
<1> DEFINE p == pick(G)
           P == p.groups
           k == p.k
<1>1. P \in Seq(Group) /\ k \in 1 .. Len(P) /\ Filled(P, k)
  BY Picked, PickFilled
<1> HIDE DEF p
<1>2. groups' = (IF sig THEN close(X, k) ELSE X) /\ nextGroup' = k
  BY DEF Queue, p
<1>3. X \in Seq(Group) /\ Filled(X, k)
  <2>1. CASE X = P
    BY <1>1, <2>1
  <2>2. CASE X = core(p, i)
    <3>1. /\ X \in Seq(Group) /\ Len(X) = Len(P)
          /\ \A g \in 1 .. Len(P) : g # k => X[g] = P[g]
          /\ X[k].ips = Append(P[k].ips, i)
      BY <1>1, <2>2, Core
    <3>2. X[k].ips # <<>>
      <4>1. P[k] \in Group
        BY <1>1
      <4>2. PICK q \in Seq(Inode) : q = P[k].ips
        BY <4>1, GroupType
      <4>3. Append(q, i) # <<>>
        OBVIOUS
      <4> QED BY <3>1, <4>2, <4>3
    <3>3. \A g \in 1 .. Len(X) : Vacant(X, g) => Vacant(P, g) /\ X[g].total = P[g].total
      BY <3>1, <3>2 DEF Vacant
    <3> QED BY <1>1, <3>1, <3>3, FilledKept
  <2> QED BY <2>1, <2>2 DEF p
<1>4. CASE sig
  <2>1. k \in Int
    BY <1>1
  <2>2. /\ Len(close(X, k)) = Len(X)
        /\ \A g \in 1 .. Len(X) : /\ close(X, k)[g].ips = X[g].ips
                                  /\ close(X, k)[g].running = X[g].running
                                  /\ close(X, k)[g].total = X[g].total
    BY <1>3, <2>1, Closed, ClosedTotal
  <2>3. \A g \in 1 .. Len(close(X, k)) :
          Vacant(close(X, k), g) => Vacant(X, g) /\ close(X, k)[g].total = X[g].total
    BY <2>2 DEF Vacant
  <2>4. Filled(close(X, k), k)
    BY <1>3, <2>2, <2>3, FilledKept
  <2> QED BY <1>2, <1>4, <2>4
<1>5. CASE ~sig
  BY <1>2, <1>3, <1>5
<1> QED
  BY <1>4, <1>5

LEMMA JoinedWithin ==
  ASSUME NEW G \in Seq(Group), NEW H, NEW k, NEW j, Joined(G, H, k, j)
  PROVE  /\ \A i : \A n \in Nat : Within(G, i, n) => Within(H, i, n)
         /\ \A g \in 1 .. Len(H) : H[g].running => g \in 1 .. Len(G) /\ G[g].running
<1>1. H \in Seq(Group) /\ Len(G) =< Len(H) /\ Len(G) \in Nat /\ Len(H) \in Nat
  BY DEF Joined
<1>2. ASSUME NEW i, NEW n \in Nat, Within(G, i, n) PROVE Within(H, i, n)
  <2>1. PICK g \in 1 .. Len(G) :
          g =< n /\ \E a \in 1 .. Len(G[g].ips) : G[g].ips[a] = i
    BY <1>2 DEF Within
  <2>2. PICK a \in 1 .. Len(G[g].ips) : G[g].ips[a] = i
    BY <2>1
  <2>3. g \in 1 .. Len(H) /\ G[g] \in Group /\ H[g] \in Group
    BY <1>1
  <2>4. Len(G[g].ips) \in Nat /\ Len(H[g].ips) \in Nat
    BY <2>3, GroupType
  <2>5. Len(G[g].ips) =< Len(H[g].ips) /\ H[g].ips[a] = G[g].ips[a]
    BY DEF Joined
  <2>6. a \in 1 .. Len(H[g].ips)
    BY <2>4, <2>5
  <2> QED BY <2>1, <2>2, <2>3, <2>5, <2>6 DEF Within
<1>3. ASSUME NEW g \in 1 .. Len(H), H[g].running
      PROVE  g \in 1 .. Len(G) /\ G[g].running
  <2>1. g \in 1 .. Len(G) \/ g \in Len(G) + 1 .. Len(H)
    BY <1>1
  <2> QED BY <1>3, <2>1 DEF Joined
<1> QED
  BY <1>2, <1>3

(* TAILQ_REMOVE loses no other element.                                    *)
LEMMA RemoveOthers ==
  ASSUME NEW S, NEW s \in Seq(S), NEW k \in 1 .. Len(s),
         \A i \in 1 .. Len(s) : s[i] = s[k] => i = k,
         NEW b \in 1 .. Len(s), s[b] # s[k]
  PROVE  \E a \in 1 .. Len(RemoveFirst(s, s[k])) : RemoveFirst(s, s[k])[a] = s[b]
<1> DEFINE t == RemoveFirst(s, s[k])
<1>1. /\ Len(t) = Len(s) - 1
      /\ \A i \in 1 .. Len(t) : t[i] = IF i < k THEN s[i] ELSE s[i + 1]
  BY RemoveOne
<1> HIDE DEF t
<1>2. Len(s) \in Nat /\ b # k
  OBVIOUS
<1>3. CASE b < k
  <2>1. b \in 1 .. Len(t)
    BY <1>1, <1>2, <1>3
  <2> QED BY <1>1, <1>3, <2>1 DEF t
<1>4. CASE b > k
  <2>1. b - 1 \in 1 .. Len(t) /\ ~(b - 1 < k) /\ (b - 1) + 1 = b
    BY <1>1, <1>2, <1>4
  <2>2. t[b - 1] = s[(b - 1) + 1]
    BY <1>1, <2>1
  <2> QED BY <2>1, <2>2 DEF t
<1> QED
  BY <1>2, <1>3, <1>4
-----------------------------------------------------------------------------
(* The steps.  Most of them leave groups, numbers and callers alone.       *)

LEMMA Unmoved ==
  ASSUME IInv, SInv, mpc # "freed", UNCHANGED <<gvars, seqs, cl, pend>>, Manned',
         critErr' \in BOOLEAN, critErr => critErr',
         (mpc' # "freed" /\ (mpc' \in Between <=> mpc \in Between)) \/ mpc' = "freed",
         mpc \in Inside => mpc' \in Inside \/ critErr' \/ groups = <<>>
  PROVE  SInv'
<1>1. /\ groups' = groups /\ nextGroup' = nextGroup /\ cl' = cl /\ pend' = pend
      /\ act' = act /\ next' = next /\ done' = done
  BY DEF gvars, seqs
<1>2. Cycles'
  BY <1>1 DEF SInv, Cycles, Between
<1>3. Callers'
  BY <1>1 DEF SInv, Callers
<1>4. Filled(groups', nextGroup')
  BY <1>1 DEF SInv
<1>5. ASSUME NEW c \in Client, ~critErr', pend[c] # {} PROVE cl[c].pc \in Awaiting
  BY <1>5 DEF SInv, Promise
<1> QED
  BY <1>1, <1>2, <1>3, <1>4, <1>5, Preserved

LEMMA Crew ==
  ASSUME SInv, IInv, UNCHANGED <<ready, run, td>>
  PROVE  Manned'
BY DEF SInv, Manned

LEMMA StayInside ==
  ASSUME Stay, mpc # "freed"
  PROVE  /\ mpc' # "freed" /\ (mpc' \in Between <=> mpc \in Between)
         /\ mpc' \in Inside <=> mpc \in Inside
BY DEF Stay, Between, Inside, InGroup

LEMMA MasterStep2 ==
  ASSUME IInv, SInv, mpc # "freed",
         \/ PickNone \/ PickError \/ Join \/ MasterLock \/ Wake \/ MediaError
  PROVE  SInv'
<1>1. critErr \in BOOLEAN
  BY DEF SInv, Callers
<1>2. CASE PickNone
  <2>1. /\ mpc = "pick" /\ groups = <<>> /\ mpc' \in {"mlock", "done"}
        /\ UNCHANGED <<gvars, seqs, cl, pend, ready, run, td, critErr>>
    BY <1>2 DEF PickNone, slv, env
  <2> QED BY <1>1, <2>1, Unmoved, Crew DEF Between
<1>3. CASE PickError
  <2>1. /\ mpc = "pick" /\ critErr /\ mpc' = "done"
        /\ UNCHANGED <<gvars, seqs, cl, pend, ready, run, td, critErr>>
    BY <1>3 DEF PickError, slv, env
  <2> QED BY <1>1, <2>1, Unmoved, Crew DEF Between
<1>4. CASE Join
  <2>1. /\ mpc = "join" /\ mpc' = "flock"
        /\ UNCHANGED <<gvars, seqs, cl, pend, ready, run, td, critErr>>
    BY <1>4 DEF Join, slv, env
  <2> QED BY <1>1, <2>1, Unmoved, Crew DEF Between, Inside, InGroup
<1>5. CASE MasterLock
  <2>1. /\ mpc \in {"dlock", "flock", "mlock"} /\ mpc' = Working(mpc)
        /\ UNCHANGED <<gvars, seqs, cl, pend, ready, run, td, critErr>>
    BY <1>5 DEF MasterLock, slv, env
  <2>2. \/ mpc = "dlock" /\ mpc' = "dwork"
        \/ mpc = "flock" /\ mpc' = "fwork"
        \/ mpc = "mlock" /\ mpc' = "mwork"
    BY <2>1 DEF Working
  <2> QED BY <1>1, <2>1, <2>2, Unmoved, Crew DEF Between, Inside, InGroup
<1>6. CASE Wake
  <2>1. /\ mpc = "wake" /\ mpc' = "cycle"
        /\ UNCHANGED <<gvars, seqs, cl, pend, ready, run, td, critErr>>
    BY <1>6 DEF Wake, slv, env
  <2> QED BY <1>1, <2>1, Unmoved, Crew DEF Between, Inside, InGroup
<1>7. CASE MediaError
  <2>1. /\ mpc' = mpc /\ critErr' = TRUE
        /\ UNCHANGED <<gvars, seqs, cl, pend, ready, run, td>>
    BY <1>7 DEF MediaError, slv, mst
  <2> QED BY <2>1, Unmoved, Crew
<1> QED
  BY <1>2, <1>3, <1>4, <1>5, <1>6, <1>7

(* A slave leaves ready_list for run_list.                                 *)
LEMMA CrewStarts ==
  ASSUME IInv, SInv, ready # <<>>, ready' = Tail(ready),
         run' = run \union {Head(ready)}, td' = td
  PROVE  Manned'
<1> SUFFICES ASSUME td, NEW s \in Slave, s \notin run'
             PROVE  \E a \in 1 .. Len(ready') : ready'[a] = s
  BY DEF Manned
<1>1. /\ ready \in Seq(Slave) /\ Len(ready) \in Nat /\ Head(ready) = ready[1]
      /\ Len(ready') = Len(ready) - 1
      /\ \A a \in 1 .. Len(ready') : ready'[a] = ready[a + 1]
  BY Facts, Tailed
<1>2. PICK a \in 1 .. Len(ready) : ready[a] = s
  BY DEF SInv, Manned
<1>3. a # 1
  BY <1>1, <1>2
<1>4. a - 1 \in 1 .. Len(ready') /\ (a - 1) + 1 = a
  BY <1>1, <1>3
<1> QED
  BY <1>1, <1>2, <1>4

LEMMA AssignStep2 ==
  ASSUME IInv, SInv, Assign \/ AssignEnd
  PROVE  SInv'
<1>1. /\ mpc = "assign" /\ mpc' \in {"assign", "join"} /\ ready # <<>> /\ td' = td
      /\ UNCHANGED <<gvars, seqs, cl, pend, critErr>>
      /\ \/ ready' = Tail(ready) /\ run' = run \union {Head(ready)}
         \/ ready' = ready /\ run' = run
  BY DEF Assign, AssignEnd, start, slv, env
<1>2. Manned'
  BY <1>1, Crew, CrewStarts
<1>3. critErr \in BOOLEAN
  BY DEF SInv, Callers
<1> QED
  BY <1>1, <1>2, <1>3, Unmoved DEF Between, Inside, InGroup

LEMMA SlaveStep2 ==
  ASSUME NEW s \in Slave, IInv, SInv, mpc # "freed",
         \/ SlaveWouldBlock(s) \/ SlaveCheck(s) \/ SlaveLock(s) \/ SlaveFinalize(s)
         \/ SlaveDone(s)
  PROVE  SInv'
<1>1. /\ mpc' = mpc /\ td' = td /\ UNCHANGED <<gvars, seqs, cl, pend, critErr>>
      /\ \/ ready' = ready /\ run' = run
         \/ ready' = Append(ready, s) /\ run' = run \ {s}
  BY DEF SlaveWouldBlock, SlaveCheck, SlaveLock, SlaveFinalize, SlaveDone, mst, env
<1>2. Manned'
  <2>1. CASE ready' = Append(ready, s) /\ run' = run \ {s}
    <3> SUFFICES ASSUME td, NEW r \in Slave, r \notin run'
                 PROVE  \E a \in 1 .. Len(ready') : ready'[a] = r
      BY <1>1 DEF Manned
    <3>1. ready \in Seq(Slave) /\ Len(ready) \in Nat
      BY Facts
    <3>2. /\ Len(ready') = Len(ready) + 1 /\ ready'[Len(ready) + 1] = s
          /\ \A a \in 1 .. Len(ready) : ready'[a] = ready[a] /\ a \in 1 .. Len(ready')
          /\ Len(ready) + 1 \in 1 .. Len(ready')
      BY <2>1, <3>1
    <3>3. CASE r = s
      BY <3>2, <3>3
    <3>4. CASE r # s
      BY <2>1, <3>2, <3>4 DEF SInv, Manned
    <3> QED BY <3>3, <3>4
  <2> QED BY <1>1, <2>1, Crew
<1>3. critErr \in BOOLEAN
  BY DEF SInv, Callers
<1> QED
  BY <1>1, <1>2, <1>3, Unmoved

(* The group runs: it has left the ones that may be vacant.                *)
LEMMA RunGroupStep2 ==
  ASSUME IInv, SInv, RunGroup, mpc \in {"pick", "dwork"}, groups # <<>>,
         UNCHANGED <<seqs, ready, run, td, cl, pend, critErr>>
  PROVE  SInv'
<1>1. /\ groups \in Seq(Group) /\ Len(groups) \in Nat /\ nextGroup \in Nat
      /\ nextGroup =< Len(groups) /\ Len(groups) >= 1 /\ 1 \in 1 .. Len(groups)
  BY Facts, Tailed
<1>2. PICK z \in Group : z = groups[1]
  BY <1>1
<1> DEFINE y == [z EXCEPT !.running = TRUE]
<1>3. y \in Group /\ y.ips = z.ips /\ y.running = TRUE
  BY GroupUpdated, <1>2, GroupType
<1>4. groups' = [groups EXCEPT ![1] = y]
  BY <1>2 DEF RunGroup
<1> HIDE DEF y
<1>5. /\ Len(groups') = Len(groups) /\ groups'[1] = y
      /\ \A g \in 1 .. Len(groups) : g # 1 => groups'[g] = groups[g]
  BY <1>1, <1>3, <1>4
<1>6. \A g \in 1 .. Len(groups) : groups'[g].ips = groups[g].ips
  BY <1>2, <1>3, <1>5
<1>7. \A i : \A n \in Nat : Within(groups, i, n) => Within(groups', i, n)
  BY <1>5, <1>6 DEF Within
<1>8. Filled(groups', nextGroup')
  <2> SUFFICES ASSUME NEW g \in 1 .. Len(groups'), Vacant(groups', g)
               PROVE  /\ nextGroup' > 0 /\ nextGroup' =< g /\ groups'[g].total = 0
                      /\ \A h \in 1 .. Len(groups') : Vacant(groups', h) => h = g
    BY DEF Filled
  <2>1. \A h \in 1 .. Len(groups') :
          Vacant(groups', h) => h # 1 /\ Vacant(groups, h) /\ groups'[h] = groups[h]
    BY <1>3, <1>5 DEF Vacant
  <2>2. /\ nextGroup > 0 /\ nextGroup =< g /\ groups[g].total = 0 /\ g # 1
        /\ \A h \in 1 .. Len(groups) : Vacant(groups, h) => h = g
    BY <1>5, <2>1 DEF SInv, Filled
  <2>3. nextGroup' > 0 /\ nextGroup' =< g
    BY <1>1, <1>5, <2>2 DEF RunGroup, next_group
  <2> QED BY <1>5, <2>1, <2>2, <2>3
<1>9. mpc' = "assign"
  BY DEF RunGroup
<1>10. Cycles'
  BY <1>9 DEF SInv, Cycles, seqs, Between
<1>11. Callers' /\ Manned'
  BY DEF SInv, Callers, Manned
<1>12. \A c \in Client : ~critErr' /\ pend[c] # {} => cl[c].pc \in Awaiting
  BY DEF SInv, Promise
<1>13. next' = next /\ cl' = cl /\ pend' = pend
  BY DEF seqs
<1> QED
  BY <1>7, <1>8, <1>9, <1>10, <1>11, <1>12, <1>13, Preserved DEF Inside, InGroup

LEMMA PickGroupStep2 ==
  ASSUME IInv, SInv, PickGroup
  PROVE  SInv'
<1>1. /\ mpc = "pick" /\ groups # <<>>
      /\ UNCHANGED <<seqs, ready, run, td, cl, pend, critErr>>
  BY DEF PickGroup, slv, env
<1>2. CASE RunGroup
  BY <1>1, <1>2, RunGroupStep2
<1>3. CASE mpc' = "dlock" /\ UNCHANGED gvars
  <2>1. critErr \in BOOLEAN
    BY DEF SInv, Callers
  <2> QED BY <1>1, <1>3, <2>1, Crew, Unmoved DEF Between, Inside, InGroup
<1> QED
  BY <1>2, <1>3 DEF PickGroup

(* The cycle is done with its group: the others come one closer.           *)
LEMMA GroupDone2 ==
  ASSUME IInv, SInv, mpc = "fwork", groups[1].ips = <<>>, groups' = Tail(groups),
         nextGroup' = IF nextGroup = 0 THEN 0 ELSE nextGroup - 1, mpc' = "done",
         UNCHANGED <<seqs, ready, run, td, cl, pend, critErr>>
  PROVE  SInv'
<1>1. Len(groups) >= 1 /\ groups[1].running
  BY DEF IInv, Running, InGroup
<1>2. /\ groups \in Seq(Group) /\ Len(groups) \in Nat /\ nextGroup \in Nat
      /\ nextGroup =< Len(groups) /\ groups # <<>>
  BY <1>1, Facts
<1>3. /\ Len(groups') = Len(groups) - 1
      /\ \A g \in 1 .. Len(groups') : /\ groups'[g] = groups[g + 1]
                                      /\ g + 1 \in 1 .. Len(groups)
  BY <1>2, Tailed
<1>4. Cycles' /\ Callers' /\ Manned'
  BY DEF SInv, Cycles, Callers, Manned, seqs, Between
<1>5. RunsNow'
  <2> SUFFICES ASSUME NEW g \in 1 .. Len(groups') PROVE ~groups'[g].running
    BY DEF RunsNow
  <2>1. g + 1 # 1 /\ g + 1 \in 1 .. Len(groups) /\ groups'[g] = groups[g + 1]
    BY <1>2, <1>3
  <2> QED BY <2>1 DEF IInv, Running
<1>6. Filled(groups', nextGroup')
  <2> SUFFICES ASSUME NEW g \in 1 .. Len(groups'), Vacant(groups', g)
               PROVE  /\ nextGroup' > 0 /\ nextGroup' =< g /\ groups'[g].total = 0
                      /\ \A h \in 1 .. Len(groups') : Vacant(groups', h) => h = g
    BY DEF Filled
  <2>1. \A h \in 1 .. Len(groups') : Vacant(groups', h) =>
          h + 1 \in 1 .. Len(groups) /\ Vacant(groups, h + 1) /\ groups'[h] = groups[h + 1]
    BY <1>3 DEF Vacant
  <2>2. /\ nextGroup > 0 /\ nextGroup =< g + 1 /\ groups[g + 1].total = 0
        /\ \A h \in 1 .. Len(groups) : Vacant(groups, h) => h = g + 1
    BY <2>1 DEF SInv, Filled
  <2>3. nextGroup # 1
    BY <1>1, <2>2 DEF IInv, Running
  <2>4. nextGroup' > 0 /\ nextGroup' =< g
    BY <1>2, <2>2, <2>3
  <2>5. ASSUME NEW h \in 1 .. Len(groups'), Vacant(groups', h) PROVE h = g
    <3>1. h + 1 = g + 1
      BY <2>1, <2>2, <2>5
    <3> QED BY <3>1
  <2> QED BY <2>1, <2>2, <2>4, <2>5
<1>7. ASSUME NEW c \in Client PROVE Promise(c)'
  <2> SUFFICES ASSUME ~critErr, pend[c] # {}
               PROVE  /\ cl[c].pc \in Awaiting
                      /\ \E m \in Nat :
                           /\ m + 2 < SeqSpan \div 2
                           /\ cl[c].seq = (next + m) % SeqSpan
                           /\ \A i \in pend[c] : Within(groups', i, m + Ahead(mpc'))
    BY DEF Promise, seqs
  <2>1. PICK m \in Nat : /\ m + 2 < SeqSpan \div 2
                         /\ cl[c].seq = (next + m) % SeqSpan
                         /\ \A i \in pend[c] : Within(groups, i, m + Ahead(mpc))
    BY DEF SInv, Promise
  <2>2. Ahead(mpc) = 1 /\ Ahead(mpc') = 0
    BY DEF Ahead, Inside, InGroup
  <2>3. ASSUME NEW i \in pend[c] PROVE Within(groups', i, m + Ahead(mpc'))
    <3>1. PICK g \in 1 .. Len(groups) :
            g =< m + 1 /\ \E a \in 1 .. Len(groups[g].ips) : groups[g].ips[a] = i
      BY <2>1, <2>2, <2>3 DEF Within
    <3>2. g # 1
      <4>1. Len(groups[1].ips) = 0 /\ \A a \in 1 .. 0 : FALSE
        OBVIOUS
      <4> QED BY <3>1, <4>1
    <3>3. g - 1 \in 1 .. Len(groups') /\ (g - 1) + 1 = g /\ g - 1 =< m + 0
      BY <1>2, <1>3, <3>1, <3>2
    <3>4. groups'[g - 1] = groups[g]
      BY <1>3, <3>3
    <3> QED BY <2>2, <3>1, <3>3, <3>4 DEF Within
  <2> QED BY <2>1, <2>3 DEF SInv, Promise
<1> QED
  BY <1>4, <1>5, <1>6, <1>7 DEF SInv

LEMMA MasterFinalizeStep2 ==
  ASSUME IInv, SInv, MasterFinalize
  PROVE  SInv'
<1>1. UNCHANGED <<seqs, ready, run, td, cl, pend, critErr>>
  BY DEF MasterFinalize, slv
<1>2. CASE mpc = "dwork" /\ RunGroup
  <2>1. groups # <<>>
    BY <1>2, Facts DEF IInv, Running, InGroup
  <2> QED BY <1>1, <1>2, <2>1, RunGroupStep2
<1>3. CASE /\ mpc = "fwork" /\ groups[1].ips = <<>> /\ groups' = Tail(groups)
           /\ nextGroup' = IF nextGroup = 0 THEN 0 ELSE nextGroup - 1
           /\ mpc' = "done"
  BY <1>1, <1>3, GroupDone2
<1>4. CASE /\ UNCHANGED gvars
           /\ (mpc = "mwork" /\ mpc' = "done") \/ (mpc = "fwork" /\ mpc' = "pick")
  <2>1. critErr \in BOOLEAN
    BY DEF SInv, Callers
  <2> QED BY <1>1, <1>4, <2>1, Crew, Unmoved DEF Between, Inside, InGroup
<1> QED
  BY <1>2, <1>3, <1>4 DEF MasterFinalize

-----------------------------------------------------------------------------
(* The callers.                                                            *)

LEMMA KillStep2 ==
  ASSUME NEW c \in Client, IInv, SInv, mpc # "freed",
         TeardownBusy(c) \/ KillMaster(c) \/ KillSlave(c)
  PROVE  SInv'
<1>1. critErr \in BOOLEAN
  BY DEF SInv, Callers
<1>2. CASE TeardownBusy(c)
  <2>1. mpc' = "freed" /\ UNCHANGED <<gvars, seqs, cl, pend, ready, run, td, critErr>>
    BY <1>2 DEF TeardownBusy, slv, env
  <2> QED BY <1>1, <2>1, Unmoved, Crew DEF Inside
<1>3. CASE KillMaster(c)
  <2>1. Stay /\ UNCHANGED <<gvars, seqs, cl, pend, ready, run, td, critErr>>
    BY <1>3 DEF KillMaster, slv, env, Stay
  <2> QED BY <1>1, <2>1, Unmoved, Crew, StayInside
<1>4. CASE KillSlave(c)
  <2>1. ~td' /\ mpc' = mpc /\ UNCHANGED <<gvars, seqs, cl, pend, critErr>>
    BY <1>4 DEF KillSlave, mst, env
  <2>2. Manned'
    BY <2>1 DEF Manned
  <2> QED BY <1>1, <2>1, <2>2, Unmoved
<1> QED
  BY <1>2, <1>3, <1>4

LEMMA CallerPc ==
  ASSUME NEW x \in Caller,
         NEW pc \in {"idle", "sleep", "check", "drain", "dsleep", "dcheck", "kill", "gone"}
  PROVE  /\ [x EXCEPT !.pc = pc] \in Caller
         /\ [x EXCEPT !.pc = pc].pc = pc /\ [x EXCEPT !.pc = pc].seq = x.seq
         /\ [x EXCEPT !.pc = pc].tries = x.tries
BY DEF Caller

LEMMA CallerType ==
  ASSUME NEW x \in Caller
  PROVE  /\ x.pc \in {"idle", "sleep", "check", "drain", "dsleep", "dcheck", "kill", "gone"}
         /\ x.seq \in Seqno /\ x.tries \in Nat
BY DEF Caller

LEMMA NewCaller ==
  ASSUME NEW seq \in Seqno, NEW tries \in Nat, NEW pc \in {"sleep", "dsleep"}
  PROVE  LET y == [pc |-> pc, seq |-> seq, tries |-> tries]
         IN y \in Caller /\ y.pc = pc /\ y.seq = seq /\ y.tries = tries
BY DEF Caller

(* Client c moves on.  Nobody else is under way once one client unmounts.  *)
LEMMA ClientMoves ==
  ASSUME NEW c \in Client, SInv, NEW y \in Caller, cl' = [cl EXCEPT ![c] = y],
         y.pc \in Leaving => \/ cl[c].pc \in Leaving
                             \/ \A d \in Client : cl[d].pc = "idle",
         y.pc # "idle" => \/ cl[c].pc # "idle"
                          \/ \A d \in Client : cl[d].pc \notin Leaving,
         pend' \in [Client -> SUBSET Inode], critErr' \in BOOLEAN
  PROVE  /\ Callers' /\ cl'[c] = y
         /\ \A d \in Client : d # c => cl'[d] = cl[d]
<1>1. /\ cl \in [Client -> Caller]
      /\ \A a, b \in Client : cl[a].pc \in Leaving /\ b # a => cl[b].pc = "idle"
  BY DEF SInv, Callers
<1>2. /\ cl' \in [Client -> Caller] /\ cl'[c] = y
      /\ \A d \in Client : d # c => cl'[d] = cl[d]
  BY <1>1
<1>3. ASSUME NEW a \in Client, NEW b \in Client, cl'[a].pc \in Leaving, b # a
      PROVE  cl'[b].pc = "idle"
  <2>1. CASE a = c
    BY <1>1, <1>2, <1>3, <2>1
  <2>2. CASE b = c
    <3>1. cl[a].pc \in Leaving /\ cl[c].pc = "idle"
      BY <1>1, <1>2, <1>3, <2>2
    <3> QED BY <1>2, <2>2, <3>1
  <2>3. CASE a # c /\ b # c
    BY <1>1, <1>2, <1>3, <2>3
  <2> QED BY <2>1, <2>2, <2>3
<1> QED
  BY <1>2, <1>3 DEF Callers

(* It waits for nothing any more, or goes on waiting for the same number.  *)
LEMMA WaiterMoves ==
  ASSUME NEW c \in Client, IInv, SInv, NEW y \in Caller, cl' = [cl EXCEPT ![c] = y],
         Callers', Stay, mpc # "freed",
         UNCHANGED <<gvars, seqs, td, ready, run, critErr, pend>>,
         ~critErr /\ pend[c] # {} => y.pc \in Awaiting /\ y.seq = cl[c].seq
  PROVE  SInv'
<1>1. cl \in [Client -> Caller]
  BY DEF SInv, Callers
<1>2. cl'[c] = y /\ \A d \in Client : d # c => cl'[d] = cl[d]
  BY <1>1
<1>3. /\ groups' = groups /\ nextGroup' = nextGroup /\ pend' = pend /\ critErr' = critErr
      /\ act' = act /\ next' = next /\ done' = done
  BY DEF gvars, seqs
<1>4. Cycles' /\ Manned' /\ Filled(groups', nextGroup')
  BY <1>3, Crew, StayInside DEF SInv, Cycles
<1>5. mpc \in Inside => mpc' \in Inside
  BY StayInside
<1>6. ASSUME NEW d \in Client, ~critErr, pend[d] # {}
      PROVE  cl'[d].pc \in Awaiting /\ cl'[d].seq = cl[d].seq
  <2>1. CASE d = c
    BY <1>2, <1>6, <2>1
  <2>2. CASE d # c
    BY <1>2, <1>6, <2>2 DEF SInv, Promise
  <2> QED BY <2>1, <2>2
<1>7. \A g \in 1 .. Len(groups') : groups'[g].running =>
        mpc' \in Inside \/ \E h \in 1 .. Len(groups) : groups[h].running
  BY <1>3
<1> QED
  BY <1>3, <1>4, <1>5, <1>6, <1>7, Preserved

LEMMA Idle ==
  ASSUME SInv, NEW c \in Client, cl[c].pc \notin Awaiting, ~critErr
  PROVE  pend[c] = {}
BY DEF SInv, Promise

LEMMA Stays ==
  ASSUME Signal \/ UNCHANGED <<signal, mpc>>
  PROVE  Stay
BY DEF Signal, Stay

LEMMA WaitNextStep2 ==
  ASSUME NEW c \in Client, Roomy, IInv, SInv, mpc # "freed", WaitNext(c)
  PROVE  SInv'
<1>1. /\ cl[c].pc = "idle" /\ \A d \in Client : cl[d].pc \notin Leaving
      /\ UNCHANGED <<gvars, seqs, td, ready, run, critErr, pend>> /\ Stay
  BY DEF WaitNext, Mounted, Leaving, AsyncWait, slv, env, Stay
<1> DEFINE y == [pc |-> "sleep", seq |-> next, tries |-> 0]
<1>2. next \in Seqno
  BY IncNumber DEF SInv, Cycles
<1>3. y \in Caller /\ y.pc = "sleep"
  BY <1>2, NewCaller
<1>4. cl' = [cl EXCEPT ![c] = y]
  BY DEF WaitNext, AsyncWait
<1> HIDE DEF y
<1>5. Callers'
  <2>1. pend' \in [Client -> SUBSET Inode] /\ critErr' \in BOOLEAN
    BY <1>1 DEF SInv, Callers
  <2>2. y.pc \notin Leaving
    BY <1>3 DEF Leaving
  <2> QED BY <1>1, <1>3, <1>4, <2>1, <2>2, ClientMoves
<1>6. ~critErr => pend[c] = {}
  BY <1>1, Idle DEF Awaiting
<1> QED
  BY <1>1, <1>3, <1>4, <1>5, <1>6, WaiterMoves

(* The wait of a caller ends, or it sleeps again.                          *)
LEMMA AwakeMoves ==
  ASSUME NEW c \in Client, SInv, Awake(c)
  PROVE  \E y \in Caller :
           /\ cl' = [cl EXCEPT ![c] = y]
           /\ y.seq = cl[c].seq /\ y.tries = cl[c].tries
           /\ cl[c].pc \in {"check", "dcheck"}
           /\ y.pc \in {"sleep", "dsleep", "idle", "drain"}
           /\ y.pc \in {"dsleep", "drain"} <=> cl[c].pc = "dcheck"
           /\ after(cl[c].seq, done) => y.pc \in {"sleep", "dsleep"}
<1>1. PICK x \in Caller : x = cl[c]
  BY DEF SInv, Callers
<1>2. x.pc \in {"check", "dcheck"}
  BY <1>1 DEF Awake
<1>3. PICK pc \in {"sleep", "dsleep", "idle", "drain"} :
        /\ cl' = [cl EXCEPT ![c] = [x EXCEPT !.pc = pc]]
        /\ pc \in {"dsleep", "drain"} <=> x.pc = "dcheck"
        /\ after(x.seq, done) => pc \in {"sleep", "dsleep"}
  <2>1. CASE after(cl[c].seq, done)
    <3> DEFINE pc == IF x.pc = "check" THEN "sleep" ELSE "dsleep"
    <3>1. cl' = [cl EXCEPT ![c] = [x EXCEPT !.pc = pc]]
      BY <1>1, <2>1 DEF Awake
    <3>2. pc \in {"sleep", "dsleep"} /\ (pc = "dsleep" <=> x.pc = "dcheck")
      BY <1>2
    <3> HIDE DEF pc
    <3> QED BY <3>1, <3>2
  <2>2. CASE ~after(cl[c].seq, done)
    <3> DEFINE pc == IF x.pc = "check" THEN "idle" ELSE "drain"
    <3>1. cl' = [cl EXCEPT ![c] = [x EXCEPT !.pc = pc]]
      BY <1>1, <2>2 DEF Awake
    <3>2. pc \in {"idle", "drain"} /\ (pc = "drain" <=> x.pc = "dcheck")
      BY <1>2
    <3> HIDE DEF pc
    <3> QED BY <1>1, <2>2, <3>1, <3>2
  <2> QED BY <2>1, <2>2
<1> DEFINE y == [x EXCEPT !.pc = pc]
<1>4. y \in Caller /\ y.pc = pc /\ y.seq = x.seq /\ y.tries = x.tries
  <2>1. pc \in {"idle", "sleep", "check", "drain", "dsleep", "dcheck", "kill", "gone"}
    OBVIOUS
  <2> QED BY <2>1, CallerPc
<1>5. cl' = [cl EXCEPT ![c] = y]
  BY <1>3
<1> HIDE DEF y
<1> QED
  BY <1>1, <1>2, <1>3, <1>4, <1>5

LEMMA AwakeStep2 ==
  ASSUME NEW c \in Client, Roomy, IInv, SInv, mpc # "freed", Awake(c)
  PROVE  SInv'
<1>1. UNCHANGED <<gvars, seqs, td, ready, run, critErr, pend>> /\ Stay
  BY Stays DEF Awake, slv, env
<1>2. PICK y \in Caller :
        /\ cl' = [cl EXCEPT ![c] = y] /\ y.seq = cl[c].seq
        /\ cl[c].pc \in {"check", "dcheck"}
        /\ y.pc \in {"sleep", "dsleep", "idle", "drain"}
        /\ y.pc \in {"dsleep", "drain"} <=> cl[c].pc = "dcheck"
        /\ after(cl[c].seq, done) => y.pc \in {"sleep", "dsleep"}
  BY AwakeMoves
<1>3. Callers'
  <2>1. pend' \in [Client -> SUBSET Inode] /\ critErr' \in BOOLEAN
    BY <1>1 DEF SInv, Callers
  <2>2. (y.pc \in Leaving => cl[c].pc \in Leaving) /\ cl[c].pc # "idle"
    BY <1>2 DEF Leaving
  <2> QED BY <1>2, <2>1, <2>2, ClientMoves
<1>4. ~critErr /\ pend[c] # {} => y.pc \in Awaiting /\ y.seq = cl[c].seq
  BY <1>2, Kept DEF Awaiting
<1> QED
  BY <1>1, <1>2, <1>3, <1>4, WaiterMoves

LEMMA UnmountStep2 ==
  ASSUME NEW c \in Client, IInv, SInv, mpc # "freed", Unmount(c) \/ Unmounted(c)
  PROVE  SInv'
<1>1. PICK x \in Caller : x = cl[c]
  BY DEF SInv, Callers
<1>2. PICK pc \in {"drain", "gone"} :
        /\ cl' = [cl EXCEPT ![c] = [x EXCEPT !.pc = pc]]
        /\ \/ cl[c].pc = "kill"
           \/ \A d \in Client : cl[d].pc = "idle"
  <2>1. CASE Unmount(c)
    <3>1. /\ cl' = [cl EXCEPT ![c] = [x EXCEPT !.pc = "drain"]]
          /\ \A d \in Client : cl[d].pc = "idle"
      BY <1>1, <2>1 DEF Unmount
    <3> QED BY <3>1
  <2>2. CASE Unmounted(c)
    <3>1. cl' = [cl EXCEPT ![c] = [x EXCEPT !.pc = "gone"]] /\ cl[c].pc = "kill"
      BY <1>1, <2>2 DEF Unmounted
    <3> QED BY <3>1
  <2> QED BY <2>1, <2>2
<1>3. UNCHANGED <<gvars, seqs, td, ready, run, critErr, pend>> /\ Stay
  BY DEF Unmount, Unmounted, slv, env, mst, Stay
<1> DEFINE y == [x EXCEPT !.pc = pc]
<1>4. y \in Caller /\ y.pc = pc /\ y.seq = x.seq
  <2>1. pc \in {"idle", "sleep", "check", "drain", "dsleep", "dcheck", "kill", "gone"}
    OBVIOUS
  <2> QED BY <2>1, CallerPc
<1>5. cl' = [cl EXCEPT ![c] = y]
  BY <1>2
<1> HIDE DEF y
<1>6. Callers'
  <2>1. pend' \in [Client -> SUBSET Inode] /\ critErr' \in BOOLEAN
    BY <1>3 DEF SInv, Callers
  <2>2. CASE cl[c].pc = "kill"
    <3>1. cl[c].pc \in Leaving /\ cl[c].pc # "idle"
      BY <2>2 DEF Leaving
    <3> QED BY <1>4, <1>5, <2>1, <3>1, ClientMoves
  <2>3. CASE \A d \in Client : cl[d].pc = "idle"
    <3>1. \A d \in Client : cl[d].pc \notin Leaving
      BY <2>3 DEF Leaving
    <3> QED BY <1>4, <1>5, <2>1, <2>3, <3>1, ClientMoves
  <2> QED BY <1>2, <2>2, <2>3
<1>7. ~critErr => pend[c] = {}
  BY <1>2, Idle DEF Awaiting
<1> QED
  BY <1>3, <1>4, <1>5, <1>6, <1>7, WaiterMoves

(* hammer_flusher_sync(): the number counts the groups that are to flush.  *)
LEMMA StartFacts ==
  ASSUME NEW c \in Client, Roomy, IInv, SInv, mpc # "freed",
         NEW pc \in {"sleep", "dsleep"}, NEW tries \in Nat, StartSync(c, pc, tries)
  PROVE  LET W == Cardinality(Waiting)
         IN /\ W \in Nat /\ W =< Len(groups) /\ (~critErr => Len(groups) =< W + Ahead(mpc))
            /\ W + 2 < SeqSpan \div 2
            /\ next \in Seqno /\ W \in Seqno
            /\ \E y \in Caller : /\ cl' = [cl EXCEPT ![c] = y] /\ y.pc = pc
                                 /\ y.seq = (next + W) % SeqSpan /\ y.tries = tries
            /\ Stay
            /\ groups' \in Seq(Group) /\ Len(groups') = Len(groups)
            /\ \A g \in 1 .. Len(groups) : /\ groups'[g].ips = groups[g].ips
                                           /\ groups'[g].running = groups[g].running
                                           /\ groups'[g].total = groups[g].total
<1> DEFINE L == Len(groups)
           W == Cardinality(Waiting)
           s == (next + W) % SeqSpan
           y == [pc |-> pc, seq |-> s, tries |-> tries]
<1>1. groups \in Seq(Group) /\ L \in Nat
  BY Facts
<1>2. W \in Nat /\ W =< L /\ (~critErr => L =< W + Ahead(mpc))
  BY Counted DEF SInv
<1>3. L =< Cardinality(Inode) + 2
  BY GroupBound DEF SInv
<1>4. W + 2 < SeqSpan \div 2 /\ W \in Seqno
  <2>1. /\ SeqSpan \in Nat /\ SeqSpan \div 2 \in Nat /\ 2 * (SeqSpan \div 2) =< SeqSpan
        /\ Cardinality(Inode) \in Nat /\ Cardinality(Inode) + 4 < SeqSpan \div 2
    BY Span DEF Roomy
  <2> QED BY <1>1, <1>2, <1>3, <2>1 DEF Seqno
<1>5. next \in Seqno
  BY IncNumber DEF SInv, Cycles
<1>6. s \in Seqno
  BY <1>4, <1>5, Plus
<1>7. y \in Caller /\ y.pc = pc /\ y.seq = s /\ y.tries = tries
  BY <1>6, NewCaller
<1>8. async_seq(groups, L) = s
  BY DEF async_seq, Waiting
<1>9. cl' = [cl EXCEPT ![c] = y] /\ Stay
  BY <1>8 DEF StartSync, AsyncWait, Stay
<1>10. /\ groups' \in Seq(Group) /\ Len(groups') = L
       /\ \A g \in 1 .. L : /\ groups'[g].ips = groups[g].ips
                            /\ groups'[g].running = groups[g].running
                            /\ groups'[g].total = groups[g].total
  <2>1. groups' = close(groups, L) /\ L \in Int
    BY <1>1 DEF StartSync
  <2> QED BY <1>1, <2>1, Closed, ClosedTotal
<1> HIDE DEF y
<1> QED
  BY <1>2, <1>4, <1>5, <1>7, <1>9, <1>10

LEMMA StartStep2 ==
  ASSUME NEW c \in Client, Roomy, IInv, SInv, mpc # "freed",
         NEW pc \in {"sleep", "dsleep"}, NEW tries \in Nat, StartSync(c, pc, tries),
         UNCHANGED <<nextGroup, seqs, td, ready, run, critErr>>,
         \/ cl[c].pc = "drain"
         \/ pc = "sleep" /\ \A d \in Client : cl[d].pc \notin Leaving
  PROVE  SInv'
<1> DEFINE L == Len(groups)
           W == Cardinality(Waiting)
           s == (next + W) % SeqSpan
<1>1. groups \in Seq(Group) /\ L \in Nat
  BY Facts
<1>2. W \in Nat /\ W =< L /\ (~critErr => L =< W + Ahead(mpc))
  BY StartFacts
<1>3. W + 2 < SeqSpan \div 2
  BY StartFacts
<1>4. PICK y \in Caller : cl' = [cl EXCEPT ![c] = y] /\ y.pc = pc /\ y.seq = s
  BY StartFacts
<1>5. cl' = [cl EXCEPT ![c] = y] /\ Stay
  BY <1>4, StartFacts
<1>6. pend' = [pend EXCEPT ![c] = AllQueued] /\ pend \in [Client -> SUBSET Inode]
  BY DEF StartSync, SInv, Callers
<1>7. AllQueued \in SUBSET Inode
  BY DEF AllQueued, Queued
<1>8. /\ pend' \in [Client -> SUBSET Inode] /\ pend'[c] = AllQueued
       /\ \A d \in Client : d # c => pend'[d] = pend[d]
  BY <1>6, <1>7
<1>9. critErr' = critErr /\ critErr \in BOOLEAN /\ next' = next
  BY DEF SInv, Callers, seqs
<1> HIDE DEF s, W
<1>10. Callers' /\ cl'[c] = y /\ \A d \in Client : d # c => cl'[d] = cl[d]
  <2>1. CASE cl[c].pc = "drain"
    <3>1. cl[c].pc \in Leaving /\ cl[c].pc # "idle"
      BY <2>1 DEF Leaving
    <3>2. pend' \in [Client -> SUBSET Inode] /\ critErr' \in BOOLEAN
      BY <1>8, <1>9
    <3> QED BY <1>4, <3>1, <3>2, ClientMoves
  <2>2. CASE pc = "sleep" /\ \A d \in Client : cl[d].pc \notin Leaving
    <3>1. y.pc \in Leaving => cl[c].pc \in Leaving
      BY <1>4, <2>2 DEF Leaving
    <3>2. \A d \in Client : cl[d].pc \notin Leaving
      BY <2>2
    <3>3. pend' \in [Client -> SUBSET Inode] /\ critErr' \in BOOLEAN
      BY <1>8, <1>9
    <3> QED BY <1>4, <3>1, <3>2, <3>3, ClientMoves
  <2> QED BY <2>1, <2>2
<1>11. /\ Len(groups') = L
       /\ \A g \in 1 .. L : /\ groups'[g].ips = groups[g].ips
                            /\ groups'[g].running = groups[g].running
                            /\ groups'[g].total = groups[g].total
  BY StartFacts
<1>12. Filled(groups', nextGroup')
  <2>1. \A g \in 1 .. Len(groups') :
          Vacant(groups', g) => Vacant(groups, g) /\ groups'[g].total = groups[g].total
    BY <1>11 DEF Vacant
  <2> QED BY <1>11, <2>1, FilledKept DEF SInv
<1>13. Cycles' /\ Manned'
  BY <1>5, Crew, StayInside DEF SInv, Cycles, seqs
<1>14. (mpc' \in Inside <=> mpc \in Inside) /\ Ahead(mpc') = Ahead(mpc)
  BY <1>5, StayInside DEF Ahead
<1>15. RunsNow'
  BY <1>9, <1>11, <1>14 DEF SInv, RunsNow
<1>16. \A i : \A n \in Nat : Within(groups, i, n) => Within(groups', i, n)
  BY <1>11 DEF Within
<1>17. ASSUME NEW d \in Client, d # c PROVE Promise(d)'
  <2>1. Promise(d) /\ pend'[d] = pend[d] /\ cl'[d] = cl[d]
    BY <1>8, <1>10, <1>17 DEF SInv
  <2>2. ~critErr' /\ pend'[d] # {} => cl'[d].pc \in Awaiting /\ cl'[d].seq = cl[d].seq
    BY <1>9, <2>1 DEF Promise
  <2> QED BY <1>9, <1>14, <1>16, <1>17, <2>1, <2>2, PromiseKept
<1>18. Promise(c)'
  <2> SUFFICES ASSUME ~critErr
               PROVE  /\ cl'[c].pc \in Awaiting
                      /\ \E m \in Nat :
                           /\ m + 2 < SeqSpan \div 2
                           /\ cl'[c].seq = (next' + m) % SeqSpan
                           /\ \A i \in pend'[c] : Within(groups', i, m + Ahead(mpc'))
    BY <1>9 DEF Promise
  <2>1. cl'[c].pc \in Awaiting /\ cl'[c].seq = (next' + W) % SeqSpan
    BY <1>4, <1>9, <1>10 DEF Awaiting, s
  <2>2. Ahead(mpc) \in Nat
    BY DEF Ahead
  <2>3. ASSUME NEW i \in AllQueued PROVE Within(groups', i, W + Ahead(mpc'))
    <3>1. PICK g \in 1 .. L : Contains(groups[g].ips, i)
      BY <1>1, <2>3 DEF AllQueued, Queued
    <3>2. \E a \in 1 .. Len(groups'[g].ips) : groups'[g].ips[a] = i
      BY <1>11, <3>1 DEF Contains
    <3>3. g =< W + Ahead(mpc')
      BY <1>1, <1>2, <1>14, <2>2
    <3> QED BY <1>11, <3>2, <3>3 DEF Within
  <2> QED BY <1>2, <1>3, <1>8, <2>1, <2>3
<1> QED
  BY <1>10, <1>12, <1>13, <1>15, <1>17, <1>18 DEF SInv

LEMMA SyncStep2 ==
  ASSUME NEW c \in Client, Roomy, IInv, SInv, mpc # "freed", Sync(c) \/ Drain(c)
  PROVE  SInv'
<1>1. CASE Sync(c)
  <2>1. /\ StartSync(c, "sleep", 0)
        /\ UNCHANGED <<nextGroup, seqs, td, ready, run, critErr>>
        /\ \A d \in Client : cl[d].pc \notin Leaving
    BY <1>1 DEF Sync, Mounted, Leaving, slv, env
  <2> QED BY <2>1, StartStep2
<1>2. CASE Drain(c)
  <2>1. /\ StartSync(c, "dsleep", cl[c].tries + 1) /\ cl[c].pc = "drain"
        /\ UNCHANGED <<nextGroup, seqs, td, ready, run, critErr>>
    BY <1>2 DEF Drain, slv, env
  <2>2. cl[c].tries + 1 \in Nat
    <3>1. cl[c] \in Caller
      BY DEF SInv, Callers
    <3>2. cl[c].tries \in Nat
      BY <3>1, CallerType
    <3> QED BY <3>2
  <2> QED BY <2>1, <2>2, StartStep2
<1> QED
  BY <1>1, <1>2

(* The groups are freed: nobody waits for what is left in them.            *)
LEMMA TeardownStep2 ==
  ASSUME NEW c \in Client, IInv, SInv, mpc # "freed", Teardown(c)
  PROVE  SInv'
<1>1. /\ cl[c].pc = "drain" /\ groups' = <<>> /\ nextGroup' = 0 /\ Stay
      /\ UNCHANGED <<seqs, td, ready, run, critErr, pend>>
  BY Stays DEF Teardown, NoWorkLeft, slv, env
<1>2. PICK x \in Caller : x = cl[c]
  BY DEF SInv, Callers
<1> DEFINE y == [x EXCEPT !.pc = "kill"]
<1>3. y \in Caller /\ y.pc = "kill"
  BY CallerPc
<1>4. cl' = [cl EXCEPT ![c] = y]
  BY <1>2 DEF Teardown
<1> HIDE DEF y
<1>5. pend' \in [Client -> SUBSET Inode] /\ critErr' \in BOOLEAN /\ pend' = pend /\ critErr' = critErr
  BY <1>1 DEF SInv, Callers
<1>6. Callers'
  <2>1. cl[c].pc \in Leaving /\ cl[c].pc # "idle"
    BY <1>1 DEF Leaving
  <2> QED BY <1>3, <1>4, <1>5, <2>1, ClientMoves
<1>7. ASSUME NEW d \in Client, ~critErr PROVE pend[d] = {}
  <2>1. cl[d].pc \in {"idle", "drain"}
    BY <1>1 DEF SInv, Callers, Leaving
  <2> QED BY <1>7, <2>1, Idle DEF Awaiting
<1>8. Len(groups') = 0 /\ \A g \in 1 .. Len(groups') : FALSE
  BY <1>1
<1>9. Cycles' /\ Manned' /\ Filled(groups', nextGroup')
  <2>1. Cycles'
    BY <1>1, StayInside DEF SInv, Cycles, seqs
  <2>2. Manned'
    BY <1>1, Crew
  <2>3. Filled(groups', nextGroup')
    BY <1>8 DEF Filled
  <2> QED BY <2>1, <2>2, <2>3
<1>10. RunsNow'
  BY <1>8 DEF RunsNow
<1>11. ASSUME NEW d \in Client PROVE Promise(d)'
  BY <1>5, <1>7, <1>11 DEF Promise
<1> QED
  BY <1>6, <1>9, <1>10, <1>11 DEF SInv

-----------------------------------------------------------------------------
(* The cycles.                                                             *)

(* Between two cycles every slave is ready, and there is one.              *)
LEMMA CycleBegins ==
  ASSUME IInv, SInv, Cycle
  PROVE  mpc' = "pick"
<1>1. mpc = "cycle" /\ mpc' = (IF ready = <<>> THEN "done" ELSE "pick")
  BY DEF Cycle
<1>2. td /\ run = {}
  BY <1>1 DEF IInv, Lists, TypeOK
<1>3. PICK s \in Slave : TRUE
  BY FlusherAssumption
<1>4. PICK a \in 1 .. Len(ready) : ready[a] = s
  BY <1>2 DEF SInv, Manned
<1>5. ready = <<>> => Len(ready) = 0 /\ \A b \in 1 .. 0 : FALSE
  OBVIOUS
<1> QED
  BY <1>1, <1>4, <1>5

(* A cycle begins and takes the first group.                               *)
LEMMA CycleStep2 ==
  ASSUME Roomy, IInv, SInv, Cycle
  PROVE  SInv'
<1>1. /\ mpc = "cycle" /\ act' = next /\ next' = Inc(next)
      /\ mpc' = (IF ready = <<>> THEN "done" ELSE "pick")
      /\ UNCHANGED <<gvars, done, td, ready, run, critErr, cl, pend>>
  BY DEF Cycle, slv, env
<1>2. mpc' = "pick"
  BY CycleBegins
<1>3. act \in Seqno /\ next \in Seqno /\ next = Inc(act) /\ done = act
  BY <1>1, IncNumber DEF SInv, Cycles, Between
<1>4. Cycles'
  BY <1>1, <1>2, <1>3 DEF Cycles, Between
<1>5. Callers' /\ Manned' /\ Filled(groups', nextGroup')
  BY <1>1 DEF SInv, Callers, Manned, gvars
<1>6. RunsNow'
  BY <1>2 DEF RunsNow, Inside
<1>7. ASSUME NEW c \in Client PROVE Promise(c)'
  <2> SUFFICES ASSUME ~critErr, pend[c] # {}
               PROVE  /\ cl[c].pc \in Awaiting
                      /\ \E m \in Nat :
                           /\ m + 2 < SeqSpan \div 2
                           /\ cl[c].seq = (next' + m) % SeqSpan
                           /\ \A i \in pend[c] : Within(groups, i, m + Ahead(mpc'))
    BY <1>1 DEF Promise, gvars
  <2>1. PICK m \in Nat : /\ m + 2 < SeqSpan \div 2
                         /\ cl[c].seq = (next + m) % SeqSpan
                         /\ \A i \in pend[c] : Within(groups, i, m + Ahead(mpc))
    BY DEF SInv, Promise
  <2>2. Ahead(mpc) = 0 /\ Ahead(mpc') = 1
    BY <1>1, <1>2 DEF Ahead, Inside, InGroup
  <2>3. m >= 1 /\ m - 1 \in Nat
    <3>1. PICK i \in pend[c] : TRUE
      OBVIOUS
    <3>2. Len(groups) \in Nat
      BY Facts
    <3>3. PICK g \in 1 .. Len(groups) : g =< m + 0
      BY <2>1, <2>2 DEF Within
    <3> QED BY <3>2, <3>3
  <2>4. m \in Seqno /\ (m - 1) + 2 < SeqSpan \div 2
    BY <2>1, <2>3, Span DEF Seqno
  <2>5. cl[c].seq = (next' + (m - 1)) % SeqSpan
    BY <1>1, <1>3, <2>1, <2>3, <2>4, Closer
  <2>6. (m - 1) + Ahead(mpc') = m + Ahead(mpc)
    BY <2>2
  <2>7. \A i \in pend[c] : Within(groups, i, (m - 1) + Ahead(mpc'))
    BY <2>1, <2>6
  <2> QED BY <2>3, <2>4, <2>5, <2>7 DEF SInv, Promise
<1> QED
  BY <1>4, <1>5, <1>6, <1>7 DEF SInv

LEMMA Woken ==
  ASSUME NEW x \in Caller
  PROVE  LET y == [x EXCEPT !.pc = CASE @ = "sleep" -> "check"
                                     [] @ = "dsleep" -> "dcheck"
                                     [] OTHER -> @]
         IN /\ y \in Caller /\ y.seq = x.seq /\ y.tries = x.tries
            /\ x.pc \in Awaiting => y.pc \in Awaiting
            /\ y.pc \in Leaving <=> x.pc \in Leaving
            /\ y.pc \in {"kill", "gone"} => x.pc \in {"kill", "gone"}
            /\ x.pc = "idle" => y.pc = "idle"
<1> DEFINE pc == CASE x.pc = "sleep" -> "check"
                   [] x.pc = "dsleep" -> "dcheck"
                   [] OTHER -> x.pc
<1>1. \/ x.pc = "sleep" /\ pc = "check"
      \/ x.pc = "dsleep" /\ pc = "dcheck"
      \/ x.pc \notin {"sleep", "dsleep"} /\ pc = x.pc
  OBVIOUS
<1> HIDE DEF pc
<1>2. pc \in {"idle", "sleep", "check", "drain", "dsleep", "dcheck", "kill", "gone"}
  BY <1>1, CallerType
<1>3. /\ [x EXCEPT !.pc = pc] \in Caller
      /\ [x EXCEPT !.pc = pc].pc = pc /\ [x EXCEPT !.pc = pc].seq = x.seq
      /\ [x EXCEPT !.pc = pc].tries = x.tries
  BY <1>2, CallerPc
<1>4. /\ x.pc \in Awaiting => pc \in Awaiting
      /\ pc \in Leaving <=> x.pc \in Leaving
      /\ pc \in {"kill", "gone"} => x.pc \in {"kill", "gone"}
      /\ x.pc = "idle" => pc = "idle"
  BY <1>1 DEF Awaiting, Leaving
<1> QED
  BY <1>3, <1>4 DEF pc

(* wakeup(&flusher.done).                                                  *)
LEMMA Awoken ==
  ASSUME SInv, cl' = wakeup_done(cl)
  PROVE  /\ cl' \in [Client -> Caller]
         /\ \A c \in Client :
              /\ cl'[c].seq = cl[c].seq /\ cl'[c].tries = cl[c].tries
              /\ cl[c].pc \in Awaiting => cl'[c].pc \in Awaiting
              /\ cl'[c].pc \in Leaving <=> cl[c].pc \in Leaving
              /\ cl'[c].pc \in {"kill", "gone"} => cl[c].pc \in {"kill", "gone"}
              /\ cl[c].pc = "idle" => cl'[c].pc = "idle"
<1> DEFINE F(x) == [x EXCEPT !.pc = CASE @ = "sleep" -> "check"
                                      [] @ = "dsleep" -> "dcheck"
                                      [] OTHER -> @]
<1>1. cl' = [c \in Client |-> F(cl[c])]
  BY DEF wakeup_done
<1>2. \A x \in Caller : /\ F(x) \in Caller /\ F(x).seq = x.seq /\ F(x).tries = x.tries
                        /\ x.pc \in Awaiting => F(x).pc \in Awaiting
                        /\ F(x).pc \in Leaving <=> x.pc \in Leaving
                        /\ F(x).pc \in {"kill", "gone"} => x.pc \in {"kill", "gone"}
                        /\ x.pc = "idle" => F(x).pc = "idle"
  BY Woken
<1> HIDE DEF F
<1>3. cl \in [Client -> Caller]
  BY DEF SInv, Callers
<1> QED
  BY <1>1, <1>2, <1>3

(* A cycle ends, and wakes up everyone.                                    *)
LEMMA CycleDoneStep2 ==
  ASSUME IInv, SInv, CycleDone
  PROVE  SInv'
<1>1. /\ mpc = "done" /\ done' = act /\ cl' = wakeup_done(cl)
      /\ mpc' \in Between /\ (td' = td \/ td' = FALSE)
      /\ UNCHANGED <<gvars, act, next, ready, run, critErr, pend>>
  BY DEF CycleDone, slv, env, Between
<1>2. Cycles'
  BY <1>1 DEF SInv, Cycles, Between
<1>3. /\ pend \in [Client -> SUBSET Inode] /\ critErr \in BOOLEAN
      /\ \A a, b \in Client : cl[a].pc \in Leaving /\ b # a => cl[b].pc = "idle"
  BY DEF SInv, Callers
<1>4. /\ cl' \in [Client -> Caller]
      /\ \A c \in Client : /\ cl'[c].seq = cl[c].seq
                           /\ cl[c].pc \in Awaiting => cl'[c].pc \in Awaiting
                           /\ cl'[c].pc \in Leaving => cl[c].pc \in Leaving
                           /\ cl[c].pc = "idle" => cl'[c].pc = "idle"
  BY <1>1, Awoken
<1>5. Callers'
  BY <1>1, <1>3, <1>4 DEF Callers
<1>6. Manned' /\ Filled(groups', nextGroup')
  BY <1>1 DEF SInv, Manned, gvars
<1>7. groups' = groups /\ pend' = pend /\ next' = next /\ critErr' = critErr
  BY <1>1 DEF gvars
<1>8. mpc \notin Inside
  BY <1>1 DEF Inside, InGroup
<1>9. \A c \in Client : ~critErr /\ pend[c] # {} => cl[c].pc \in Awaiting
  BY DEF SInv, Promise
<1>10. \A c \in Client : ~critErr' /\ pend'[c] # {} =>
         cl'[c].pc \in Awaiting /\ cl'[c].seq = cl[c].seq
  BY <1>4, <1>7, <1>9
<1> QED
  BY <1>2, <1>5, <1>6, <1>7, <1>8, <1>10, Preserved

-----------------------------------------------------------------------------
(* Inodes join the groups and leave them.                                  *)

LEMMA GroupsMove ==
  ASSUME IInv, SInv, mpc # "freed", Stay, Filled(groups', nextGroup'),
         UNCHANGED <<seqs, td, ready, run, critErr, cl>>,
         pend' \in [Client -> SUBSET Inode],
         \A g \in 1 .. Len(groups') : groups'[g].running =>
           \E h \in 1 .. Len(groups) : groups[h].running,
         \A c \in Client :
           /\ pend'[c] \subseteq pend[c]
           /\ \A i \in pend'[c] : \A n \in Nat :
                Within(groups, i, n) => Within(groups', i, n)
  PROVE  SInv'
<1>1. /\ cl' = cl /\ critErr' = critErr /\ act' = act /\ next' = next /\ done' = done
  BY DEF seqs
<1>2. Cycles' /\ Manned'
  BY <1>1, Crew, StayInside DEF SInv, Cycles
<1>3. Callers'
  BY <1>1 DEF SInv, Callers
<1>4. mpc \in Inside => mpc' \in Inside
  BY StayInside
<1>5. ASSUME NEW c \in Client, ~critErr', pend'[c] # {}
      PROVE  cl'[c].pc \in Awaiting /\ cl'[c].seq = cl[c].seq
  <2>1. pend[c] # {} /\ ~critErr
    BY <1>1, <1>5
  <2> QED BY <1>1, <2>1 DEF SInv, Promise
<1> QED
  BY <1>1, <1>2, <1>3, <1>4, <1>5, Preserved

LEMMA FlushInodeStep2 ==
  ASSUME NEW i \in Inode, NEW sig \in BOOLEAN, IInv, SInv, mpc # "freed",
         FlushInode(i, sig)
  PROVE  SInv'
<1>1. /\ groups \in Seq(Group) /\ nextGroup \in 0 .. Len(groups)
      /\ \A g \in 1 .. Len(groups) : groups[g].running => g = 1
      /\ nextGroup > 0 => ~groups[nextGroup].running
  BY DEF IInv, TypeOK, Running
<1>2. UNCHANGED <<seqs, td, ready, run, critErr, cl, pend>>
  BY DEF FlushInode, slv
<1>3. PICK X, j : /\ Queue(pick(groups), X, sig)
                  /\ \/ j = i /\ X = core(pick(groups), i)
                     \/ j = None /\ X = pick(groups).groups
  BY DEF FlushInode
<1>4. Joined(groups, groups', nextGroup', j) /\ Stay
  BY <1>1, <1>3, Queues
<1>5. Filled(groups', nextGroup')
  BY <1>1, <1>3, QueueFilled DEF SInv
<1>6. /\ \A x : \A n \in Nat : Within(groups, x, n) => Within(groups', x, n)
      /\ \A g \in 1 .. Len(groups') : groups'[g].running =>
           g \in 1 .. Len(groups) /\ groups[g].running
  BY <1>1, <1>4, JoinedWithin
<1>7. pend' \in [Client -> SUBSET Inode] /\ pend' = pend
  BY <1>2 DEF SInv, Callers
<1> QED
  BY <1>2, <1>4, <1>5, <1>6, <1>7, GroupsMove

(* Only the inode that is flushed leaves its group.                        *)
LEMMA ShorterWithin ==
  ASSUME NEW s \in Slave, IInv, SInv, mpc # "freed", SlaveBusy(s)
  PROVE  /\ Filled(Shorter(s), nextGroup)
         /\ \A i : \A n \in Nat :
              i # SlaveInode(s) /\ Within(groups, i, n) => Within(Shorter(s), i, n)
<1> DEFINE G == Shorter(s)
           x == SlaveInode(s)
<1>1. /\ G \in Seq(Group) /\ Len(G) = Len(groups) /\ Len(groups) >= 1
      /\ G[1].ips = RemoveFirst(groups[1].ips, x)
      /\ G[1].running = groups[1].running
      /\ \A g \in 2 .. Len(groups) : G[g] = groups[g]
  BY SlaveRemoves
<1>2. PICK a \in 1 .. Len(groups[1].ips) :
        /\ groups[1].ips[a] = x
        /\ \A b \in 1 .. Len(groups[1].ips) : groups[1].ips[b] = groups[1].ips[a] => b = a
  BY SlaveRemoves
<1> HIDE DEF G, x
<1>3. groups[1].running
  <2>1. s \in run
    BY DEF SlaveBusy, IInv, Lists
  <2>2. mpc \in {"assign", "join"}
    BY <2>1 DEF IInv, Lists
  <2> QED BY <2>2 DEF IInv, Running
<1>4. Len(groups) \in Nat /\ 1 \in 1 .. Len(groups)
  BY <1>1, Facts
<1>5. \A g \in 1 .. Len(groups) : g = 1 \/ g \in 2 .. Len(groups)
  BY <1>4
<1>6. Filled(G, nextGroup)
  <2>1. \A g \in 1 .. Len(G) : Vacant(G, g) => Vacant(groups, g) /\ G[g].total = groups[g].total
    BY <1>1, <1>3, <1>5 DEF Vacant
  <2> QED BY <1>1, <2>1, FilledKept DEF SInv
<1>7. ASSUME NEW i, NEW n \in Nat, i # x, Within(groups, i, n) PROVE Within(G, i, n)
  <2>1. PICK g \in 1 .. Len(groups) :
          g =< n /\ \E b \in 1 .. Len(groups[g].ips) : groups[g].ips[b] = i
    BY <1>7 DEF Within
  <2>2. CASE g = 1
    <3>1. PICK b \in 1 .. Len(groups[1].ips) : groups[1].ips[b] = i
      BY <2>1, <2>2
    <3>2. groups[1].ips \in Seq(Inode) /\ groups[1].ips[b] # groups[1].ips[a]
      BY <1>2, <1>4, <1>7, <3>1, Typed
    <3>3. \E e \in 1 .. Len(RemoveFirst(groups[1].ips, groups[1].ips[a])) :
            RemoveFirst(groups[1].ips, groups[1].ips[a])[e] = groups[1].ips[b]
      BY <1>2, <3>2, RemoveOthers
    <3>4. \E e \in 1 .. Len(G[1].ips) : G[1].ips[e] = i
      BY <1>1, <1>2, <3>1, <3>3
    <3> QED BY <1>1, <2>1, <2>2, <3>4 DEF Within
  <2>3. CASE g # 1
    BY <1>1, <1>5, <2>1, <2>3 DEF Within
  <2> QED BY <2>2, <2>3
<1> QED
  BY <1>6, <1>7 DEF G, x

LEMMA SlaveFlushedStep2 ==
  ASSUME NEW s \in Slave, IInv, SInv, mpc # "freed", SlaveFlushed(s)
  PROVE  SInv'
<1> DEFINE G == Shorter(s)
           x == SlaveInode(s)
<1>1. SlaveBusy(s)
  BY DEF SlaveFlushed
<1>2. /\ UNCHANGED <<seqs, td, ready, run, critErr, cl>>
      /\ pend' = [c \in Client |-> pend[c] \ {x}]
      /\ \/ \E sig \in BOOLEAN : Queue(pick(G), core(pick(G), x), sig)
         \/ groups' = G /\ UNCHANGED <<nextGroup, signal, mpc>>
  BY DEF SlaveFlushed, Shorter
<1>3. /\ G \in Seq(Group) /\ Len(G) = Len(groups) /\ x \in Inode
      /\ \A g \in 1 .. Len(groups) : G[g].running = groups[g].running
      /\ \A g \in 1 .. Len(groups) : G[g].running => g = 1
      /\ nextGroup > 0 => ~G[nextGroup].running
  BY <1>1, SlaveRemoves
<1>4. Filled(G, nextGroup) /\ \A i : \A n \in Nat :
        i # x /\ Within(groups, i, n) => Within(G, i, n)
  BY <1>1, ShorterWithin
<1> HIDE DEF G, x
<1>5. nextGroup \in 0 .. Len(G)
  BY <1>3 DEF IInv, TypeOK
<1>6. /\ Stay /\ Filled(groups', nextGroup')
      /\ \A i : \A n \in Nat : Within(G, i, n) => Within(groups', i, n)
      /\ \A g \in 1 .. Len(groups') : groups'[g].running =>
           g \in 1 .. Len(G) /\ G[g].running
  <2>1. CASE \E sig \in BOOLEAN : Queue(pick(G), core(pick(G), x), sig)
    <3>1. PICK sig \in BOOLEAN : Queue(pick(G), core(pick(G), x), sig)
      BY <2>1
    <3>2. Joined(G, groups', nextGroup', x) /\ Stay
      BY <1>3, <1>5, <3>1, Queues
    <3>3. Filled(groups', nextGroup')
      BY <1>3, <1>4, <1>5, <3>1, QueueFilled
    <3> QED BY <1>3, <3>2, <3>3, JoinedWithin
  <2>2. CASE groups' = G /\ UNCHANGED <<nextGroup, signal, mpc>>
    BY <1>4, <2>2 DEF Stay
  <2> QED BY <1>2, <2>1, <2>2
<1>7. /\ pend' \in [Client -> SUBSET Inode]
      /\ \A c \in Client : pend'[c] \subseteq pend[c] /\ x \notin pend'[c]
  BY <1>2 DEF SInv, Callers
<1>8. \A c \in Client : \A i \in pend'[c] : \A n \in Nat :
        Within(groups, i, n) => Within(groups', i, n)
  BY <1>4, <1>6, <1>7
<1> QED
  BY <1>2, <1>3, <1>6, <1>7, <1>8, GroupsMove

-----------------------------------------------------------------------------
(* The theorem.                                                            *)

LEMMA InitInv2 ==
  ASSUME Roomy, Init
  PROVE  SInv
<1>1. /\ groups = <<>> /\ nextGroup = 0 /\ act = 0 /\ done = 0 /\ next = 1
      /\ mpc = "cycle" /\ ready = SetToSeq(Slave) /\ critErr = FALSE
      /\ cl = [c \in Client |-> IdleCl] /\ pend = [c \in Client |-> {}]
  BY DEF Init
<1>2. Cycles
  <2>1. 0 \in Seqno
    BY Span DEF Seqno
  <2>2. Inc(0) = 1
    BY <2>1, IncNumber, Span
  <2> QED BY <1>1, <2>1, <2>2 DEF Cycles, Between
<1>3. Callers
  <2>1. IdleCl \in Caller /\ IdleCl.pc = "idle"
    BY Span DEF IdleCl, Caller, Seqno
  <2> QED BY <1>1, <2>1 DEF Callers
<1>4. Manned
  <2> DEFINE n == Cardinality(Slave)
  <2>1. n \in Nat /\ ExistsBijection(1 .. n, Slave)
    BY FS_CardinalityType, FlusherAssumption
  <2>2. ready = CHOOSE f \in [1 .. n -> Slave] : IsInjective(f)
    BY <1>1 DEF SetToSeq
  <2>3. Cardinality(1 .. n) = n
    BY <2>1, UpTo
  <2> HIDE DEF n
  <2>4. \E f \in [1 .. n -> Slave] : IsInjective(f)
    BY <2>1 DEF ExistsBijection, Bijection, Injection
  <2>5. ready \in [1 .. n -> Slave] /\ IsInjective(ready)
    BY <2>2, <2>4
  <2>6. ready \in Injection(1 .. n, Slave)
    BY <2>5 DEF Injection
  <2>7. ready \in Surjection(1 .. n, Slave)
    <3>1. Cardinality(1 .. n) = Cardinality(Slave)
      BY <2>3 DEF n
    <3> QED BY <2>6, <3>1, FS_Injection, FlusherAssumption
  <2>8. Len(ready) = n
    BY <2>1, <2>5
  <2> QED BY <2>7, <2>8 DEF Manned, Surjection
<1>5. \A g \in 1 .. Len(groups) : FALSE
  BY <1>1
<1>6. RunsNow /\ Filled(groups, nextGroup)
  BY <1>5 DEF RunsNow, Filled
<1>7. \A c \in Client : Promise(c)
  BY <1>1 DEF Promise
<1> QED
  BY <1>2, <1>3, <1>4, <1>6, <1>7 DEF SInv

LEMMA NextInv2 ==
  ASSUME Roomy, IInv, SInv, [Next]_vars
  PROVE  SInv'
<1>1. CASE UNCHANGED vars
  BY <1>1 DEF vars, gvars, seqs, mst, slv, env, SInv, Cycles, Callers, Manned, RunsNow,
              Promise
<1>2. CASE Next
  <2>1. mpc # "freed"
    BY <1>2 DEF Next
  <2>2. ASSUME NEW i \in Inode, NEW sig \in BOOLEAN, FlushInode(i, sig) PROVE SInv'
    BY <2>1, <2>2, FlushInodeStep2
  <2>3. ASSUME NEW c \in Client, Waiter(c) PROVE SInv'
    BY <2>1, <2>3, SyncStep2, WaitNextStep2, AwakeStep2, UnmountStep2, TeardownStep2,
       KillStep2 DEF Waiter
  <2>4. CASE MasterStep
    BY <2>1, <2>4, CycleStep2, MasterStep2, PickGroupStep2, AssignStep2,
       MasterFinalizeStep2, CycleDoneStep2 DEF MasterStep
  <2>5. ASSUME NEW s \in Slave, SlaveStep(s) PROVE SInv'
    BY <2>1, <2>5, SlaveFlushedStep2, SlaveStep2 DEF SlaveStep
  <2>6. CASE MediaError
    BY <2>1, <2>6, MasterStep2
  <2> QED BY <1>2, <2>2, <2>3, <2>4, <2>5, <2>6 DEF Next
<1> QED
  BY <1>1, <1>2

(* Everything a caller of hammer_flusher_sync() waits for is in one of the *)
(* groups that the cycles up to the sequence number it was given take.     *)
THEOREM SyncInvariant == ASSUME Roomy PROVE Spec => []SInv
<1>1. Init => SInv
  BY InitInv2
<1>2. IInv /\ SInv /\ [Next]_vars => SInv'
  BY NextInv2
<1> QED
  BY <1>1, <1>2, Invariant, PTL DEF Spec

(* hammer_flusher_sync() returns only when all that was queued before the  *)
(* call is flushed, whatever is queued, requeued, passed over or refused   *)
(* with EWOULDBLOCK meanwhile, as long as there are not half as many       *)
(* inodes as sequence numbers.                                             *)
THEOREM SyncIsComplete == ASSUME Roomy PROVE Spec => []SyncFlushesQueued
<1>1. SInv => SyncFlushesQueued
  BY Kept DEF SyncFlushesQueued
<1> QED
  BY <1>1, SyncInvariant, PTL

-----------------------------------------------------------------------------
(* The unmount.  The first sync of hammer_free_hmp() flushes every inode   *)
(* that was to be flushed again, the second one leaves no group behind,    *)
(* and the third one does the last cycle the UNDO FIFO needs.              *)

Patient == MaxTries >= 4

Requeued == ~critErr => \A i \in reflush : \E n \in Nat : Within(groups, i, n)

(* The last group to go takes one of the cycles off.                       *)
Worked == work \in 0 .. 2 /\ (~critErr /\ groups = <<>> => work =< 1)

Tries(c) == cl[c].tries =< 3 /\ (cl[c].pc \notin Leaving => cl[c].tries = 0)

First(c) == cl[c].tries >= 1 => reflush \subseteq pend[c]

(* Every group is one of those that the cycles awaited take.               *)
Reached(c) ==
  /\ cl[c].pc \in Awaiting
  /\ \E m \in Nat : /\ m + 2 < SeqSpan \div 2
                    /\ cl[c].seq = (next + m) % SeqSpan
                    /\ Len(groups) =< m + Ahead(mpc)

Second(c) ==
  cl[c].tries >= 2 => reflush = {} /\ (groups # <<>> => Reached(c))

(* The cycle awaited is to begin, or has not come to its finalization.     *)
Going == mpc \in {"pick", "mlock", "mwork", "freed"} /\ (mpc = "pick" => count = 0)
Coming(c) == cl[c].pc \in Awaiting /\ (cl[c].seq = next \/ (cl[c].seq = act /\ Going))

Third(c) ==
  cl[c].tries >= 3 => groups = <<>> /\ (work > 0 => Coming(c))

Torn(c) == cl[c].pc \in {"kill", "gone"} => groups = <<>> /\ work = 0

DInv ==
  /\ Requeued /\ Worked
  /\ \A c \in Client : /\ Tries(c)
                       /\ ~critErr => First(c) /\ Second(c) /\ Third(c) /\ Torn(c)

LEMMA WorkType ==
  ASSUME DInv
  PROVE  work \in Nat /\ work =< 2
BY DEF DInv, Worked

LEMMA NoGroups ==
  ASSUME NEW G, NEW S, G \in Seq(S)
  PROVE  G = <<>> <=> Len(G) = 0
OBVIOUS

(* Steps that leave the inodes in the groups where they are.               *)
LEMMA StillD ==
  ASSUME DInv, groups \in Seq(Group), groups' \in Seq(Group),
         Len(groups') = Len(groups),
         \A i : \A n \in Nat : Within(groups, i, n) => Within(groups', i, n),
         UNCHANGED <<act, next, reflush, pend>>,
         work' \in Nat, work' =< work, critErr => critErr',
         mpc \in Inside => mpc' \in Inside \/ critErr' \/ groups = <<>>,
         ~critErr' /\ groups = <<>> /\ work' > 0 /\ Going => Going',
         \A c \in Client :
           /\ cl'[c].tries = cl[c].tries
           /\ cl'[c].pc \notin Leaving => cl[c].tries = 0
           /\ cl'[c].pc \in {"kill", "gone"} => cl[c].pc \in {"kill", "gone"}
           /\ ~critErr /\ \/ cl[c].tries >= 2 /\ groups # <<>>
                          \/ cl[c].tries >= 3 /\ work > 0
                => cl'[c].pc \in Awaiting /\ cl'[c].seq = cl[c].seq
  PROVE  DInv'
<1>1. groups' = <<>> <=> groups = <<>>
  BY NoGroups
<1>2. work \in Nat /\ work =< 2
  BY WorkType
<1>3. work' \in 0 .. 2 /\ (work' > 0 => work > 0) /\ (work = 0 => work' = 0)
      /\ (work =< 1 => work' =< 1)
  BY <1>2
<1>4. Requeued' /\ Worked'
  BY <1>1, <1>3 DEF DInv, Requeued, Worked
<1>5. ASSUME NEW c \in Client PROVE Tries(c)'
  BY <1>5 DEF DInv, Tries
<1>6. ASSUME NEW c \in Client, ~critErr' PROVE First(c)' /\ Second(c)' /\ Third(c)' /\ Torn(c)'
  <2>1. ~critErr /\ First(c) /\ Second(c) /\ Third(c) /\ Torn(c) /\ cl'[c].tries = cl[c].tries
    BY <1>6 DEF DInv
  <2>2. First(c)'
    BY <2>1 DEF First
  <2>3. Second(c)'
    <3> SUFFICES ASSUME cl[c].tries >= 2
                 PROVE  reflush' = {} /\ (groups' # <<>> => Reached(c)')
      BY <2>1 DEF Second
    <3>1. reflush' = {}
      BY <2>1 DEF Second
    <3>2. ASSUME groups' # <<>> PROVE Reached(c)'
      <4>1. /\ cl'[c].pc \in Awaiting /\ cl'[c].seq = cl[c].seq /\ Reached(c)
            /\ mpc \in Inside => mpc' \in Inside
        BY <1>1, <1>6, <2>1, <3>2 DEF Second
      <4>2. PICK m \in Nat : /\ m + 2 < SeqSpan \div 2
                             /\ cl[c].seq = (next + m) % SeqSpan
                             /\ Len(groups) =< m + Ahead(mpc)
        BY <4>1 DEF Reached
      <4>3. Len(groups) \in Nat /\ Ahead(mpc) \in {0, 1} /\ Ahead(mpc') \in {0, 1}
            /\ Ahead(mpc) =< Ahead(mpc')
        BY <4>1 DEF Ahead
      <4>4. Len(groups') =< m + Ahead(mpc')
        BY <4>2, <4>3
      <4> QED BY <4>1, <4>2, <4>4 DEF Reached
    <3> QED BY <3>1, <3>2
  <2>4. Third(c)'
    <3> SUFFICES ASSUME cl[c].tries >= 3
                 PROVE  groups' = <<>> /\ (work' > 0 => Coming(c)')
      BY <2>1 DEF Third
    <3>1. groups = <<>>
      BY <2>1 DEF Third
    <3>2. ASSUME work' > 0 PROVE Coming(c)'
      <4>1. cl'[c].pc \in Awaiting /\ cl'[c].seq = cl[c].seq /\ Coming(c)
        BY <1>3, <2>1, <3>2 DEF Third
      <4>2. Going => Going'
        BY <1>6, <3>1, <3>2
      <4> QED BY <4>1, <4>2 DEF Coming
    <3> QED BY <1>1, <3>1, <3>2
  <2>5. Torn(c)'
    BY <1>1, <1>3, <2>1 DEF Torn
  <2> QED BY <2>2, <2>3, <2>4, <2>5
<1> QED
  BY <1>4, <1>5, <1>6 DEF DInv

(* Most of them concern no caller either.                                  *)
LEMMA AsideD ==
  ASSUME SInv, DInv, IInv, UNCHANGED <<gvars, seqs, reflush, pend, cl>>,
         work' \in Nat, work' =< work, critErr => critErr',
         mpc \in Inside => mpc' \in Inside \/ critErr' \/ groups = <<>>,
         ~critErr' /\ groups = <<>> /\ work' > 0 /\ Going => Going'
  PROVE  DInv'
<1>1. /\ groups' = groups /\ act' = act /\ next' = next /\ cl' = cl
      /\ groups \in Seq(Group) /\ pend' = pend /\ reflush' = reflush
  BY Facts DEF gvars, seqs
<1>2. ASSUME NEW c \in Client
      PROVE  /\ cl[c].pc \notin Leaving => cl[c].tries = 0
             /\ ~critErr /\ \/ cl[c].tries >= 2 /\ groups # <<>>
                            \/ cl[c].tries >= 3 /\ work > 0
                  => cl[c].pc \in Awaiting
  BY DEF DInv, Tries, Second, Third, Reached, Coming
<1> QED
  BY <1>1, <1>2, StillD

LEMMA MasterStepD ==
  ASSUME IInv, SInv, DInv, mpc # "freed",
         \/ PickNone \/ PickError \/ Assign \/ AssignEnd \/ Join \/ MasterLock \/ Wake
         \/ MediaError
  PROVE  DInv'
<1>1. /\ UNCHANGED <<gvars, seqs, reflush, pend, cl>> /\ work' = work
      /\ critErr => critErr'
      /\ critErr' = critErr \/ MediaError
  BY DEF PickNone, PickError, Assign, AssignEnd, Join, MasterLock, Wake, MediaError, env
<1>2. work \in Nat /\ work =< work
  BY WorkType
<1>3. mpc \in Inside => mpc' \in Inside \/ critErr' \/ groups = <<>>
  <2>1. CASE PickNone \/ PickError
    BY <1>1, <2>1 DEF PickNone, PickError
  <2>2. CASE Assign \/ AssignEnd \/ Join
    BY <2>2 DEF Assign, AssignEnd, Join, Inside, InGroup
  <2>3. CASE MasterLock
    BY <2>3 DEF MasterLock, Working, Inside, InGroup
  <2>4. CASE Wake
    BY <2>4 DEF Wake, Inside, InGroup
  <2>5. CASE MediaError
    BY <2>5 DEF MediaError
  <2> QED BY <2>1, <2>2, <2>3, <2>4, <2>5
<1>4. ~critErr' /\ groups = <<>> /\ work' > 0 /\ Going => Going'
  <2>1. CASE PickNone
    BY <1>1, <2>1 DEF PickNone, Going, haswork, MediaError
  <2>2. CASE PickError \/ Assign \/ AssignEnd \/ Join \/ Wake \/ MediaError
    BY <2>2 DEF PickError, Assign, AssignEnd, Join, Wake, MediaError, Going
  <2>3. CASE MasterLock
    BY <2>3 DEF MasterLock, Working, Going
  <2> QED BY <2>1, <2>2, <2>3
<1> QED
  BY <1>1, <1>2, <1>3, <1>4, AsideD

LEMMA Synced ==
  ASSUME DInv, NEW final \in BOOLEAN
  PROVE  /\ synced(final) \in Nat /\ synced(final) =< work
         /\ final /\ ~critErr /\ work > 0 => synced(final) = work - 1
BY WorkType DEF synced

LEMMA SlaveStepD ==
  ASSUME NEW s \in Slave, IInv, SInv, DInv,
         SlaveCheck(s) \/ SlaveLock(s) \/ SlaveFinalize(s) \/ SlaveDone(s)
  PROVE  DInv'
<1>1. /\ UNCHANGED <<gvars, seqs, reflush, pend, cl, critErr, mpc, count>>
      /\ work' = work \/ work' = synced(info[s].pc = "ework")
  BY DEF SlaveCheck, SlaveLock, SlaveFinalize, SlaveDone, env, mst
<1>2. work' \in Nat /\ work' =< work
  <2>1. (info[s].pc = "ework") \in BOOLEAN
    OBVIOUS
  <2>2. /\ synced(info[s].pc = "ework") \in Nat
        /\ synced(info[s].pc = "ework") =< work
    BY <2>1, Synced
  <2> QED BY <1>1, <2>2, WorkType
<1>3. Going => Going'
  BY <1>1 DEF Going
<1> QED
  BY <1>1, <1>2, <1>3, AsideD

LEMMA StayGoing ==
  ASSUME Stay, count' = count
  PROVE  Going => Going'
BY DEF Stay, Going

LEMMA KillStepD ==
  ASSUME NEW c \in Client, IInv, SInv, DInv, mpc # "freed",
         TeardownBusy(c) \/ KillMaster(c) \/ KillSlave(c)
  PROVE  DInv'
<1>1. UNCHANGED <<gvars, seqs, reflush, work, pend, cl, critErr, count>>
  BY DEF TeardownBusy, KillMaster, KillSlave, env, mst
<1>2. work \in Nat /\ work =< work
  BY WorkType
<1>3. mpc' = "freed" \/ Stay
  BY DEF TeardownBusy, KillMaster, KillSlave, Stay, mst
<1>4. mpc \in Inside => mpc' \in Inside
  BY <1>3, StayInside DEF Inside
<1>5. Going => Going'
  BY <1>1, <1>3, StayGoing DEF Going
<1> QED
  BY <1>1, <1>2, <1>4, <1>5, AsideD

(* A group runs.                                                           *)
LEMMA RunGroupStepD ==
  ASSUME IInv, SInv, DInv, RunGroup, mpc \in {"pick", "dwork"}, groups # <<>>,
         UNCHANGED <<seqs, cl, pend, critErr, reflush>>, work' \in Nat, work' =< work
  PROVE  DInv'
<1>1. groups \in Seq(Group) /\ 1 \in 1 .. Len(groups)
  BY Facts, Tailed
<1>2. PICK z \in Group : z = groups[1]
  BY <1>1
<1> DEFINE y == [z EXCEPT !.running = TRUE]
<1>3. y \in Group /\ y.ips = z.ips
  BY GroupUpdated, <1>2, GroupType
<1>4. groups' = [groups EXCEPT ![1] = y]
  BY <1>2 DEF RunGroup
<1> HIDE DEF y
<1>5. /\ groups' \in Seq(Group) /\ Len(groups') = Len(groups)
      /\ \A g \in 1 .. Len(groups) : groups'[g].ips = groups[g].ips
  BY <1>1, <1>2, <1>3, <1>4
<1>6. \A i : \A n \in Nat : Within(groups, i, n) => Within(groups', i, n)
  BY <1>5 DEF Within
<1>7. mpc' \in Inside
  BY DEF RunGroup, Inside, InGroup
<1>8. ASSUME NEW c \in Client
      PROVE  /\ cl[c].pc \notin Leaving => cl[c].tries = 0
             /\ ~critErr /\ \/ cl[c].tries >= 2 /\ groups # <<>>
                            \/ cl[c].tries >= 3 /\ work > 0
                  => cl[c].pc \in Awaiting
  BY DEF DInv, Tries, Second, Third, Reached, Coming
<1>9. act' = act /\ next' = next /\ cl' = cl /\ pend' = pend /\ reflush' = reflush
  BY DEF seqs
<1> QED
  BY <1>1, <1>5, <1>6, <1>7, <1>8, <1>9, StillD

(* A group is done, and so is one more cycle for the UNDO FIFO.            *)
LEMMA GroupDoneD ==
  ASSUME IInv, SInv, DInv, mpc = "fwork", groups[1].ips = <<>>, groups' = Tail(groups),
         mpc' = "done", work' \in Nat, work' =< work,
         ~critErr /\ work > 0 => work' = work - 1,
         UNCHANGED <<seqs, cl, pend, critErr, reflush>>
  PROVE  DInv'
<1>1. Len(groups) >= 1
  BY DEF IInv, Running, InGroup
<1>2. groups \in Seq(Group) /\ Len(groups) \in Nat /\ groups # <<>>
  BY <1>1, Facts
<1>3. /\ Len(groups') = Len(groups) - 1
      /\ \A g \in 1 .. Len(groups') : groups'[g] = groups[g + 1]
  BY <1>2, Tailed
<1>4. Requeued'
  <2> SUFFICES ASSUME ~critErr, NEW i \in reflush
               PROVE  \E n \in Nat : Within(groups', i, n)
    BY DEF Requeued
  <2>1. PICK n \in Nat : Within(groups, i, n)
    BY DEF DInv, Requeued
  <2>2. PICK g \in 1 .. Len(groups) :
          g =< n /\ \E a \in 1 .. Len(groups[g].ips) : groups[g].ips[a] = i
    BY <2>1 DEF Within
  <2>3. g # 1
    <3>1. Len(groups[1].ips) = 0 /\ \A a \in 1 .. 0 : FALSE
      OBVIOUS
    <3> QED BY <2>2, <3>1
  <2>4. g - 1 \in 1 .. Len(groups') /\ (g - 1) + 1 = g /\ g - 1 =< n
    BY <1>2, <1>3, <2>2, <2>3
  <2>5. groups'[g - 1] = groups[g]
    BY <1>3, <2>4
  <2> QED BY <2>2, <2>4, <2>5 DEF Within
<1>5. Worked'
  <2>1. work \in Nat /\ work =< 2 /\ critErr' = critErr
    BY WorkType
  <2>2. work' \in 0 .. 2 /\ (~critErr => work' =< 1)
    BY <2>1
  <2> QED BY <2>1, <2>2 DEF Worked
<1>6. ASSUME NEW c \in Client PROVE Tries(c)'
  BY DEF DInv, Tries
<1>7. ASSUME NEW c \in Client, ~critErr'
      PROVE  First(c)' /\ Second(c)' /\ Third(c)' /\ Torn(c)'
  <2>1. ~critErr /\ First(c) /\ Second(c) /\ Third(c) /\ Torn(c)
    BY <1>7 DEF DInv
  <2>2. First(c)' /\ Third(c)' /\ Torn(c)'
    BY <1>2, <2>1 DEF First, Third, Torn
  <2>3. Second(c)'
    <3> SUFFICES ASSUME cl[c].tries >= 2, Reached(c) PROVE Reached(c)'
      BY <1>2, <2>1 DEF Second
    <3>1. PICK m \in Nat : /\ m + 2 < SeqSpan \div 2
                           /\ cl[c].seq = (next + m) % SeqSpan
                           /\ Len(groups) =< m + Ahead(mpc)
      BY DEF Reached
    <3>2. Ahead(mpc) = 1 /\ Ahead(mpc') = 0
      BY DEF Ahead, Inside, InGroup
    <3>3. Len(groups') =< m + Ahead(mpc')
      BY <1>2, <1>3, <3>1, <3>2
    <3> QED BY <3>1, <3>3 DEF Reached, seqs
  <2> QED BY <2>2, <2>3
<1> QED
  BY <1>4, <1>5, <1>6, <1>7 DEF DInv

LEMMA MasterFinalizeD ==
  ASSUME IInv, SInv, DInv, MasterFinalize
  PROVE  DInv'
<1>1. UNCHANGED <<seqs, cl, pend, critErr, reflush, count>> /\ work' = synced(mpc # "dwork")
  BY DEF MasterFinalize
<1>2. work' \in Nat /\ work' =< work
  BY <1>1, Synced
<1>3. CASE mpc = "dwork" /\ RunGroup
  <2>1. groups # <<>>
    BY <1>3, Facts DEF IInv, Running, InGroup
  <2> QED BY <1>1, <1>2, <1>3, <2>1, RunGroupStepD
<1>4. CASE /\ mpc = "fwork" /\ groups[1].ips = <<>> /\ groups' = Tail(groups)
           /\ mpc' = "done"
  <2>1. ~critErr /\ work > 0 => work' = work - 1
    BY <1>1, <1>4, Synced
  <2> QED BY <1>1, <1>2, <1>4, <2>1, GroupDoneD
<1>5. CASE UNCHANGED gvars /\ mpc = "mwork" /\ mpc' = "done"
  <2>1. ~critErr /\ work > 0 => work' = work - 1
    BY <1>1, <1>5, Synced
  <2>2. ~critErr' /\ groups = <<>> /\ work' > 0 => FALSE
    BY <1>1, <1>2, <2>1, WorkType DEF DInv, Worked
  <2> QED BY <1>1, <1>2, <1>5, <2>2, AsideD DEF Inside, InGroup
<1>6. CASE UNCHANGED gvars /\ mpc = "fwork" /\ mpc' = "pick"
  BY <1>1, <1>2, <1>6, AsideD DEF Inside, InGroup, Going
<1> QED
  BY <1>3, <1>4, <1>5, <1>6 DEF MasterFinalize

LEMMA PickGroupD ==
  ASSUME IInv, SInv, DInv, PickGroup
  PROVE  DInv'
<1>1. /\ mpc = "pick" /\ groups # <<>>
      /\ UNCHANGED <<seqs, cl, pend, critErr, reflush, work>>
  BY DEF PickGroup, env
<1>2. work' \in Nat /\ work' =< work
  BY <1>1, WorkType
<1>3. CASE RunGroup
  BY <1>1, <1>2, <1>3, RunGroupStepD
<1>4. CASE mpc' = "dlock" /\ UNCHANGED gvars
  BY <1>1, <1>2, <1>4, AsideD DEF Inside, InGroup
<1> QED
  BY <1>3, <1>4 DEF PickGroup

(* A cycle begins: it takes a group, or is the one that a caller awaits.   *)
LEMMA CycleD ==
  ASSUME Roomy, IInv, SInv, DInv, Cycle
  PROVE  DInv'
<1>1. /\ mpc = "cycle" /\ act' = next /\ next' = Inc(next) /\ count' = 0
      /\ groups' = groups /\ reflush' = reflush /\ work' = work /\ critErr' = critErr
      /\ cl' = cl /\ pend' = pend
  BY DEF Cycle, gvars, env
<1>2. mpc' = "pick"
  BY CycleBegins
<1>3. Requeued' /\ Worked' /\ \A c \in Client : Tries(c)'
  BY <1>1 DEF DInv, Requeued, Worked, Tries
<1>4. ASSUME NEW c \in Client, ~critErr
      PROVE  First(c)' /\ Second(c)' /\ Third(c)' /\ Torn(c)'
  <2>1. First(c) /\ Second(c) /\ Third(c) /\ Torn(c)
    BY <1>4 DEF DInv
  <2>2. First(c)' /\ Torn(c)'
    BY <1>1, <2>1 DEF First, Torn
  <2>3. Third(c)'
    <3>1. Coming(c) => Coming(c)'
      BY <1>1, <1>2 DEF Coming, Going
    <3> QED BY <1>1, <2>1, <3>1 DEF Third
  <2>4. Second(c)'
    <3> SUFFICES ASSUME groups # <<>>, Reached(c) PROVE Reached(c)'
      BY <1>1, <2>1 DEF Second
    <3>1. PICK m \in Nat : /\ m + 2 < SeqSpan \div 2
                           /\ cl[c].seq = (next + m) % SeqSpan
                           /\ Len(groups) =< m + Ahead(mpc)
      BY DEF Reached
    <3>2. Ahead(mpc) = 0 /\ Ahead(mpc') = 1
      BY <1>1, <1>2 DEF Ahead, Inside, InGroup
    <3>3. Len(groups) >= 1 /\ Len(groups) \in Nat
      BY Facts, Tailed
    <3>4. m >= 1 /\ m - 1 \in Nat /\ Len(groups) =< (m - 1) + Ahead(mpc')
      BY <3>1, <3>2, <3>3
    <3>5. m \in Seqno /\ (m - 1) + 2 < SeqSpan \div 2
      BY <3>1, <3>4, Span DEF Seqno
    <3>6. next \in Seqno
      BY IncNumber DEF SInv, Cycles
    <3>7. cl[c].seq = (next' + (m - 1)) % SeqSpan
      BY <1>1, <3>1, <3>4, <3>5, <3>6, Closer
    <3>8. cl'[c].pc \in Awaiting
      BY <1>1 DEF Reached
    <3> QED BY <1>1, <3>4, <3>5, <3>7, <3>8 DEF Reached
  <2> QED BY <2>2, <2>3, <2>4
<1> QED
  BY <1>1, <1>3, <1>4 DEF DInv

LEMMA CycleDoneD ==
  ASSUME IInv, SInv, DInv, CycleDone
  PROVE  DInv'
<1>1. /\ mpc = "done" /\ cl' = wakeup_done(cl) /\ groups' = groups /\ groups \in Seq(Group)
      /\ UNCHANGED <<act, next, reflush, pend>> /\ work' = work /\ critErr' = critErr
  BY Facts DEF CycleDone, env, gvars
<1>2. work' \in Nat /\ work' =< work
  BY <1>1, WorkType
<1>3. mpc \notin Inside /\ ~Going
  BY <1>1 DEF Inside, InGroup, Going
<1>4. \A c \in Client :
        /\ cl'[c].seq = cl[c].seq /\ cl'[c].tries = cl[c].tries
        /\ cl[c].pc \in Awaiting => cl'[c].pc \in Awaiting
        /\ cl'[c].pc \in Leaving <=> cl[c].pc \in Leaving
        /\ cl'[c].pc \in {"kill", "gone"} => cl[c].pc \in {"kill", "gone"}
  BY <1>1, Awoken
<1>5. ASSUME NEW c \in Client
      PROVE  /\ cl[c].pc \notin Leaving => cl[c].tries = 0
             /\ ~critErr /\ \/ cl[c].tries >= 2 /\ groups # <<>>
                            \/ cl[c].tries >= 3 /\ work > 0
                  => cl[c].pc \in Awaiting
  BY DEF DInv, Tries, Second, Third, Reached, Coming
<1> QED
  BY <1>1, <1>2, <1>3, <1>4, <1>5, StillD

(* The wait does not end before what its number promises.                  *)
LEMMA KeptD ==
  ASSUME Roomy, SInv, DInv, mpc # "freed", NEW c \in Client, ~critErr,
         (cl[c].tries >= 2 /\ groups # <<>>) \/ (cl[c].tries >= 3 /\ work > 0)
  PROVE  after(cl[c].seq, done) /\ cl[c].pc \in Awaiting
<1>1. /\ done \in Seqno /\ act \in Seqno /\ next = Inc(act) /\ (done = act \/ act = Inc(done))
      /\ mpc \notin Between => act = Inc(done)
  BY DEF SInv, Cycles
<1>2. next \in Seqno /\ (next = Inc(done) \/ next = Inc(Inc(done)))
  BY <1>1, IncNumber
<1>3. Second(c) /\ Third(c)
  BY DEF DInv
<1>4. ASSUME NEW n \in Seqno, n = Inc(done) \/ n = Inc(Inc(done)) PROVE after(n, done)
  <2>1. 0 + 2 < SeqSpan \div 2 /\ 0 \in Seqno
    BY Span DEF Roomy, Seqno
  <2>2. (n + 0) % SeqSpan = n
    <3>1. (n + 0) % SeqSpan = IF n + 0 < SeqSpan THEN n + 0 ELSE n + 0 - SeqSpan
      BY <2>1, Plus
    <3> QED BY <3>1, Span DEF Seqno
  <2>3. after((n + 0) % SeqSpan, done)
    BY <1>1, <1>4, <2>1, Later
  <2> QED BY <2>2, <2>3
<1>5. CASE cl[c].tries >= 2 /\ groups # <<>>
  <2>1. Reached(c)
    BY <1>3, <1>5 DEF Second
  <2>2. PICK m \in Nat : m + 2 < SeqSpan \div 2 /\ cl[c].seq = (next + m) % SeqSpan
    BY <2>1 DEF Reached
  <2>3. after((next + m) % SeqSpan, done)
    BY <1>1, <1>2, <2>2, Later
  <2> QED BY <2>1, <2>2, <2>3 DEF Reached
<1>6. CASE cl[c].tries >= 3 /\ work > 0
  <2>1. Coming(c)
    BY <1>3, <1>6 DEF Third
  <2>2. CASE cl[c].seq = next
    BY <1>2, <1>4, <2>1, <2>2 DEF Coming
  <2>3. CASE cl[c].seq = act /\ Going
    <3>1. act = Inc(done)
      BY <1>1, <2>3 DEF Going, Between
    <3> QED BY <1>1, <1>4, <2>1, <2>3, <3>1 DEF Coming
  <2> QED BY <2>1, <2>2, <2>3 DEF Coming
<1> QED
  BY <1>5, <1>6

LEMMA AwakeD ==
  ASSUME NEW c \in Client, Roomy, IInv, SInv, DInv, mpc # "freed", Awake(c)
  PROVE  DInv'
<1>1. /\ UNCHANGED <<act, next, reflush, pend>> /\ Stay /\ count' = count
      /\ groups' = groups /\ groups \in Seq(Group) /\ work' = work /\ critErr' = critErr
  BY Facts, Stays DEF Awake, gvars, seqs, env
<1>2. work' \in Nat /\ work' =< work
  BY <1>1, WorkType
<1>3. (mpc \in Inside => mpc' \in Inside) /\ (Going => Going')
  BY <1>1, StayInside, StayGoing
<1>4. PICK y \in Caller :
        /\ cl' = [cl EXCEPT ![c] = y] /\ y.seq = cl[c].seq /\ y.tries = cl[c].tries
        /\ cl[c].pc \in {"check", "dcheck"}
        /\ y.pc \in {"sleep", "dsleep", "idle", "drain"}
        /\ y.pc \in {"dsleep", "drain"} <=> cl[c].pc = "dcheck"
        /\ after(cl[c].seq, done) => y.pc \in {"sleep", "dsleep"}
  BY AwakeMoves
<1>5. cl'[c] = y /\ \A d \in Client : d # c => cl'[d] = cl[d]
  BY <1>4 DEF SInv, Callers
<1>6. \A d \in Client : cl[d].pc \notin Leaving => cl[d].tries = 0
  BY DEF DInv, Tries
<1>7. /\ y.pc \in Leaving <=> cl[c].pc \in Leaving
      /\ y.pc \notin {"kill", "gone"}
      /\ after(cl[c].seq, done) => y.pc \in Awaiting
  BY <1>4 DEF Leaving, Awaiting
<1>8. ASSUME NEW d \in Client
      PROVE  /\ cl'[d].tries = cl[d].tries
             /\ cl'[d].pc \notin Leaving => cl[d].tries = 0
             /\ cl'[d].pc \in {"kill", "gone"} => cl[d].pc \in {"kill", "gone"}
             /\ ~critErr /\ \/ cl[d].tries >= 2 /\ groups # <<>>
                            \/ cl[d].tries >= 3 /\ work > 0
                  => cl'[d].pc \in Awaiting /\ cl'[d].seq = cl[d].seq
  <2>1. ~critErr /\ \/ cl[d].tries >= 2 /\ groups # <<>>
                    \/ cl[d].tries >= 3 /\ work > 0
          => after(cl[d].seq, done) /\ cl[d].pc \in Awaiting
    BY <1>8, KeptD
  <2>2. CASE d = c
    BY <1>4, <1>5, <1>6, <1>7, <2>1, <2>2
  <2>3. CASE d # c
    BY <1>5, <1>6, <1>8, <2>1, <2>3
  <2> QED BY <2>2, <2>3
<1> QED
  BY <1>1, <1>2, <1>3, <1>8, StillD

(* Nobody unmounts.                                                        *)
LEMMA FreeD ==
  ASSUME Requeued', Worked',
         \A c \in Client : cl'[c].tries = 0 /\ cl'[c].pc \notin {"kill", "gone"}
  PROVE  DInv'
BY DEF DInv, Tries, First, Second, Third, Torn

LEMMA AllFree ==
  ASSUME DInv, \A c \in Client : cl[c].pc \notin Leaving
  PROVE  \A c \in Client : cl[c].tries = 0 /\ cl[c].pc \notin {"kill", "gone"}
BY DEF DInv, Tries, Leaving

(* What is in the groups stays there.                                      *)
LEMMA GroupsD ==
  ASSUME DInv, groups \in Seq(Group), groups' \in Seq(Group), Len(groups') = Len(groups),
         \A i : \A n \in Nat : Within(groups, i, n) => Within(groups', i, n),
         UNCHANGED <<reflush, work, critErr>>
  PROVE  Requeued' /\ Worked'
<1>1. groups' = <<>> <=> groups = <<>>
  BY NoGroups
<1> QED
  BY <1>1 DEF DInv, Requeued, Worked

LEMMA SyncD ==
  ASSUME NEW c \in Client, Roomy, IInv, SInv, DInv, mpc # "freed", Sync(c)
  PROVE  DInv'
<1>1. /\ StartSync(c, "sleep", 0) /\ UNCHANGED <<reflush, work, critErr>>
      /\ \A d \in Client : cl[d].pc \notin Leaving
  BY DEF Sync, Mounted, Leaving, env
<1>2. /\ groups' \in Seq(Group) /\ Len(groups') = Len(groups)
      /\ \A g \in 1 .. Len(groups) : groups'[g].ips = groups[g].ips
  BY <1>1, StartFacts
<1>3. \A i : \A n \in Nat : Within(groups, i, n) => Within(groups', i, n)
  BY <1>2 DEF Within
<1>4. Requeued' /\ Worked'
  BY <1>1, <1>2, <1>3, Facts, GroupsD
<1>5. PICK y \in Caller : cl' = [cl EXCEPT ![c] = y] /\ y.pc = "sleep" /\ y.tries = 0
  BY <1>1, StartFacts
<1>6. cl'[c] = y /\ \A d \in Client : d # c => cl'[d] = cl[d]
  BY <1>5 DEF SInv, Callers
<1>7. \A d \in Client : cl'[d].tries = 0 /\ cl'[d].pc \notin {"kill", "gone"}
  BY <1>1, <1>5, <1>6, AllFree
<1> QED
  BY <1>4, <1>7, FreeD

LEMMA WaitNextD ==
  ASSUME NEW c \in Client, IInv, SInv, DInv, WaitNext(c) \/ Unmount(c)
  PROVE  DInv'
<1>1. /\ UNCHANGED <<reflush, work, critErr>> /\ groups' = groups
      /\ \A d \in Client : cl[d].pc \notin Leaving
  BY DEF WaitNext, Unmount, Mounted, Leaving, env, gvars
<1>2. Requeued' /\ Worked'
  BY <1>1, Facts, GroupsD
<1>3. cl \in [Client -> Caller]
  BY DEF SInv, Callers
<1>4. PICK x \in Caller : x = cl[c]
  BY <1>3
<1>5. x.tries = 0
  BY <1>1, <1>4, AllFree
<1>6. PICK y : cl' = [cl EXCEPT ![c] = y] /\ y.pc \in {"sleep", "drain"} /\ y.tries = 0
  <2>1. CASE WaitNext(c)
    <3> DEFINE z == [pc |-> "sleep", seq |-> next, tries |-> 0]
    <3>1. cl' = [cl EXCEPT ![c] = z] /\ z.pc = "sleep" /\ z.tries = 0
      BY <2>1 DEF WaitNext, AsyncWait
    <3> HIDE DEF z
    <3> QED BY <3>1
  <2>2. CASE Unmount(c)
    <3>1. cl' = [cl EXCEPT ![c] = [x EXCEPT !.pc = "drain"]]
      BY <1>4, <2>2 DEF Unmount
    <3>2. [x EXCEPT !.pc = "drain"].pc = "drain" /\ [x EXCEPT !.pc = "drain"].tries = 0
      BY <1>5, CallerPc
    <3> QED BY <3>1, <3>2
  <2> QED BY <2>1, <2>2
<1>7. cl'[c] = y /\ \A d \in Client : d # c => cl'[d] = cl[d]
  BY <1>3, <1>6
<1>8. \A d \in Client : cl'[d].tries = 0 /\ cl'[d].pc \notin {"kill", "gone"}
  BY <1>1, <1>6, <1>7, AllFree
<1> QED
  BY <1>2, <1>8, FreeD

LEMMA UnmountedD ==
  ASSUME NEW c \in Client, IInv, SInv, DInv, Unmounted(c)
  PROVE  DInv'
<1>1. /\ UNCHANGED <<act, next, reflush, pend>> /\ groups' = groups /\ work' = work
      /\ critErr' = critErr /\ mpc' = mpc /\ count' = count /\ cl[c].pc = "kill"
      /\ groups \in Seq(Group)
  BY Facts DEF Unmounted, env, gvars, seqs, mst
<1>2. work' \in Nat /\ work' =< work
  BY <1>1, WorkType
<1>3. PICK x \in Caller : x = cl[c]
  BY DEF SInv, Callers
<1> DEFINE y == [x EXCEPT !.pc = "gone"]
<1>4. y.pc = "gone" /\ y.tries = x.tries
  BY CallerPc
<1>5. cl' = [cl EXCEPT ![c] = y]
  BY <1>3 DEF Unmounted
<1> HIDE DEF y
<1>6. cl'[c] = y /\ \A d \in Client : d # c => cl'[d] = cl[d]
  BY <1>5 DEF SInv, Callers
<1>7. ASSUME NEW d \in Client
      PROVE  /\ cl'[d].tries = cl[d].tries
             /\ cl'[d].pc \notin Leaving => cl[d].tries = 0
             /\ cl'[d].pc \in {"kill", "gone"} => cl[d].pc \in {"kill", "gone"}
             /\ ~critErr /\ \/ cl[d].tries >= 2 /\ groups # <<>>
                            \/ cl[d].tries >= 3 /\ work > 0
                  => cl'[d].pc \in Awaiting /\ cl'[d].seq = cl[d].seq
  <2>1. CASE d = c
    <3>1. ~critErr => groups = <<>> /\ ~(work > 0)
      BY <1>1 DEF DInv, Torn
    <3>2. cl'[d].pc \in Leaving
      BY <1>4, <1>6, <2>1 DEF Leaving
    <3> QED BY <1>1, <1>3, <1>4, <1>6, <2>1, <3>1, <3>2
  <2>2. CASE d # c
    BY <1>6, <2>2 DEF DInv, Tries, Second, Third, Reached, Coming
  <2> QED BY <2>1, <2>2
<1>8. Going => Going'
  BY <1>1 DEF Going
<1> QED
  BY <1>1, <1>2, <1>7, <1>8, StillD

(* The groups are freed: they were empty, unless there was an error.       *)
LEMMA TeardownD ==
  ASSUME NEW c \in Client, Patient, IInv, SInv, DInv, Teardown(c)
  PROVE  DInv'
<1>1. /\ cl[c].pc = "drain" /\ (haswork => cl[c].tries = MaxTries) /\ groups' = <<>>
      /\ reflush' = reflush /\ work' = work /\ critErr' = critErr /\ pend' = pend
  BY DEF Teardown, NoWorkLeft, env
<1>2. work \in Nat /\ cl[c] \in Caller
  BY WorkType DEF SInv, Callers
<1>3. cl[c].tries \in Nat /\ cl[c].tries =< 3
  BY <1>2, CallerType DEF DInv, Tries
<1>4. ~critErr => groups = <<>> /\ work = 0
  <2>1. ~haswork
    BY <1>1, <1>3, FlusherAssumption DEF Patient
  <2> QED BY <1>2, <2>1 DEF haswork
<1>5. PICK x \in Caller : x = cl[c]
  BY <1>2
<1> DEFINE y == [x EXCEPT !.pc = "kill"]
<1>6. y.pc = "kill" /\ y.tries = x.tries
  BY CallerPc
<1>7. cl' = [cl EXCEPT ![c] = y]
  BY <1>5 DEF Teardown
<1> HIDE DEF y
<1>8. cl'[c] = y /\ \A d \in Client : d # c => cl'[d] = cl[d]
  BY <1>7 DEF SInv, Callers
<1>9. /\ \A d \in Client : cl'[d].tries = cl[d].tries
      /\ \A d \in Client : cl'[d].pc \notin Leaving => cl[d].pc \notin Leaving
  BY <1>5, <1>6, <1>8 DEF Leaving
<1>10. Requeued'
  BY <1>1, <1>4 DEF DInv, Requeued
<1>11. Worked'
  BY <1>1, <1>4 DEF DInv, Worked
<1>12. \A d \in Client : Tries(d)'
  BY <1>9 DEF DInv, Tries
<1>13. ASSUME NEW d \in Client, ~critErr
       PROVE  First(d)' /\ Second(d)' /\ Third(d)' /\ Torn(d)'
  <2>1. First(d) /\ Second(d) /\ cl'[d].tries = cl[d].tries
    BY <1>9, <1>13 DEF DInv
  <2>2. groups' = <<>> /\ work' = 0 /\ ~(work' > 0)
    BY <1>1, <1>4, <1>13
  <2> QED BY <1>1, <2>1, <2>2 DEF First, Second, Third, Torn
<1> QED
  BY <1>1, <1>10, <1>11, <1>12, <1>13 DEF DInv

(* One more sync of the unmount.                                           *)
LEMMA DrainD ==
  ASSUME NEW c \in Client, Roomy, IInv, SInv, DInv, mpc # "freed", Drain(c)
  PROVE  DInv'
<1> DEFINE t == cl[c].tries
           W == Cardinality(Waiting)
<1>1. /\ cl[c].pc = "drain" /\ ~critErr /\ (groups # <<>> \/ work > 0)
      /\ StartSync(c, "dsleep", t + 1) /\ next' = next
      /\ UNCHANGED <<reflush, work, critErr>>
  BY DEF Drain, haswork, env, seqs
<1>2. t \in Nat
  <2>1. cl[c] \in Caller
    BY DEF SInv, Callers
  <2> QED BY <2>1, CallerType
<1>3. t + 1 \in Nat
  BY <1>2
<1>4. First(c) /\ Second(c) /\ Third(c) /\ t =< 3
  BY <1>1 DEF DInv, Tries
<1>5. cl[c].pc \notin Awaiting
  BY <1>1 DEF Awaiting
<1>6. t >= 2 => groups = <<>>
  BY <1>4, <1>5 DEF Second, Reached
<1>7. t =< 2
  <2>1. t >= 3 => groups = <<>> /\ ~(work > 0)
    BY <1>4, <1>5 DEF Third, Coming
  <2> QED BY <1>1, <1>2, <2>1
<1>8. t >= 1 => reflush = {}
  <2>1. pend[c] = {}
    BY <1>1, <1>5, Idle
  <2> QED BY <1>4, <2>1 DEF First
<1>9. /\ W \in Nat /\ W =< Len(groups) /\ Len(groups) =< W + Ahead(mpc)
      /\ W + 2 < SeqSpan \div 2 /\ next \in Seqno /\ W \in Seqno /\ Stay
      /\ groups' \in Seq(Group) /\ Len(groups') = Len(groups)
      /\ \A g \in 1 .. Len(groups) : groups'[g].ips = groups[g].ips
  BY <1>1, <1>3, StartFacts
<1>10. PICK y \in Caller : /\ cl' = [cl EXCEPT ![c] = y] /\ y.pc = "dsleep"
                           /\ y.seq = (next + W) % SeqSpan /\ y.tries = t + 1
  BY <1>1, <1>3, StartFacts
<1> HIDE DEF W
<1>11. cl'[c] = y /\ \A d \in Client : d # c => cl'[d] = cl[d]
  BY <1>10 DEF SInv, Callers
<1>12. \A i : \A n \in Nat : Within(groups, i, n) => Within(groups', i, n)
  BY <1>9 DEF Within
<1>13. groups \in Seq(Group) /\ Len(groups) \in Nat
  BY Facts
<1>14. Requeued' /\ Worked'
  BY <1>1, <1>9, <1>12, <1>13, GroupsD
<1>15. groups' = <<>> <=> groups = <<>>
  BY <1>9, <1>13, NoGroups
<1>16. ASSUME NEW d \in Client, d # c
       PROVE  cl'[d].tries = 0 /\ cl'[d].pc \notin {"kill", "gone"} /\ cl'[d].pc \notin Leaving
  <2>1. cl[d].pc = "idle"
    BY <1>1, <1>16 DEF SInv, Callers, Leaving
  <2>2. cl[d].tries = 0
    BY <2>1 DEF DInv, Tries, Leaving
  <2> QED BY <1>11, <1>16, <2>1, <2>2 DEF Leaving
<1>17. First(c)'
  <2>1. pend'[c] = AllQueued
    BY <1>1 DEF StartSync, SInv, Callers
  <2>2. ASSUME NEW i \in reflush PROVE i \in AllQueued
    <3>1. PICK n \in Nat : Within(groups, i, n)
      BY <1>1, <2>2 DEF DInv, Requeued
    <3>2. PICK g \in 1 .. Len(groups) : \E a \in 1 .. Len(groups[g].ips) : groups[g].ips[a] = i
      BY <3>1 DEF Within
    <3>3. i \in Inode
      BY <3>2, Typed
    <3>4. i \in Queued(g) /\ g \in DOMAIN groups
      BY <1>13, <3>2, <3>3 DEF Queued, Contains
    <3> QED BY <3>4 DEF AllQueued
  <2> QED BY <1>1, <2>1, <2>2 DEF First
<1>18. Second(c)'
  <2> SUFFICES ASSUME t + 1 >= 2
               PROVE  reflush' = {} /\ (groups' # <<>> => Reached(c)')
    BY <1>10, <1>11 DEF Second
  <2>1. reflush' = {}
    BY <1>1, <1>2, <1>8
  <2>2. Ahead(mpc') = Ahead(mpc)
    BY <1>9, StayInside DEF Ahead
  <2>3. cl'[c].pc \in Awaiting /\ cl'[c].seq = (next' + W) % SeqSpan
    BY <1>1, <1>10, <1>11 DEF Awaiting
  <2>4. Reached(c)'
    BY <1>9, <2>2, <2>3 DEF Reached
  <2> QED BY <2>1, <2>4
<1>19. Third(c)'
  <2> SUFFICES ASSUME t + 1 >= 3
               PROVE  groups' = <<>> /\ Coming(c)'
    BY <1>10, <1>11 DEF Third
  <2>1. groups = <<>>
    BY <1>2, <1>6
  <2>2. W = 0
    BY <1>9, <1>13, <2>1
  <2>3. (next + 0) % SeqSpan = IF next + 0 < SeqSpan THEN next + 0 ELSE next + 0 - SeqSpan
    BY <1>9, <2>2, Plus
  <2>4. (next + W) % SeqSpan = next
    BY <1>9, <2>2, <2>3, Span DEF Seqno
  <2>5. cl'[c].pc \in Awaiting /\ cl'[c].seq = next'
    BY <1>1, <1>10, <1>11, <2>4 DEF Awaiting
  <2> QED BY <1>15, <2>1, <2>5 DEF Coming
<1>20. Tries(c)' /\ Torn(c)'
  <2>1. t + 1 =< 3
    BY <1>2, <1>7
  <2> QED BY <1>10, <1>11, <2>1 DEF Tries, Torn, Leaving
<1>21. ASSUME NEW d \in Client
       PROVE  Tries(d)' /\ First(d)' /\ Second(d)' /\ Third(d)' /\ Torn(d)'
  <2>1. CASE d = c
    BY <1>17, <1>18, <1>19, <1>20, <2>1
  <2>2. CASE d # c
    BY <1>16, <2>2 DEF Tries, First, Second, Third, Torn
  <2> QED BY <2>1, <2>2
<1> QED
  BY <1>14, <1>21 DEF DInv

(* hammer_flush_inode() flags an inode that is in a group.                 *)
LEMMA FlushInodeD ==
  ASSUME NEW i \in Inode, NEW sig \in BOOLEAN, IInv, SInv, DInv, FlushInode(i, sig)
  PROVE  DInv'
<1>1. /\ groups \in Seq(Group) /\ nextGroup \in 0 .. Len(groups) /\ Len(groups) \in Nat
      /\ \A g \in 1 .. Len(groups) : groups[g].running => g = 1
      /\ nextGroup > 0 => ~groups[nextGroup].running
  BY DEF IInv, TypeOK, Running
<1>2. /\ cl' = cl /\ work' = work /\ critErr' = critErr
      /\ \A d \in Client : cl[d].pc \notin Leaving
  BY DEF FlushInode, Mounted, Leaving
<1>3. PICK X, j : /\ Queue(pick(groups), X, sig)
                  /\ \/ j = i /\ X = core(pick(groups), i)
                     \/ j = None /\ X = pick(groups).groups
  BY DEF FlushInode
<1>4. Joined(groups, groups', nextGroup', j)
  BY <1>1, <1>3, Queues
<1>5. \A x : \A n \in Nat : Within(groups, x, n) => Within(groups', x, n)
  BY <1>1, <1>4, JoinedWithin
<1>6. groups' # <<>>
  <2>1. groups' \in Seq(Group) /\ nextGroup' \in 1 .. Len(groups')
    BY <1>4 DEF Joined
  <2> QED BY <2>1
<1>7. reflush' = reflush \/ (reflush' = reflush \union {i} /\ i \in AllQueued)
  BY DEF FlushInode
<1>8. ASSUME i \in AllQueued PROVE \E n \in Nat : Within(groups, i, n)
  <2>1. PICK g \in 1 .. Len(groups) : Contains(groups[g].ips, i)
    BY <1>1, <1>8 DEF AllQueued, Queued
  <2>2. Within(groups, i, g) /\ g \in Nat
    BY <1>1, <2>1 DEF Within, Contains
  <2> QED BY <2>2
<1>9. Requeued'
  <2> SUFFICES ASSUME ~critErr, NEW x \in reflush'
               PROVE  \E n \in Nat : Within(groups', x, n)
    BY <1>2 DEF Requeued
  <2>1. PICK n \in Nat : Within(groups, x, n)
    BY <1>7, <1>8 DEF DInv, Requeued
  <2> QED BY <1>5, <2>1
<1>10. Worked'
  BY <1>2, <1>6 DEF DInv, Worked
<1>11. \A d \in Client : cl'[d].tries = 0 /\ cl'[d].pc \notin {"kill", "gone"}
  BY <1>2, AllFree
<1> QED
  BY <1>9, <1>10, <1>11, FreeD

(* A slave at work has a group to work on.                                 *)
LEMMA BusyGroup ==
  ASSUME NEW s \in Slave, IInv, mpc # "freed", SlaveBusy(s)
  PROVE  Len(groups) >= 1 /\ groups # <<>> /\ groups \in Seq(Group) /\ Len(groups) \in Nat
<1>1. Len(groups) >= 1 /\ groups \in Seq(Group) /\ Len(groups) \in Nat
  BY SlaveRemoves, Facts
<1> QED
  BY <1>1

LEMMA SlaveWouldBlockD ==
  ASSUME NEW s \in Slave, IInv, SInv, DInv, mpc # "freed", SlaveWouldBlock(s)
  PROVE  DInv'
<1>1. groups # <<>>
  BY BusyGroup DEF SlaveWouldBlock
<1>2. /\ groups' = groups /\ reflush' = reflush /\ critErr' = critErr /\ cl' = cl
      /\ pend' = pend /\ mpc' = mpc /\ next' = next /\ work' = 2
  BY DEF SlaveWouldBlock, gvars, seqs, mst
<1>3. Requeued' /\ Worked'
  BY <1>1, <1>2 DEF DInv, Requeued, Worked
<1>4. \A c \in Client : Tries(c)'
  BY <1>2 DEF DInv, Tries
<1>5. ASSUME NEW c \in Client, ~critErr
      PROVE  First(c)' /\ Second(c)' /\ Third(c)' /\ Torn(c)'
  <2>1. First(c) /\ Second(c) /\ Third(c) /\ Torn(c)
    BY <1>5 DEF DInv
  <2> QED BY <1>1, <1>2, <2>1 DEF First, Second, Reached, Third, Torn
<1> QED
  BY <1>2, <1>3, <1>4, <1>5 DEF DInv

(* An inode is flushed.  It goes to a new group only if it was flagged.    *)
LEMMA SlaveFlushedD ==
  ASSUME NEW s \in Slave, IInv, SInv, DInv, mpc # "freed", SlaveFlushed(s)
  PROVE  DInv'
<1> DEFINE G == Shorter(s)
           x == SlaveInode(s)
<1>1. SlaveBusy(s)
  BY DEF SlaveFlushed
<1>2. /\ critErr' = critErr /\ cl' = cl /\ next' = next /\ work' = 2
      /\ reflush' = reflush \ {x} /\ pend' = [c \in Client |-> pend[c] \ {x}]
      /\ \/ x \in reflush /\ \E sig \in BOOLEAN : Queue(pick(G), core(pick(G), x), sig)
         \/ groups' = G /\ mpc' = mpc
  BY DEF SlaveFlushed, Shorter, seqs
<1>3. /\ G \in Seq(Group) /\ Len(G) = Len(groups) /\ x \in Inode /\ Len(groups) >= 1
      /\ \A g \in 1 .. Len(groups) : G[g].running => g = 1
      /\ nextGroup > 0 => ~G[nextGroup].running
  BY <1>1, SlaveRemoves
<1>4. \A i : \A n \in Nat : i # x /\ Within(groups, i, n) => Within(G, i, n)
  BY <1>1, ShorterWithin
<1>5. groups # <<>> /\ Len(groups) \in Nat
  BY <1>1, BusyGroup
<1> HIDE DEF G, x
<1>6. nextGroup \in 0 .. Len(G)
  BY <1>3 DEF IInv, TypeOK
<1>7. /\ groups' # <<>>
      /\ \A i : \A n \in Nat : Within(G, i, n) => Within(groups', i, n)
  <2>1. CASE \E sig \in BOOLEAN : Queue(pick(G), core(pick(G), x), sig)
    <3>1. PICK sig \in BOOLEAN : Queue(pick(G), core(pick(G), x), sig)
      BY <2>1
    <3>2. Joined(G, groups', nextGroup', x)
      BY <1>3, <1>6, <3>1, Queues
    <3>3. groups' \in Seq(Group) /\ nextGroup' \in 1 .. Len(groups')
      BY <3>2 DEF Joined
    <3>4. groups' # <<>>
      BY <3>3
    <3> QED BY <1>3, <3>2, <3>4, JoinedWithin
  <2>2. CASE groups' = G
    BY <1>3, <1>5, <2>2, NoGroups
  <2> QED BY <1>2, <2>1, <2>2
<1>8. Requeued'
  <2> SUFFICES ASSUME ~critErr, NEW i \in reflush \ {x}
               PROVE  \E n \in Nat : Within(groups', i, n)
    BY <1>2 DEF Requeued
  <2>1. PICK n \in Nat : Within(groups, i, n)
    BY DEF DInv, Requeued
  <2> QED BY <1>4, <1>7, <2>1
<1>9. Worked'
  BY <1>2, <1>7 DEF Worked
<1>10. \A c \in Client : Tries(c)'
  BY <1>2 DEF DInv, Tries
<1>11. ASSUME NEW c \in Client, ~critErr
       PROVE  First(c)' /\ Second(c)' /\ Third(c)' /\ Torn(c)'
  <2>1. First(c) /\ Second(c) /\ Third(c) /\ Torn(c)
    BY <1>11 DEF DInv
  <2>2. First(c)'
    BY <1>2, <2>1 DEF First
  <2>3. Second(c)'
    <3> SUFFICES ASSUME cl[c].tries >= 2 PROVE reflush' = {} /\ Reached(c)'
      BY <1>2 DEF Second
    <3>1. reflush = {} /\ Reached(c)
      BY <1>5, <2>1 DEF Second
    <3>2. Len(groups') = Len(groups) /\ mpc' = mpc
      BY <1>2, <1>3, <3>1
    <3> QED BY <1>2, <3>1, <3>2 DEF Reached
  <2>4. Third(c)' /\ Torn(c)'
    BY <1>2, <1>5, <2>1 DEF Third, Torn
  <2> QED BY <2>2, <2>3, <2>4
<1> QED
  BY <1>2, <1>8, <1>9, <1>10, <1>11 DEF DInv

LEMMA InitInvD ==
  ASSUME Init
  PROVE  DInv
<1>1. /\ groups = <<>> /\ reflush = {} /\ work = 0
      /\ cl = [c \in Client |-> IdleCl]
  BY DEF Init
<1>2. IdleCl.tries = 0 /\ IdleCl.pc = "idle"
  BY DEF IdleCl
<1>3. Requeued /\ Worked
  BY <1>1 DEF Requeued, Worked
<1>4. \A c \in Client : cl[c].tries = 0 /\ cl[c].pc = "idle"
  BY <1>1, <1>2
<1>5. \A c \in Client : Tries(c) /\ First(c) /\ Second(c) /\ Third(c) /\ Torn(c)
  BY <1>4 DEF Tries, First, Second, Third, Torn
<1> QED
  BY <1>3, <1>5 DEF DInv

LEMMA NextInvD ==
  ASSUME Roomy, Patient, IInv, SInv, DInv, [Next]_vars
  PROVE  DInv'
<1>1. CASE UNCHANGED vars
  BY <1>1 DEF vars, gvars, seqs, mst, env, DInv, Requeued, Worked, Tries, First, Second,
              Reached, Third, Coming, Going, Torn
<1>2. CASE Next
  <2>1. mpc # "freed"
    BY <1>2 DEF Next
  <2>2. ASSUME NEW i \in Inode, NEW sig \in BOOLEAN, FlushInode(i, sig) PROVE DInv'
    BY <2>2, FlushInodeD
  <2>3. ASSUME NEW c \in Client, Waiter(c) PROVE DInv'
    BY <2>1, <2>3, SyncD, WaitNextD, AwakeD, DrainD, TeardownD, KillStepD, UnmountedD
       DEF Waiter
  <2>4. CASE MasterStep
    BY <2>1, <2>4, CycleD, MasterStepD, PickGroupD, MasterFinalizeD, CycleDoneD
       DEF MasterStep
  <2>5. ASSUME NEW s \in Slave, SlaveStep(s) PROVE DInv'
    BY <2>1, <2>5, SlaveFlushedD, SlaveWouldBlockD, SlaveStepD DEF SlaveStep
  <2>6. CASE MediaError
    BY <2>1, <2>6, MasterStepD
  <2> QED BY <1>2, <2>2, <2>3, <2>4, <2>5, <2>6 DEF Next
<1> QED
  BY <1>1, <1>2

LEMMA Drained ==
  ASSUME Patient, SInv, DInv
  PROVE  UnmountDrains
<1> SUFFICES ASSUME NEW c \in Client
             PROVE  /\ cl[c].tries < MaxTries
                    /\ (cl[c].pc = "kill" /\ ~critErr) => work = 0
  BY DEF UnmountDrains
<1>1. cl[c] \in Caller /\ cl[c].tries =< 3
  BY DEF SInv, Callers, DInv, Tries
<1>2. cl[c].tries \in Nat
  BY <1>1, CallerType
<1>3. cl[c].tries < MaxTries
  BY <1>1, <1>2, FlusherAssumption DEF Patient
<1> QED
  BY <1>3 DEF DInv, Torn

(* hammer_free_hmp() is done with flushing after three syncs: it never     *)
(* gives up with MaxTries above that (the code has 30), and when it tells  *)
(* the master to exit nothing is left to flush, unless there was a         *)
(* critical error.                                                         *)
THEOREM UnmountIsComplete == ASSUME Roomy, Patient PROVE Spec => []UnmountDrains
<1>1. Init => DInv
  BY InitInvD
<1>2. IInv /\ SInv /\ DInv /\ [Next]_vars => DInv'
  BY NextInvD
<1>3. SInv /\ DInv => UnmountDrains
  BY Drained
<1> QED
  BY <1>1, <1>2, <1>3, Invariant, SyncInvariant, PTL DEF Spec
=============================================================================
