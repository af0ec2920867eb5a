------------------------- MODULE HammerBtreeProofs -------------------------
(***************************************************************************)
(* The threads of HammerBtree on any tree, with any number of threads,     *)
(* jobs and nodes. IInv says where each thread's cursors may be and which  *)
(* locks they have, and that nobody else touches the nodes a thread has    *)
(* locked.                                                                 *)
(*                                                                         *)
(*   Invariance, TypeCorrect, WellFormedTree, NoStaleNodes                 *)
(*       every thread's step keeps IInv; the tree stays well formed and no *)
(*       cursor is on a node that is gone                                  *)
(*   ImplementsIndex                                                       *)
(*       the records of the leaves change as HammerIndex says              *)
(*   PruningKeepsSnapshots                                                 *)
(*       what pruning takes away no snapshot shows                         *)
(***************************************************************************)
EXTENDS HammerBtreeImageProofs

LockRec == [ex : Proc \union {NULL}, sh : SUBSET Proc]
(* Where a thread can be, and where it can go from there.                  *)
Busy == {"search", "insert", "delete", "push", "prop", "next", "more", "iter",
         "move", "fin"}
Word == Busy \union {"idle", "start", "first", "parent", "child", "dlk", "relock",
                     "cache", "root", ""}
State == [pc : Word, cont : Word, jobs : Seq(SUBSET Jobs), job : Jobs \union {NULL},
          want : AnyNode, dlk : AnyNode, beg : AnyKey, end : AnyKey, check : Tid,
          enospc : BOOLEAN, tid : Nat, cache : AnyNode]

TypeOK ==
  /\ node \in [Node -> NodeRec] /\ Kinds(node)
  /\ cur \in [Cursor -> CursorRec] /\ lk \in [Node -> LockRec]
  /\ pr \in [Proc -> State]

(* A lock has one exclusive holder or any number of others.                *)
Locks == \A n \in Node : lk[n].ex # NULL => lk[n].sh = {}

(* Nobody has locked a node that is not there yet.                         *)
Untouched(nd, L) == \A n \in Node : nd[n].type = "free" => L[n].ex = NULL /\ L[n].sh = {}

Has(L, p, n) == L[n].ex = p \/ p \in L[n].sh

Keeps(L, p, cu) == \A n \in Mine(cu) : Has(L, p, n)

Out(st) == st.pc \in {"idle", "start", "first"} \/ (st.pc = "dlk" /\ st.cont = "start")
Away(st) == st.pc = "relock" \/ (st.pc = "dlk" /\ st.cont = "relock")
(* Where the thread goes on when it has the parent.                        *)
Goal(st) == IF st.pc = "parent" THEN st.cont ELSE st.pc

(* The cursor in use.                                                      *)
Using(C, p) == IF C[<<p, 2>>].node # NULL THEN <<p, 2>> ELSE <<p, 1>>

Doomed(j, e) ==
  CASE j.op = "delete"   -> e.base = j.key
    [] j.op = "prune"    -> ShouldPrune(j, e)
    [] j.op = "rollback" -> ShouldRollBack(j, e)
    [] OTHER             -> FALSE

(* What a thread relies on at its cursor when it comes to do g.            *)
Ready(nd, cu, g, job) ==
  LET x == nd[cu.node] IN
  /\ g = "insert" => /\ ~IsInternal(x) /\ ~Full(x) /\ cu.index \in 0 .. Count(x)
                     /\ job.op = "insert" /\ Slot(x, cu.index, job.key)
                     /\ Cmp(Bounds(nd, cu)[1], job.key) <= 0
                     /\ Cmp(job.key, Bounds(nd, cu)[2]) < 0
  /\ g = "delete" => /\ ~IsInternal(x) /\ cu.index \in 0 .. Count(x) - 1
                     /\ Doomed(job, E(x, cu.index))
  /\ g = "move"   => cu.index = 0 /\ x.elms # <<>> /\ job.op = "reblock"
  /\ g = "iter"   => cu.index \in IF job.op = "prune" THEN -1 .. Count(x) - 1
                                                     ELSE 0 .. Count(x)
  /\ g \in {"next", "more", "push", "prop"} => cu.index \in 0 .. Count(x)

(* Where the cursor in use is: at work, on its way up, on its way down.    *)
AtWork(nd, L, p, cu, st) ==
  Seated(nd, cu) /\ Keeps(L, p, cu) /\ Ready(nd, cu, st.pc, st.job)
GoesUp(nd, L, p, cu, st) ==
  /\ ~cu.trk /\ cu.node \in InUse(nd) /\ Has(L, p, cu.node)
  /\ cu.parent = NULL /\ st.want = nd[cu.node].parent /\ st.want # NULL
  /\ st.cont \in Busy \ {"insert", "delete"} /\ Ready(nd, cu, st.cont, st.job)
GoesDown(nd, L, p, cu, st) ==
  /\ ~cu.trk /\ cu.node = NULL /\ cu.parent \in InUse(nd) /\ IsInternal(nd[cu.parent])
  /\ Has(L, p, cu.parent) /\ cu.pindex \in 0 .. Count(nd[cu.parent]) - 1
  /\ st.want = E(nd[cu.parent], cu.pindex).sub
  /\ st.cont \in {"search", "iter"}
Stands(nd, L, p, cu, st) ==
  /\ Away(st) => cu.trk
  /\ st.pc \in Busy => AtWork(nd, L, p, cu, st)
  /\ st.pc = "parent" => GoesUp(nd, L, p, cu, st)
  /\ st.pc = "child" => GoesDown(nd, L, p, cu, st)
  /\ Out(st) \/ Away(st) \/ st.pc \in Busy \union {"parent", "child"}

(* A thread's state and its cursors.                                       *)
Placed(nd, C, L, p, st) ==
  LET c1 == C[<<p, 1>>]
      c2 == C[<<p, 2>>]
  IN /\ Out(st) => c1 = NoCursor /\ c2 = NoCursor
     /\ Stands(nd, L, p, C[Using(C, p)], st)
     /\ IF c2.node = NULL THEN c2 = NoCursor /\ Goal(st) # "prop"
        ELSE c1.trk /\ (Away(st) \/ Goal(st) = "prop")

(* A thread's job.                                                         *)
Searchable(key) == key.k < MaxKey \/ key.t # 0
Working(nd, st) ==
  /\ st.pc # "idle" => /\ st.job \in Jobs /\ Searchable(st.beg) /\ Searchable(st.end)
                       /\ st.job.op \in {"insert", "delete"} => st.beg = st.job.key
                       /\ st.jobs # <<>>
  /\ st.pc = "first" => st.want \in Node /\ nd[st.want].type # "free"
  /\ st.cache # NULL => nd[st.cache].type # "free"

IInv ==
  /\ TypeOK /\ Linked(root, node) /\ Ranked(root, node)
  /\ Locks /\ Untouched(node, lk) /\ Tracked(node, cur)
  /\ \A p \in Proc : Placed(node, cur, lk, p, pr[p]) /\ Working(node, pr[p])
-----------------------------------------------------------------------------
(* Locks: what p can have for itself, and what it can share.               *)
Solely(L, p, n) == L[n].ex \in {NULL, p} /\ L[n].sh \subseteq {p}
Shares(L, p, n) == L[n].ex \in {NULL, p}
LockOK(L) == L \in [Node -> LockRec] /\ \A n \in Node : L[n].ex # NULL => L[n].sh = {}
(* p comes to hold M, and others hold what they did.                       *)
Takes(L, L2, p, M) ==
  /\ LockOK(L2)
  /\ \A n \in Node, q \in Proc : q # p => (Has(L2, q, n) <=> Has(L, q, n))
  /\ \A n \in M : n \in Node /\ Has(L2, p, n)
  /\ \A n \in Node : n \notin M /\ L[n].ex = NULL /\ L[n].sh = {} => L2[n].ex = NULL /\ L2[n].sh = {}

(* What Lock takes and gives back, for a thread that may.                  *)
LEMMA LockIs ==
  ASSUME LockOK(lk), NEW p \in Proc, NEW ex \in SUBSET Node, NEW sh \in SUBSET Node,
         \A n \in ex : n \notin sh /\ Solely(lk, p, n), \A n \in sh : Shares(lk, p, n), Lock(p, ex, sh)
  PROVE  Takes(lk, lk', p, ex \union sh)
<1>1. lk \in [Node -> LockRec] /\ \A n \in Node : lk[n].ex # NULL => lk[n].sh = {} BY DEF LockOK
<1>2. p # NULL /\ \A q \in Proc : q # NULL BY ProcAssumption
<1>3. ASSUME NEW n \in Node
      PROVE  /\ lk'[n] \in LockRec /\ lk[n].ex \in Proc \union {NULL} /\ lk[n].sh \in SUBSET Proc
             /\ lk'[n].ex = IF n \in ex THEN p ELSE IF lk[n].ex = p THEN NULL ELSE lk[n].ex
             /\ lk'[n].sh = IF n \in sh THEN lk[n].sh \union {p} ELSE lk[n].sh \ {p}
  <2> DEFINE x == IF n \in ex THEN p ELSE IF lk[n].ex = p THEN NULL ELSE lk[n].ex
             h == IF n \in sh THEN lk[n].sh \union {p} ELSE lk[n].sh \ {p}
  <2>1. lk'[n] = [ex |-> x, sh |-> h] BY DEF Lock
  <2>2. lk[n].ex \in Proc \union {NULL} /\ lk[n].sh \in SUBSET Proc BY <1>1 DEF LockRec
  <2>3. x \in Proc \union {NULL} /\ h \in SUBSET Proc BY <2>2
  <2> HIDE DEF x, h
  <2>4. lk'[n] \in LockRec /\ lk'[n].ex = x /\ lk'[n].sh = h BY <2>1, <2>3 DEF LockRec
  <2> QED BY <2>2, <2>4 DEF x, h
<1>4. lk' \in [Node -> LockRec]
  <2>1. \A n \in Node : lk'[n] \in LockRec BY <1>3
  <2>2. lk' = [n \in Node |-> lk'[n]] BY DEF Lock
  <2> QED BY <2>1, <2>2
<1>5. ASSUME NEW n \in Node PROVE lk'[n].ex # NULL => lk'[n].sh = {}
  <2>1. CASE n \in ex
    <3>1. n \notin sh /\ lk[n].sh \subseteq {p} BY <2>1 DEF Solely
    <3> QED BY <1>3, <3>1
  <2>2. CASE n \notin ex
    <3>1. CASE lk[n].ex = p BY <1>3, <2>2, <3>1
    <3>2. CASE lk[n].ex # p
      <4>1. CASE lk[n].ex = NULL BY <1>3, <2>2, <3>2, <4>1
      <4>2. CASE lk[n].ex # NULL
        <5>1. lk[n].sh = {} BY <1>1, <4>2
        <5>2. n \notin sh BY <3>2, <4>2 DEF Shares
        <5> QED BY <1>3, <5>1, <5>2
      <4> QED BY <4>1, <4>2
    <3> QED BY <3>1, <3>2
  <2> QED BY <2>1, <2>2
<1>6. ASSUME NEW n \in Node, NEW q \in Proc, q # p PROVE Has(lk', q, n) <=> Has(lk, q, n)
  <2>1. CASE n \in ex
    <3>1. n \notin sh /\ lk[n].sh \subseteq {p} /\ lk[n].ex \in {NULL, p} BY <2>1 DEF Solely
    <3> QED BY <1>2, <1>3, <1>6, <2>1, <3>1 DEF Has
  <2>2. CASE n \notin ex BY <1>2, <1>3, <1>6, <2>2 DEF Has
  <2> QED BY <2>1, <2>2
<1>7. ASSUME NEW n \in ex \union sh PROVE n \in Node /\ Has(lk', p, n)
  BY <1>3, <1>7 DEF Has
<1>8. ASSUME NEW n \in Node, n \notin ex \union sh, lk[n].ex = NULL, lk[n].sh = {}
      PROVE  lk'[n].ex = NULL /\ lk'[n].sh = {}
  BY <1>3, <1>8
<1> QED BY <1>4, <1>5, <1>6, <1>7, <1>8 DEF Takes, LockOK

(* hammer_lock_upgrade and hammer_lock_ex_try make a lock one's own; a     *)
(* lock one has is one that can be shared.                                 *)
LEMMA OwnLock ==
  ASSUME LockOK(lk), NEW p \in Proc, NEW n \in Node
  PROVE  /\ CanUpgrade(p, n) \/ Free(n) => Solely(lk, p, n)
         /\ Has(lk, p, n) \/ CanShare(n) => Shares(lk, p, n)
         /\ Solely(lk, p, n) => /\ Shares(lk, p, n)
                                /\ \A q \in Proc : q # p => ~Has(lk, q, n)
<1>1. lk[n] \in LockRec /\ (lk[n].ex # NULL => lk[n].sh = {}) BY DEF LockOK
<1>2. p # NULL /\ \A q \in Proc : q # NULL BY ProcAssumption
<1> QED BY <1>1, <1>2 DEF CanUpgrade, Free, Solely, Has, CanShare, Shares, LockRec
(* What does not disturb thread q.                                         *)
Undisturbed(nd, md, C, D, L, L2, q) ==
  /\ \A n \in Node : nd[n].type # "free" =>
       md[n].type # "free" /\ (Has(L, q, n) => md[n] = nd[n])
  /\ \A n \in Node : Has(L, q, n) => Has(L2, q, n)
  /\ Same(C[<<q, 1>>], D[<<q, 1>>]) /\ Same(C[<<q, 2>>], D[<<q, 2>>])
  /\ Tracked(md, D)

(* What others do leaves a thread at work where it is: they have no lock   *)
(* on its nodes, and tracked cursors follow.                               *)
LEMMA StandsStays ==
  ASSUME NEW rt, NEW nd, Tree(rt, nd), NEW md, NEW L, NEW L2, NEW q, NEW st, NEW cu, NEW du,
         Stands(nd, L, q, cu, st), Same(cu, du),
         \A n \in Node : nd[n].type # "free" => (Has(L, q, n) => md[n] = nd[n]),
         \A n \in Node : Has(L, q, n) => Has(L2, q, n)
  PROVE  Stands(md, L2, q, du, st)
<1>1. cu.trk => du.trk BY DEF Same
<1>2. ~cu.trk => du = cu BY DEF Same
<1>3. \A n \in InUse(nd) : Has(L, q, n) => n \in InUse(md) /\ md[n] = nd[n] BY DEF InUse
<1>4. \A n \in InUse(nd) : n \in Node /\ n # NULL BY NodeAssumption DEF InUse
<1>5. ASSUME NEW g, NEW job, md[cu.node] = nd[cu.node], cu.parent # NULL => md[cu.parent] = nd[cu.parent],
             Ready(nd, cu, g, job)
      PROVE  Ready(md, cu, g, job)
  <2>1. Bounds(md, cu) = Bounds(nd, cu) BY <1>5 DEF Bounds
  <2> QED BY <1>5, <2>1 DEF Ready
<1>6. ASSUME AtWork(nd, L, q, cu, st) PROVE AtWork(md, L2, q, du, st)
  <2>1. /\ ~cu.trk /\ cu.node \in InUse(nd) /\ cu.parent = nd[cu.node].parent
        /\ cu.parent # NULL => /\ cu.pindex \in 0 .. Count(nd[cu.parent]) - 1
                               /\ E(nd[cu.parent], cu.pindex).sub = cu.node
        /\ Keeps(L, q, cu) /\ Ready(nd, cu, st.pc, st.job)
    BY <1>6 DEF AtWork, Seated
  <2>2. du = cu BY <1>2, <2>1
  <2>3. cu.node \in Mine(cu) /\ (cu.parent # NULL => cu.parent \in Mine(cu))
    BY <1>4, <2>1 DEF Mine
  <2>4. cu.parent # NULL => cu.parent \in InUse(nd) BY <2>1, Up
  <2>5. Has(L, q, cu.node) /\ (cu.parent # NULL => Has(L, q, cu.parent)) BY <2>1, <2>3 DEF Keeps
  <2>6. /\ cu.node \in InUse(md) /\ md[cu.node] = nd[cu.node]
        /\ cu.parent # NULL => md[cu.parent] = nd[cu.parent]
    BY <1>3, <2>1, <2>4, <2>5
  <2>7. Seated(md, cu) BY <2>1, <2>6 DEF Seated
  <2>8. Keeps(L2, q, cu)
    <3>1. \A n \in Mine(cu) : n \in Node
      BY <1>4, <2>1, <2>4 DEF Mine
    <3> QED BY <2>1, <3>1 DEF Keeps
  <2>9. Ready(md, cu, st.pc, st.job) BY <1>5, <2>1, <2>6
  <2> QED BY <2>2, <2>7, <2>8, <2>9 DEF AtWork
<1>7. ASSUME GoesUp(nd, L, q, cu, st) PROVE GoesUp(md, L2, q, du, st)
  <2>1. /\ ~cu.trk /\ cu.node \in InUse(nd) /\ Has(L, q, cu.node)
        /\ cu.parent = NULL /\ Ready(nd, cu, st.cont, st.job)
    BY <1>7 DEF GoesUp
  <2>2. du = cu BY <1>2, <2>1
  <2>3. cu.node \in InUse(md) /\ md[cu.node] = nd[cu.node] /\ Has(L2, q, cu.node)
    BY <1>3, <1>4, <2>1
  <2>4. Ready(md, cu, st.cont, st.job) BY <1>5, <2>1, <2>3
  <2> QED BY <1>7, <2>2, <2>3, <2>4 DEF GoesUp
<1>8. ASSUME GoesDown(nd, L, q, cu, st) PROVE GoesDown(md, L2, q, du, st)
  <2>1. ~cu.trk /\ cu.parent \in InUse(nd) /\ Has(L, q, cu.parent) BY <1>8 DEF GoesDown
  <2>2. du = cu BY <1>2, <2>1
  <2>3. cu.parent \in InUse(md) /\ md[cu.parent] = nd[cu.parent] /\ Has(L2, q, cu.parent)
    BY <1>3, <1>4, <2>1
  <2> QED BY <1>8, <2>2, <2>3 DEF GoesDown
<1> QED BY <1>1, <1>6, <1>7, <1>8 DEF Stands

(* The same of both cursors of a thread.                                   *)
LEMMA PlacedStays ==
  ASSUME NEW rt, NEW nd, Tree(rt, nd), NEW md, NEW C, NEW D, NEW L, NEW L2, NEW q \in Proc, NEW st,
         Placed(nd, C, L, q, st), Undisturbed(nd, md, C, D, L, L2, q)
  PROVE  Placed(md, D, L2, q, st)
<1> DEFINE c1 == C[<<q, 1>>]
           c2 == C[<<q, 2>>]
           d1 == D[<<q, 1>>]
           d2 == D[<<q, 2>>]
           cu == C[Using(C, q)]
           du == D[Using(D, q)]
<1>1. /\ \A n \in Node : nd[n].type # "free" => (Has(L, q, n) => md[n] = nd[n])
      /\ \A n \in Node : Has(L, q, n) => Has(L2, q, n)
      /\ Same(c1, d1) /\ Same(c2, d2) /\ Tracked(md, D)
  BY DEF Undisturbed
<1>2. /\ Out(st) => c1 = NoCursor /\ c2 = NoCursor
      /\ Stands(nd, L, q, cu, st)
      /\ IF c2.node = NULL THEN c2 = NoCursor /\ Goal(st) # "prop"
         ELSE c1.trk /\ (Away(st) \/ Goal(st) = "prop")
  BY DEF Placed
<1>3. (d1.trk => d1.node # NULL) /\ (d2.trk => d2.node # NULL)
  <2>1. <<q, 1>> \in Cursor /\ <<q, 2>> \in Cursor BY DEF Cursor
  <2>2. TrackedAt(md, d1) /\ TrackedAt(md, d2) BY <1>1, <2>1 DEF Tracked
  <2> QED BY <2>2, NodeAssumption DEF TrackedAt, InUse
<1>4. d2.node = NULL <=> c2.node = NULL
  <2>1. CASE c2.trk
    <3>1. d2.trk BY <1>1, <2>1 DEF Same
    <3>2. c2.node # NULL BY <1>2, <2>1 DEF NoCursor
    <3> QED BY <1>3, <3>1, <3>2
  <2>2. CASE ~c2.trk BY <1>1, <2>2 DEF Same
  <2> QED BY <2>1, <2>2
<1>5. Same(cu, du) BY <1>1, <1>4 DEF Using
<1>6. (c1 = NoCursor => d1 = NoCursor) /\ (c2 = NoCursor => d2 = NoCursor)
  BY <1>1 DEF Same, NoCursor
<1>7. c1.trk => d1.trk BY <1>1 DEF Same
<1> HIDE DEF c1, c2, d1, d2, cu, du
<1>8. Stands(md, L2, q, du, st) BY <1>1, <1>2, <1>5, StandsStays
<1>9. /\ Out(st) => d1 = NoCursor /\ d2 = NoCursor
      /\ IF d2.node = NULL THEN d2 = NoCursor /\ Goal(st) # "prop"
         ELSE d1.trk /\ (Away(st) \/ Goal(st) = "prop")
  BY <1>2, <1>4, <1>6, <1>7
<1> QED BY <1>8, <1>9 DEF Placed, d1, d2, du
-----------------------------------------------------------------------------
(* A step of p that changes no nodes but its own and new ones.             *)
Apart(p, W) ==
  /\ Tree(root', node') /\ cur' \in [Cursor -> CursorRec] /\ Tracked(node', cur')
  /\ \A n \in Node : node[n].type # "free" =>
       node'[n].type # "free" /\ (n \notin W => node'[n] = node[n])
  /\ \A d \in Cursor : d # <<p, 1>> /\ d # <<p, 2>> => Same(cur[d], cur'[d])
  /\ \A n \in Node : n \in W => Solely(lk, p, n)

(* ... at the end of which p is where it should be.                        *)
Comes(p, M, st) ==
  /\ Takes(lk, lk', p, M) /\ \A n \in M : node'[n].type # "free"
  /\ st \in State /\ pr' = [pr EXCEPT ![p] = st]
  /\ Placed(node', cur', lk', p, st) /\ Working(node', st)

(* IInv in the form the lemmas about nodes use.                            *)
LEMMA IInvIs ==
  IInv <=> /\ Tree(root, node) /\ cur \in [Cursor -> CursorRec] /\ Tracked(node, cur)
           /\ LockOK(lk) /\ pr \in [Proc -> State] /\ Untouched(node, lk)
           /\ \A p \in Proc : Placed(node, cur, lk, p, pr[p]) /\ Working(node, pr[p])
BY DEF IInv, TypeOK, Tree, LockOK, Locks

(* The same of the next state.                                             *)
LEMMA IInvNext ==
  ASSUME Tree(root', node'), cur' \in [Cursor -> CursorRec], Tracked(node', cur'),
         LockOK(lk'), pr' \in [Proc -> State], Untouched(node', lk'),
         \A p \in Proc : Placed(node', cur', lk', p, pr'[p]) /\ Working(node', pr'[p])
  PROVE  IInv'
BY DEF IInv, TypeOK, Tree, LockOK, Locks

(* A thread's job does not depend on what others do to the tree.           *)
LEMMA WorkingStays ==
  ASSUME NEW nd, NEW md, \A n \in Node : nd[n].type # "free" => md[n].type # "free",
         NEW st \in State, Working(nd, st)
  PROVE  Working(md, st)
<1>1. st.cache \in AnyNode BY DEF State
<1> QED BY <1>1 DEF Working, AnyNode

(* A step of p keeps IInv when it changes only nodes that p alone has      *)
(* locked, and leaves p placed.                                            *)
LEMMA Step ==
  ASSUME IInv, NEW p \in Proc, NEW W, Apart(p, W), NEW M, NEW st, Comes(p, M, st)
  PROVE  IInv'
<1>1. /\ Tree(root, node) /\ cur \in [Cursor -> CursorRec] /\ Tracked(node, cur)
      /\ LockOK(lk) /\ pr \in [Proc -> State] /\ Untouched(node, lk)
      /\ \A q \in Proc : Placed(node, cur, lk, q, pr[q]) /\ Working(node, pr[q])
  BY IInvIs
<1>2. /\ Tree(root', node') /\ cur' \in [Cursor -> CursorRec] /\ Tracked(node', cur')
      /\ \A n \in Node : node[n].type # "free" =>
           node'[n].type # "free" /\ (n \notin W => node'[n] = node[n])
      /\ \A d \in Cursor : d # <<p, 1>> /\ d # <<p, 2>> => Same(cur[d], cur'[d])
      /\ \A n \in Node : n \in W => Solely(lk, p, n)
  BY DEF Apart
<1>3. /\ LockOK(lk')
      /\ \A n \in Node, q \in Proc : q # p => (Has(lk', q, n) <=> Has(lk, q, n))
      /\ \A n \in M : n \in Node /\ Has(lk', p, n)
      /\ \A n \in Node : n \notin M /\ lk[n].ex = NULL /\ lk[n].sh = {} => lk'[n].ex = NULL /\ lk'[n].sh = {}
      /\ \A n \in M : node'[n].type # "free"
      /\ st \in State /\ pr' = [pr EXCEPT ![p] = st]
      /\ Placed(node', cur', lk', p, st) /\ Working(node', st)
  BY DEF Comes, Takes
<1>4. pr' \in [Proc -> State] BY <1>1, <1>3
<1>5. Untouched(node', lk')
  <2>1. ASSUME NEW n \in Node, node'[n].type = "free" PROVE lk'[n].ex = NULL /\ lk'[n].sh = {}
    <3>1. node[n].type = "free" BY <1>2, <2>1
    <3>2. n \notin M BY <1>3, <2>1
    <3> QED BY <1>1, <1>3, <3>1, <3>2 DEF Untouched
  <2> QED BY <2>1 DEF Untouched
<1>6. ASSUME NEW q \in Proc PROVE Placed(node', cur', lk', q, pr'[q]) /\ Working(node', pr'[q])
  <2>1. CASE q = p BY <1>1, <1>3, <2>1
  <2>2. CASE q # p
    <3>1. pr'[q] = pr[q] BY <1>1, <1>3, <2>2
    <3>2. Undisturbed(node, node', cur, cur', lk, lk', q)
      <4>1. ASSUME NEW n \in Node, node[n].type # "free"
            PROVE  node'[n].type # "free" /\ (Has(lk, q, n) => node'[n] = node[n])
        <5>1. n \in W => ~Has(lk, q, n) BY <1>1, <1>2, <2>2, OwnLock
        <5> QED BY <1>2, <4>1, <5>1
      <4>2. \A n \in Node : Has(lk, q, n) => Has(lk', q, n) BY <1>3, <2>2
      <4>3. <<q, 1>> \in Cursor /\ <<q, 2>> \in Cursor BY DEF Cursor
      <4>4. Same(cur[<<q, 1>>], cur'[<<q, 1>>]) /\ Same(cur[<<q, 2>>], cur'[<<q, 2>>])
        BY <1>2, <2>2, <4>3
      <4> QED BY <1>2, <4>1, <4>2, <4>4 DEF Undisturbed
    <3>3. Placed(node', cur', lk', q, pr[q]) BY <1>1, <3>2, PlacedStays
    <3>4. Working(node', pr[q]) BY <1>1, <1>2, WorkingStays
    <3> QED BY <3>1, <3>3, <3>4
  <2> QED BY <2>1, <2>2
<1> QED BY <1>2, <1>3, <1>4, <1>5, <1>6, IInvNext
(* What holds of a thread at work.                                         *)
Sits(p) ==
  /\ Act(p) = Using(cur, p) /\ Act(p) \in Cursor /\ Cur(p) \in CursorRec
  /\ AtWork(node, lk, p, Cur(p), pr[p])
  /\ pr[p] \in State /\ Job(p) \in Jobs /\ Working(node, pr[p])
  /\ IF pr[p].pc = "prop" THEN Act(p) = <<p, 2>> /\ cur[<<p, 1>>].trk
                          ELSE Act(p) = <<p, 1>> /\ cur[<<p, 2>>] = NoCursor
(* A busy thread's cursor is on a node in use, with its locks.             *)
LEMMA SitsIs ==
  ASSUME IInv, NEW p \in Proc, pr[p].pc \in Busy
  PROVE  Sits(p)
<1>1. /\ cur \in [Cursor -> CursorRec] /\ pr[p] \in State
      /\ Placed(node, cur, lk, p, pr[p]) /\ Working(node, pr[p])
  BY IInvIs
<1>2. Act(p) = Using(cur, p) BY DEF Act, Using
<1>3. Act(p) \in Cursor /\ Cur(p) = cur[Using(cur, p)]
  BY <1>2 DEF Act, Cursor, Cur
<1>4. AtWork(node, lk, p, Cur(p), pr[p]) BY <1>1, <1>3 DEF Placed, Stands
<1>5. ~Away(pr[p]) /\ Goal(pr[p]) = pr[p].pc /\ pr[p].pc # "idle" BY DEF Away, Busy, Goal
<1>6. Job(p) \in Jobs BY <1>1, <1>5 DEF Working, Job
<1>7. IF pr[p].pc = "prop" THEN Act(p) = <<p, 2>> /\ cur[<<p, 1>>].trk
                           ELSE Act(p) = <<p, 1>> /\ cur[<<p, 2>>] = NoCursor
  <2>1. IF cur[<<p, 2>>].node = NULL
          THEN cur[<<p, 2>>] = NoCursor /\ Goal(pr[p]) # "prop"
          ELSE cur[<<p, 1>>].trk /\ (Away(pr[p]) \/ Goal(pr[p]) = "prop")
    BY <1>1 DEF Placed
  <2> QED BY <1>5, <2>1 DEF Act
<1> QED BY <1>1, <1>2, <1>3, <1>4, <1>6, <1>7 DEF Sits

(* The same, unfolded: p's node and the one above, and their locks.        *)
Sat(p) ==
  LET cu == Cur(p)
      x  == node[cu.node]
  IN /\ ~cu.trk /\ cu.node \in InUse(node) /\ cu.node \in Node /\ x \in NodeRec
     /\ cu.parent = x.parent /\ cu.parent \in AnyNode /\ cu.index \in Int /\ cu.pindex \in Int
     /\ cu.parent # NULL => /\ cu.pindex \in 0 .. Count(node[cu.parent]) - 1
                            /\ E(node[cu.parent], cu.pindex).sub = cu.node
                            /\ cu.parent \in InUse(node) /\ cu.parent # cu.node /\ cu.parent \in Node
                            /\ IsInternal(node[cu.parent]) /\ Shares(lk, p, cu.parent)
                            /\ Count(node[cu.parent]) \in Int /\ Count(node[cu.parent]) >= 1
     /\ Shares(lk, p, cu.node) /\ Count(x) \in Int /\ Count(x) >= 0 /\ Len(x.elms) \in Nat
     /\ IsInternal(x) => x.elms \in Seq(IntElm) /\ Count(x) = Len(x.elms) - 1 /\ Count(x) >= 1
     /\ ~IsInternal(x) => x.elms \in Seq(LeafElm) /\ Count(x) = Len(x.elms)
     /\ Seated(node, cu) /\ Keeps(lk, p, cu) /\ Ready(node, cu, pr[p].pc, Job(p))
     /\ Act(p) \in Cursor /\ cu \in CursorRec /\ cu = cur[Act(p)] /\ N(p) = x

(* What the types say of that node.                                        *)
LEMMA SatIs ==
  ASSUME IInv, NEW p \in Proc, Sits(p)
  PROVE  Sat(p)
<1> DEFINE cu == Cur(p)
           x == node[cu.node]
<1>1. Tree(root, node) /\ LockOK(lk) BY IInvIs
<1>2. /\ cu \in CursorRec /\ Act(p) \in Cursor /\ AtWork(node, lk, p, cu, pr[p])
      /\ cu = cur[Act(p)] /\ N(p) = x
  BY DEF Sits, Cur, N
<1> HIDE DEF cu
<1>3. Seated(node, cu) /\ Keeps(lk, p, cu) /\ Ready(node, cu, pr[p].pc, Job(p))
  BY <1>2 DEF AtWork, Job
<1>4. /\ ~cu.trk /\ cu.node \in InUse(node) /\ cu.parent = x.parent
      /\ cu.parent # NULL => /\ cu.pindex \in 0 .. Count(node[cu.parent]) - 1
                             /\ E(node[cu.parent], cu.pindex).sub = cu.node
  BY <1>3 DEF Seated
<1>a. cu.parent \in AnyNode /\ cu.index \in Int /\ cu.pindex \in Int BY <1>2 DEF CursorRec
<1>5. node \in [Node -> NodeRec] /\ Kinds(node) /\ Linked(root, node) BY <1>1 DEF Tree
<1>6. /\ cu.node \in Node /\ x \in NodeRec /\ Len(x.elms) \in Nat /\ Count(x) \in Int
      /\ IsInternal(x) => x.elms \in Seq(IntElm) /\ Count(x) = Len(x.elms) - 1
      /\ ~IsInternal(x) => x.elms \in Seq(LeafElm) /\ Count(x) = Len(x.elms)
  BY <1>4, <1>5, Shape
<1>7. ASSUME NEW n \in InUse(node) PROVE Count(node[n]) >= 0 /\ (IsInternal(node[n]) => Count(node[n]) >= 1)
  <2>1. Sized(node[n]) BY <1>5, LinkedIs
  <2> QED BY <2>1, ElmsAssumption DEF Sized
<1>8. cu.node \in Mine(cu) /\ (cu.parent # NULL => cu.parent \in Mine(cu))
  BY <1>4, <1>6, NodeAssumption DEF Mine
<1>9. Has(lk, p, cu.node) /\ (cu.parent # NULL => Has(lk, p, cu.parent)) BY <1>3, <1>8 DEF Keeps
<1>10. Shares(lk, p, cu.node) BY <1>1, <1>6, <1>9, OwnLock
<1>11. ASSUME cu.parent # NULL
       PROVE  /\ cu.parent \in InUse(node) /\ cu.parent # cu.node /\ cu.parent \in Node
              /\ IsInternal(node[cu.parent]) /\ Shares(lk, p, cu.parent)
              /\ Count(node[cu.parent]) \in Int /\ Count(node[cu.parent]) >= 1
  <2>1. /\ cu.parent \in InUse(node) /\ cu.parent # cu.node /\ IsInternal(node[cu.parent])
    BY <1>1, <1>4, <1>11, Up
  <2>2. cu.parent \in Node /\ Count(node[cu.parent]) \in Int BY <1>5, <2>1, Shape
  <2>3. Shares(lk, p, cu.parent) BY <1>1, <1>9, <1>11, <2>2, OwnLock
  <2>4. Count(node[cu.parent]) >= 1 BY <1>7, <2>1
  <2> QED BY <2>1, <2>2, <2>3, <2>4
<1>12. Count(x) >= 0 /\ (IsInternal(x) => Count(x) >= 1) BY <1>4, <1>7
<1> QED BY <1>2, <1>3, <1>4, <1>a, <1>6, <1>10, <1>11, <1>12 DEF Sat, cu

(* A step that leaves the tree as it is.                                   *)
LEMMA QuietApart ==
  ASSUME IInv, NEW p \in Proc, root' = root, node' = node, cur' \in [Cursor -> CursorRec],
         \A d \in Cursor : d # <<p, 1>> /\ d # <<p, 2>> => cur'[d] = cur[d],
         TrackedAt(node, cur'[<<p, 1>>]), TrackedAt(node, cur'[<<p, 2>>])
  PROVE  Apart(p, {})
<1>1. Tree(root, node) /\ Tracked(node, cur) BY IInvIs
<1>2. Tree(root', node') BY <1>1
<1>3. Tracked(node', cur')
  <2>1. ASSUME NEW d \in Cursor PROVE TrackedAt(node, cur'[d])
    BY <1>1, <2>1 DEF Tracked
  <2> QED BY <2>1 DEF Tracked
<1>4. \A d \in Cursor : d # <<p, 1>> /\ d # <<p, 2>> => Same(cur[d], cur'[d]) BY DEF Same
<1> QED BY <1>2, <1>3, <1>4 DEF Apart

(* The locks a step takes.                                                 *)
LEMMA SharesThese ==
  ASSUME LockOK(lk), NEW p \in Proc, NEW M \in SUBSET Node, \A n \in M : Shares(lk, p, n),
         Lock(p, {}, M)
  PROVE  Takes(lk, lk', p, M)
<1>1. Takes(lk, lk', p, {} \union M) BY LockIs
<1> QED BY <1>1
(* A thread may lock exclusively what nobody else has.                     *)
LEMMA OwnsThese ==
  ASSUME LockOK(lk), NEW p \in Proc, NEW M \in SUBSET Node, \A n \in M : Solely(lk, p, n),
         Lock(p, M, {})
  PROVE  Takes(lk, lk', p, M)
<1>1. Takes(lk, lk', p, M \union {}) BY LockIs
<1> QED BY <1>1
(* No lock changes.                                                        *)
LEMMA SameLocks ==
  ASSUME LockOK(lk), NEW p \in Proc, lk' = lk
  PROVE  Takes(lk, lk', p, {})
BY DEF Takes

(* p with one cursor.                                                      *)
LEMMA PlacedOne ==
  ASSUME NEW nd, NEW C, NEW L, NEW p, NEW st, C[<<p, 2>>] = NoCursor, Goal(st) # "prop",
         Stands(nd, L, p, C[<<p, 1>>], st), Out(st) => C[<<p, 1>>] = NoCursor
  PROVE  Placed(nd, C, L, p, st)
<1>1. Using(C, p) = <<p, 1>> /\ C[<<p, 2>>].node = NULL BY DEF Using, NoCursor
<1> QED BY <1>1 DEF Placed
(* ... and with two.                                                       *)
LEMMA PlacedTwo ==
  ASSUME NEW nd, NEW C, NEW L, NEW p, NEW st, C[<<p, 2>>].node # NULL,
         Away(st) \/ (Goal(st) = "prop" /\ ~Out(st)),
         Stands(nd, L, p, C[<<p, 2>>], st), C[<<p, 1>>].trk
  PROVE  Placed(nd, C, L, p, st)
<1>1. Using(C, p) = <<p, 2>> BY DEF Using
<1>2. ~Out(st) BY DEF Out, Away
<1> QED BY <1>1, <1>2 DEF Placed
-----------------------------------------------------------------------------
(* Jobs and states.                                                        *)
LEMMA JobIs ==
  ASSUME NEW j \in Jobs
  PROVE  /\ j.op \in {"insert", "delete", "lookup", "scan", "prune", "reblock", "mirror", "rollback"}
         /\ j.key \in AnyKey /\ j.key.k < MaxKey
         /\ j.op \in {"lookup", "scan"} => j.asof \in Tid
         /\ j.op = "insert" => j.key.t \in 1 .. MaxTid
         /\ j.op = "delete" => j.adj \in BOOLEAN /\ j.des \in BOOLEAN
         /\ j.op \in {"delete", "rollback", "mirror"} => j.tid \in 1 .. MaxTid
<1>1. MaxKey \in Nat /\ MaxTid \in Nat BY NodeAssumption, ProcAssumption
<1>2. [k : 0 .. MaxKey - 1, t : 1 .. MaxTid] \subseteq JobKey BY <1>1 DEF JobKey, Tid
<1>3. \A key \in JobKey : key \in AnyKey /\ key.k < MaxKey BY <1>1 DEF JobKey, AnyKey
<1>4. j \in AnyJob BY DEF Jobs
<1>5. CASE j \in [op : {"insert"}, key : [k : 0 .. MaxKey - 1, t : 1 .. MaxTid]]
  BY <1>1, <1>2, <1>3, <1>5
<1>6. CASE j \in [op : {"delete"}, key : JobKey, adj : BOOLEAN, des : BOOLEAN, tid : 1 .. MaxTid]
  BY <1>3, <1>6
<1>7. CASE j \in [op : {"lookup", "scan"}, key : JobKey, asof : Tid] BY <1>3, <1>7
<1>8. CASE j \in [op : {"prune"}, key : JobKey, all : BOOLEAN, elms : Seq(Period)] BY <1>3, <1>8
<1>9. CASE j \in [op : {"reblock"}, key : JobKey, sparse : SUBSET Node] BY <1>3, <1>9
<1>10. CASE j \in [op : {"mirror", "rollback"}, key : JobKey, tid : 1 .. MaxTid] BY <1>3, <1>10
<1> QED BY <1>4, <1>5, <1>6, <1>7, <1>8, <1>9, <1>10 DEF AnyJob

(* The fields of a thread's state.                                         *)
LEMMA StateAt ==
  ASSUME NEW st \in State
  PROVE  /\ st.pc \in Word /\ st.cont \in Word /\ st.jobs \in Seq(SUBSET Jobs)
         /\ st.job \in Jobs \union {NULL} /\ st.want \in AnyNode /\ st.dlk \in AnyNode
         /\ st.beg \in AnyKey /\ st.end \in AnyKey /\ st.check \in Tid
         /\ st.enospc \in BOOLEAN /\ st.tid \in Nat /\ st.cache \in AnyNode
BY DEF State

(* A cursor that a thread lets go, with the thread out of the tree.        *)
LEMMA DoneIs ==
  ASSUME IInv, NEW p \in Proc, NEW W, Tree(root', node'), Tracked(node', cur),
         \A n \in Node : node[n].type # "free" =>
           node'[n].type # "free" /\ (n \notin W => node'[n] = node[n]),
         \A n \in Node : n \in W => Solely(lk, p, n),
         cur[<<p, 2>>] = NoCursor, NEW st \in State, Done(p, st), Out(st),
         Working(node', st)
  PROVE  IInv'
<1>1. cur \in [Cursor -> CursorRec] /\ LockOK(lk) BY IInvIs
<1>2. /\ cur' = [cur EXCEPT ![<<p, 1>>] = NoCursor] /\ Lock(p, {}, {})
      /\ pr' = [pr EXCEPT ![p] = st]
  BY DEF Done
<1>3. <<p, 1>> \in Cursor /\ <<p, 2>> \in Cursor /\ <<p, 1>> # <<p, 2>> BY DEF Cursor
<1>4. NoCursor \in CursorRec /\ \A nd : TrackedAt(nd, NoCursor)
  BY DEF NoCursor, CursorRec, AnyNode, TrackedAt
<1> DEFINE c1 == <<p, 1>>
           c2 == <<p, 2>>
<1>5. cur' \in [Cursor -> CursorRec] /\ cur'[c1] = NoCursor /\ cur'[c2] = NoCursor
      /\ \A d \in Cursor : d # c1 => cur'[d] = cur[d]
  BY <1>1, <1>2, <1>3, <1>4
<1>6. Apart(p, W)
  <2>1. Tracked(node', cur')
    <3>1. ASSUME NEW d \in Cursor PROVE TrackedAt(node', cur'[d])
      <4>1. CASE d = c1 BY <1>4, <1>5, <4>1
      <4>2. CASE d # c1 BY <1>5, <4>2 DEF Tracked
      <4> QED BY <4>1, <4>2
    <3> QED BY <3>1 DEF Tracked
  <2>2. \A d \in Cursor : d # c1 /\ d # c2 => Same(cur[d], cur'[d]) BY <1>5 DEF Same
  <2> QED BY <1>5, <2>1, <2>2 DEF Apart
<1>7. Takes(lk, lk', p, {}) BY <1>1, <1>2, SharesThese
<1>8. Placed(node', cur', lk', p, st)
  <2>1. Goal(st) # "prop" /\ ~Away(st) /\ st.pc \notin Busy \union {"parent", "child"}
    BY DEF Goal, Away, Out, Busy
  <2>2. Stands(node', lk', p, cur'[c1], st) BY <2>1 DEF Stands
  <2> HIDE DEF Out
  <2> QED BY <1>5, <2>1, <2>2, PlacedOne
<1>9. Comes(p, {}, st) BY <1>2, <1>7, <1>8 DEF Comes
<1> QED BY <1>6, <1>9, Step

(* ... that leaves the tree as it is.                                      *)
LEMMA DoneQuietly ==
  ASSUME IInv, NEW p \in Proc, root' = root, node' = node, cur[<<p, 2>>] = NoCursor,
         NEW st \in State, Done(p, st), Out(st), Working(node, st)
  PROVE  IInv'
<1> DEFINE W == {}
<1>1. Tree(root, node) /\ Tracked(node, cur) BY IInvIs
<1>2. \A n \in Node : node[n].type # "free" => node'[n].type # "free" /\ (n \notin W => node'[n] = node[n])
  OBVIOUS
<1>3. \A n \in Node : n \in W => Solely(lk, p, n) OBVIOUS
<1> HIDE DEF W
<1>4. Tree(root', node') /\ Tracked(node', cur) /\ Working(node', st) BY <1>1
<1> QED BY <1>2, <1>3, <1>4, DoneIs
(* A step in which p's cursor c becomes v and p's state becomes st.        *)
Turn(p, c, v, st) ==
  \/ c = <<p, 1>> /\ cur[<<p, 2>>] = NoCursor /\ Goal(st) # "prop" /\ (Out(st) => v = NoCursor)
  \/ /\ c = <<p, 2>> /\ v.node # NULL /\ cur[<<p, 1>>].trk
     /\ Away(st) \/ (Goal(st) = "prop" /\ ~Out(st))
Goes(p, c, im2, W, v, M, st) ==
  /\ Advances(Image, im2, W, c) /\ \A n \in Node : n \in W => Solely(lk, p, n)
  /\ root' = im2.root /\ node' = im2.node /\ cur' = [im2.cur EXCEPT ![c] = v]
  /\ v \in CursorRec /\ TrackedAt(im2.node, v)
  /\ Takes(lk, lk', p, M) /\ \A n \in M : im2.node[n].type # "free"
  /\ st \in State /\ pr' = [pr EXCEPT ![p] = st]
  /\ Stands(im2.node, lk', p, v, st) /\ Working(im2.node, st) /\ Turn(p, c, v, st)

(* A step that ends with p's working cursor v, on an image im2.            *)
LEMMA GoesStep ==
  ASSUME IInv, NEW p \in Proc, NEW c, NEW im2, NEW W, NEW v, NEW M, NEW st,
         Goes(p, c, im2, W, v, M, st)
  PROVE  IInv'
<1> DEFINE c1 == <<p, 1>>
           c2 == <<p, 2>>
<1>1. /\ Advances(Image, im2, W, c) /\ \A n \in Node : n \in W => Solely(lk, p, n)
      /\ root' = im2.root /\ node' = im2.node /\ cur' = [im2.cur EXCEPT ![c] = v]
      /\ v \in CursorRec /\ TrackedAt(im2.node, v)
      /\ Takes(lk, lk', p, M) /\ \A n \in M : im2.node[n].type # "free"
      /\ st \in State /\ pr' = [pr EXCEPT ![p] = st]
      /\ Stands(im2.node, lk', p, v, st) /\ Working(im2.node, st)
  BY DEF Goes
<1>2. \/ /\ c = c1 /\ cur[c2] = NoCursor /\ Goal(st) # "prop" /\ (Out(st) => v = NoCursor)
      \/ /\ c = c2 /\ v.node # NULL /\ cur[c1].trk
         /\ Away(st) \/ (Goal(st) = "prop" /\ ~Out(st))
  BY DEF Goes, Turn
<1>3. c1 \in Cursor /\ c2 \in Cursor /\ c1 # c2 BY DEF Cursor
<1>4. /\ Tree(im2.root, im2.node) /\ im2.cur \in [Cursor -> CursorRec] /\ Tracked(im2.node, im2.cur)
      /\ \A n \in Node : node[n].type # "free" =>
           im2.node[n].type # "free" /\ (n \notin W => im2.node[n] = node[n])
      /\ \A d \in Cursor : d # c => Same(cur[d], im2.cur[d])
  BY <1>1 DEF Advances, Sound, Image
<1> HIDE DEF c1, c2
<1>5. c \in Cursor /\ c \in {c1, c2} BY <1>2, <1>3
<1>6. /\ cur' \in [Cursor -> CursorRec] /\ cur'[c] = v
      /\ \A d \in Cursor : d # c => cur'[d] = im2.cur[d]
  BY <1>1, <1>4, <1>5
<1>7. Apart(p, W)
  <2>1. Tracked(node', cur')
    <3>1. ASSUME NEW d \in Cursor PROVE TrackedAt(node', cur'[d])
      <4>1. CASE d = c BY <1>1, <1>6, <4>1
      <4>2. CASE d # c BY <1>1, <1>4, <1>6, <4>2 DEF Tracked
      <4> QED BY <4>1, <4>2
    <3> QED BY <3>1 DEF Tracked
  <2>2. \A d \in Cursor : d # c1 /\ d # c2 => Same(cur[d], cur'[d]) BY <1>4, <1>5, <1>6
  <2> QED BY <1>1, <1>4, <1>6, <2>1, <2>2 DEF Apart, c1, c2
<1>8. Placed(node', cur', lk', p, st)
  <2>1. CASE c = c1 /\ cur[c2] = NoCursor /\ Goal(st) # "prop" /\ (Out(st) => v = NoCursor)
    <3>1. Same(NoCursor, im2.cur[c2]) BY <1>3, <1>4, <2>1
    <3>2. im2.cur[c2] = NoCursor BY <3>1 DEF Same, NoCursor
    <3>3. cur'[c2] = NoCursor /\ cur'[c1] = v BY <1>3, <1>6, <2>1, <3>2
    <3>4. Stands(node', lk', p, cur'[c1], st) BY <1>1, <3>3
    <3> QED BY <2>1, <3>3, <3>4, PlacedOne DEF c1, c2
  <2>2. CASE /\ c = c2 /\ v.node # NULL /\ cur[c1].trk
             /\ Away(st) \/ (Goal(st) = "prop" /\ ~Out(st))
    <3>1. Same(cur[c1], im2.cur[c1]) BY <1>3, <1>4, <2>2
    <3>2. im2.cur[c1].trk BY <2>2, <3>1 DEF Same
    <3>3. cur'[c1].trk /\ cur'[c2] = v BY <1>3, <1>6, <2>2, <3>2
    <3>4. Stands(node', lk', p, cur'[c2], st) BY <1>1, <3>3
    <3> QED BY <2>2, <3>3, <3>4, PlacedTwo DEF c1, c2
  <2> QED BY <1>2, <2>1, <2>2
<1>9. Comes(p, M, st) BY <1>1, <1>8 DEF Comes
<1> QED BY <1>7, <1>9, Step

(* ... that leaves the tree as it is.                                      *)
Rests(p, c, v, M, st) ==
  /\ root' = root /\ node' = node /\ cur' = [cur EXCEPT ![c] = v]
  /\ v \in CursorRec /\ TrackedAt(node, v)
  /\ Takes(lk, lk', p, M) /\ \A n \in M : node[n].type # "free"
  /\ st \in State /\ pr' = [pr EXCEPT ![p] = st]
  /\ Stands(node, lk', p, v, st) /\ Working(node, st) /\ Turn(p, c, v, st)
(* The same when the tree does not change.                                 *)
LEMMA RestsStep ==
  ASSUME IInv, NEW p \in Proc, NEW c, NEW v, NEW M, NEW st, Rests(p, c, v, M, st)
  PROVE  IInv'
<1> DEFINE W == {}
<1>1. /\ Tree(root, node) /\ cur \in [Cursor -> CursorRec] /\ Tracked(node, cur)
  BY IInvIs
<1>2. /\ Image.root = root /\ Image.node = node /\ Image.cur = cur BY DEF Image
<1>3. Advances(Image, Image, W, c) BY <1>1, <1>2 DEF Advances, Sound, Same
<1>4. \A n \in Node : n \in W => Solely(lk, p, n) OBVIOUS
<1> HIDE DEF W
<1>5. Goes(p, c, Image, W, v, M, st) BY <1>2, <1>3, <1>4 DEF Goes, Rests
<1> QED BY <1>5, GoesStep
(* A step in which only the thread's state changes.                        *)
LEMMA WaitsStep ==
  ASSUME IInv, NEW p \in Proc, root' = root, node' = node, cur' = cur, lk' = lk,
         NEW st \in State, pr' = [pr EXCEPT ![p] = st],
         Placed(node, cur, lk, p, st), Working(node, st)
  PROVE  IInv'
<1> DEFINE W == {}
<1>1. Tree(root, node) /\ cur \in [Cursor -> CursorRec] /\ Tracked(node, cur) /\ LockOK(lk)
  BY IInvIs
<1>2. <<p, 1>> \in Cursor /\ <<p, 2>> \in Cursor BY DEF Cursor
<1>3. Apart(p, {}) BY <1>1, <1>2, QuietApart DEF Tracked
<1>4. Takes(lk, lk', p, {}) BY <1>1, SameLocks
<1>5. Placed(node', cur', lk', p, st) /\ Working(node', st) OBVIOUS
<1>6. Comes(p, {}, st) BY <1>4, <1>5 DEF Comes
<1> HIDE DEF W
<1> QED BY <1>3, <1>6, Step

(* A thread that has nothing to do with the tree yet.                      *)
LEMMA OutIs ==
  ASSUME IInv, NEW p \in Proc, Out(pr[p])
  PROVE  /\ cur[<<p, 1>>] = NoCursor /\ cur[<<p, 2>>] = NoCursor
         /\ \A st : Out(st) => Placed(node, cur, lk, p, st)
<1>1. cur[<<p, 1>>] = NoCursor /\ cur[<<p, 2>>] = NoCursor BY IInvIs DEF Placed
<1>2. ASSUME NEW st, Out(st) PROVE Placed(node, cur, lk, p, st)
  <2>1. Goal(st) # "prop" /\ ~Away(st) /\ st.pc \notin Busy \union {"parent", "child"}
    BY <1>2 DEF Goal, Away, Out, Busy
  <2>2. Stands(node, lk, p, cur[<<p, 1>>], st) BY <1>2, <2>1 DEF Stands
  <2> HIDE DEF Out
  <2> QED BY <1>1, <2>1, <2>2, PlacedOne
<1> QED BY <1>1, <1>2

(* A job begins, with its range.                                           *)
LEMMA BeginStep ==
  ASSUME IInv, NEW p \in Proc, Begin(p)
  PROVE  IInv'
<1>1. /\ pr[p].pc = "idle" /\ pr[p].jobs # <<>>
      /\ root' = root /\ node' = node /\ cur' = cur /\ lk' = lk
  BY DEF Begin, At, tree
<1> DEFINE S(j) == [pr[p] EXCEPT !.pc = "start", !.job = j,
                      !.beg = IF j.op \in {"lookup", "scan"}
                                THEN [j.key EXCEPT !.t = j.asof] ELSE j.key,
                      !.end = [k |-> MaxKey - 1, t |-> MaxTid]]
<1>2. PICK j \in Head(pr[p].jobs) : pr' = [pr EXCEPT ![p] = S(j)] BY DEF Begin
<1>3. pr[p] \in State /\ pr \in [Proc -> State] /\ Working(node, pr[p]) BY IInvIs
<1>4. j \in Jobs
  <2>1. pr[p].jobs \in Seq(SUBSET Jobs) BY <1>3 DEF State
  <2>2. Head(pr[p].jobs) \in SUBSET Jobs BY <1>1, <2>1
  <2> QED BY <1>2, <2>2
<1> DEFINE b == IF j.op \in {"lookup", "scan"} THEN [j.key EXCEPT !.t = j.asof] ELSE j.key
           e == [k |-> MaxKey - 1, t |-> MaxTid]
           st == S(j)
<1>5. b \in AnyKey /\ Searchable(b) /\ (j.op \in {"insert", "delete"} => b = j.key)
  <2>1. /\ j.key \in AnyKey /\ j.key.k < MaxKey
        /\ j.op \in {"lookup", "scan"} => j.asof \in Tid
    BY <1>4, JobIs
  <2>2. CASE j.op \in {"lookup", "scan"}
    <3>1. b = [j.key EXCEPT !.t = j.asof] BY <2>2
    <3>2. b \in AnyKey /\ b.k = j.key.k BY <2>1, <2>2, <3>1 DEF AnyKey
    <3> QED BY <2>1, <2>2, <3>2 DEF Searchable
  <2>3. CASE j.op \notin {"lookup", "scan"} BY <2>1, <2>3 DEF Searchable
  <2> QED BY <2>2, <2>3
<1>6. e \in AnyKey /\ Searchable(e)
  <2>1. MaxKey \in Nat \ {0} /\ MaxTid \in Nat \ {0} BY NodeAssumption, ProcAssumption
  <2> QED BY <2>1 DEF AnyKey, Tid, Searchable
<1> HIDE DEF b, e
<1>7. st = [pr[p] EXCEPT !.pc = "start", !.job = j, !.beg = b, !.end = e] BY DEF b, e
<1>8. /\ st \in State /\ st.pc = "start" /\ st.job = j /\ st.beg = b /\ st.end = e
      /\ st.jobs = pr[p].jobs /\ st.cache = pr[p].cache
  <2>1. "start" \in Word BY DEF Word
  <2> QED BY <1>3, <1>4, <1>5, <1>6, <1>7, <2>1 DEF State
<1>9. pr' = [pr EXCEPT ![p] = st] BY <1>2
<1> HIDE DEF st, S
<1>10. Out(st) BY <1>8 DEF Out
<1>11. Placed(node, cur, lk, p, st)
  <2>1. Out(pr[p]) BY <1>1 DEF Out
  <2> QED BY <1>10, <2>1, OutIs
<1>12. Working(node, st) BY <1>1, <1>3, <1>4, <1>5, <1>6, <1>8 DEF Working
<1> QED BY <1>1, <1>8, <1>9, <1>11, <1>12, WaitsStep

(* hammer_init_cursor finds a node to start from.                          *)
LEMMA InitCursorStep ==
  ASSUME IInv, NEW p \in Proc, InitCursor(p)
  PROVE  IInv'
<1> DEFINE ca == pr[p].cache
           ok == ca # NULL /\ Op(p) \in {"insert", "delete", "lookup"}
           w == IF ok THEN ca ELSE root
           t == IF ok THEN "cache" ELSE "root"
           st == [pr[p] EXCEPT !.pc = "first", !.want = w, !.cont = t]
<1>1. /\ pr[p].pc = "start" /\ pr' = [pr EXCEPT ![p] = st]
      /\ root' = root /\ node' = node /\ cur' = cur /\ lk' = lk
  BY DEF InitCursor, At, tree
<1>2. pr[p] \in State /\ Working(node, pr[p]) /\ Tree(root, node) BY IInvIs
<1>3. w \in Node /\ w \in AnyNode /\ node[w].type # "free"
  <2>1. root \in InUse(node) BY <1>2 DEF Tree, Linked
  <2>2. ca \in AnyNode /\ (ca # NULL => node[ca].type # "free") BY <1>2 DEF Working, State
  <2> QED BY <2>1, <2>2 DEF AnyNode, InUse
<1>4. t \in Word /\ "first" \in Word BY DEF Word
<1> HIDE DEF w, t
<1>5. /\ st \in State /\ st.pc = "first" /\ st.want = w /\ st.job = pr[p].job
      /\ st.beg = pr[p].beg /\ st.end = pr[p].end /\ st.jobs = pr[p].jobs /\ st.cache = pr[p].cache
  BY <1>2, <1>3, <1>4 DEF State
<1> HIDE DEF st
<1>6. Out(pr[p]) /\ Out(st) BY <1>1, <1>5 DEF Out
<1>7. Placed(node, cur, lk, p, st) BY <1>6, OutIs
<1>8. Working(node, st) BY <1>1, <1>2, <1>3, <1>5 DEF Working
<1> QED BY <1>1, <1>5, <1>7, <1>8, WaitsStep

(* The node that caused EDEADLK is no longer held.                         *)
LEMMA DeadlockClearsStep ==
  ASSUME IInv, NEW p \in Proc, DeadlockClears(p)
  PROVE  IInv'
<1> DEFINE st == [pr[p] EXCEPT !.pc = pr[p].cont, !.dlk = NULL]
<1>1. /\ pr[p].pc = "dlk" /\ pr' = [pr EXCEPT ![p] = st]
      /\ root' = root /\ node' = node /\ cur' = cur /\ lk' = lk
  <2>1. [pr[p] EXCEPT !.pc = @.cont, !.dlk = NULL] = [pr[p] EXCEPT !.pc = @.cont, !.dlk = NULL] OBVIOUS
  <2> QED BY DEF DeadlockClears, At, tree
<1>2. pr[p] \in State /\ Working(node, pr[p]) /\ Placed(node, cur, lk, p, pr[p]) BY IInvIs
<1>3. /\ st \in State /\ st.pc = pr[p].cont /\ st.job = pr[p].job /\ st.cont = pr[p].cont
      /\ st.beg = pr[p].beg /\ st.end = pr[p].end /\ st.jobs = pr[p].jobs /\ st.cache = pr[p].cache
  BY <1>2 DEF State, AnyNode
<1> HIDE DEF st
<1>4. pr[p].cont \in {"start", "relock"} BY <1>1, <1>2 DEF Placed, Stands, Out, Away, Busy
<1>5. Working(node, st) BY <1>1, <1>2, <1>3, <1>4 DEF Working
<1>6. CASE pr[p].cont = "start"
  <2>1. Out(pr[p]) /\ Out(st) BY <1>1, <1>3, <1>6 DEF Out
  <2>2. Placed(node, cur, lk, p, st) BY <2>1, OutIs
  <2> QED BY <1>1, <1>3, <1>5, <2>2, WaitsStep
<1>7. CASE pr[p].cont = "relock"
  <2>1. Away(pr[p]) /\ Away(st) /\ ~Out(pr[p]) /\ ~Out(st) /\ Goal(st) # "prop"
        /\ st.pc \notin Busy \union {"parent", "child"}
    BY <1>1, <1>3, <1>7 DEF Out, Away, Goal, Busy
  <2>2. Placed(node, cur, lk, p, st) BY <1>2, <2>1 DEF Placed, Stands
  <2> QED BY <1>1, <1>3, <1>5, <2>2, WaitsStep
<1> QED BY <1>4, <1>6, <1>7
(* The types of a cursor that holds nothing but a node.                    *)
LEMMA NoCursorIs ==
  ASSUME NEW n \in AnyNode, NEW i \in Int
  PROVE  /\ NoCursor \in CursorRec /\ ~NoCursor.trk /\ NoCursor.parent = NULL /\ NoCursor.node = NULL
         /\ [NoCursor EXCEPT !.node = n] \in CursorRec /\ [NoCursor EXCEPT !.node = n].node = n
         /\ ~[NoCursor EXCEPT !.node = n].trk /\ [NoCursor EXCEPT !.node = n].parent = NULL
         /\ [NoCursor EXCEPT !.node = n, !.index = i] \in CursorRec
         /\ [NoCursor EXCEPT !.node = n, !.index = i].node = n
         /\ [NoCursor EXCEPT !.node = n, !.index = i].index = i
         /\ ~[NoCursor EXCEPT !.node = n, !.index = i].trk
         /\ [NoCursor EXCEPT !.node = n, !.index = i].parent = NULL
<1>1. NoCursor \in CursorRec /\ ~NoCursor.trk /\ NoCursor.parent = NULL /\ NoCursor.node = NULL
  BY DEF NoCursor, CursorRec, AnyNode
<1> HIDE DEF NoCursor
<1>2. /\ [NoCursor EXCEPT !.node = n] \in CursorRec /\ [NoCursor EXCEPT !.node = n].node = n
      /\ ~[NoCursor EXCEPT !.node = n].trk /\ [NoCursor EXCEPT !.node = n].parent = NULL
  BY <1>1 DEF CursorRec
<1>3. /\ [NoCursor EXCEPT !.node = n, !.index = i] \in CursorRec BY <1>1, CursorAt
<1>4. /\ [NoCursor EXCEPT !.node = n, !.index = i].node = n
      /\ [NoCursor EXCEPT !.node = n, !.index = i].index = i
      /\ ~[NoCursor EXCEPT !.node = n, !.index = i].trk
      /\ [NoCursor EXCEPT !.node = n, !.index = i].parent = NULL
  BY <1>1 DEF CursorRec
<1> QED BY <1>1, <1>2, <1>3, <1>4
-----------------------------------------------------------------------------
(* The same job goes on.                                                   *)
Rest(s, st) ==
  /\ st.job = s.job /\ st.beg = s.beg /\ st.end = s.end /\ st.jobs = s.jobs /\ st.cache = s.cache
(* A thread that goes on keeps its job.                                    *)
LEMMA WorkingOn ==
  ASSUME NEW nd, NEW md, NEW s \in State, Working(nd, s), s.pc # "idle", NEW st, Rest(s, st), st.pc # "first",
         \A n \in Node : nd[n].type # "free" => md[n].type # "free"
  PROVE  Working(md, st)
<1>1. s.cache \in AnyNode BY DEF State
<1> QED BY <1>1 DEF Working, Rest, AnyNode

(* hammer_load_cursor_parent, up to where it waits.                        *)
Awaits(nd, L, p, v, s, next, st) ==
  /\ st \in State /\ Stands(nd, L, p, v, st) /\ Goal(st) = next /\ ~Out(st) /\ ~Away(st)
  /\ Rest(s, st) /\ st.pc \in {next, "parent"}
(* A thread that moved up and waits for the parent.                        *)
LEMMA AwaitIs ==
  ASSUME NEW nd \in [Node -> NodeRec], NEW L, NEW p, NEW v, ~v.trk, v.node \in InUse(nd), Has(L, p, v.node),
         v.parent = NULL, NEW s \in State, NEW next \in Busy \ {"insert", "delete"},
         Ready(nd, v, next, s.job), NEW st, st = AwaitParent(s, v.node, nd[v.node].parent, next)
  PROVE  Awaits(nd, L, p, v, s, next, st)
<1> DEFINE par == nd[v.node].parent
<1>1. par \in AnyNode /\ next \in Word /\ "parent" \in Word
  BY DEF NodeRec, AnyNode, Word, InUse
<1>2. v.node # NULL BY NodeAssumption DEF InUse
<1>3. CASE par = NULL
  <2>1. st = [s EXCEPT !.pc = next] BY <1>3 DEF AwaitParent
  <2>2. st \in State /\ st.pc = next /\ Rest(s, st) BY <1>1, <2>1 DEF State, Rest
  <2>3. ~Away(st) /\ ~Out(st) /\ st.pc \in Busy /\ st.pc # "parent" /\ st.pc # "child" /\ Goal(st) = next
    BY <2>2 DEF Away, Out, Busy, Goal
  <2>4. Seated(nd, v) BY <1>3 DEF Seated
  <2>5. Keeps(L, p, v) BY DEF Keeps, Mine
  <2>6. AtWork(nd, L, p, v, st) BY <2>2, <2>4, <2>5 DEF AtWork, Rest
  <2>7. Stands(nd, L, p, v, st) BY <2>3, <2>6 DEF Stands
  <2> QED BY <2>2, <2>3, <2>7 DEF Awaits
<1>4. CASE par # NULL
  <2>1. st = [s EXCEPT !.pc = "parent", !.want = par, !.cont = next] BY <1>4 DEF AwaitParent
  <2>2. st \in State /\ st.pc = "parent" /\ st.want = par /\ st.cont = next /\ Rest(s, st)
    BY <1>1, <2>1 DEF State, Rest
  <2>3. ~Away(st) /\ ~Out(st) /\ st.pc \notin Busy /\ Goal(st) = next
    BY <2>2 DEF Away, Out, Busy, Goal
  <2>4. GoesUp(nd, L, p, v, st) BY <1>4, <2>2 DEF GoesUp, Rest
  <2>5. Stands(nd, L, p, v, st) BY <2>2, <2>3, <2>4 DEF Stands
  <2> QED BY <2>2, <2>3, <2>5 DEF Awaits
<1> QED BY <1>3, <1>4

(* hammer_init_cursor has its node locked.                                 *)
LEMMA InitLockedStep ==
  ASSUME IInv, NEW p \in Proc, InitLocked(p)
  PROVE  IInv'
<1> DEFINE n == pr[p].want
           c == <<p, 1>>
           gone == node[n].type = "deleted" \/ (pr[p].cont = "root" /\ root # n)
<1>1. pr[p].pc = "first" /\ CanShare(n) /\ root' = root /\ node' = node
  BY DEF InitLocked, At, tree
<1>2. /\ pr[p] \in State /\ Working(node, pr[p]) /\ LockOK(lk) /\ Tree(root, node)
      /\ pr \in [Proc -> State]
  BY IInvIs
<1>3. n \in Node /\ node[n].type # "free" BY <1>1, <1>2 DEF Working
<1>4. Out(pr[p]) BY <1>1 DEF Out
<1>5. CASE gone
  <2> DEFINE st == [pr[p] EXCEPT !.pc = "start", !.cache = NULL, !.want = NULL]
  <2>1. pr' = [pr EXCEPT ![p] = st] /\ cur' = cur /\ lk' = lk BY <1>5 DEF InitLocked
  <2>2. "start" \in Word /\ NULL \in AnyNode BY DEF Word, AnyNode
  <2>3. /\ st \in State /\ st.pc = "start" /\ st.job = pr[p].job /\ st.cache = NULL
        /\ st.beg = pr[p].beg /\ st.end = pr[p].end /\ st.jobs = pr[p].jobs
    BY <1>2, <2>2 DEF State
  <2> HIDE DEF st
  <2>4. Out(st) BY <2>3 DEF Out
  <2>5. Placed(node, cur, lk, p, st) BY <1>4, <2>4, OutIs
  <2>6. Working(node, st) BY <1>1, <1>2, <2>3 DEF Working
  <2> QED BY <1>1, <2>1, <2>3, <2>5, <2>6, WaitsStep
<1>6. CASE ~gone
  <2> DEFINE v == [NoCursor EXCEPT !.node = n]
             s == [pr[p] EXCEPT !.want = NULL]
             st == AwaitParent(s, n, node[n].parent, "search")
  <2>1. /\ cur' = [cur EXCEPT ![c] = v] /\ Lock(p, {}, {n})
        /\ pr' = [pr EXCEPT ![p] = st]
    BY <1>6 DEF InitLocked
  <2>2. n \in InUse(node)
    <3>1. node[n] \in NodeRec BY <1>2, <1>3 DEF Tree
    <3> QED BY <1>3, <1>6, <3>1 DEF NodeRec, InUse
  <2>3. v \in CursorRec /\ ~v.trk /\ v.node = n /\ v.parent = NULL
    <3>1. n \in AnyNode BY <1>3 DEF AnyNode
    <3>2. 0 \in Int OBVIOUS
    <3> QED BY <3>1, <3>2, NoCursorIs
  <2>4. s \in State /\ s.job = pr[p].job /\ Rest(pr[p], s) BY <1>2 DEF State, AnyNode, Rest
  <2>5. Takes(lk, lk', p, {n})
    <3>1. Shares(lk, p, n) BY <1>1 DEF CanShare, Shares
    <3>2. {n} \in SUBSET Node BY <1>3
    <3> QED BY <1>2, <2>1, <3>1, <3>2, SharesThese
  <2> HIDE DEF v, s
  <2>6. Has(lk', p, n) BY <2>5 DEF Takes
  <2>7. "search" \in Busy \ {"insert", "delete"} /\ Ready(node, v, "search", s.job)
    BY DEF Busy, Ready
  <2>8. st = AwaitParent(s, v.node, node[v.node].parent, "search") BY <2>3
  <2> HIDE DEF st
  <2>9. Awaits(node, lk', p, v, s, "search", st)
    <3>1. node \in [Node -> NodeRec] BY <1>2 DEF Tree
    <3> QED BY <2>2, <2>3, <2>4, <2>6, <2>7, <2>8, <3>1, AwaitIs
  <2>10. /\ st \in State /\ Stands(node, lk', p, v, st) /\ Goal(st) = "search" /\ ~Out(st)
         /\ Rest(s, st) /\ st.pc \in {"search", "parent"}
    BY <2>9 DEF Awaits
  <2>11. Working(node, st)
    <3>1. Rest(pr[p], st) BY <2>4, <2>10 DEF Rest
    <3>2. st.pc # "first" /\ pr[p].pc # "idle" BY <1>1, <2>10
    <3> QED BY <1>2, <3>1, <3>2, WorkingOn
  <2>12. Turn(p, c, v, st)
    <3>1. cur[<<p, 2>>] = NoCursor BY <1>4, OutIs
    <3> QED BY <2>10, <3>1 DEF Turn
  <2>13. TrackedAt(node, v) BY <2>3 DEF TrackedAt
  <2> HIDE DEF c
  <2>14. Rests(p, c, v, {n}, st) BY <1>1, <1>3, <2>1, <2>3, <2>5, <2>10, <2>11, <2>12, <2>13 DEF Rests
  <2> QED BY <2>14, RestsStep
<1> QED BY <1>5, <1>6
(* A thread that waits for its cursor's parent or for a child.             *)
Waiting(p) ==
  /\ Act(p) = Using(cur, p) /\ Act(p) \in Cursor /\ Cur(p) \in CursorRec /\ Cur(p) = cur[Act(p)]
  /\ Stands(node, lk, p, Cur(p), pr[p]) /\ pr[p] \in State /\ Working(node, pr[p])
  /\ \/ Act(p) = <<p, 1>> /\ cur[<<p, 2>>] = NoCursor /\ Goal(pr[p]) # "prop"
     \/ Act(p) = <<p, 2>> /\ cur[<<p, 1>>].trk /\ (Away(pr[p]) \/ Goal(pr[p]) = "prop")
(* What a thread relies on that waits for a lock.                          *)
LEMMA WaitingIs ==
  ASSUME IInv, NEW p \in Proc
  PROVE  Waiting(p)
<1>1. /\ cur \in [Cursor -> CursorRec] /\ pr[p] \in State
      /\ Placed(node, cur, lk, p, pr[p]) /\ Working(node, pr[p])
  BY IInvIs
<1>2. Act(p) = Using(cur, p) BY DEF Act, Using
<1>3. Act(p) \in Cursor /\ Cur(p) = cur[Using(cur, p)]
  BY <1>2 DEF Act, Cursor, Cur
<1>4. Stands(node, lk, p, Cur(p), pr[p]) BY <1>1, <1>3 DEF Placed
<1>5. \/ Act(p) = <<p, 1>> /\ cur[<<p, 2>>] = NoCursor /\ Goal(pr[p]) # "prop"
      \/ Act(p) = <<p, 2>> /\ cur[<<p, 1>>].trk /\ (Away(pr[p]) \/ Goal(pr[p]) = "prop")
  BY <1>1 DEF Placed, Act
<1> QED BY <1>1, <1>2, <1>3, <1>4, <1>5 DEF Waiting

(* The state in which a thread has what it waited for.                     *)
LEMMA GotIs ==
  ASSUME NEW s \in State, NEW st, st = [s EXCEPT !.pc = s.cont, !.want = NULL], s.cont \in Busy
  PROVE  st \in State /\ st.pc = s.cont /\ Rest(s, st) /\ Goal(st) = s.cont /\ ~Out(st) /\ ~Away(st)
         /\ st.pc \in Busy /\ st.pc # "first"
<1>1. st \in State /\ st.pc = s.cont /\ Rest(s, st) BY DEF State, AnyNode, Rest
<1> QED BY <1>1 DEF Goal, Out, Away, Busy

(* A thread at work stands where it should.                                *)
LEMMA BusyStands ==
  ASSUME NEW nd, NEW L, NEW p, NEW v, NEW st, st.pc \in Busy, AtWork(nd, L, p, v, st)
  PROVE  Stands(nd, L, p, v, st)
BY DEF Stands, Busy, Away

(* The parent is locked; the child's place in it is found.                 *)
LEMMA ParentLockedStep ==
  ASSUME IInv, NEW p \in Proc, ParentLocked(p)
  PROVE  IInv'
<1> DEFINE c == Act(p)
           cu == Cur(p)
           w == pr[p].want
           pi == ParentIndex(node, cu.node)
           v == [cu EXCEPT !.parent = w, !.pindex = pi]
           st == [pr[p] EXCEPT !.pc = pr[p].cont, !.want = NULL]
           M == {cu.node, w}
<1>1. /\ pr[p].pc = "parent" /\ CanShare(w) /\ root' = root /\ node' = node
      /\ cur' = [cur EXCEPT ![c] = [cur[c] EXCEPT !.parent = w, !.pindex = pi]]
      /\ Lock(p, {}, M)
  BY DEF ParentLocked, At, tree
<1>a. pr' = [pr EXCEPT ![p] = st] BY DEF ParentLocked
<1>2. /\ Waiting(p) /\ LockOK(lk) /\ Tree(root, node) BY IInvIs, WaitingIs
<1>3. /\ c \in Cursor /\ cu \in CursorRec /\ cu = cur[c] /\ pr[p] \in State /\ Working(node, pr[p])
      /\ GoesUp(node, lk, p, cu, pr[p])
      /\ \/ c = <<p, 1>> /\ cur[<<p, 2>>] = NoCursor /\ Goal(pr[p]) # "prop"
         \/ c = <<p, 2>> /\ cur[<<p, 1>>].trk /\ (Away(pr[p]) \/ Goal(pr[p]) = "prop")
  BY <1>1, <1>2 DEF Waiting, Stands
<1> HIDE DEF c, cu
<1>4. /\ ~cu.trk /\ cu.node \in InUse(node) /\ Has(lk, p, cu.node) /\ w = node[cu.node].parent
      /\ w # NULL /\ pr[p].cont \in Busy \ {"insert", "delete"}
      /\ Ready(node, cu, pr[p].cont, pr[p].job)
  BY <1>3 DEF GoesUp
<1>5. cu.node # root /\ w \in InUse(node) /\ cu.node \in Node /\ w \in Node
  BY <1>2, <1>4, Up DEF InUse
<1>6. pi \in 0 .. Count(node[w]) - 1 /\ E(node[w], pi).sub = cu.node
  BY <1>2, <1>4, <1>5, ParentIndexIs
<1>7. pi \in Int /\ w \in AnyNode
  <2>1. Count(node[w]) \in Int BY <1>2, <1>5, Shape DEF Tree
  <2> QED BY <1>5, <1>6, <2>1 DEF AnyNode
<1> HIDE DEF pi, w
<1>8. /\ v \in CursorRec /\ ~v.trk /\ v.node = cu.node /\ v.index = cu.index /\ v.parent = w
      /\ v.pindex = pi
  BY <1>3, <1>4, <1>7, CursorAt DEF CursorRec
<1>9. Takes(lk, lk', p, M)
  <2>1. Shares(lk, p, cu.node) BY <1>2, <1>4, <1>5, OwnLock
  <2>2. Shares(lk, p, w) BY <1>1 DEF CanShare, Shares
  <2>3. M \in SUBSET Node BY <1>5
  <2>4. \A n \in M : Shares(lk, p, n) BY <2>1, <2>2
  <2> HIDE DEF M
  <2> QED BY <1>1, <1>2, <2>3, <2>4, SharesThese
<1> HIDE DEF v
<1>10. /\ st \in State /\ st.pc = pr[p].cont /\ Rest(pr[p], st) /\ Goal(st) = pr[p].cont
       /\ ~Out(st) /\ ~Away(st) /\ st.pc \in Busy /\ st.pc # "first"
  BY <1>3, <1>4, GotIs
<1> HIDE DEF st
<1>11. Seated(node, v) BY <1>4, <1>6, <1>8 DEF Seated
<1>12. Keeps(lk', p, v)
  <2>1. Has(lk', p, cu.node) /\ Has(lk', p, w) BY <1>9 DEF Takes
  <2> QED BY <1>8, <2>1 DEF Keeps, Mine
<1>13. Ready(node, v, st.pc, st.job)
  <2>1. st.pc # "insert" /\ st.pc # "delete" /\ st.job = pr[p].job BY <1>4, <1>10 DEF Rest
  <2> QED BY <1>4, <1>8, <1>10, <2>1 DEF Ready
<1>14. Stands(node, lk', p, v, st) BY <1>10, <1>11, <1>12, <1>13, BusyStands DEF AtWork
<1>15. Working(node, st) BY <1>1, <1>3, <1>10, WorkingOn
<1>16. Turn(p, c, v, st)
  <2>1. Goal(pr[p]) = pr[p].cont /\ ~Away(pr[p]) BY <1>1 DEF Goal, Away
  <2>2. v.node # NULL BY <1>5, <1>8, NodeAssumption
  <2> QED BY <1>3, <1>10, <2>1, <2>2 DEF Turn
<1>17. \A n \in M : node[n].type # "free" BY <1>4, <1>5 DEF InUse
<1>18. TrackedAt(node, v) BY <1>8 DEF TrackedAt
<1>19. cur' = [cur EXCEPT ![c] = v] BY <1>1, <1>3 DEF v
<1> HIDE DEF M
<1>20. Rests(p, c, v, M, st)
  BY <1>1, <1>a, <1>8, <1>9, <1>10, <1>14, <1>15, <1>16, <1>17, <1>18, <1>19 DEF Rests
<1> QED BY <1>20, RestsStep
(* The child is locked; nobody can have moved it meanwhile.                *)
LEMMA ChildLockedStep ==
  ASSUME IInv, NEW p \in Proc, ChildLocked(p)
  PROVE  IInv'
<1> DEFINE c == Act(p)
           cu == Cur(p)
           w == pr[p].want
           a == cu.parent
           ix == IF Pruning(p) /\ pr[p].cont = "iter" THEN Count(node[w]) - 1 ELSE 0
           v == [cu EXCEPT !.node = w, !.index = ix]
           st == [pr[p] EXCEPT !.pc = pr[p].cont, !.want = NULL]
           M == {a, w}
<1>1. /\ pr[p].pc = "child" /\ CanShare(w) /\ root' = root /\ node' = node
      /\ cur' = [cur EXCEPT ![c] = [cur[c] EXCEPT !.node = w, !.index = ix]]
      /\ Lock(p, {}, M)
  BY DEF ChildLocked, At, tree
<1>a. pr' = [pr EXCEPT ![p] = st] BY DEF ChildLocked
<1>2. /\ Waiting(p) /\ LockOK(lk) /\ Tree(root, node) BY IInvIs, WaitingIs
<1>3. /\ c \in Cursor /\ cu \in CursorRec /\ cu = cur[c] /\ pr[p] \in State /\ Working(node, pr[p])
      /\ GoesDown(node, lk, p, cu, pr[p])
      /\ \/ c = <<p, 1>> /\ cur[<<p, 2>>] = NoCursor /\ Goal(pr[p]) # "prop"
         \/ c = <<p, 2>> /\ cur[<<p, 1>>].trk /\ (Away(pr[p]) \/ Goal(pr[p]) = "prop")
  BY <1>1, <1>2 DEF Waiting, Stands
<1>b. Job(p) = pr[p].job /\ (Pruning(p) <=> pr[p].job.op = "prune") BY DEF Job, Pruning, Op
<1> HIDE DEF c, cu
<1>4. /\ ~cu.trk /\ a \in InUse(node) /\ IsInternal(node[a])
      /\ Has(lk, p, a) /\ cu.pindex \in 0 .. Count(node[a]) - 1
      /\ w = E(node[a], cu.pindex).sub /\ pr[p].cont \in {"search", "iter"}
  BY <1>3 DEF GoesDown
<1>5. /\ w \in InUse(node) /\ node[w].parent = a /\ w \in Node /\ a \in Node /\ a # NULL
  <2>1. E(node[a], cu.pindex).sub \in InUse(node) /\ node[E(node[a], cu.pindex).sub].parent = a
    BY <1>2, <1>4, Down
  <2> QED BY <1>4, <2>1, NodeAssumption DEF InUse
<1>6. Count(node[w]) \in Int /\ Count(node[w]) >= 0
  <2>1. node \in [Node -> NodeRec] /\ Kinds(node) /\ Linked(root, node) BY <1>2 DEF Tree
  <2>2. Count(node[w]) \in Int BY <1>5, <2>1, Shape
  <2>3. Sized(node[w]) BY <1>5, <2>1, LinkedIs
  <2> QED BY <2>2, <2>3, ElmsAssumption DEF Sized
<1>7. ix \in Int /\ w \in AnyNode BY <1>5, <1>6 DEF AnyNode
<1> DEFINE n0 == Count(node[w])
<1>c. /\ ix = (IF Pruning(p) /\ pr[p].cont = "iter" THEN n0 - 1 ELSE 0) /\ n0 \in Int /\ n0 >= 0
  BY <1>6
<1> HIDE DEF ix, w, a
<1>8. /\ v \in CursorRec /\ ~v.trk /\ v.node = w /\ v.index = ix /\ v.parent = a
      /\ v.pindex = cu.pindex
  BY <1>3, <1>4, <1>7, CursorAt DEF CursorRec, a
<1>9. Takes(lk, lk', p, M)
  <2>1. Shares(lk, p, a) BY <1>2, <1>4, <1>5, OwnLock
  <2>2. Shares(lk, p, w) BY <1>1 DEF CanShare, Shares
  <2>3. M \in SUBSET Node BY <1>5
  <2>4. \A n \in M : Shares(lk, p, n) BY <2>1, <2>2
  <2> HIDE DEF M
  <2> QED BY <1>1, <1>2, <2>3, <2>4, SharesThese
<1> HIDE DEF v
<1>10. /\ st \in State /\ st.pc = pr[p].cont /\ Rest(pr[p], st) /\ Goal(st) = pr[p].cont
       /\ ~Out(st) /\ ~Away(st) /\ st.pc \in Busy /\ st.pc # "first"
  <2>1. pr[p].cont \in Busy BY <1>4 DEF Busy
  <2> QED BY <1>3, <2>1, GotIs
<1> HIDE DEF st
<1>11. Seated(node, v) BY <1>4, <1>5, <1>8 DEF Seated
<1>12. Keeps(lk', p, v)
  <2>1. Has(lk', p, a) /\ Has(lk', p, w) BY <1>9 DEF Takes
  <2> QED BY <1>8, <2>1 DEF Keeps, Mine
<1>13. Ready(node, v, st.pc, st.job)
  <2>1. st.pc \in {"search", "iter"} /\ st.job = pr[p].job BY <1>4, <1>10 DEF Rest
  <2>2. CASE st.pc = "search" BY <2>2 DEF Ready
  <2>3. CASE st.pc = "iter"
    <3>1. v.index \in IF st.job.op = "prune" THEN -1 .. n0 - 1 ELSE 0 .. n0
      BY <1>b, <1>c, <1>8, <1>10, <2>1, <2>3
    <3> QED BY <1>8, <2>3, <3>1 DEF Ready
  <2> QED BY <2>1, <2>2, <2>3
<1>14. Stands(node, lk', p, v, st) BY <1>10, <1>11, <1>12, <1>13, BusyStands DEF AtWork
<1>15. Working(node, st) BY <1>1, <1>3, <1>10, WorkingOn
<1>16. Turn(p, c, v, st)
  <2>1. Goal(pr[p]) = "child" /\ ~Away(pr[p]) BY <1>1 DEF Goal, Away
  <2>2. Goal(st) # "prop" BY <1>4, <1>10
  <2> QED BY <1>3, <1>10, <2>1, <2>2 DEF Turn
<1>17. \A n \in M : node[n].type # "free" BY <1>4, <1>5 DEF InUse
<1>18. TrackedAt(node, v) BY <1>8 DEF TrackedAt
<1>19. cur' = [cur EXCEPT ![c] = v] BY <1>1, <1>3 DEF v
<1> HIDE DEF M
<1>20. Rests(p, c, v, M, st)
  BY <1>1, <1>a, <1>8, <1>9, <1>10, <1>14, <1>15, <1>16, <1>17, <1>18, <1>19 DEF Rests
<1> QED BY <1>20, RestsStep

(* The end of a job.                                                       *)
LEMMA EndStep ==
  ASSUME IInv, NEW p \in Proc, End(p)
  PROVE  IInv'
<1> DEFINE ca == IF Iterating(p) THEN NULL ELSE Cur(p).node
           js == Tail(pr[p].jobs)
           st == [Idle EXCEPT !.jobs = js, !.cache = ca]
<1>1. pr[p].pc = "fin" /\ Done(p, st) /\ root' = root /\ node' = node
  BY DEF End, Finish, At, tree
<1>2. pr[p].pc \in Busy BY <1>1 DEF Busy
<1>3. Sits(p) /\ Sat(p) BY <1>2, SitsIs, SatIs
<1>4. pr[p] \in State /\ pr[p].jobs # <<>> /\ cur[<<p, 2>>] = NoCursor
  BY <1>1, <1>3 DEF Sits, Working
<1>5. ca \in AnyNode /\ (ca # NULL => node[ca].type # "free")
  BY <1>3 DEF Sat, AnyNode, InUse
<1>6. js \in Seq(SUBSET Jobs)
  <2>1. pr[p].jobs \in Seq(SUBSET Jobs) BY <1>4 DEF State
  <2> QED BY <1>4, <2>1
<1> HIDE DEF ca, js
<1>7. Idle \in State /\ Idle.pc = "idle"
  <2>1. "idle" \in Word /\ "" \in Word BY DEF Word
  <2>2. RootBeg \in AnyKey /\ RootEnd \in AnyKey BY RootKeys
  <2>3. 0 \in Tid /\ 0 \in Nat BY ProcAssumption DEF Tid
  <2>4. <<>> \in Seq(SUBSET Jobs) /\ NULL \in AnyNode /\ FALSE \in BOOLEAN BY DEF AnyNode
  <2> HIDE DEF RootBeg, RootEnd
  <2> QED BY <2>1, <2>2, <2>3, <2>4 DEF Idle, State
<1>8. st \in State /\ st.pc = "idle" /\ st.cache = ca BY <1>5, <1>6, <1>7 DEF State
<1> HIDE DEF st
<1>9. Out(st) BY <1>8 DEF Out
<1>10. Working(node, st) BY <1>5, <1>8 DEF Working
<1> QED BY <1>1, <1>4, <1>8, <1>9, <1>10, DoneQuietly
-----------------------------------------------------------------------------
(* hammer_cursor_up, maybe with a change of the node it leaves.            *)
Leaves(p, im2, W) ==
  /\ Advances(Image, im2, W, Act(p)) /\ im2.cur = cur /\ root' = im2.root /\ node' = im2.node
  /\ \A n \in Node : n \in W => Solely(lk, p, n)
  /\ im2.node[Cur(p).parent] = node[Cur(p).parent]
Arrives(p, nd, i, next) ==
  /\ i \in Int /\ next \in Busy \ {"insert", "delete"}
  /\ (next = "prop" <=> Act(p) = <<p, 2>>)
  /\ \A u : u.node = Cur(p).parent /\ u.index = i => Ready(nd, u, next, Job(p))

(* Any step that moves to the parent.                                      *)
LEMMA UpStep ==
  ASSUME IInv, NEW p \in Proc, Sits(p), pr[p].pc \in Busy, Cur(p).parent # NULL,
         NEW im2, NEW W, Leaves(p, im2, W),
         NEW i, NEW next, Arrives(p, im2.node, i, next), CursorUp(p, i, next)
  PROVE  IInv'
<1> DEFINE c == Act(p)
           cu == Cur(p)
           a == cu.parent
           at == cu.ate \/ Op(p) = "reblock"
           v == [cu EXCEPT !.node = a, !.index = i, !.parent = NULL, !.pindex = 0, !.ate = at]
           st == AwaitParent(pr[p], a, node[a].parent, next)
           nd == im2.node
           M == {a}
<1>1. /\ cur' = [cur EXCEPT ![c] = Raised(p, i)]
      /\ Lock(p, {}, M) /\ pr' = [pr EXCEPT ![p] = st]
  BY DEF CursorUp
<1>2. Sat(p) /\ LockOK(lk) /\ Tree(root, node) BY SatIs, IInvIs
<1>3. /\ c \in Cursor /\ cu \in CursorRec /\ cu = cur[c] /\ a \in InUse(node) /\ a \in Node
      /\ Shares(lk, p, a) /\ ~cu.trk
  BY <1>2 DEF Sat
<1>4. /\ pr[p] \in State /\ Working(node, pr[p]) /\ pr[p].pc \in Busy
      /\ IF pr[p].pc = "prop" THEN Act(p) = <<p, 2>> /\ cur[<<p, 1>>].trk
                              ELSE Act(p) = <<p, 1>> /\ cur[<<p, 2>>] = NoCursor
  BY DEF Sits
<1>5. Advances(Image, im2, W, c) /\ im2.cur = cur /\ root' = im2.root /\ node' = nd
      /\ (\A n \in Node : n \in W => Solely(lk, p, n)) /\ nd[a] = node[a]
  BY DEF Leaves
<1>6. /\ i \in Int /\ next \in Busy \ {"insert", "delete"} /\ (next = "prop" <=> c = <<p, 2>>)
      /\ \A u : u.node = a /\ u.index = i => Ready(nd, u, next, Job(p))
  BY DEF Arrives
<1>7. a \in AnyNode /\ NULL \in AnyNode /\ 0 \in Int /\ at \in BOOLEAN
  BY <1>3 DEF AnyNode, CursorRec
<1>b. Raised(p, i) = v BY DEF Raised
<1> HIDE DEF at, a, c, cu, nd
<1>8. /\ v \in CursorRec /\ v.node = a /\ v.index = i /\ v.parent = NULL /\ ~v.trk
  <2> DEFINE v1 == [cu EXCEPT !.node = a, !.index = i]
             v2 == [v1 EXCEPT !.parent = NULL, !.pindex = 0]
  <2>1. v1 \in CursorRec /\ ~v1.trk /\ v1.node = a /\ v1.index = i
    <3>1. v1 \in CursorRec BY <1>3, <1>6, <1>7, CursorAt
    <3> QED BY <1>3, <3>1 DEF CursorRec
  <2>2. v = [v2 EXCEPT !.ate = at]
    BY <1>3 DEF CursorRec
  <2> HIDE DEF v1, v
  <2>3. v2 \in CursorRec /\ ~v2.trk /\ v2.node = a /\ v2.index = i /\ v2.parent = NULL
    <3>1. v2 \in CursorRec BY <1>7, <2>1, CursorAt
    <3> QED BY <2>1, <3>1 DEF CursorRec
  <2> HIDE DEF v2
  <2> QED BY <1>7, <2>2, <2>3 DEF CursorRec
<1>9. cur' = [im2.cur EXCEPT ![c] = v] BY <1>1, <1>b, <1>5
<1> HIDE DEF v
<1>10. Takes(lk, lk', p, M)
  <2>1. M \in SUBSET Node /\ \A n \in M : Shares(lk, p, n) BY <1>3
  <2> HIDE DEF M
  <2> QED BY <1>1, <1>2, <2>1, SharesThese
<1>11. Has(lk', p, v.node) BY <1>8, <1>10 DEF Takes
<1>12. /\ nd \in [Node -> NodeRec] /\ a \in InUse(nd)
       /\ \A n \in Node : node[n].type # "free" => nd[n].type # "free"
  <2>1. Tree(im2.root, nd) BY <1>5 DEF Advances, Sound, nd
  <2>2. a \in InUse(nd) BY <1>3, <1>5 DEF InUse
  <2>3. \A n \in Node : node[n].type # "free" => nd[n].type # "free" BY <1>5 DEF Advances, Image, nd
  <2> QED BY <2>1, <2>2, <2>3 DEF Tree
<1>13. Ready(nd, v, next, pr[p].job) BY <1>6, <1>8 DEF Job
<1>14. st = AwaitParent(pr[p], v.node, nd[v.node].parent, next) BY <1>5, <1>8
<1> HIDE DEF st
<1>15. Awaits(nd, lk', p, v, pr[p], next, st)
  <2>1. v.node \in InUse(nd) BY <1>8, <1>12
  <2> QED BY <1>4, <1>6, <1>8, <1>11, <1>12, <1>13, <1>14, <2>1, AwaitIs
<1>16. /\ st \in State /\ Stands(nd, lk', p, v, st) /\ Goal(st) = next /\ ~Out(st) /\ ~Away(st)
       /\ Rest(pr[p], st) /\ st.pc \in {next, "parent"}
  BY <1>15 DEF Awaits
<1>17. Working(nd, st)
  <2>1. pr[p].pc # "idle" /\ st.pc # "first" BY <1>4, <1>6, <1>16 DEF Busy
  <2> QED BY <1>4, <1>12, <1>16, <2>1, WorkingOn
<1>18. Turn(p, c, v, st)
  <2>1. v.node # NULL BY <1>3, <1>8, NodeAssumption
  <2> QED BY <1>4, <1>6, <1>16, <2>1 DEF Turn, c
<1>19. \A n \in M : nd[n].type # "free" BY <1>12 DEF InUse
<1>20. TrackedAt(nd, v) BY <1>8 DEF TrackedAt
<1> HIDE DEF M
<1>21. Goes(p, c, im2, W, v, M, st)
  <2>1. im2.node = nd BY DEF nd
  <2> QED BY <1>1, <1>5, <1>8, <1>9, <1>10, <1>16, <1>17, <1>18, <1>19, <1>20, <2>1 DEF Goes
<1> QED BY <1>21, GoesStep
(* A step upward that changes no node.                                     *)
LEMMA LeavesQuietly ==
  ASSUME IInv, NEW p \in Proc, root' = root, node' = node
  PROVE  Leaves(p, Image, {})
<1>1. /\ Tree(root, node) /\ cur \in [Cursor -> CursorRec] /\ Tracked(node, cur) BY IInvIs
<1>2. /\ Image.root = root /\ Image.node = node /\ Image.cur = cur BY DEF Image
<1>3. Advances(Image, Image, {}, Act(p)) BY <1>1, <1>2 DEF Advances, Sound, Same
<1> QED BY <1>2, <1>3 DEF Leaves

(* A key that is searched for lies in the tree.                            *)
LEMMA RootBounds ==
  ASSUME NEW key \in AnyKey, Searchable(key)
  PROVE  Cmp(key, RootBeg) >= 0 /\ Cmp(key, RootEnd) < 0
<1>1. MaxKey \in Nat /\ MaxTid \in Nat BY NodeAssumption, ProcAssumption
<1>2. key.k \in 0 .. MaxKey /\ key.t \in 0 .. MaxTid BY DEF AnyKey, Tid
<1>3. key.k < MaxKey \/ key.t # 0 BY DEF Searchable
<1>4. Cmp(key, RootBeg) >= 0
  <2>1. RootBeg.k = 0 /\ RootBeg.t = 1 BY DEF RootBeg
  <2> QED BY <1>1, <1>2, <2>1 DEF Cmp
<1>5. Cmp(key, RootEnd) < 0
  <2>1. RootEnd.k = MaxKey /\ RootEnd.t = 0 BY DEF RootEnd
  <2> QED BY <1>1, <1>2, <1>3, <2>1 DEF Cmp
<1> QED BY <1>4, <1>5

(* The key a search looks for is one a tree has a place for.               *)
LEMMA KeyIs ==
  ASSUME NEW p \in Proc, Sits(p), pr[p].pc # "idle"
  PROVE  Key(p) \in AnyKey /\ Searchable(Key(p)) /\ (Op(p) # "prune" => Key(p) = pr[p].beg)
<1>2. pr[p] \in State /\ Working(node, pr[p]) BY DEF Sits
<1>3. pr[p].beg \in AnyKey /\ pr[p].end \in AnyKey BY <1>2, StateAt
<1>4. pr[p].pc # "idle" => Searchable(pr[p].beg) /\ Searchable(pr[p].end) BY <1>2 DEF Working
<1> QED BY <1>3, <1>4 DEF Key, Pruning

(* btree_search goes up.                                                   *)
LEMMA SearchUpStep ==
  ASSUME IInv, NEW p \in Proc, SearchUp(p)
  PROVE  IInv'
<1>1. /\ pr[p].pc = "search" /\ (~InBounds(p) \/ NoRoomHere(p))
      /\ CursorUp(p, Cur(p).pindex, "search") /\ root' = root /\ node' = node
  BY DEF SearchUp, At, tree
<1>2. Sits(p) /\ Sat(p) BY <1>1, SitsIs, SatIs DEF Busy
<1>3. Cur(p).parent # NULL
  <2>1. CASE ~InBounds(p)
    <3>1. ASSUME Cur(p).parent = NULL PROVE FALSE
      <4>1. LeftBound(p) = RootBeg /\ RightBound(p) = RootEnd BY <3>1 DEF LeftBound, RightBound
      <4>2. Key(p) \in AnyKey /\ Searchable(Key(p)) BY <1>1, <1>2, KeyIs
      <4> QED BY <2>1, <4>1, <4>2, RootBounds DEF InBounds
    <3> QED BY <3>1
  <2>2. CASE NoRoomHere(p)
    <3>1. N(p).parent # NULL BY <2>2 DEF NoRoomHere
    <3> QED BY <1>2, <3>1 DEF Sat
  <2> QED BY <1>1, <2>1, <2>2
<1>4. Leaves(p, Image, {}) BY <1>1, LeavesQuietly
<1>5. Arrives(p, Image.node, Cur(p).pindex, "search")
  <2>1. Cur(p).pindex \in Int BY <1>2 DEF Sat
  <2>2. Act(p) # <<p, 2>> BY <1>1, <1>2 DEF Sits
  <2>3. \A u : Ready(Image.node, u, "search", Job(p)) BY DEF Ready
  <2> QED BY <2>1, <2>2, <2>3 DEF Arrives, Busy
<1> QED BY <1>1, <1>2, <1>3, <1>4, <1>5, UpStep DEF Busy
-----------------------------------------------------------------------------
(* What a thread does with the element its iteration or search came to.    *)
LEMMA AfterGotIs ==
  ASSUME NEW p \in Proc, NEW e, NEW n, NEW i
  PROVE  /\ AfterGot(p, e, n, i) \in {"delete", "move", "more"}
         /\ AfterGot(p, e, n, i) = "delete" => Doomed(Job(p), e)
         /\ AfterGot(p, e, n, i) = "move" => i = 0 /\ Op(p) = "reblock"
         /\ Op(p) = "reblock" => AfterGot(p, e, n, i) # "delete"
<1>1. Op(p) = Job(p).op BY DEF Op, Job
<1>2. CASE Op(p) = "prune"
  <2>1. AfterGot(p, e, n, i) = IF ShouldPrune(Job(p), e) THEN "delete" ELSE "more"
    BY <1>2 DEF AfterGot
  <2>2. Doomed(Job(p), e) <=> ShouldPrune(Job(p), e) BY <1>1, <1>2 DEF Doomed
  <2> HIDE DEF ShouldPrune, Doomed, AfterGot
  <2> QED BY <1>2, <2>1, <2>2
<1>3. CASE Op(p) = "rollback"
  <2>1. AfterGot(p, e, n, i) = IF ShouldRollBack(Job(p), e) THEN "delete" ELSE "more"
    BY <1>3 DEF AfterGot
  <2>2. Doomed(Job(p), e) <=> ShouldRollBack(Job(p), e) BY <1>1, <1>3 DEF Doomed
  <2> QED BY <1>3, <2>1, <2>2
<1>4. CASE Op(p) = "reblock"
  <2>1. AfterGot(p, e, n, i) = IF ShouldMove(Job(p), n, i) THEN "move" ELSE "more"
    BY <1>4 DEF AfterGot
  <2>2. ShouldMove(Job(p), n, i) => i = 0 BY DEF ShouldMove
  <2> QED BY <1>4, <2>1, <2>2
<1>5. CASE Op(p) \notin {"prune", "rollback", "reblock"}
  <2>1. AfterGot(p, e, n, i) = "more" BY <1>5 DEF AfterGot
  <2> QED BY <1>5, <2>1
<1> QED BY <1>2, <1>3, <1>4, <1>5

(* Where an iteration is.                                                  *)
LEMMA PosIs ==
  ASSUME NEW p \in Proc, Sat(p), Stepping(p)
  PROVE  /\ Pos(p) \in Int
         /\ Pos(p) \in IF Pruning(p) THEN -1 .. Count(N(p)) - 1 ELSE 0 .. Count(N(p))
         /\ ~AtEnd(p) => Pos(p) \in 0 .. Count(N(p)) - 1
<1> DEFINE i == Cur(p).index
           n == Count(N(p))
<1>1. n \in Int /\ n >= 0 /\ i \in Int BY DEF Sat
<1>2. Ready(node, Cur(p), pr[p].pc, Job(p)) /\ N(p) = node[Cur(p).node] BY DEF Sat
<1>3. Pruning(p) <=> Job(p).op = "prune" BY DEF Pruning, Op, Job
<1>4. pr[p].pc \in {"next", "more"} => i \in 0 .. n BY <1>2 DEF Ready
<1>5. pr[p].pc = "iter" => i \in IF Pruning(p) THEN -1 .. n - 1 ELSE 0 .. n
  BY <1>2, <1>3 DEF Ready
<1>6. /\ Pos(p) \in Int
      /\ Pos(p) \in IF Pruning(p) THEN -1 .. n - 1 ELSE 0 .. n
  <2>1. CASE pr[p].pc = "iter"
    <3>1. Pos(p) = i BY <2>1 DEF Pos, At
    <3> HIDE DEF n, i
    <3> QED BY <1>1, <1>5, <2>1, <3>1
  <2>2. CASE pr[p].pc \in {"next", "more"}
    <3> DEFINE j == IF i # -1 /\ Cur(p).ate THEN i - 1 ELSE i
    <3>1. Pos(p) = StepIndex(p) BY <2>2 DEF Pos, At
    <3>2. StepIndex(p) = IF Pruning(p) THEN (IF j = n THEN j - 1 ELSE j)
                         ELSE IF i < n /\ Cur(p).ate THEN i + 1 ELSE i
      BY DEF StepIndex
    <3> HIDE DEF n, i
    <3>3. i \in 0 .. n BY <1>4, <2>2
    <3>4. j \in -1 .. n /\ j \in Int BY <1>1, <3>3
    <3> HIDE DEF j
    <3>5. CASE Pruning(p) BY <1>1, <3>1, <3>2, <3>3, <3>4, <3>5
    <3>6. CASE ~Pruning(p) BY <1>1, <3>1, <3>2, <3>3, <3>6
    <3> QED BY <3>5, <3>6
  <2> QED BY <2>1, <2>2 DEF Stepping
<1>7. AtEnd(p) <=> (Pos(p) = IF Pruning(p) THEN -1 ELSE n) BY DEF AtEnd
<1> HIDE DEF n, i
<1>8. ~AtEnd(p) => Pos(p) \in 0 .. n - 1
  <2>1. CASE Pruning(p) BY <1>1, <1>6, <1>7, <2>1
  <2>2. CASE ~Pruning(p) BY <1>1, <1>6, <1>7, <2>2
  <2> QED BY <2>1, <2>2
<1> QED BY <1>6, <1>8 DEF n

(* hammer_btree_iterate goes up.                                           *)
LEMMA IterUpStep ==
  ASSUME IInv, NEW p \in Proc, IterUp(p)
  PROVE  IInv'
<1> DEFINE i == Cur(p).pindex
           a == Cur(p).parent
           k == CASE Pruning(p) -> i - 1 [] Op(p) = "reblock" -> i [] OTHER -> i + 1
           next == IF Op(p) = "reblock" THEN AfterGot(p, NULL, a, i) ELSE "iter"
           x == node[a]
<1>1. /\ Stepping(p) /\ a # NULL /\ CursorUp(p, k, next) /\ root' = root /\ node' = node
  BY DEF IterUp, tree
<1>2. pr[p].pc \in Busy /\ pr[p].pc # "prop" BY <1>1 DEF Stepping, Busy
<1>3. Sits(p) /\ Sat(p) BY <1>2, SitsIs, SatIs
<1>4. /\ i \in 0 .. Count(x) - 1 /\ IsInternal(x) /\ i \in Int /\ Count(x) \in Int /\ Count(x) >= 1
      /\ a \in InUse(node)
  BY <1>1, <1>3 DEF Sat
<1>5. Leaves(p, Image, {}) BY <1>1, LeavesQuietly
<1>6. x.elms # <<>>
  <2>1. Count(x) = Len(x.elms) - 1 BY <1>4 DEF Count
  <2> QED BY <1>4, <2>1
<1>7. /\ Op(p) = "prune" <=> Pruning(p)
      /\ Op(p) = Job(p).op
  BY DEF Pruning, Op, Job
<1> HIDE DEF i, a, x
<1>a. /\ AfterGot(p, NULL, a, i) \in {"delete", "move", "more"}
      /\ AfterGot(p, NULL, a, i) = "move" => i = 0 /\ Op(p) = "reblock"
      /\ Op(p) = "reblock" => AfterGot(p, NULL, a, i) # "delete"
  BY AfterGotIs
<1>8. Arrives(p, node, k, next)
  <2>1. k \in Int BY <1>4
  <2>2. next \in Busy \ {"insert", "delete"} /\ next # "prop"
    <3>1. next \in {"move", "more", "iter"} BY <1>a
    <3> QED BY <3>1 DEF Busy
  <2>3. Act(p) # <<p, 2>> BY <1>2, <1>3 DEF Sits
  <2>4. ASSUME NEW u, u.node = a, u.index = k PROVE Ready(node, u, next, Job(p))
    <3>0. node[u.node] = x BY <2>4 DEF x
    <3>1. CASE Pruning(p)
      <4>1. next = "iter" /\ k = i - 1 BY <1>7, <3>1
      <4>2. k \in -1 .. Count(x) - 1 BY <1>4, <4>1
      <4> HIDE DEF k, next
      <4> QED BY <1>7, <2>4, <3>0, <3>1, <4>1, <4>2 DEF Ready
    <3>2. CASE Op(p) = "reblock"
      <4>1. next = AfterGot(p, NULL, a, i) /\ k = i BY <1>7, <3>2
      <4>2. k \in 0 .. Count(x) BY <1>4, <4>1
      <4>3. next \in {"move", "more"} /\ (next = "move" => k = 0) BY <1>a, <3>2, <4>1
      <4> HIDE DEF k, next
      <4> QED BY <1>6, <1>7, <2>4, <3>0, <3>2, <4>2, <4>3 DEF Ready
    <3>3. CASE ~Pruning(p) /\ Op(p) # "reblock"
      <4>1. next = "iter" /\ k = i + 1 BY <3>3
      <4>2. k \in 0 .. Count(x) BY <1>4, <4>1
      <4> HIDE DEF k, next
      <4> QED BY <1>7, <2>4, <3>0, <3>3, <4>1, <4>2 DEF Ready
    <3> QED BY <3>1, <3>2, <3>3
  <2> HIDE DEF k, next
  <2> QED BY <2>1, <2>2, <2>3, <2>4 DEF Arrives, a
<1>9. Image.node = node BY DEF Image
<1> HIDE DEF k, next
<1> QED BY <1>1, <1>2, <1>3, <1>5, <1>8, <1>9, UpStep DEF a
-----------------------------------------------------------------------------
(* A step on the spot: p's cursor stays at its node and keeps its locks.   *)
Shifts(p, v, st) ==
  /\ root' = root /\ node' = node /\ lk' = lk /\ cur' = [cur EXCEPT ![Act(p)] = v]
  /\ v \in CursorRec /\ v.node = Cur(p).node /\ v.parent = Cur(p).parent /\ v.pindex = Cur(p).pindex
  /\ ~v.trk /\ st \in State /\ pr' = [pr EXCEPT ![p] = st] /\ st.pc \in Busy /\ st.pc # "prop"
  /\ Ready(node, v, st.pc, st.job) /\ Working(node, st)
(* Any step that only moves the index or the thread's state.               *)
LEMMA ShiftStep ==
  ASSUME IInv, NEW p \in Proc, pr[p].pc \in Busy, pr[p].pc # "prop", NEW v, NEW st, Shifts(p, v, st)
  PROVE  IInv'
<1> DEFINE c == Act(p)
           cu == Cur(p)
<1>1. Sits(p) /\ Sat(p) /\ LockOK(lk) BY SitsIs, SatIs, IInvIs
<1>2. /\ root' = root /\ node' = node /\ lk' = lk /\ cur' = [cur EXCEPT ![c] = v]
      /\ v \in CursorRec /\ v.node = cu.node /\ v.parent = cu.parent /\ v.pindex = cu.pindex
      /\ ~v.trk /\ st \in State /\ pr' = [pr EXCEPT ![p] = st] /\ st.pc \in Busy /\ st.pc # "prop"
      /\ Ready(node, v, st.pc, st.job) /\ Working(node, st)
  BY DEF Shifts
<1>3. Seated(node, cu) /\ Keeps(lk, p, cu) /\ cu.node # NULL BY <1>1, NodeAssumption DEF Sat
<1>4. c = <<p, 1>> /\ cur[<<p, 2>>] = NoCursor BY <1>1 DEF Sits
<1> HIDE DEF c, cu
<1>5. Seated(node, v) BY <1>2, <1>3 DEF Seated
<1>6. Keeps(lk', p, v) BY <1>2, <1>3 DEF Keeps, Mine
<1>7. Stands(node, lk', p, v, st) BY <1>2, <1>5, <1>6, BusyStands DEF AtWork
<1>8. Turn(p, c, v, st)
  <2>1. Goal(st) # "prop" /\ ~Out(st) BY <1>2 DEF Goal, Out, Busy
  <2> QED BY <1>4, <2>1 DEF Turn
<1>9. Takes(lk, lk', p, {}) BY <1>1, <1>2, SameLocks
<1>10. TrackedAt(node, v) BY <1>2 DEF TrackedAt
<1>11. Rests(p, c, v, {}, st) BY <1>2, <1>7, <1>8, <1>9, <1>10 DEF Rests
<1> QED BY <1>11, RestsStep

(* The state in which a thread goes on with next.                          *)
LEMMA GoesOn ==
  ASSUME NEW p \in Proc, Sits(p), pr[p].pc # "idle", NEW next \in Busy,
         NEW st, st = [pr[p] EXCEPT !.pc = next]
  PROVE  st \in State /\ st.pc = next /\ st.job = Job(p) /\ Working(node, st) /\ Rest(pr[p], st)
<1>1. pr[p] \in State /\ Working(node, pr[p]) BY DEF Sits
<1>2. next \in Word BY DEF Word
<1>3. st \in State /\ st.pc = next /\ st.job = pr[p].job /\ Rest(pr[p], st)
  BY <1>1, <1>2 DEF State, Rest
<1>4. st.pc # "first" BY <1>3 DEF Busy
<1>5. Working(node, st) BY <1>1, <1>3, <1>4, WorkingOn
<1> QED BY <1>3, <1>5 DEF Job

(* An iteration is at its end.                                             *)
LEMMA IterEndStep ==
  ASSUME IInv, NEW p \in Proc, IterEnd(p)
  PROVE  IInv'
<1> DEFINE st == [pr[p] EXCEPT !.pc = "fin"]
           cu == Cur(p)
<1>1. /\ Stepping(p) /\ root' = root /\ node' = node /\ cur' = cur /\ lk' = lk
      /\ pr' = [pr EXCEPT ![p] = st]
  BY DEF IterEnd, tree
<1>2. pr[p].pc \in Busy /\ pr[p].pc # "prop" /\ pr[p].pc # "idle" BY <1>1 DEF Stepping, Busy
<1>3. Sits(p) /\ Sat(p) /\ cur \in [Cursor -> CursorRec] BY <1>2, SitsIs, SatIs, IInvIs
<1>4. "fin" \in Busy BY DEF Busy
<1>5. st \in State /\ st.pc = "fin" /\ Working(node, st) BY <1>2, <1>3, <1>4, GoesOn
<1> HIDE DEF st
<1>6. Ready(node, cu, st.pc, st.job) BY <1>5 DEF Ready
<1>7. cur' = [cur EXCEPT ![Act(p)] = cu] /\ cu \in CursorRec /\ ~cu.trk BY <1>1, <1>3 DEF Sat
<1>8. Shifts(p, cu, st) BY <1>1, <1>4, <1>5, <1>6, <1>7 DEF Shifts
<1> QED BY <1>2, <1>8, ShiftStep

(* The cursor at another element.                                          *)
LEMMA CursorMoved ==
  ASSUME NEW u \in CursorRec, ~u.trk, NEW i \in Int, NEW b \in BOOLEAN
  PROVE  \A v \in {[u EXCEPT !.index = i, !.ate = b], [u EXCEPT !.index = i]} :
           /\ v \in CursorRec /\ v.node = u.node /\ v.parent = u.parent /\ v.pindex = u.pindex
           /\ ~v.trk /\ v.index = i
<1>1. [u EXCEPT !.index = i] \in CursorRec BY DEF CursorRec
<1>2. [u EXCEPT !.index = i, !.ate = b] = [[u EXCEPT !.index = i] EXCEPT !.ate = b] OBVIOUS
<1>3. [u EXCEPT !.index = i, !.ate = b] \in CursorRec BY <1>1, <1>2 DEF CursorRec
<1> QED BY <1>1, <1>2, <1>3 DEF CursorRec

(* A subtree the mirror filter skips.                                      *)
LEMMA IterFilterStep ==
  ASSUME IInv, NEW p \in Proc, IterFilter(p)
  PROVE  IInv'
<1> DEFINE st == [pr[p] EXCEPT !.pc = "more"]
           cu == Cur(p)
           n == Count(N(p))
           stop == {i \in Pos(p) .. n - 1 : ~Skippable(p, i)}
           k == IF stop = {} THEN n ELSE CHOOSE i \in stop : \A j \in stop : i <= j
           ate == Op(p) = "rollback"
           v == [cu EXCEPT !.index = k, !.ate = ate]
<1>1. /\ Stepping(p) /\ ~AtEnd(p) /\ root' = root /\ node' = node /\ lk' = lk
      /\ pr' = [pr EXCEPT ![p] = st]
  BY DEF IterFilter, InRange, tree
<1>2. cur' = [cur EXCEPT ![Act(p)] = v] BY DEF IterFilter, Cur
<1>3. pr[p].pc \in Busy /\ pr[p].pc # "prop" /\ pr[p].pc # "idle" BY <1>1 DEF Stepping, Busy
<1>4. Sits(p) /\ Sat(p) BY <1>3, SitsIs, SatIs
<1>5. /\ cu \in CursorRec /\ ~cu.trk /\ n \in Int /\ n >= 0 /\ N(p) = node[cu.node]
  BY <1>4 DEF Sat
<1>6. Pos(p) \in 0 .. n - 1 BY <1>1, <1>4, PosIs
<1>a. n = Count(node[cu.node]) BY <1>5
<1> HIDE DEF n
<1>7. k \in 0 .. n /\ k \in Int
  <2>1. CASE stop = {}
    <3>1. k = n BY <2>1
    <3> HIDE DEF k
    <3> QED BY <1>5, <3>1
  <2>2. CASE stop # {}
    <3>1. \A i \in stop : i \in 0 .. n - 1 BY <1>5, <1>6
    <3>2. stop \in SUBSET Nat BY <1>5, <3>1
    <3> HIDE DEF stop
    <3>3. \E i \in stop : \A j \in stop : i <= j BY <2>2, <3>2, LeastOf
    <3>4. k \in stop BY <2>2, <3>3
    <3> HIDE DEF k
    <3> QED BY <1>5, <3>1, <3>4
  <2> QED BY <2>1, <2>2
<1>8. ate \in BOOLEAN OBVIOUS
<1> HIDE DEF k, ate
<1>9. /\ v \in CursorRec /\ v.node = cu.node /\ v.parent = cu.parent /\ v.pindex = cu.pindex
      /\ ~v.trk /\ v.index = k
  BY <1>5, <1>7, <1>8, CursorMoved
<1>10. st \in State /\ st.pc = "more" /\ Working(node, st)
  <2>1. "more" \in Busy BY DEF Busy
  <2> QED BY <1>3, <1>4, <2>1, GoesOn
<1> HIDE DEF st, v
<1>11. Ready(node, v, st.pc, st.job)
  <2>1. v.index \in 0 .. Count(node[v.node]) BY <1>a, <1>7, <1>9
  <2> QED BY <1>10, <2>1 DEF Ready
<1>12. Shifts(p, v, st)
  <2>1. st.pc \in Busy /\ st.pc # "prop" BY <1>10 DEF Busy
  <2> QED BY <1>1, <1>2, <1>9, <1>10, <1>11, <2>1 DEF Shifts
<1> QED BY <1>3, <1>12, ShiftStep
(* An iteration comes to an element of a leaf.                             *)
LEMMA IterLeafStep ==
  ASSUME IInv, NEW p \in Proc, IterLeaf(p)
  PROVE  IInv'
<1> DEFINE i == Pos(p)
           cu == Cur(p)
           x == node[cu.node]
           e == E(x, i)
           next == AfterGot(p, e, cu.node, i)
           n == Count(x)
<1>1. /\ Stepping(p) /\ ~AtEnd(p) /\ root' = root /\ node' = node /\ lk' = lk /\ ~IsInternal(N(p))
  BY DEF IterLeaf, InRange, tree
<1>2. pr[p].pc \in Busy /\ pr[p].pc # "prop" /\ pr[p].pc # "idle" BY <1>1 DEF Stepping, Busy
<1>3. Sits(p) /\ Sat(p) BY <1>2, SitsIs, SatIs
<1>4. /\ cu \in CursorRec /\ ~cu.trk /\ n \in Int /\ N(p) = x BY <1>3 DEF Sat
<1>5. i \in 0 .. n - 1 BY <1>1, <1>3, <1>4, PosIs
<1>6. i \in Int BY <1>4, <1>5
<1>a. ~IsInternal(x) /\ n = Len(x.elms) BY <1>1, <1>4 DEF Count
<1>b. x.elms # <<>> BY <1>4, <1>5, <1>a
<1>c. /\ \/ /\ AsOf(p) /\ cur' = [cur EXCEPT ![Act(p)].index = i + 1]
            /\ pr' = [pr EXCEPT ![p].pc = "iter"]
         \/ /\ cur' = [cur EXCEPT ![Act(p)] = [@ EXCEPT !.index = i, !.ate = TRUE]]
            /\ pr' = [pr EXCEPT ![p].pc = next]
  BY <1>4 DEF IterLeaf
<1>d. Op(p) = Job(p).op BY DEF Op, Job
<1> HIDE DEF i, e, n
<1>7. CASE /\ AsOf(p) /\ cur' = [cur EXCEPT ![Act(p)].index = i + 1]
           /\ pr' = [pr EXCEPT ![p].pc = "iter"]
  <2> DEFINE v == [cu EXCEPT !.index = i + 1]
             st == [pr[p] EXCEPT !.pc = "iter"]
  <2>1. cur' = [cur EXCEPT ![Act(p)] = v] /\ pr' = [pr EXCEPT ![p] = st] BY <1>7 DEF Cur
  <2>2. /\ v \in CursorRec /\ v.node = cu.node /\ v.parent = cu.parent /\ v.pindex = cu.pindex
        /\ ~v.trk /\ v.index = i + 1
    <3>1. i + 1 \in Int /\ TRUE \in BOOLEAN BY <1>6
    <3> QED BY <1>4, <3>1, CursorMoved
  <2>3. st \in State /\ st.pc = "iter" /\ st.job = Job(p) /\ Working(node, st)
    <3>1. "iter" \in Busy BY DEF Busy
    <3> QED BY <1>2, <1>3, <3>1, GoesOn
  <2> HIDE DEF v, st
  <2>4. Ready(node, v, st.pc, st.job)
    <3>1. v.index \in 0 .. Count(node[v.node]) BY <1>4, <1>5, <2>2 DEF n
    <3>2. st.job.op # "prune" BY <1>7, <1>d, <2>3 DEF AsOf
    <3> QED BY <2>3, <3>1, <3>2 DEF Ready
  <2>5. st.pc \in Busy /\ st.pc # "prop" BY <2>3 DEF Busy
  <2>6. Shifts(p, v, st) BY <1>1, <2>1, <2>2, <2>3, <2>4, <2>5 DEF Shifts
  <2> QED BY <1>2, <2>6, ShiftStep
<1>8. CASE /\ cur' = [cur EXCEPT ![Act(p)] = [@ EXCEPT !.index = i, !.ate = TRUE]]
           /\ pr' = [pr EXCEPT ![p].pc = next]
  <2> DEFINE v == [cu EXCEPT !.index = i, !.ate = TRUE]
             st == [pr[p] EXCEPT !.pc = next]
  <2>1. cur' = [cur EXCEPT ![Act(p)] = v] /\ pr' = [pr EXCEPT ![p] = st] BY <1>8 DEF Cur
  <2>2. /\ v \in CursorRec /\ v.node = cu.node /\ v.parent = cu.parent /\ v.pindex = cu.pindex
        /\ ~v.trk /\ v.index = i
    <3>1. TRUE \in BOOLEAN OBVIOUS
    <3> QED BY <1>4, <1>6, <3>1, CursorMoved
  <2>a. /\ next \in {"delete", "move", "more"} /\ (next = "delete" => Doomed(Job(p), e))
        /\ next = "move" => i = 0 /\ Op(p) = "reblock"
    BY AfterGotIs
  <2>b. st = [pr[p] EXCEPT !.pc = next] OBVIOUS
  <2> HIDE DEF next, v, st
  <2>3. st \in State /\ st.pc = next /\ st.job = Job(p) /\ Working(node, st)
    <3>1. next \in Busy BY <2>a DEF Busy
    <3> QED BY <1>2, <1>3, <2>b, <3>1, GoesOn
  <2>4. Ready(node, v, st.pc, st.job)
    <3>1. /\ v.index \in 0 .. Count(node[v.node]) /\ v.index \in 0 .. Count(node[v.node]) - 1
          /\ node[v.node] = x
      BY <1>4, <1>5, <2>2 DEF n
    <3>2. E(node[v.node], v.index) = e BY <2>2, <3>1 DEF e
    <3> QED BY <1>a, <1>b, <1>d, <2>2, <2>3, <2>a, <3>1, <3>2 DEF Ready
  <2>5. st.pc \in Busy /\ st.pc # "prop" BY <2>3, <2>a DEF Busy
  <2>6. Shifts(p, v, st) BY <1>1, <2>1, <2>2, <2>3, <2>4, <2>5 DEF Shifts
  <2> QED BY <1>2, <2>6, ShiftStep
<1> QED BY <1>c, <1>7, <1>8

-----------------------------------------------------------------------------
(* hammer_cursor_down, up to where it waits for the child, from a tree     *)
(* that may have changed on the way.                                       *)
Descends(p, im2, W, i, s, next) ==
  LET u == im2.cur[Act(p)]
      v == [u EXCEPT !.parent = u.node, !.pindex = i, !.node = NULL, !.index = 0]
      st == [s EXCEPT !.pc = "child", !.want = E(im2.node[u.node], i).sub, !.cont = next]
  IN /\ Advances(Image, im2, W, Act(p)) /\ \A n \in Node : n \in W => Solely(lk, p, n)
     /\ root' = im2.root /\ node' = im2.node /\ cur' = [im2.cur EXCEPT ![Act(p)] = v]
     /\ ~u.trk /\ u.node \in InUse(im2.node) /\ IsInternal(im2.node[u.node])
     /\ i \in 0 .. Count(im2.node[u.node]) - 1
     /\ Lock(p, {}, {u.node}) /\ Shares(lk, p, u.node)
     /\ pr' = [pr EXCEPT ![p] = st] /\ s \in State /\ Rest(pr[p], s) /\ next \in {"search", "iter"}
(* Any step that moves to a child.                                         *)
LEMMA DownStep ==
  ASSUME IInv, NEW p \in Proc, pr[p].pc \in Busy, pr[p].pc # "prop",
         NEW im2, NEW W, NEW i, NEW s, NEW next, Descends(p, im2, W, i, s, next)
  PROVE  IInv'
<1> DEFINE c == Act(p)
           u == im2.cur[c]
           nd == im2.node
           w == E(nd[u.node], i).sub
           v == [u EXCEPT !.parent = u.node, !.pindex = i, !.node = NULL, !.index = 0]
           st == [s EXCEPT !.pc = "child", !.want = w, !.cont = next]
           M == {u.node}
<1>1. /\ Advances(Image, im2, W, c) /\ \A n \in Node : n \in W => Solely(lk, p, n)
      /\ root' = im2.root /\ node' = nd /\ cur' = [im2.cur EXCEPT ![c] = v]
      /\ ~u.trk /\ u.node \in InUse(nd) /\ IsInternal(nd[u.node])
      /\ i \in 0 .. Count(nd[u.node]) - 1
      /\ Lock(p, {}, M) /\ Shares(lk, p, u.node)
      /\ pr' = [pr EXCEPT ![p] = st] /\ s \in State /\ Rest(pr[p], s) /\ next \in {"search", "iter"}
  BY DEF Descends
<1>2. Sits(p) /\ LockOK(lk) BY SitsIs, IInvIs
<1>3. /\ c \in Cursor /\ c = <<p, 1>> /\ cur[<<p, 2>>] = NoCursor
      /\ pr[p] \in State /\ Working(node, pr[p])
  BY <1>2 DEF Sits
<1>4. Tree(im2.root, nd) /\ im2.cur \in [Cursor -> CursorRec]
      /\ \A n \in Node : node[n].type # "free" => nd[n].type # "free"
  BY <1>1 DEF Advances, Sound, Image
<1>5. u \in CursorRec /\ u.node \in Node /\ u.node \in AnyNode BY <1>1, <1>3, <1>4 DEF InUse, AnyNode
<1>6. w \in Node /\ w \in AnyNode
  <2>1. E(nd[u.node], i).sub \in InUse(nd) BY <1>1, <1>4, Down
  <2> QED BY <2>1 DEF InUse, AnyNode
<1>7. i \in Int /\ NULL \in AnyNode /\ 0 \in Int
  <2>1. Count(nd[u.node]) \in Int BY <1>1, <1>4, Shape DEF Tree
  <2> QED BY <1>1, <2>1 DEF AnyNode
<1> HIDE DEF c, u, nd, w
<1>8. v \in CursorRec /\ ~v.trk /\ v.node = NULL /\ v.parent = u.node /\ v.pindex = i
  <2> DEFINE v1 == [u EXCEPT !.parent = u.node, !.pindex = i]
  <2>1. v1 \in CursorRec BY <1>5, <1>7, CursorAt
  <2>2. ~v1.trk /\ v1.parent = u.node /\ v1.pindex = i BY <1>1, <1>5 DEF CursorRec
  <2>3. v = [v1 EXCEPT !.node = NULL, !.index = 0] BY <1>5 DEF CursorRec
  <2> HIDE DEF v1
  <2>4. v \in CursorRec BY <1>7, <2>1, <2>3, CursorAt
  <2> HIDE DEF v
  <2> QED BY <2>1, <2>2, <2>3, <2>4 DEF CursorRec
<1> HIDE DEF v
<1>9. st \in State /\ st.pc = "child" /\ st.want = w /\ st.cont = next /\ Rest(pr[p], st)
  <2>1. "child" \in Word /\ next \in Word BY <1>1 DEF Word, Busy
  <2>2. st \in State /\ st.pc = "child" /\ st.want = w /\ st.cont = next BY <1>1, <1>6, <2>1 DEF State
  <2>3. Rest(pr[p], st) BY <1>1 DEF Rest, State
  <2> QED BY <2>2, <2>3
<1> HIDE DEF st
<1>10. Takes(lk, lk', p, M)
  <2>1. M \in SUBSET Node /\ \A n \in M : Shares(lk, p, n) BY <1>1, <1>5
  <2> HIDE DEF M
  <2> QED BY <1>1, <1>2, <2>1, SharesThese
<1>11. Has(lk', p, v.parent) BY <1>8, <1>10 DEF Takes
<1>12. Stands(nd, lk', p, v, st)
  <2>1. GoesDown(nd, lk', p, v, st) BY <1>1, <1>8, <1>9, <1>11 DEF GoesDown, w
  <2> QED BY <1>9, <2>1 DEF Stands, Busy, Away
<1>13. Working(nd, st)
  <2>1. pr[p].pc # "idle" /\ st.pc # "first" BY <1>9 DEF Busy
  <2> QED BY <1>3, <1>4, <1>9, <2>1, WorkingOn
<1>14. Turn(p, c, v, st)
  <2>1. Goal(st) # "prop" /\ ~Out(st) BY <1>9 DEF Goal, Out
  <2> QED BY <1>3, <2>1 DEF Turn
<1>15. \A n \in M : nd[n].type # "free" BY <1>1 DEF InUse
<1>16. TrackedAt(nd, v) BY <1>8 DEF TrackedAt
<1> HIDE DEF M
<1>17. Goes(p, c, im2, W, v, M, st)
  <2>1. im2.node = nd BY DEF nd
  <2> QED BY <1>1, <1>8, <1>9, <1>10, <1>12, <1>13, <1>14, <1>15, <1>16, <2>1 DEF Goes
<1> QED BY <1>17, GoesStep
-----------------------------------------------------------------------------
(* Nothing changes.                                                        *)
LEMMA StaysQuietly ==
  ASSUME IInv, NEW p \in Proc, NEW c
  PROVE  Advances(Image, Image, {}, c) /\ Sound(Image)
<1>1. /\ Tree(root, node) /\ cur \in [Cursor -> CursorRec] /\ Tracked(node, cur) BY IInvIs
<1>2. /\ Image.root = root /\ Image.node = node /\ Image.cur = cur BY DEF Image
<1> QED BY <1>1, <1>2 DEF Advances, Sound, Same
(* hammer_btree_iterate goes down.                                         *)
LEMMA IterDownStep ==
  ASSUME IInv, NEW p \in Proc, IterDown(p)
  PROVE  IInv'
<1> DEFINE i == Pos(p)
           cu == Cur(p)
           x == node[cu.node]
           v == [cu EXCEPT !.parent = cu.node, !.pindex = i, !.node = NULL, !.index = 0]
           s == pr[p]
           st == [s EXCEPT !.pc = "child", !.want = E(x, i).sub, !.cont = "iter"]
<1>1. Stepping(p) /\ ~AtEnd(p) /\ root' = root /\ IsInternal(N(p))
  BY DEF IterDown, InRange, tree
<1>2. pr[p].pc \in Busy /\ pr[p].pc # "prop" BY <1>1 DEF Stepping, Busy
<1>3. Sits(p) /\ Sat(p) BY <1>2, SitsIs, SatIs
<1>4. /\ cu \in CursorRec /\ ~cu.trk /\ N(p) = x /\ cu = cur[Act(p)] /\ cu.node \in InUse(node)
      /\ Shares(lk, p, cu.node)
  BY <1>3 DEF Sat
<1>5. i \in 0 .. Count(x) - 1 BY <1>1, <1>3, <1>4, PosIs
<1>6. /\ node' = node /\ cur' = [cur EXCEPT ![Act(p)] = v] /\ Lock(p, {}, {cu.node})
      /\ pr' = [pr EXCEPT ![p] = st]
  BY <1>4 DEF IterDown, Cur, tree
<1>7. /\ Image.root = root /\ Image.node = node /\ Image.cur = cur BY DEF Image
<1>8. s \in State /\ Rest(s, s) BY <1>3 DEF Sits, Rest
<1>9. \A n \in Node : n \in {} => Solely(lk, p, n) OBVIOUS
<1>10. Advances(Image, Image, {}, Act(p)) BY StaysQuietly
<1>11. /\ v = [Image.cur[Act(p)] EXCEPT !.parent = Image.cur[Act(p)].node, !.pindex = i, !.node = NULL, !.index = 0]
       /\ st = [s EXCEPT !.pc = "child", !.want = E(Image.node[Image.cur[Act(p)].node], i).sub, !.cont = "iter"]
  BY <1>4, <1>7
<1> DEFINE W == {}
<1>12. Descends(p, Image, W, i, s, "iter")
  <2> HIDE DEF i, cu, st, v, s
  <2>1. cu = Image.cur[Act(p)] BY <1>4, <1>7
  <2> QED BY <1>1, <1>4, <1>5, <1>6, <1>7, <1>8, <1>9, <1>10, <1>11, <2>1 DEF Descends, s
<1> HIDE DEF W, i, s
<1> QED BY <1>2, <1>12, DownStep
-----------------------------------------------------------------------------
(* The keys that bound a thread's node.                                    *)
Bounded(p) ==
  /\ LeftBound(p) = Bounds(node, Cur(p))[1] /\ RightBound(p) = Bounds(node, Cur(p))[2]
  /\ LeftBound(p) \in AnyKey /\ RightBound(p) \in AnyKey
  /\ Confines(root, node, Cur(p).node, LeftBound(p), RightBound(p))
  /\ Fits(N(p), LeftBound(p), RightBound(p))
  /\ \A e \in ToSet(N(p).elms) : e.base \in AnyKey
(* A search that is at its node looks for a key within the bounds.         *)
LEMMA BoundedIs ==
  ASSUME IInv, NEW p \in Proc, Sat(p)
  PROVE  Bounded(p)
<1> DEFINE cu == Cur(p)
<1>1. Seated(node, cu) /\ Tree(root, node) /\ N(p) = node[cu.node] /\ cu.node \in InUse(node)
  BY IInvIs DEF Sat
<1>2. Confines(root, node, cu.node, Bounds(node, cu)[1], Bounds(node, cu)[2]) BY <1>1, SeatBounds
<1>3. LeftBound(p) = Bounds(node, cu)[1] /\ RightBound(p) = Bounds(node, cu)[2]
  BY DEF LeftBound, RightBound, Bounds
<1>4. \A e \in ToSet(N(p).elms) : e.base \in AnyKey
  <2>1. \A i \in 1 .. Len(N(p).elms) : N(p).elms[i].base \in AnyKey
    BY <1>1, Shape DEF Tree
  <2>2. DOMAIN N(p).elms = 1 .. Len(N(p).elms) BY DEF Sat
  <2>3. ToSet(N(p).elms) = {N(p).elms[i] : i \in DOMAIN N(p).elms} BY DEF ToSet
  <2> QED BY <2>1, <2>2, <2>3
<1> HIDE DEF cu
<1> QED BY <1>1, <1>2, <1>3, <1>4 DEF Bounded, Confines, cu

(* The create_tid limit of a search is a tid.                              *)
LEMMA CreateCheckIs ==
  ASSUME IInv, NEW p \in Proc, Sits(p), Sat(p), pr[p].pc # "idle"
  PROVE  CreateCheck(p) \in Tid
<1>1. Bounded(p) /\ pr[p] \in State /\ Key(p) \in AnyKey BY BoundedIs, KeyIs DEF Sits
<1>2. CASE Earlier(p) = {}
  <2>1. pr[p].check \in Tid BY <1>1, StateAt
  <2> QED BY <1>2, <2>1 DEF CreateCheck
<1>3. CASE Earlier(p) # {}
  <2> DEFINE k == Key(p)
             S == {MaxTid - e.t : e \in Earlier(p)}
  <2>0. k.k \in Nat /\ k.t \in Nat /\ MaxTid \in Nat BY <1>1, ProcAssumption, NodeAssumption DEF AnyKey, Tid
  <2>1. \A e \in Earlier(p) : e \in AnyKey /\ Cmp(k, e) = 1
    <3>1. \A e \in Earlier(p) : (e = LeftBound(p) \/ \E f \in ToSet(N(p).elms) : e = f.base) /\ Cmp(k, e) = 1
      BY DEF Earlier
    <3> QED BY <1>1, <3>1 DEF Bounded
  <2>2. \A e \in Earlier(p) : e.k = k.k /\ e.t \in 1 .. MaxTid
    <3>1. \A e \in Earlier(p) : e.k \in Nat /\ e.t \in 0 .. MaxTid BY <2>1, NodeAssumption DEF AnyKey, Tid
    <3> HIDE DEF k
    <3>2. \A e \in Earlier(p) : e.k = k.k /\ e.t # 0 BY <2>0, <2>1, <3>1 DEF Cmp
    <3> QED BY <3>1, <3>2
  <2> HIDE DEF k
  <2>3. S \in SUBSET Nat /\ S # {} BY <1>3, <2>0, <2>2
  <2>4. PICK m \in S : \A n \in S : m <= n BY <2>3, LeastOf
  <2>5. PICK g \in Earlier(p) : m = MaxTid - g.t BY <2>4
  <2>6. \A f \in Earlier(p) : Cmp(g, f) >= 0
    <3>1. \A f \in Earlier(p) : MaxTid - f.t \in S OBVIOUS
    <3> HIDE DEF S
    <3>2. \A f \in Earlier(p) : f.t <= g.t BY <2>0, <2>2, <2>4, <2>5, <3>1
    <3> QED BY <2>0, <2>2, <3>2 DEF Cmp
  <2> DEFINE h == CHOOSE e \in Earlier(p) : \A f \in Earlier(p) : Cmp(e, f) >= 0
  <2>7. h \in Earlier(p) BY <2>6
  <2>8. h.t - 1 \in Tid
    <3> HIDE DEF h
    <3> QED BY <2>0, <2>2, <2>7 DEF Tid
  <2> QED BY <1>3, <2>8 DEF CreateCheck
<1> QED BY <1>2, <1>3

(* Where a search that is over leads to.                                   *)
Follow(p, res, e, i, st) ==
  /\ st \in State /\ st.job = Job(p) /\ Working(node, st) /\ Rest(st, st)
  /\ st.pc \in {"search", "insert", "delete", "move", "more", "next", "fin"}
  /\ st.pc = "insert" => Op(p) = "insert" /\ res = "enoent"
  /\ st.pc = "delete" => res = "found" /\ (Op(p) = "delete" \/ Doomed(Job(p), e))
  /\ st.pc = "move" => i = 0 /\ Op(p) = "reblock" /\ res = "found"
(* What a caller of btree_search goes on with.                             *)
LEMMA AfterSearchIs ==
  ASSUME NEW p \in Proc, Job(p) \in Jobs, NEW s \in State, s.job = Job(p), Working(node, s), s.pc = "search",
         NEW res \in {"found", "enoent", "enospc"}, NEW e, NEW i,
         NEW st, st = AfterSearch(p, s, res, e, i)
  PROVE  Follow(p, res, e, i, st)
<1>0. s.beg \in AnyKey /\ s.check \in Tid BY StateAt
<1>1. CASE res = "enoent" /\ AsOf(p) /\ s.check # 0
  <2>1. st = [s EXCEPT !.pc = "search", !.beg.t = s.check, !.check = 0] BY <1>1 DEF AfterSearch
  <2> DEFINE b == [s.beg EXCEPT !.t = s.check]
  <2>2. b \in AnyKey /\ b.t # 0 BY <1>0, <1>1 DEF AnyKey
  <2>3. st = [s EXCEPT !.pc = "search", !.beg = b, !.check = 0] BY <2>1
  <2> HIDE DEF b
  <2>4. "search" \in Word /\ 0 \in Tid BY ProcAssumption DEF Word, Busy, Tid
  <2>5. /\ st \in State /\ st.pc = "search" /\ st.beg = b /\ st.job = s.job /\ st.end = s.end
        /\ st.jobs = s.jobs /\ st.cache = s.cache
    BY <2>2, <2>3, <2>4 DEF State
  <2>6. Op(p) \notin {"insert", "delete"} /\ Op(p) = Job(p).op BY <1>1 DEF AsOf, Op, Job
  <2>7. Working(node, st) BY <2>2, <2>5, <2>6 DEF Working, Searchable
  <2> QED BY <2>5, <2>7 DEF Follow, Rest
<1>2. CASE ~(res = "enoent" /\ AsOf(p) /\ s.check # 0)
  <2> DEFINE w == CASE Inserting(p) /\ res = "enoent"    -> "insert"
                    [] Op(p) = "delete" /\ res = "found" -> "delete"
                    [] Iterating(p) /\ res = "found"     -> AfterGot(p, e, Cur(p).node, i)
                    [] Iterating(p) /\ res = "enoent"    -> "next"
                    [] OTHER                             -> "fin"
             g == AfterGot(p, e, Cur(p).node, i)
  <2>1. st = [s EXCEPT !.pc = w] BY <1>2 DEF AfterSearch
  <2>2. /\ g \in {"delete", "move", "more"} /\ (g = "delete" => Doomed(Job(p), e))
        /\ (g = "move" => i = 0 /\ Op(p) = "reblock")
    BY AfterGotIs
  <2> HIDE DEF g
  <2>3. /\ w \in {"insert", "delete", "move", "more", "next", "fin"}
        /\ w = "insert" => Op(p) = "insert" /\ res = "enoent"
        /\ w = "delete" => res = "found" /\ (Op(p) = "delete" \/ Doomed(Job(p), e))
        /\ w = "move" => i = 0 /\ Op(p) = "reblock" /\ res = "found"
    <3>1. CASE Inserting(p) /\ res = "enoent"
      <4>1. w = "insert" BY <3>1 DEF Inserting, Iterating
      <4> QED BY <3>1, <4>1 DEF Inserting
    <3>2. CASE Op(p) = "delete" /\ res = "found"
      <4>1. w = "delete" BY <3>2 DEF Inserting, Iterating
      <4> QED BY <3>2, <4>1
    <3>3. CASE Iterating(p) /\ res = "found"
      <4>1. w = g BY <3>3 DEF Inserting, Iterating, g
      <4> QED BY <2>2, <3>3, <4>1
    <3>4. CASE Iterating(p) /\ res = "enoent"
      <4>1. w = "next" BY <3>4 DEF Inserting, Iterating
      <4> QED BY <4>1
    <3>5. CASE /\ ~(Inserting(p) /\ res = "enoent") /\ ~(Op(p) = "delete" /\ res = "found")
               /\ ~(Iterating(p) /\ res = "found") /\ ~(Iterating(p) /\ res = "enoent")
      <4>1. w = "fin" BY <3>5
      <4> QED BY <4>1
    <3> QED BY <3>1, <3>2, <3>3, <3>4, <3>5
  <2> HIDE DEF w
  <2>4. w \in Word BY <2>3 DEF Word, Busy
  <2>5. /\ st \in State /\ st.pc = w /\ st.beg = s.beg /\ st.job = s.job /\ st.end = s.end
        /\ st.jobs = s.jobs /\ st.cache = s.cache
    BY <2>1, <2>4 DEF State
  <2>6. Working(node, st) BY <2>3, <2>5 DEF Working
  <2> QED BY <2>3, <2>5, <2>6 DEF Follow, Rest
<1> QED BY <1>1, <1>2
-----------------------------------------------------------------------------
(* A search that goes on with another create_tid limit.                    *)
LEMMA CheckedIs ==
  ASSUME NEW p \in Proc, pr[p] \in State, NEW t \in Tid, NEW b \in BOOLEAN,
         NEW st, st = [pr[p] EXCEPT !.check = t, !.enospc = b] \/ st = [pr[p] EXCEPT !.check = t]
  PROVE  /\ st \in State /\ st.pc = pr[p].pc /\ st.job = Job(p) /\ Rest(pr[p], st)
         /\ (Working(node, pr[p]) => Working(node, st))
<1>1. /\ st \in State /\ st.pc = pr[p].pc /\ st.job = pr[p].job /\ st.beg = pr[p].beg /\ st.end = pr[p].end
      /\ st.jobs = pr[p].jobs /\ st.cache = pr[p].cache /\ st.want = pr[p].want
  BY DEF State
<1> QED BY <1>1 DEF Rest, Working, Job

(* A search at an internal node whose boundary it has to correct first.    *)
LEMMA SearchGapStep ==
  ASSUME IInv, NEW p \in Proc, SearchGap(p)
  PROVE  IInv'
<1> DEFINE cu == Cur(p)
           x == node[cu.node]
           k == IF Passed(p) = 0 THEN 0 ELSE Count(N(p))
           v == [cu EXCEPT !.index = k, !.ate = FALSE]
           s == [pr[p] EXCEPT !.check = CreateCheck(p)]
           st == AfterSearch(p, s, "enoent", NULL, 0)
<1>1. /\ pr[p].pc = "search" /\ ~Inserting(p) /\ IsInternal(N(p))
      /\ root' = root /\ node' = node /\ lk' = lk /\ pr' = [pr EXCEPT ![p] = st]
  BY DEF SearchGap, At, tree
<1>2. pr[p].pc \in Busy /\ pr[p].pc # "prop" /\ pr[p].pc # "idle" BY <1>1 DEF Busy
<1>3. Sits(p) /\ Sat(p) BY <1>2, SitsIs, SatIs
<1>4. /\ cu \in CursorRec /\ ~cu.trk /\ N(p) = x /\ Count(x) \in Int /\ Count(x) >= 0
  BY <1>3 DEF Sat
<1>5. cur' = [cur EXCEPT ![Act(p)] = v] BY DEF SearchGap, Cur
<1>6. k \in 0 .. Count(x) /\ k \in Int BY <1>4
<1>7. /\ v \in CursorRec /\ v.node = cu.node /\ v.parent = cu.parent /\ v.pindex = cu.pindex
      /\ ~v.trk /\ v.index = k
  <2>1. FALSE \in BOOLEAN OBVIOUS
  <2> HIDE DEF k
  <2> QED BY <1>4, <1>6, <2>1, CursorMoved
<1>8. s \in State /\ s.pc = "search" /\ s.job = Job(p) /\ Working(node, s)
  <2>1. CreateCheck(p) \in Tid /\ pr[p] \in State /\ Working(node, pr[p]) /\ FALSE \in BOOLEAN
    BY <1>2, <1>3, CreateCheckIs DEF Sits
  <2>2. s = [pr[p] EXCEPT !.check = CreateCheck(p)] OBVIOUS
  <2> HIDE DEF s
  <2> QED BY <1>1, <2>1, <2>2, CheckedIs
<1>9. st = AfterSearch(p, s, "enoent", NULL, 0) OBVIOUS
<1> HIDE DEF v, s, k, st
<1>10. Follow(p, "enoent", NULL, 0, st)
  <2>1. Job(p) \in Jobs /\ "enoent" \in {"found", "enoent", "enospc"} BY <1>3 DEF Sits
  <2> QED BY <1>8, <1>9, <2>1, AfterSearchIs
<1>11. /\ st \in State /\ st.job = Job(p) /\ Working(node, st) /\ st.pc \in {"search", "more", "next", "fin"}
  BY <1>1, <1>10 DEF Follow, Inserting
<1>12. Ready(node, v, st.pc, st.job) BY <1>4, <1>6, <1>7, <1>11 DEF Ready
<1>13. st.pc \in Busy /\ st.pc # "prop" BY <1>11 DEF Busy
<1>14. Shifts(p, v, st) BY <1>1, <1>5, <1>7, <1>11, <1>12, <1>13 DEF Shifts
<1> QED BY <1>2, <1>14, ShiftStep

(* The leaf element a search stops at.                                     *)
LEMMA LeafStopIs ==
  ASSUME NEW p \in Proc, Sat(p)
  PROVE  /\ LeafStop(p) \in 0 .. Count(N(p)) /\ LeafStop(p) \in Int
         /\ LeafStop(p) # Count(N(p)) =>
              Hit(p, LeafStop(p)) \/ Cmp(Key(p), E(N(p), LeafStop(p)).base) < 0
         /\ \A j \in 0 .. LeafStop(p) - 1 : ~Hit(p, j) /\ ~(Cmp(Key(p), E(N(p), j).base) < 0)
<1> DEFINE n == Count(N(p))
           P(i) == Hit(p, i) \/ Cmp(Key(p), E(N(p), i).base) < 0
           S == {i \in 0 .. n - 1 : P(i)}
           h == CHOOSE i \in S : \A j \in S : i <= j
<1>1. n \in Int /\ n >= 0 BY DEF Sat
<1>2. LeafStop(p) = IF S = {} THEN n ELSE h BY DEF LeafStop
<1> HIDE DEF P, n
<1>3. CASE S = {}
  <2>1. LeafStop(p) = n BY <1>2, <1>3
  <2>2. \A j \in 0 .. n - 1 : ~P(j) BY <1>3
  <2> QED BY <1>1, <2>1, <2>2 DEF P, n
<1>4. CASE S # {}
  <2>1. S \in SUBSET Nat BY <1>1
  <2>2. \E m \in S : \A j \in S : m <= j BY <1>4, <2>1, LeastOf
  <2>3. h \in S /\ \A j \in S : h <= j BY <2>2
  <2>4. LeafStop(p) = h BY <1>2, <1>4
  <2> HIDE DEF h
  <2>5. h \in 0 .. n - 1 /\ P(h) BY <2>3
  <2>6. \A j \in 0 .. h - 1 : ~P(j) BY <1>1, <2>3, <2>5
  <2> QED BY <1>1, <2>4, <2>5, <2>6 DEF P, n
<1> QED BY <1>3, <1>4

(* A search has found its element.                                         *)
LEMMA SearchFoundStep ==
  ASSUME IInv, NEW p \in Proc, SearchFound(p)
  PROVE  IInv'
<1> DEFINE cu == Cur(p)
           x == node[cu.node]
           i == LeafStop(p)
           e == E(N(p), i)
           v == [cu EXCEPT !.index = i, !.ate = TRUE]
           s == pr[p]
           st == AfterSearch(p, s, "found", e, i)
<1>1. /\ pr[p].pc = "search" /\ ~IsInternal(N(p)) /\ Hit(p, i) /\ i # Count(N(p))
      /\ root' = root /\ node' = node /\ lk' = lk /\ pr' = [pr EXCEPT ![p] = st]
  <2>1. LeafStop(p) \in Int /\ Count(N(p)) \in Int
    <3>1. Sat(p) BY SitsIs, SatIs DEF SearchFound, AtLeaf, At, Busy
    <3>2. N(p) = x /\ Count(x) \in Int BY <3>1 DEF Sat
    <3> QED BY <3>1, <3>2, LeafStopIs
  <2> QED BY <2>1 DEF SearchFound, AtLeaf, LeafFound, At, tree
<1>2. pr[p].pc \in Busy /\ pr[p].pc # "prop" /\ pr[p].pc # "idle" BY <1>1 DEF Busy
<1>3. Sits(p) /\ Sat(p) BY <1>2, SitsIs, SatIs
<1>4. /\ cu \in CursorRec /\ ~cu.trk /\ N(p) = x /\ Count(x) \in Int /\ Count(x) >= 0
      /\ (~IsInternal(x) => Count(x) = Len(x.elms))
  BY <1>3 DEF Sat
<1>5. cur' = [cur EXCEPT ![Act(p)] = v] BY DEF SearchFound, Cur
<1>6. i \in 0 .. Count(x) - 1 /\ i \in 0 .. Count(x) /\ i \in Int
  <2>1. i \in 0 .. Count(x) BY <1>3, <1>4, LeafStopIs
  <2> QED BY <1>1, <1>4, <2>1
<1>7. /\ v \in CursorRec /\ v.node = cu.node /\ v.parent = cu.parent /\ v.pindex = cu.pindex
      /\ ~v.trk /\ v.index = i
  <2>1. TRUE \in BOOLEAN OBVIOUS
  <2> HIDE DEF i
  <2> QED BY <1>4, <1>6, <2>1, CursorMoved
<1>8. s \in State /\ s.pc = "search" /\ s.job = Job(p) /\ Working(node, s) BY <1>1, <1>3 DEF Sits, Job
<1>9. st = AfterSearch(p, s, "found", e, i) OBVIOUS
<1>e. e = E(x, i) BY <1>4
<1> HIDE DEF v, s, st
<1>10. Follow(p, "found", e, i, st)
  <2>1. Job(p) \in Jobs /\ "found" \in {"found", "enoent", "enospc"} BY <1>3 DEF Sits
  <2> HIDE DEF i, e
  <2> QED BY <1>8, <1>9, <2>1, AfterSearchIs
<1>h. Op(p) = "delete" => e.base = Job(p).key
  <2> HAVE Op(p) = "delete"
  <2>1. Cmp(Key(p), e.base) = 0 BY <1>1 DEF Hit, AsOf
  <2>2. Key(p) \in AnyKey /\ Key(p) = s.beg BY <1>2, <1>3, KeyIs DEF s
  <2>3. s.beg = Job(p).key
    <3>1. Job(p).op = "delete" BY DEF Op, Job
    <3> QED BY <1>2, <1>8, <3>1 DEF Working
  <2>4. e.base \in AnyKey
    <3>1. Bounded(p) BY <1>3, BoundedIs
    <3>2. \A f \in ToSet(x.elms) : f.base \in AnyKey BY <1>4, <3>1 DEF Bounded
    <3>3. x.elms \in Seq(LeafElm) /\ i + 1 \in 1 .. Len(x.elms)
      <4>1. ~IsInternal(x) BY <1>1, <1>4
      <4>2. x.elms \in Seq(LeafElm) BY <1>3, <4>1 DEF Sat
      <4> QED BY <1>4, <1>6, <4>1, <4>2
    <3>4. e \in ToSet(x.elms)
      <4> HIDE DEF i
      <4>1. i + 1 \in DOMAIN x.elms BY <3>3
      <4> QED BY <1>e, <4>1 DEF ToSet, E
    <3> QED BY <3>2, <3>4
  <2> HIDE DEF e
  <2> QED BY <2>1, <2>2, <2>3, <2>4, CmpOrder
<1> HIDE DEF i, e
<1>d. st.pc = "delete" => Doomed(Job(p), e)
  <2>1. Op(p) = Job(p).op BY DEF Op, Job
  <2> QED BY <1>10, <1>h, <2>1 DEF Follow, Doomed
<1>11. /\ st \in State /\ st.job = Job(p) /\ Working(node, st)
       /\ st.pc \in {"search", "delete", "move", "more", "next", "fin"}
       /\ st.pc = "move" => i = 0 /\ Job(p).op = "reblock"
  BY <1>10 DEF Follow, Op, Job
<1>12. Ready(node, v, st.pc, st.job)
  <2>1. ~IsInternal(x) /\ x.elms # <<>>
    <3>1. ~IsInternal(x) BY <1>1, <1>4
    <3> QED BY <1>4, <1>6, <3>1
  <2>2. E(node[v.node], v.index) = e /\ node[v.node] = x BY <1>7, <1>e
  <2>3. v.index \in 0 .. Count(x) - 1 /\ v.index \in 0 .. Count(x) BY <1>6, <1>7
  <2> HIDE DEF x
  <2> QED BY <1>7, <1>11, <1>d, <2>1, <2>2, <2>3 DEF Ready
<1>13. st.pc \in Busy /\ st.pc # "prop" BY <1>11 DEF Busy
<1>14. Shifts(p, v, st) BY <1>1, <1>5, <1>7, <1>11, <1>12, <1>13 DEF Shifts
<1> QED BY <1>2, <1>14, ShiftStep
-----------------------------------------------------------------------------
(* hammer_cursor_upgrade and hammer_btree_lock_children.                   *)
LEMMA UpgradeIs ==
  ASSUME IInv, NEW p \in Proc, Sat(p)
  PROVE  /\ Upgrade(p) # NULL => Upgrade(p) \in Node
         /\ Upgrade(p) = NULL => \A n \in Mine(Cur(p)) : n \in Node /\ Solely(lk, p, n)
<1>1. LockOK(lk) BY IInvIs
<1>2. Cur(p).node \in Node /\ (Cur(p).parent # NULL => Cur(p).parent \in Node) BY DEF Sat
<1>3. /\ CanUpgrade(p, Cur(p).node) => Solely(lk, p, Cur(p).node)
      /\ Cur(p).parent # NULL /\ CanUpgrade(p, Cur(p).parent) => Solely(lk, p, Cur(p).parent)
  BY <1>1, <1>2, OwnLock
<1> QED BY <1>2, <1>3, NodeAssumption DEF Upgrade, Mine

(* hammer_btree_lock_children has all children or none.                    *)
LEMMA ChildBlockedIs ==
  ASSUME IInv, NEW p \in Proc, Sat(p)
  PROVE  /\ ChildBlocked(p) # NULL => ChildBlocked(p) \in Node
         /\ ChildBlocked(p) = NULL => \A n \in Children(N(p)) : n \in Node /\ Solely(lk, p, n)
<1> DEFINE x == node[Cur(p).node]
           bad == {i \in 0 .. Count(x) - 1 : ~Free(E(x, i).sub)}
           f == CHOOSE i \in bad : \A j \in bad : i <= j
<1>1. LockOK(lk) /\ Tree(root, node) BY IInvIs
<1>2. N(p) = x /\ Count(x) \in Int /\ Cur(p).node \in InUse(node) BY DEF Sat
<1>3. CASE ~IsInternal(x)
  <2>1. ChildBlocked(p) = NULL /\ Children(x) = {} BY <1>2, <1>3 DEF ChildBlocked, Children
  <2> QED BY <1>2, <2>1
<1>4. CASE IsInternal(x)
  <2>1. \A i \in 0 .. Count(x) - 1 : E(x, i).sub \in Node
    <3>1. \A i \in 0 .. Count(x) - 1 : E(x, i).sub \in InUse(node) BY <1>1, <1>2, <1>4, Down
    <3> QED BY <3>1 DEF InUse
  <2>2. ChildBlocked(p) = IF bad = {} THEN NULL ELSE E(x, f).sub BY <1>2, <1>4 DEF ChildBlocked
  <2>3. Children(x) = {E(x, i).sub : i \in 0 .. Count(x) - 1} BY <1>4 DEF Children
  <2>4. CASE bad = {}
    <3>1. \A i \in 0 .. Count(x) - 1 : Free(E(x, i).sub) BY <2>4
    <3>2. \A i \in 0 .. Count(x) - 1 : Solely(lk, p, E(x, i).sub) BY <1>1, <2>1, <3>1, OwnLock
    <3>3. ChildBlocked(p) = NULL BY <2>2, <2>4
    <3> QED BY <1>2, <2>1, <2>3, <3>2, <3>3
  <2>5. CASE bad # {}
    <3>1. bad \in SUBSET Nat BY <1>2
    <3>2. \E i \in bad : \A j \in bad : i <= j BY <2>5, <3>1, LeastOf
    <3>3. f \in bad BY <3>2
    <3>4. ChildBlocked(p) = E(x, f).sub BY <2>2, <2>5
    <3> HIDE DEF f
    <3>5. E(x, f).sub \in Node BY <2>1, <3>3
    <3> QED BY <3>4, <3>5, NodeAssumption
  <2> QED BY <2>4, <2>5
<1> QED BY <1>3, <1>4

(* EDEADLK.                                                                *)
LEMMA RestartStep ==
  ASSUME IInv, NEW p \in Proc, Sits(p), pr[p].pc # "prop", pr[p].pc # "idle", NEW n \in Node, Restart(p, n),
         NEW W, Tree(root', node'), Tracked(node', cur),
         \A m \in Node : node[m].type # "free" =>
           node'[m].type # "free" /\ (m \notin W => node'[m] = node[m]),
         \A m \in Node : m \in W => Solely(lk, p, m),
         NEW at, at = E(N(p), Cur(p).index).base,
         Op(p) = "reblock" \/ (Pruning(p) /\ pr[p].pc # "search") => at.k \in 0 .. MaxKey,
         Op(p) = "rollback" => at \in AnyKey /\ at.t # 0
  PROVE  IInv'
<1> DEFINE b == CASE Op(p) = "reblock"  -> [k |-> at.k, t |-> 1]
                  [] Op(p) = "rollback" -> at
                  [] OTHER              -> pr[p].beg
           e == IF Pruning(p) /\ ~At("search", p) THEN [k |-> at.k, t |-> MaxTid] ELSE pr[p].end
           st == [pr[p] EXCEPT !.pc = "dlk", !.dlk = n, !.cont = "start", !.check = 0,
                               !.enospc = FALSE, !.end = e, !.beg = b]
<1>1. Done(p, st)
  <2>1. st = [pr[p] EXCEPT !.pc = "dlk", !.dlk = n, !.cont = "start", !.check = 0,
                !.enospc = FALSE,
                !.end = IF Pruning(p) /\ ~At("search", p) THEN [k |-> at.k, t |-> MaxTid] ELSE @,
                !.beg = CASE Op(p) = "reblock"  -> [k |-> at.k, t |-> 1]
                          [] Op(p) = "rollback" -> at
                          [] OTHER              -> @]
    OBVIOUS
  <2> HIDE DEF st
  <2> QED BY <2>1 DEF Restart
<1>2. pr[p] \in State /\ Working(node, pr[p]) /\ cur[<<p, 2>>] = NoCursor BY DEF Sits
<1>3. pr[p].beg \in AnyKey /\ Searchable(pr[p].beg) /\ pr[p].end \in AnyKey /\ Searchable(pr[p].end)
      /\ Job(p) \in Jobs /\ pr[p].jobs # <<>>
      /\ (Job(p).op \in {"insert", "delete"} => pr[p].beg = Job(p).key)
  BY <1>2, StateAt DEF Working, Job
<1>4. /\ \A k \in 0 .. MaxKey, t \in 1 .. MaxTid :
           [k |-> k, t |-> t] \in AnyKey /\ Searchable([k |-> k, t |-> t])
      /\ 1 \in 1 .. MaxTid /\ MaxTid \in 1 .. MaxTid /\ 0 \in Tid
  BY ProcAssumption, NodeAssumption DEF AnyKey, Searchable, Tid
<1>5. b \in AnyKey /\ Searchable(b) /\ (Job(p).op \in {"insert", "delete"} => b = Job(p).key)
  <2>1. Job(p).op = Op(p) BY DEF Job, Op
  <2>2. CASE Op(p) = "reblock"
    <3>1. b = [k |-> at.k, t |-> 1] BY <2>2
    <3> QED BY <1>4, <2>1, <2>2, <3>1
  <2>3. CASE Op(p) = "rollback"
    <3>1. b = at BY <2>3
    <3> QED BY <2>1, <2>3, <3>1 DEF Searchable
  <2>4. CASE Op(p) \notin {"reblock", "rollback"}
    <3>1. b = pr[p].beg BY <2>4
    <3> QED BY <1>3, <2>1, <3>1
  <2> QED BY <2>2, <2>3, <2>4
<1>6. e \in AnyKey /\ Searchable(e)
  <2>1. CASE Pruning(p) /\ ~At("search", p)
    <3>1. e = [k |-> at.k, t |-> MaxTid] BY <2>1
    <3> QED BY <1>4, <2>1, <3>1 DEF At
  <2>2. CASE ~(Pruning(p) /\ ~At("search", p))
    <3>1. e = pr[p].end BY <2>2
    <3> QED BY <1>3, <3>1
  <2> QED BY <2>1, <2>2
<1>7. "dlk" \in Word /\ "start" \in Word /\ n \in AnyNode /\ FALSE \in BOOLEAN BY DEF Word, AnyNode
<1> HIDE DEF b, e
<1>8. /\ st \in State /\ st.pc = "dlk" /\ st.cont = "start" /\ st.beg = b /\ st.end = e
      /\ st.job = pr[p].job /\ st.jobs = pr[p].jobs /\ st.cache = pr[p].cache
  BY <1>2, <1>4, <1>5, <1>6, <1>7 DEF State
<1> HIDE DEF st
<1>9. Working(node, st) BY <1>2, <1>3, <1>5, <1>6, <1>8 DEF Working, Job
<1>10. Working(node', st) BY <1>8, <1>9, WorkingStays
<1>11. Out(st) BY <1>8 DEF Out
<1> QED BY <1>1, <1>2, <1>8, <1>10, <1>11, DoneIs
(* ... that leaves the tree as it is.                                      *)
LEMMA RestartQuietly ==
  ASSUME IInv, NEW p \in Proc, Sits(p), pr[p].pc # "prop", pr[p].pc # "idle", NEW n \in Node, Restart(p, n),
         root' = root, node' = node,
         NEW at, at = E(N(p), Cur(p).index).base,
         Op(p) = "reblock" \/ (Pruning(p) /\ pr[p].pc # "search") => at.k \in 0 .. MaxKey,
         Op(p) = "rollback" => at \in AnyKey /\ at.t # 0
  PROVE  IInv'
<1> DEFINE W == {}
<1>1. \A m \in Node : m \in W => Solely(lk, p, m) OBVIOUS
<1>2. \A m \in Node : node[m].type # "free" =>
        node'[m].type # "free" /\ (m \notin W => node'[m] = node[m])
  OBVIOUS
<1>3. Tree(root', node') /\ Tracked(node', cur) BY IInvIs
<1> HIDE DEF W
<1> QED BY <1>1, <1>2, <1>3, RestartStep
-----------------------------------------------------------------------------
(* A node's boundary has been moved on the way down.                       *)
Fixed(p, im, W) ==
  LET cu == Cur(p)
      x  == node[cu.node]
      y  == im.node[cu.node]
  IN /\ Advances(Image, im, W, Act(p)) /\ \A n \in Node : n \in W => Solely(lk, p, n)
     /\ im.cur = cur /\ im.root = root /\ Sound(im)
     /\ y.type = x.type /\ y.parent = x.parent /\ Len(y.elms) = Len(x.elms)
     /\ \A j \in 0 .. Count(x) : E(y, j).sub = E(x, j).sub
     /\ Seated(im.node, cu) /\ InUse(im.node) = InUse(node)
     /\ \A m \in Node : m # cu.node => im.node[m] = node[m]
(* A boundary correction keeps the tree.                                   *)
LEMMA FixIs ==
  ASSUME IInv, NEW p \in Proc, Sat(p), IsInternal(N(p)), Gap(p) => Upgrade(p) = NULL
  PROVE  \E W : Fixed(p, FixGap(p), W)
<1> DEFINE c == Act(p)
           cu == Cur(p)
           n == cu.node
           x == node[n]
           im == FixGap(p)
<1>1. /\ Image.root = root /\ Image.node = node /\ Image.cur = cur /\ Sound(Image)
  BY StaysQuietly DEF Image
<1>2. /\ N(p) = x /\ Seated(node, cu) /\ c \in Cursor /\ cu = cur[c] /\ n \in Node /\ Count(x) \in Int
  BY DEF Sat
<1>3. CASE ~Gap(p)
  <2>1. im = Image BY <1>3 DEF FixGap
  <2> DEFINE W == {}
  <2>2. Advances(Image, Image, W, c) BY StaysQuietly
  <2>3. \A m \in Node : m \in W => Solely(lk, p, m) OBVIOUS
  <2> HIDE DEF W, im
  <2> WITNESS W
  <2> QED BY <1>1, <1>2, <2>1, <2>2, <2>3 DEF Fixed, im
<1>4. CASE Gap(p)
  <2> DEFINE i == IF Passed(p) = 0 THEN 0 ELSE Count(x)
             b == IF Passed(p) = 0 THEN LeftBound(p) ELSE RightBound(p)
             W == {n}
  <2>1. /\ im.root = root /\ im.cur = cur /\ im.node = [node EXCEPT ![n] = Widen(x, i, b)]
    <3>1. CASE Passed(p) = 0
      <4>1. im = [Image EXCEPT !.node[n] = Widen(@, 0, LeftBound(p))] BY <1>4, <3>1 DEF FixGap
      <4>2. Image = [root |-> root, node |-> node, cur |-> cur] BY DEF Image
      <4> DEFINE y == Widen(x, 0, LeftBound(p))
      <4>3. y = Widen(Image.node[n], 0, LeftBound(p)) BY <4>2
      <4>4. im = [Image EXCEPT !.node = [@ EXCEPT ![n] = y]] BY <4>1, <4>3
      <4> HIDE DEF y, im
      <4>5. im = [root |-> root, node |-> [node EXCEPT ![n] = y], cur |-> cur] BY <4>2, <4>4
      <4> QED BY <3>1, <4>5 DEF y
    <3>2. CASE Passed(p) # 0
      <4>1. im = [Image EXCEPT !.node[n] = Widen(@, Count(N(p)), RightBound(p))] BY <1>4, <3>2 DEF FixGap
      <4>2. Image = [root |-> root, node |-> node, cur |-> cur] BY DEF Image
      <4> DEFINE y == Widen(x, Count(x), RightBound(p))
      <4>3. y = Widen(Image.node[n], Count(N(p)), RightBound(p)) BY <1>2, <4>2
      <4>4. im = [Image EXCEPT !.node = [@ EXCEPT ![n] = y]] BY <4>1, <4>3
      <4> HIDE DEF y, im
      <4>5. im = [root |-> root, node |-> [node EXCEPT ![n] = y], cur |-> cur] BY <4>2, <4>4
      <4> QED BY <3>2, <4>5 DEF y
    <3> QED BY <3>1, <3>2
  <2>2. Bounded(p) BY BoundedIs
  <2>3. Widens(Image, cu, i, b, im)
    <3>1. LeftBound(p) = Bounds(node, cu)[1] /\ RightBound(p) = Bounds(node, cu)[2] BY <2>2 DEF Bounded
    <3>2. \/ i = 0 /\ b = Bounds(node, cu)[1]
          \/ i = Count(x) /\ b = Bounds(node, cu)[2]
      BY <3>1
    <3> HIDE DEF i, b, im, cu
    <3> QED BY <1>1, <2>1, <3>2 DEF Widens
  <2> HIDE DEF im, i, b
  <2>4. WidenOf(Image, c, im)
    <3> HIDE DEF cu, c
    <3>1. IsInternal(node[cu.node]) BY <1>2
    <3> QED BY <1>1, <1>2, <2>3, <3>1, WidenImage
  <2>5. \A m \in Node : m \in W => Solely(lk, p, m)
    <3>1. n \in Mine(cu) BY <1>2, NodeAssumption DEF Mine
    <3> QED BY <1>4, <3>1, UpgradeIs
  <2>6. Advances(Image, im, W, c) /\ im.cur = cur /\ im.root = root BY <1>1, <1>2, <2>4 DEF WidenOf
  <2>7. /\ im.node[n].type = x.type /\ im.node[n].parent = x.parent /\ Len(im.node[n].elms) = Len(x.elms)
        /\ \A j \in 0 .. Count(x) : E(im.node[n], j).sub = E(x, j).sub
        /\ Seated(im.node, cu) /\ InUse(im.node) = InUse(node)
        /\ \A m \in Node : m # n => im.node[m] = node[m]
    <3>1. Image.cur[c] = cu /\ Image.node = node BY <1>1, <1>2
    <3>2. /\ im.node[n].type = x.type /\ im.node[n].parent = x.parent /\ Len(im.node[n].elms) = Len(x.elms)
          /\ \A j \in 0 .. Count(x) : E(im.node[n], j).sub = E(x, j).sub
      BY <2>4, <3>1 DEF WidenOf
    <3>3. /\ Seated(im.node, cu) /\ InUse(im.node) = InUse(node)
          /\ im.node = [node EXCEPT ![n] = im.node[n]]
      BY <2>4, <3>1 DEF WidenOf
    <3>4. \A m \in Node : m # n => im.node[m] = node[m]
      <4>1. node \in [Node -> NodeRec] BY IInvIs DEF Tree
      <4> QED BY <3>3, <4>1
    <3> QED BY <3>2, <3>3, <3>4
  <2>8. Sound(im) BY <2>6 DEF Advances
  <2> HIDE DEF W
  <2> WITNESS W
  <2> QED BY <2>5, <2>6, <2>7, <2>8 DEF Fixed, im
<1> QED BY <1>3, <1>4

(* A split that cannot have its children gives up with EDEADLK.            *)
LEMMA SearchDeadlockStep ==
  ASSUME IInv, NEW p \in Proc, SearchDeadlock(p)
  PROVE  IInv'
<1>1. pr[p].pc = "search" /\ IsInternal(N(p)) BY DEF SearchDeadlock, AtInternal, At
<1>2. pr[p].pc \in Busy /\ pr[p].pc # "prop" /\ pr[p].pc # "idle" BY <1>1 DEF Busy
<1>3. Sits(p) /\ Sat(p) BY <1>2, SitsIs, SatIs
<1> DEFINE at == E(N(p), Cur(p).index).base
<1>4. CASE /\ (Inserting(p) \/ Pruning(p)) /\ FixBlocked(p)
           /\ Restart(p, Upgrade(p)) /\ UNCHANGED tree
  <2>1. Op(p) # "reblock" /\ Op(p) # "rollback" BY <1>4 DEF Inserting, Pruning
  <2>2. Upgrade(p) \in Node BY <1>3, <1>4, UpgradeIs DEF FixBlocked
  <2>3. root' = root /\ node' = node BY <1>4 DEF tree
  <2> HIDE DEF at
  <2> QED BY <1>1, <1>2, <1>3, <1>4, <2>1, <2>2, <2>3, RestartQuietly DEF at
<1>5. CASE /\ ~FixBlocked(p) /\ MustSplit(p) /\ SplitBlocked(p) # NULL
           /\ Restart(p, SplitBlocked(p))
           /\ node' = FixGap(p).node /\ UNCHANGED root
  <2>1. Op(p) # "reblock" /\ Op(p) # "rollback" BY <1>5 DEF Inserting, MustSplit
  <2>2. SplitBlocked(p) \in Node
    <3>1. SplitBlocked(p) = ChildBlocked(p) \/ SplitBlocked(p) = Upgrade(p) BY DEF SplitBlocked
    <3> QED BY <1>3, <1>5, <3>1, UpgradeIs, ChildBlockedIs
  <2>3. \E W : Fixed(p, FixGap(p), W) BY <1>1, <1>3, <1>5, FixIs DEF FixBlocked
  <2>4. PICK W : Fixed(p, FixGap(p), W) BY <2>3
  <2> DEFINE im == FixGap(p)
  <2>5. /\ Advances(Image, im, W, Act(p)) /\ \A n \in Node : n \in W => Solely(lk, p, n)
        /\ im.cur = cur /\ im.root = root /\ Sound(im)
    BY <2>4 DEF Fixed
  <2> HIDE DEF im
  <2>6. Tree(im.root, im.node) /\ Tracked(im.node, cur) BY <2>5 DEF Sound
  <2>7. root' = im.root /\ node' = im.node BY <1>5, <2>5 DEF im
  <2>8. Tree(root', node') /\ Tracked(node', cur) BY <2>6, <2>7
  <2>9. \A m \in Node : node[m].type # "free" =>
          node'[m].type # "free" /\ (m \notin W => node'[m] = node[m])
    BY <2>5, <2>7 DEF Advances, Image
  <2> HIDE DEF at
  <2> QED BY <1>1, <1>2, <1>3, <1>5, <2>1, <2>2, <2>5, <2>8, <2>9, RestartStep DEF at
<1> QED BY <1>4, <1>5 DEF SearchDeadlock
-----------------------------------------------------------------------------
(* Two changes of an image are one.                                        *)
LEMMA AdvancesTrans ==
  ASSUME NEW a, NEW b, NEW d, NEW V, NEW W, NEW c, Advances(a, b, V, c), Advances(b, d, W, c)
  PROVE  Advances(a, d, V \union W, c)
<1>1. Sound(d) BY DEF Advances
<1>2. \A n \in Node : a.node[n].type # "free" =>
        /\ d.node[n].type # "free"
        /\ n \notin V \union W => d.node[n] = a.node[n]
  BY DEF Advances
<1>3. \A k \in Cursor : k # c => Same(a.cur[k], d.cur[k]) BY DEF Advances, Same
<1> QED BY <1>1, <1>2, <1>3 DEF Advances

(* The element to go down by.                                              *)
LEMMA PassedIs ==
  ASSUME NEW p \in Proc, Sat(p)
  PROVE  Passed(p) \in 0 .. Count(N(p)) + 1
<1> DEFINE n == Count(N(p))
           S == {i \in 0 .. n : Cmp(Key(p), E(N(p), i).base) >= 0}
<1>1. n \in Nat BY DEF Sat
<1>2. IsFiniteSet(0 .. n) /\ Cardinality(0 .. n) = n + 1 BY <1>1, FS_Interval
<1>3. S \subseteq 0 .. n OBVIOUS
<1> HIDE DEF S, n
<1>4. IsFiniteSet(S) /\ Cardinality(S) <= n + 1 BY <1>2, <1>3, FS_Subset
<1>5. Cardinality(S) \in Nat BY <1>4, FS_CardinalityType
<1>6. Cardinality(S) \in 0 .. n + 1 BY <1>1, <1>4, <1>5
<1> QED BY <1>6 DEF Passed, S, n
(* The child a search goes down to exists.                                 *)
LEMMA PushIndexIs ==
  ASSUME NEW p \in Proc, Sat(p), IsInternal(N(p))
  PROVE  PushIndex(p) \in 0 .. Count(N(p)) - 1
<1>1. Count(N(p)) \in Int /\ Count(N(p)) >= 1 BY DEF Sat
<1>2. Passed(p) \in 0 .. Count(N(p)) + 1 BY PassedIs
<1> QED BY <1>1, <1>2 DEF PushIndex, Gap

(* Nodes to split into.                                                    *)
LEMMA AllocIs ==
  ASSUME NEW nd \in [Node -> NodeRec], NEW r, r = Alloc(nd)
  PROVE  /\ IsFiniteSet(FreeNodes(nd))
         /\ Cardinality(FreeNodes(nd)) >= 1 => r \in FreeNodes(nd)
         /\ Cardinality(FreeNodes(nd)) >= 2 =>
              Alloc([nd EXCEPT ![r].type = "I"]) \in FreeNodes(nd) \ {r}
<1> DEFINE F == FreeNodes(nd)
           md == [nd EXCEPT ![r].type = "I"]
           K == FreeNodes(md)
<1>1. IsFiniteSet(F)
  <2>1. F \subseteq Node BY DEF FreeNodes
  <2> QED BY <2>1, NodeAssumption, FS_Subset
<1>2. ASSUME Cardinality(F) >= 1 PROVE r \in F
  <2>1. F # {} BY <1>2, FS_EmptySet
  <2> QED BY <2>1 DEF Alloc
<1>3. ASSUME Cardinality(F) >= 2 PROVE Alloc(md) \in F \ {r}
  <2>1. Cardinality(F) \in Nat BY <1>1, FS_CardinalityType
  <2>2. r \in F /\ r \in Node
    <3>1. r \in F BY <1>2, <1>3, <2>1
    <3> QED BY <3>1 DEF FreeNodes
  <2>3. K = F \ {r}
    <3>1. \A m \in Node : m # r => md[m] = nd[m] OBVIOUS
    <3>2. md[r].type = "I"
      <4>1. md[r] = [nd[r] EXCEPT !.type = "I"] BY <2>2
      <4>2. nd[r] \in NodeRec BY <2>2
      <4> HIDE DEF md
      <4> QED BY <4>1, <4>2 DEF NodeRec
    <3> HIDE DEF md
    <3> QED BY <2>2, <3>1, <3>2 DEF FreeNodes
  <2> HIDE DEF F, md, K
  <2>4. Cardinality(F \ {r}) = Cardinality(F) - 1 BY <1>1, <2>2, FS_RemoveElement
  <2>5. F \ {r} # {}
    <3>1. Cardinality(F \ {r}) # 0 BY <1>3, <2>1, <2>4
    <3> DEFINE D == F \ {r}
    <3>2. Cardinality(D) # 0 BY <3>1
    <3> HIDE DEF D
    <3>3. D # {} BY <3>2, FS_EmptySet
    <3> QED BY <3>3 DEF D
  <2>6. Alloc(md) \in K
    <3>1. K # {} BY <2>3, <2>5
    <3> QED BY <3>1 DEF Alloc, K
  <2> QED BY <2>3, <2>6
<1> QED BY <1>1, <1>2, <1>3

(* A node is split on the way down or before an insertion.                 *)
Divides(p, img) ==
  LET cu == Cur(p)
      u  == img.cur[Act(p)]
      y  == img.node[cu.node]
  IN /\ Sound(img) /\ u.node = cu.node /\ u.parent = cu.parent /\ Seated(img.node, u)
     /\ y.type = node[cu.node].type /\ Len(y.elms) = Len(node[cu.node].elms)
     /\ u.index \in 0 .. Count(node[cu.node])
     /\ \A m \in Node : m # cu.node => img.node[m] = node[m]
(* The split of a search on its way down.                                  *)
LEMMA SplitImageIs ==
  ASSUME IInv, NEW p \in Proc, Sits(p), Sat(p), pr[p].pc # "idle", NEW img, Divides(p, img), MustSplit(p), HasSpace(p), ~NoRoomHere(p)
  PROVE  SplitOf(img, Act(p), Key(p), SplitImage(p, img)) /\ FreeNodes(img.node) = FreeNodes(node)
<1> DEFINE c == Act(p)
           cu == Cur(p)
           n == cu.node
           x == node[n]
           u == img.cur[c]
           nd == img.node
           y == nd[n]
           r == Alloc(nd)
           nn == IF x.parent = NULL THEN Alloc([nd EXCEPT ![r].type = "I"]) ELSE r
<1>1. /\ Sound(img) /\ u.node = n /\ u.parent = cu.parent /\ Seated(nd, u)
      /\ y.type = x.type /\ Len(y.elms) = Len(x.elms) /\ u.index \in 0 .. Count(x)
      /\ \A m \in Node : m # n => nd[m] = node[m]
  BY DEF Divides
<1>2. /\ N(p) = x /\ n \in InUse(node) /\ n \in Node /\ cu.parent = x.parent /\ c \in Cursor
      /\ (cu.parent # NULL => cu.parent \in Node /\ cu.parent # n)
  BY DEF Sat
<1>3. Count(y) = Count(x) /\ Full(y) = Full(x) /\ IsInternal(y) = IsInternal(x)
  BY <1>1 DEF Count, Full, IsInternal
<1>4. FreeNodes(nd) = FreeNodes(node) BY <1>1, <1>2 DEF FreeNodes
<1>5. nd \in [Node -> NodeRec] BY <1>1 DEF Sound, Tree
<1>6. /\ r \in FreeNodes(nd) /\ nn \in FreeNodes(nd) /\ (u.parent = NULL => nn # r)
  <2>1. /\ IsFiniteSet(FreeNodes(nd))
        /\ Cardinality(FreeNodes(nd)) >= 1 => r \in FreeNodes(nd)
        /\ Cardinality(FreeNodes(nd)) >= 2 =>
              Alloc([nd EXCEPT ![r].type = "I"]) \in FreeNodes(nd) \ {r}
    <3> HIDE DEF nd
    <3> QED BY <1>5, AllocIs
  <2>2. Cardinality(FreeNodes(nd)) >= IF x.parent = NULL THEN 2 ELSE 1 BY <1>2, <1>4 DEF HasSpace
  <2>3. Cardinality(FreeNodes(nd)) \in Nat BY <2>1, FS_CardinalityType
  <2> QED BY <1>1, <1>2, <2>1, <2>2, <2>3
<1>7. Full(y) BY <1>2, <1>3 DEF MustSplit
<1>8. u.parent # NULL => ~Full(nd[u.parent])
  <2>1. x.parent # NULL => ~Full(node[cu.parent]) BY <1>2 DEF NoRoomHere, MustSplit
  <2> QED BY <1>1, <1>2, <2>1
<1>9. SplitImage(p, img) = Split(img, c, Key(p), nn, r) BY <1>2 DEF SplitImage
<1>10. Key(p) \in AnyKey BY KeyIs
<1>11. Full(img.node[img.cur[c].node]) BY <1>1, <1>7
<1>12. img.cur[c].index \in 0 .. Count(img.node[img.cur[c].node]) BY <1>1, <1>3
<1> HIDE DEF c, nn, r
<1>13. SplitOf(img, c, Key(p), Split(img, c, Key(p), nn, r))
  BY <1>1, <1>2, <1>6, <1>8, <1>10, <1>11, <1>12, SplitIs
<1> QED BY <1>4, <1>9, <1>13 DEF c
-----------------------------------------------------------------------------
(* A boundary correction touches neither root nor cursors.                 *)
LEMMA FixGapIs ==
  ASSUME NEW p \in Proc
  PROVE  FixGap(p) = [root |-> root, node |-> FixGap(p).node, cur |-> cur]
<1> DEFINE n == Cur(p).node
           y == IF Passed(p) = 0 THEN Widen(node[n], 0, LeftBound(p))
                ELSE Widen(node[n], Count(N(p)), RightBound(p))
<1>1. Image = [root |-> root, node |-> node, cur |-> cur] BY DEF Image
<1>2. CASE ~Gap(p)
  <2>1. FixGap(p) = Image BY <1>2 DEF FixGap
  <2> QED BY <1>1, <2>1
<1>3. CASE Gap(p) /\ Passed(p) = 0
  <2>1. FixGap(p) = [Image EXCEPT !.node[n] = Widen(@, 0, LeftBound(p))] BY <1>3 DEF FixGap
  <2> DEFINE z == Widen(Image.node[n], 0, LeftBound(p))
  <2>2. FixGap(p) = [Image EXCEPT !.node = [@ EXCEPT ![n] = z]] BY <2>1
  <2> HIDE DEF z, n
  <2> QED BY <1>1, <2>2
<1>4. CASE Gap(p) /\ Passed(p) # 0
  <2>1. FixGap(p) = [Image EXCEPT !.node[n] = Widen(@, Count(N(p)), RightBound(p))] BY <1>4 DEF FixGap
  <2> DEFINE z == Widen(Image.node[n], Count(N(p)), RightBound(p))
  <2>2. FixGap(p) = [Image EXCEPT !.node = [@ EXCEPT ![n] = z]] BY <2>1
  <2> HIDE DEF z, n
  <2> QED BY <1>1, <2>2
<1> QED BY <1>2, <1>3, <1>4

(* The tree when the cursor is at the element to go down by.               *)
Poised(p, img, W, j) ==
  LET cu == Cur(p) IN
  /\ Advances(Image, img, W, Act(p)) /\ \A n \in Node : n \in W => Solely(lk, p, n)
  /\ img.root = root /\ img.cur[Act(p)].index = j /\ img.cur[Act(p)] \in CursorRec
  /\ Divides(p, img)
(* The image and the cursor at which a search splits.                      *)
LEMMA PoisedIs ==
  ASSUME IInv, NEW p \in Proc, Sat(p), NEW im, NEW W, Fixed(p, im, W),
         im = [root |-> root, node |-> im.node, cur |-> cur],
         NEW j \in Int, j \in 0 .. Count(node[Cur(p).node]),
         NEW img, NEW v, img = [root |-> root, node |-> im.node, cur |-> [cur EXCEPT ![Act(p)] = v]],
         v \in CursorRec, ~v.trk, v.node = Cur(p).node, v.parent = Cur(p).parent,
         v.pindex = Cur(p).pindex, v.index = j
  PROVE  Poised(p, img, W, j)
<1> DEFINE c == Act(p)
           cu == Cur(p)
           x == node[cu.node]
           y == im.node[cu.node]
<1>1. /\ Advances(Image, im, W, c) /\ \A n \in Node : n \in W => Solely(lk, p, n)
      /\ im.cur = cur /\ im.root = root /\ Sound(im)
      /\ y.type = x.type /\ Len(y.elms) = Len(x.elms)
      /\ Seated(im.node, cu) /\ InUse(im.node) = InUse(node)
      /\ \A m \in Node : m # cu.node => im.node[m] = node[m]
  BY DEF Fixed
<1>2. c \in Cursor BY DEF Sat
<1>3. img.root = root /\ img.node = im.node /\ img.cur = [cur EXCEPT ![c] = v] OBVIOUS
<1>4. cur \in [Cursor -> CursorRec] /\ Tracked(im.node, cur) /\ Tree(root, im.node) BY <1>1 DEF Sound
<1>5. img.cur \in [Cursor -> CursorRec] /\ img.cur[c] = v /\ \A d \in Cursor : d # c => img.cur[d] = cur[d]
  BY <1>2, <1>3, <1>4
<1>6. Tracked(im.node, img.cur)
  <2>1. TrackedAt(im.node, v) BY DEF TrackedAt
  <2> QED BY <1>4, <1>5, <2>1 DEF Tracked
<1>7. Sound(img) BY <1>3, <1>4, <1>5, <1>6 DEF Sound
<1>8. Advances(Image, img, W, c)
  <2>1. \A d \in Cursor : d # c => Same(Image.cur[d], img.cur[d])
    <3>1. \A d \in Cursor : d # c => Same(Image.cur[d], im.cur[d]) BY <1>1 DEF Advances
    <3> QED BY <1>1, <1>5, <3>1
  <2> QED BY <1>1, <1>3, <1>7, <2>1 DEF Advances
<1>9. Seated(img.node, v) BY <1>1, <1>3 DEF Seated
<1> HIDE DEF c, cu
<1>10. Divides(p, img)
  BY <1>1, <1>3, <1>5, <1>7, <1>9 DEF Divides, c, cu
<1> QED BY <1>1, <1>3, <1>5, <1>8, <1>10 DEF Poised, c

(* Splitting a node takes only locks the thread can have for itself.       *)
LEMMA SplitLocks ==
  ASSUME IInv, NEW p \in Proc, Sits(p), Sat(p), pr[p].pc # "idle",
         NEW img, NEW W, NEW j, Poised(p, img, W, j),
         MustSplit(p), HasSpace(p), ~NoRoomHere(p), SplitBlocked(p) = NULL,
         NEW im2, im2 = SplitImage(p, img)
  PROVE  /\ \E V : Advances(Image, im2, V, Act(p)) /\ \A n \in Node : n \in V => Solely(lk, p, n)
         /\ \A n \in Mine(im2.cur[Act(p)]) : n \in Node => Shares(lk, p, n)
         /\ SplitOf(img, Act(p), Key(p), im2)
<1> DEFINE c == Act(p)
           cu == Cur(p)
           x == node[cu.node]
           y == img.node[cu.node]
           u == img.cur[c]
           v == im2.cur[c]
           M == {u.node, u.parent} \union Children(y)
<1>1. /\ Advances(Image, img, W, c) /\ \A n \in Node : n \in W => Solely(lk, p, n)
      /\ Divides(p, img)
  BY DEF Poised
<1>2. SplitOf(img, c, Key(p), im2) /\ FreeNodes(img.node) = FreeNodes(node) BY <1>1, SplitImageIs
<1>3. u.node = cu.node /\ u.parent = cu.parent BY <1>1 DEF Divides
<1>4. /\ Advances(img, im2, M, c) /\ \A n \in Mine(v) : n \in Mine(u) \/ n \in FreeNodes(img.node)
  BY <1>2, <1>3 DEF SplitOf
<1>5. Advances(Image, im2, W \union M, c) BY <1>1, <1>4, AdvancesTrans
<1>6. ChildBlocked(p) = NULL /\ Upgrade(p) = NULL BY DEF SplitBlocked
<1>7. /\ \A n \in Mine(cu) : Solely(lk, p, n)
      /\ \A n \in Children(x) : n \in Node /\ Solely(lk, p, n)
  <2>1. N(p) = x BY DEF Sat
  <2> QED BY <1>6, <2>1, UpgradeIs, ChildBlockedIs
<1>8. \A n \in Children(y) : n \in Node => Solely(lk, p, n)
  <2> SUFFICES ASSUME NEW n \in Children(y), n \in Node PROVE Solely(lk, p, n) OBVIOUS
  <2>1. Tree(img.root, img.node) /\ u.node \in InUse(img.node)
    BY <1>1 DEF Divides, Sound, Seated
  <2>2. n \in InUse(img.node) /\ img.node[n].parent = cu.node /\ n # cu.node
    <3>1. IsInternal(y) /\ \E i \in 0 .. Count(y) - 1 : n = E(y, i).sub BY DEF Children
    <3> QED BY <1>3, <2>1, <3>1, Down
  <2>3. img.node[n] = node[n] /\ n \in InUse(node) BY <1>1, <2>2 DEF Divides, InUse
  <2>4. Tree(root, node) BY IInvIs
  <2>5. cu.node # NULL BY NodeAssumption DEF Sat
  <2>6. IsInternal(x) /\ \E i \in 0 .. Count(x) - 1 : E(x, i).sub = n
    BY <2>2, <2>3, <2>4, <2>5, Up
  <2>7. n \in Children(x) BY <2>6 DEF Children
  <2> QED BY <1>7, <2>7
<1>9. \A n \in Node : n \in W \union M => Solely(lk, p, n)
  <2>1. \A n \in Node : n \in {u.node, u.parent} => n \in Mine(cu) BY <1>3, NodeAssumption DEF Mine
  <2> QED BY <1>1, <1>7, <1>8, <2>1
<1>10. \A n \in Mine(v) : n \in Node => Shares(lk, p, n)
  <2>1. \A n \in Mine(u) : n \in Node => Shares(lk, p, n)
    <3>1. LockOK(lk) BY IInvIs
    <3>2. \A n \in Mine(u) : n \in Mine(cu) BY <1>3 DEF Mine
    <3> QED BY <1>7, <3>1, <3>2, OwnLock
  <2>2. \A n \in FreeNodes(node) : Shares(lk, p, n)
    <3>1. Untouched(node, lk) BY IInvIs
    <3> QED BY <3>1 DEF Untouched, FreeNodes, Shares
  <2> QED BY <1>2, <1>4, <2>1, <2>2
<1> HIDE DEF M, v
<1>11. \E V : Advances(Image, im2, V, c) /\ \A n \in Node : n \in V => Solely(lk, p, n)
  BY <1>5, <1>9
<1> QED BY <1>2, <1>10, <1>11 DEF v
(* btree_search goes down, correcting boundaries and splitting.            *)
LEMMA SearchDownStep ==
  ASSUME IInv, NEW p \in Proc, SearchDown(p)
  PROVE  IInv'
<1> DEFINE c == Act(p)
           cu == Cur(p)
           x == node[cu.node]
           j == PushIndex(p)
           w == [cu EXCEPT !.index = j]
           im == FixGap(p)
           img == [im EXCEPT !.cur[c].index = j]
           split == MustSplit(p) /\ HasSpace(p)
           im2 == IF split THEN SplitImage(p, img) ELSE img
           b == pr[p].enospc \/ (MustSplit(p) /\ ~HasSpace(p))
           s == [pr[p] EXCEPT !.check = CreateCheck(p), !.enospc = b]
<1>1. /\ pr[p].pc = "search" /\ IsInternal(N(p)) /\ ~NoRoomHere(p)
      /\ Gap(p) => Upgrade(p) = NULL
      /\ MustSplit(p) => SplitBlocked(p) = NULL
      /\ CursorDown(p, im2, s, "search", BadCheck(p))
  BY DEF SearchDown, AtInternal, At, FixBlocked
<1>2. pr[p].pc \in Busy /\ pr[p].pc # "prop" /\ pr[p].pc # "idle" BY <1>1 DEF Busy
<1>3. Sits(p) /\ Sat(p) BY <1>2, SitsIs, SatIs
<1>4. /\ cu \in CursorRec /\ ~cu.trk /\ N(p) = x /\ cu = cur[c] /\ c \in Cursor /\ Count(x) \in Int
      /\ cu.node \in Node /\ (cu.parent # NULL => cu.parent \in Node) /\ Shares(lk, p, cu.node)
      /\ LockOK(lk)
  BY <1>3, IInvIs DEF Sat
<1>5. j \in 0 .. Count(x) - 1 /\ j \in Int /\ j \in 0 .. Count(x)
  <2>1. j \in 0 .. Count(x) - 1 BY <1>1, <1>3, <1>4, PushIndexIs
  <2> QED BY <1>4, <2>1
<1>6. PICK W : Fixed(p, im, W) BY <1>1, <1>3, FixIs
<1>7. im = [root |-> root, node |-> im.node, cur |-> cur] BY FixGapIs
<1>8. w \in CursorRec /\ ~w.trk /\ w.node = cu.node /\ w.parent = cu.parent /\ w.pindex = cu.pindex /\ w.index = j
  BY <1>4, <1>5 DEF CursorRec
<1>9. img = [root |-> root, node |-> im.node, cur |-> [cur EXCEPT ![c] = w]]
  <2> HIDE DEF im
  <2>1. im.cur = cur /\ im.root = root BY <1>7
  <2>2. img = [im EXCEPT !.cur[c].index = j] OBVIOUS
  <2>3. img = [im EXCEPT !.cur = [im.cur EXCEPT ![c] = [im.cur[c] EXCEPT !.index = j]]] BY <2>2
  <2>4. w = [cur[c] EXCEPT !.index = j] BY <1>4
  <2> HIDE DEF img, w, j
  <2> QED BY <1>7, <2>1, <2>3, <2>4
<1> HIDE DEF im, img, w, j, s
<1>10. Poised(p, img, W, j) BY <1>3, <1>4, <1>5, <1>6, <1>7, <1>8, <1>9, PoisedIs
<1>11. /\ Advances(Image, img, W, c) /\ \A n \in Node : n \in W => Solely(lk, p, n)
       /\ img.cur[c].index = j /\ Divides(p, img)
  BY <1>10 DEF Poised
<1>12. /\ img.cur[c].node = cu.node /\ img.cur[c].parent = cu.parent /\ Seated(img.node, img.cur[c])
       /\ Count(img.node[cu.node]) = Count(x) /\ IsInternal(img.node[cu.node])
  <2>1. /\ img.node[cu.node].type = x.type /\ Len(img.node[cu.node].elms) = Len(x.elms)
        /\ img.cur[c].node = cu.node /\ img.cur[c].parent = cu.parent /\ Seated(img.node, img.cur[c])
    BY <1>11 DEF Divides
  <2> QED BY <1>1, <1>4, <2>1 DEF Count, IsInternal
<1> DEFINE u == im2.cur[c]
<1>13. /\ \E V : Advances(Image, im2, V, c) /\ \A n \in Node : n \in V => Solely(lk, p, n)
       /\ ~u.trk /\ u.node \in InUse(im2.node) /\ IsInternal(im2.node[u.node])
       /\ u.index \in 0 .. Count(im2.node[u.node]) - 1 /\ Shares(lk, p, u.node)
  <2>1. CASE split
    <3>1. im2 = SplitImage(p, img) BY <2>1
    <3> HIDE DEF im2
    <3>2. /\ \E V : Advances(Image, im2, V, c) /\ \A n \in Node : n \in V => Solely(lk, p, n)
          /\ \A n \in Mine(u) : n \in Node => Shares(lk, p, n)
          /\ SplitOf(img, c, Key(p), im2)
      BY <1>1, <1>2, <1>3, <1>10, <2>1, <3>1, SplitLocks
    <3>3. /\ Seated(im2.node, u) /\ u.index \in 0 .. Count(im2.node[u.node])
          /\ im2.node[u.node].type = img.node[img.cur[c].node].type
          /\ (IsInternal(img.node[img.cur[c].node]) /\ img.cur[c].index # Count(img.node[img.cur[c].node])
                => u.index # Count(im2.node[u.node]))
      BY <3>2 DEF SplitOf
    <3>4. u.node \in InUse(im2.node) /\ ~u.trk BY <3>3 DEF Seated
    <3>5. Shares(lk, p, u.node)
      <4>1. u.node \in Node /\ u.node \in Mine(u) BY <3>4, NodeAssumption DEF InUse, Mine
      <4> QED BY <3>2, <4>1
    <3>6. Count(im2.node[u.node]) \in Int
      <4>1. Tree(im2.root, im2.node) BY <3>2 DEF Advances, Sound
      <4> QED BY <3>4, <4>1, Shape DEF Tree
    <3>7. j # Count(x) BY <1>4, <1>5
    <3>8. u.index # Count(im2.node[u.node]) BY <1>11, <1>12, <3>3, <3>7
    <3>9. IsInternal(im2.node[u.node]) BY <1>12, <3>3 DEF IsInternal
    <3> QED BY <3>2, <3>3, <3>4, <3>5, <3>6, <3>8, <3>9
  <2>2. CASE ~split
    <3>1. im2 = img BY <2>2
    <3>2. u = img.cur[c] BY <3>1
    <3> HIDE DEF im2, u
    <3>3. ~u.trk /\ u.node \in InUse(im2.node) BY <1>12, <3>1, <3>2 DEF Seated
    <3>4. u.node = cu.node /\ u.index = j BY <1>11, <1>12, <3>2
    <3> QED BY <1>4, <1>5, <1>11, <1>12, <3>1, <3>3, <3>4
  <2> QED BY <2>1, <2>2
<1>14. PICK V : Advances(Image, im2, V, c) /\ \A n \in Node : n \in V => Solely(lk, p, n) BY <1>13
<1> DEFINE i == u.index
           v == [u EXCEPT !.parent = u.node, !.pindex = i, !.node = NULL, !.index = 0]
           st == [s EXCEPT !.pc = "child", !.want = E(im2.node[u.node], i).sub, !.cont = "search"]
<1>15. /\ root' = im2.root /\ node' = im2.node /\ cur' = [im2.cur EXCEPT ![c] = v]
       /\ Lock(p, {}, {u.node}) /\ pr' = [pr EXCEPT ![p] = st]
  <2> HIDE DEF im2
  <2> QED BY <1>1 DEF CursorDown
<1>16. s \in State /\ Rest(pr[p], s)
  <2>1. CreateCheck(p) \in Tid /\ b \in BOOLEAN /\ pr[p] \in State
    BY <1>2, <1>3, CreateCheckIs, StateAt DEF Sits
  <2>2. s = [pr[p] EXCEPT !.check = CreateCheck(p), !.enospc = b] BY DEF s
  <2> HIDE DEF b
  <2> QED BY <2>1, <2>2, CheckedIs
<1>17. Descends(p, im2, V, i, s, "search")
  <2>1. u = im2.cur[Act(p)] OBVIOUS
  <2> HIDE DEF im2, u
  <2>2. v = [u EXCEPT !.parent = u.node, !.pindex = i, !.node = NULL, !.index = 0] OBVIOUS
  <2>3. st = [s EXCEPT !.pc = "child", !.want = E(im2.node[u.node], i).sub, !.cont = "search"] OBVIOUS
  <2> HIDE DEF v, st, i
  <2> QED BY <1>13, <1>14, <1>15, <1>16, <2>1, <2>2, <2>3 DEF Descends, i
<1> HIDE DEF i, im2
<1> QED BY <1>2, <1>17, DownStep
-----------------------------------------------------------------------------
(* The place a search has found for its key.                               *)
LEMMA StopFits ==
  ASSUME IInv, NEW p \in Proc, Sits(p), Sat(p), pr[p].pc # "idle", ~IsInternal(N(p)), InBounds(p),
         ~LeafFound(p), ~AsOf(p), NEW w, w.node = Cur(p).node, w.parent = Cur(p).parent,
         w.pindex = Cur(p).pindex, w.index = LeafStop(p)
  PROVE  Fitting(node, w, Key(p))
<1> DEFINE cu == Cur(p)
           x == node[cu.node]
           i == LeafStop(p)
           k == Key(p)
<1>1. N(p) = x /\ Count(x) \in Int /\ Count(x) = Len(x.elms) /\ x.elms \in Seq(LeafElm)
  BY DEF Sat
<1>2. /\ i \in 0 .. Count(x) /\ i \in Int
      /\ i # Count(x) => Hit(p, i) \/ Cmp(k, E(x, i).base) < 0
      /\ \A j \in 0 .. i - 1 : ~Hit(p, j) /\ ~(Cmp(k, E(x, j).base) < 0)
  BY <1>1, LeafStopIs
<1>3. Bounded(p) /\ k \in AnyKey BY BoundedIs, KeyIs
<1>4. \A j \in 0 .. Count(x) - 1 : E(x, j).base \in AnyKey
  <2>1. \A j \in 1 .. Len(x.elms) : x.elms[j] \in ToSet(x.elms)
    <3>1. \A j \in 1 .. Len(x.elms) : j \in DOMAIN x.elms BY <1>1
    <3> QED BY <3>1 DEF ToSet
  <2>2. \A j \in 1 .. Len(x.elms) : x.elms[j].base \in AnyKey BY <1>1, <1>3, <2>1 DEF Bounded
  <2> QED BY <1>1, <2>2 DEF E
<1>5. \A j : Hit(p, j) <=> Cmp(k, E(x, j).base) = 0 BY <1>1 DEF Hit
<1> HIDE DEF k, i, x
<1>6. ASSUME NEW j \in 0 .. i - 1 PROVE Cmp(E(x, j).base, k) < 0
  <2>1. j \in 0 .. Count(x) - 1 BY <1>1, <1>2
  <2>2. Cmp(k, E(x, j).base) # 0 /\ ~(Cmp(k, E(x, j).base) < 0) BY <1>2, <1>5
  <2>3. Cmp(k, E(x, j).base) \in {-2, -1, 0, 1, 2} BY <1>3, <1>4, <2>1, CmpOrder
  <2>4. Cmp(k, E(x, j).base) > 0 BY <2>2, <2>3
  <2> QED BY <1>3, <1>4, <2>1, <2>4, CmpOrder
<1>7. ASSUME NEW j \in i .. Count(x) - 1 PROVE Cmp(E(x, j).base, k) > 0
  <2>1. i # Count(x) /\ i \in 0 .. Count(x) - 1 /\ j \in 0 .. Count(x) - 1 /\ i <= j /\ i < Count(x)
    BY <1>1, <1>2
  <2>2. ~Hit(p, i)
    <3>1. LeafStop(p) < Count(N(p)) BY <1>1, <2>1 DEF i
    <3> QED BY <3>1 DEF LeafFound, i
  <2>3. Cmp(k, E(x, i).base) < 0 BY <1>2, <2>1, <2>2
  <2>4. Cmp(E(x, i).base, E(x, j).base) <= 0
    <3>1. CASE i = j BY <1>4, <2>1, <3>1, CmpOrder
    <3>2. CASE i < j
      <4>1. \A a, b \in 1 .. Len(x.elms) : a < b => Cmp(x.elms[a].base, x.elms[b].base) < 0
        BY <1>1, <1>3 DEF Bounded, Fits
      <4>2. i + 1 \in 1 .. Len(x.elms) /\ j + 1 \in 1 .. Len(x.elms) /\ i + 1 < j + 1 BY <1>1, <2>1, <3>2
      <4>3. Cmp(x.elms[i + 1].base, x.elms[j + 1].base) < 0 BY <4>1, <4>2
      <4>4. Cmp(E(x, i).base, E(x, j).base) < 0 BY <4>3 DEF E
      <4>5. Cmp(E(x, i).base, E(x, j).base) \in {-2, -1, 0, 1, 2} BY <1>4, <2>1, CmpOrder
      <4> QED BY <4>4, <4>5
    <3> QED BY <2>1, <3>1, <3>2
  <2>5. Cmp(k, E(x, j).base) < 0 BY <1>3, <1>4, <2>1, <2>3, <2>4, CmpOrder
  <2> QED BY <1>3, <1>4, <2>1, <2>5, CmpOrder
<1>8. Slot(x, i, k) BY <1>6, <1>7 DEF Slot
<1>9. Bounds(node, w)[1] = LeftBound(p) /\ Bounds(node, w)[2] = RightBound(p)
  BY <1>3 DEF Bounded, Bounds
<1>10. Cmp(LeftBound(p), k) <= 0 /\ Cmp(k, RightBound(p)) < 0
  <2>1. Cmp(k, LeftBound(p)) >= 0 /\ Cmp(k, RightBound(p)) < 0 BY DEF InBounds, k
  <2>2. LeftBound(p) \in AnyKey BY <1>3 DEF Bounded
  <2>3. /\ Cmp(LeftBound(p), k) \in {-2, -1, 0, 1, 2} /\ Cmp(k, LeftBound(p)) \in {-2, -1, 0, 1, 2}
        /\ Cmp(k, LeftBound(p)) < 0 <=> Cmp(LeftBound(p), k) > 0
    BY <1>3, <2>2, CmpOrder
  <2> QED BY <2>1, <2>3
<1> QED BY <1>8, <1>9, <1>10 DEF Fitting, k, i, x

(* A search that has nothing to correct.                                   *)
LEMMA QuietFixed ==
  ASSUME IInv, NEW p \in Proc, Sat(p)
  PROVE  \E W : Fixed(p, Image, W)
<1>1. /\ Image.root = root /\ Image.node = node /\ Image.cur = cur /\ Sound(Image)
  BY StaysQuietly DEF Image
<1>2. Seated(node, Cur(p)) BY DEF Sat
<1> DEFINE W == {}
<1>3. Advances(Image, Image, W, Act(p)) BY StaysQuietly
<1>4. \A m \in Node : m \in W => Solely(lk, p, m) OBVIOUS
<1> HIDE DEF W
<1> WITNESS W
<1> QED BY <1>1, <1>2, <1>3, <1>4 DEF Fixed
(* The cursor where a search ends at a leaf.                               *)
LEMMA StopCursor ==
  ASSUME NEW p \in Proc, Sat(p), NEW w,
         w = [Cur(p) EXCEPT !.index = LeafStop(p), !.ate = Pruning(p)]
  PROVE  w \in CursorRec /\ ~w.trk /\ w.node = Cur(p).node /\ w.parent = Cur(p).parent
         /\ w.pindex = Cur(p).pindex /\ w.index = LeafStop(p)
<1> DEFINE cu == Cur(p)
           i == LeafStop(p)
           w1 == [cu EXCEPT !.index = i]
           q == Pruning(p)
<1>1. cu \in CursorRec /\ ~cu.trk BY DEF Sat
<1>2. i \in Int BY LeafStopIs
<1>3. w = [w1 EXCEPT !.ate = q] OBVIOUS
<1>4. q \in BOOLEAN BY DEF Pruning
<1> HIDE DEF cu, i, q
<1>5. w1 \in CursorRec /\ ~w1.trk /\ w1.node = cu.node /\ w1.parent = cu.parent
      /\ w1.pindex = cu.pindex /\ w1.index = i
  BY <1>1, <1>2 DEF CursorRec
<1> HIDE DEF w1
<1>6. w \in CursorRec BY <1>3, <1>4, <1>5, Zenon DEF CursorRec
<1>7. ~w.trk /\ w.node = w1.node /\ w.parent = w1.parent /\ w.pindex = w1.pindex /\ w.index = w1.index
  BY <1>3, <1>5 DEF CursorRec
<1> QED BY <1>5, <1>6, <1>7 DEF cu, i
(* Whether a split has failed for want of space.                           *)
Starved(p) == pr[p].enospc \/ (MustSplit(p) /\ ~HasSpace(p))
(* What a search at a full leaf goes on with.                              *)
LEMMA CheckedState ==
  ASSUME NEW p \in Proc, pr[p] \in State, NEW t \in Tid, NEW st,
         st = [pr[p] EXCEPT !.check = t, !.enospc = Starved(p)]
  PROVE  /\ st \in State /\ st.pc = pr[p].pc /\ st.job = Job(p) /\ Rest(pr[p], st)
         /\ (Working(node, pr[p]) => Working(node, st))
         /\ st.enospc = Starved(p)
<1> DEFINE b == Starved(p)
<1>1. b \in BOOLEAN BY StateAt DEF Starved
<1>2. st = [pr[p] EXCEPT !.check = t, !.enospc = b] OBVIOUS
<1> HIDE DEF b
<1>3. /\ st \in State /\ st.pc = pr[p].pc /\ st.job = Job(p) /\ Rest(pr[p], st)
      /\ (Working(node, pr[p]) => Working(node, st))
  <2>1. /\ st \in State /\ st.pc = pr[p].pc /\ st.job = pr[p].job /\ st.beg = pr[p].beg /\ st.end = pr[p].end
        /\ st.jobs = pr[p].jobs /\ st.cache = pr[p].cache /\ st.want = pr[p].want
    BY <1>1, <1>2 DEF State
  <2> QED BY <2>1 DEF Rest, Working, Job
<1>4. st.enospc = b BY <1>2 DEF State
<1> QED BY <1>3, <1>4 DEF b
-----------------------------------------------------------------------------
(* A step at the end of which p is at work on a tree that has changed.     *)
Settles(p, im2, V, M, st) ==
  LET v == im2.cur[Act(p)] IN
  /\ Advances(Image, im2, V, Act(p)) /\ \A n \in Node : n \in V => Solely(lk, p, n)
  /\ Becomes(im2) /\ Seated(im2.node, v) /\ Mine(v) \subseteq M
  /\ Takes(lk, lk', p, M) /\ \A n \in M : im2.node[n].type # "free"
  /\ st \in State /\ pr' = [pr EXCEPT ![p] = st] /\ st.pc \in Busy /\ st.pc # "prop"
  /\ Ready(im2.node, v, st.pc, st.job) /\ Working(node, st)
(* Any step that ends at a leaf.                                           *)
LEMMA SettleStep ==
  ASSUME IInv, NEW p \in Proc, pr[p].pc \in Busy, pr[p].pc # "prop",
         NEW im2, NEW V, NEW M, NEW st, Settles(p, im2, V, M, st)
  PROVE  IInv'
<1> DEFINE c == Act(p)
           v == im2.cur[c]
           nd == im2.node
<1>1. /\ Advances(Image, im2, V, c) /\ \A n \in Node : n \in V => Solely(lk, p, n)
      /\ root' = im2.root /\ node' = nd /\ cur' = im2.cur
      /\ Seated(nd, v) /\ Mine(v) \subseteq M
      /\ Takes(lk, lk', p, M) /\ \A n \in M : nd[n].type # "free"
      /\ st \in State /\ pr' = [pr EXCEPT ![p] = st] /\ st.pc \in Busy /\ st.pc # "prop"
      /\ Ready(nd, v, st.pc, st.job) /\ Working(node, st)
  BY DEF Settles, Becomes
<1>2. Sits(p) BY SitsIs
<1>3. c = <<p, 1>> /\ c \in Cursor /\ cur[<<p, 2>>] = NoCursor BY <1>2 DEF Sits
<1>4. im2.cur \in [Cursor -> CursorRec] /\ \A n \in Node : node[n].type # "free" => nd[n].type # "free"
  BY <1>1 DEF Advances, Sound, Image
<1>5. v \in CursorRec /\ cur' = [im2.cur EXCEPT ![c] = v] BY <1>1, <1>3, <1>4
<1> HIDE DEF c, nd, v
<1>6. TrackedAt(nd, v) BY <1>1 DEF TrackedAt, Seated
<1>7. Keeps(lk', p, v) BY <1>1 DEF Keeps, Takes
<1>8. Stands(nd, lk', p, v, st)
  <2>1. AtWork(nd, lk', p, v, st) BY <1>1, <1>7 DEF AtWork
  <2> QED BY <1>1, <2>1, BusyStands
<1>9. Working(nd, st) BY <1>1, <1>4, WorkingStays
<1>10. Turn(p, c, v, st)
  <2>1. Goal(st) # "prop" /\ ~Out(st) BY <1>1 DEF Goal, Out, Busy
  <2> QED BY <1>3, <2>1 DEF Turn
<1>11. Goes(p, c, im2, V, v, M, st)
  <2>1. im2.node = nd BY DEF nd
  <2> QED BY <1>1, <1>5, <1>6, <1>8, <1>9, <1>10, <2>1 DEF Goes
<1> QED BY <1>11, GoesStep

(* The locks of a seated cursor.                                           *)
LEMMA MineIs ==
  ASSUME NEW rt, NEW nd, Tree(rt, nd), NEW v, Seated(nd, v)
  PROVE  /\ Mine(v) \in SUBSET Node /\ \A n \in Mine(v) : n \in InUse(nd) /\ nd[n].type # "free"
         /\ v.node \in Mine(v) /\ (v.parent # NULL => v.parent \in Mine(v) /\ v.parent # v.node)
<1>1. v.node \in InUse(nd) /\ v.parent = nd[v.node].parent BY DEF Seated
<1>2. v.node \in Node /\ v.node # NULL BY <1>1, NodeAssumption DEF InUse
<1>3. v.parent # NULL => v.parent \in InUse(nd) /\ v.parent # v.node BY <1>1, Up
<1> QED BY <1>1, <1>2, <1>3 DEF Mine, InUse

(* A search has not found its key; for an insertion the leaf is split.     *)
LEMMA SearchNotFoundStep ==
  ASSUME IInv, NEW p \in Proc, SearchNotFound(p)
  PROVE  IInv'
<1> DEFINE c == Act(p)
           cu == Cur(p)
           x == node[cu.node]
           w == [cu EXCEPT !.index = LeafStop(p), !.ate = Pruning(p)]
           at == [Image EXCEPT !.cur[c] = [@ EXCEPT !.index = LeafStop(p), !.ate = Pruning(p)]]
           b == pr[p].enospc \/ (MustSplit(p) /\ ~HasSpace(p))
           s == [pr[p] EXCEPT !.check = CreateCheck(p), !.enospc = b]
           split == MustSplit(p) /\ HasSpace(p)
           img == IF split THEN SplitImage(p, at) ELSE at
           res == IF s.enospc THEN "enospc" ELSE "enoent"
           st == AfterSearch(p, s, res, NULL, 0)
<1>1. /\ pr[p].pc = "search" /\ ~IsInternal(N(p)) /\ ~NoRoomHere(p) /\ InBounds(p) /\ ~LeafFound(p)
      /\ \/ MustSplit(p) /\ Upgrade(p) # NULL /\ Restart(p, Upgrade(p)) /\ UNCHANGED tree
         \/ /\ MustSplit(p) => Upgrade(p) = NULL
            /\ Becomes(img) /\ Lock(p, {}, Mine(img.cur[c])) /\ pr' = [pr EXCEPT ![p] = st]
  BY DEF SearchNotFound, AtLeaf, At
<1>2. pr[p].pc \in Busy /\ pr[p].pc # "prop" /\ pr[p].pc # "idle" BY <1>1 DEF Busy
<1>3. Sits(p) /\ Sat(p) BY <1>2, SitsIs, SatIs
<1>4. CASE MustSplit(p) /\ Upgrade(p) # NULL /\ Restart(p, Upgrade(p)) /\ UNCHANGED tree
  <2>1. Op(p) # "reblock" /\ Op(p) # "rollback" BY <1>4 DEF Inserting, MustSplit
  <2>2. Upgrade(p) \in Node BY <1>3, <1>4, UpgradeIs
  <2>3. root' = root /\ node' = node BY <1>4 DEF tree
  <2> DEFINE k == E(N(p), Cur(p).index).base
  <2>4. k = E(N(p), Cur(p).index).base OBVIOUS
  <2> HIDE DEF k
  <2> QED BY <1>1, <1>2, <1>3, <1>4, <2>1, <2>2, <2>3, <2>4, RestartQuietly
<1>5. CASE /\ MustSplit(p) => Upgrade(p) = NULL
           /\ Becomes(img) /\ Lock(p, {}, Mine(img.cur[c])) /\ pr' = [pr EXCEPT ![p] = st]
  <2>1. /\ cu \in CursorRec /\ ~cu.trk /\ N(p) = x /\ cu = cur[c] /\ c \in Cursor /\ Count(x) \in Int
        /\ cu.node \in Node /\ (cu.parent # NULL => cu.parent \in Node /\ Shares(lk, p, cu.parent))
        /\ Shares(lk, p, cu.node) /\ Seated(node, cu) /\ LockOK(lk) /\ ~IsInternal(x)
    BY <1>1, <1>3, IInvIs DEF Sat
  <2>2. LeafStop(p) \in 0 .. Count(x) /\ LeafStop(p) \in Int BY <1>3, <2>1, LeafStopIs
  <2>3. w \in CursorRec /\ ~w.trk /\ w.node = cu.node /\ w.parent = cu.parent /\ w.pindex = cu.pindex
        /\ w.index = LeafStop(p)
    <3>1. w = [Cur(p) EXCEPT !.index = LeafStop(p), !.ate = Pruning(p)] OBVIOUS
    <3> HIDE DEF w
    <3> QED BY <1>3, <3>1, StopCursor
  <2>4. Image = [root |-> root, node |-> node, cur |-> cur] /\ Image.node = node BY DEF Image
  <2>5. at = [root |-> root, node |-> node, cur |-> [cur EXCEPT ![c] = w]]
    <3>1. at = [Image EXCEPT !.cur = [Image.cur EXCEPT ![c] = [Image.cur[c] EXCEPT !.index = LeafStop(p), !.ate = Pruning(p)]]]
      OBVIOUS
    <3>2. Image.cur = cur /\ w = [cur[c] EXCEPT !.index = LeafStop(p), !.ate = Pruning(p)] BY <2>1, <2>4
    <3> HIDE DEF at, w
    <3> QED BY <2>4, <3>1, <3>2
  <2>6. PICK W : Fixed(p, Image, W) BY <1>3, QuietFixed
  <2> DEFINE j == LeafStop(p)
  <2> HIDE DEF w, at, j
  <2>7. Poised(p, at, W, j)
    <3>1. Image = [root |-> root, node |-> Image.node, cur |-> cur]
          /\ at = [root |-> root, node |-> Image.node, cur |-> [cur EXCEPT ![c] = w]]
          /\ w.index = j /\ j \in Int /\ j \in 0 .. Count(x)
      BY <2>2, <2>3, <2>4, <2>5 DEF j
    <3> QED BY <1>3, <2>3, <2>6, <3>1, PoisedIs
  <2>8. /\ Advances(Image, at, W, c) /\ \A n \in Node : n \in W => Solely(lk, p, n)
        /\ Divides(p, at) /\ at.cur[c] = w /\ at.node = node /\ Seated(at.node, at.cur[c])
    <3>1. /\ Advances(Image, at, W, c) /\ Divides(p, at)
          /\ \A n \in Node : n \in W => Solely(lk, p, n)
      BY <2>7 DEF Poised
    <3>2. cur \in [Cursor -> CursorRec] BY IInvIs
    <3>3. at.cur[c] = w /\ at.node = node BY <2>1, <2>5, <3>2
    <3>4. Seated(at.node, at.cur[c]) BY <3>1 DEF Divides
    <3> QED BY <3>1, <3>3, <3>4
  <2> DEFINE v == img.cur[c]
  <2>9. /\ \E V : Advances(Image, img, V, c) /\ \A n \in Node : n \in V => Solely(lk, p, n)
        /\ Seated(img.node, v) /\ v.index \in 0 .. Count(img.node[v.node])
        /\ \A n \in Mine(v) : n \in Node => Shares(lk, p, n)
        /\ img.node[v.node].type = x.type
        /\ split => ~Full(img.node[v.node])
        /\ Fitting(node, w, Key(p)) => Fitting(img.node, v, Key(p))
    <3>1. CASE split
      <4>1. img = SplitImage(p, at) BY <3>1
      <4> HIDE DEF img
      <4>2. SplitBlocked(p) = NULL
        <5>1. ChildBlocked(p) = NULL BY <1>1 DEF ChildBlocked
        <5> QED BY <1>5, <3>1, <5>1 DEF SplitBlocked
      <4>3. /\ \E V : Advances(Image, img, V, c) /\ \A n \in Node : n \in V => Solely(lk, p, n)
            /\ \A n \in Mine(v) : n \in Node => Shares(lk, p, n)
            /\ SplitOf(at, c, Key(p), img)
        BY <1>1, <1>2, <1>3, <2>7, <3>1, <4>1, <4>2, SplitLocks
      <4>4. /\ Seated(img.node, v) /\ v.index \in 0 .. Count(img.node[v.node])
            /\ img.node[v.node].type = x.type /\ ~Full(img.node[v.node])
            /\ (~IsInternal(x) /\ Fitting(node, w, Key(p)) => Fitting(img.node, v, Key(p)))
        BY <2>3, <2>8, <4>3 DEF SplitOf
      <4> HIDE DEF v
      <4> QED BY <2>1, <4>3, <4>4
    <3>2. CASE ~split
      <4>1. img = at /\ v = w BY <2>8, <3>2
      <4> HIDE DEF img, v
      <4>2. \A n \in Mine(v) : n \in Node => Shares(lk, p, n)
        BY <2>1, <2>3, <4>1 DEF Mine
      <4> QED BY <2>2, <2>3, <2>8, <3>2, <4>1, <4>2
    <3> QED BY <3>1, <3>2
  <2> HIDE DEF img
  <2>10. PICK V : Advances(Image, img, V, c) /\ \A n \in Node : n \in V => Solely(lk, p, n) BY <2>9
  <2>11. /\ Mine(v) \in SUBSET Node /\ \A n \in Mine(v) : img.node[n].type # "free"
    <3>1. Tree(img.root, img.node) BY <2>10 DEF Advances, Sound
    <3> QED BY <2>9, <3>1, MineIs
  <2>12. Takes(lk, lk', p, Mine(v)) BY <1>5, <2>1, <2>9, <2>11, SharesThese
  <2>13. /\ s \in State /\ s.pc = "search" /\ s.job = Job(p) /\ Working(node, s) /\ s.enospc = b
    <3>1. CreateCheck(p) \in Tid /\ pr[p] \in State /\ Working(node, pr[p]) /\ pr[p].pc = "search"
      BY <1>1, <1>2, <1>3, CreateCheckIs DEF Sits
    <3>2. b = Starved(p) BY DEF Starved
    <3>3. s = [pr[p] EXCEPT !.check = CreateCheck(p), !.enospc = Starved(p)]
      <4> HIDE DEF b
      <4> QED BY <3>2
    <3> HIDE DEF s, b
    <3>4. /\ s \in State /\ s.pc = pr[p].pc /\ s.job = Job(p)
          /\ (Working(node, pr[p]) => Working(node, s)) /\ s.enospc = Starved(p)
      BY <3>1, <3>3, CheckedState
    <3> QED BY <3>1, <3>2, <3>4
  <2>14. Follow(p, res, NULL, 0, st)
    <3>1. res \in {"found", "enoent", "enospc"} OBVIOUS
    <3>2. Job(p) \in Jobs BY <1>3 DEF Sits
    <3>3. st = AfterSearch(p, s, res, NULL, 0) OBVIOUS
    <3> HIDE DEF res, st, s
    <3> QED BY <2>13, <3>1, <3>2, <3>3, AfterSearchIs
  <2>r. res = "enoent" => ~b BY <2>13
  <2> HIDE DEF s, res, st
  <2>15. /\ st \in State /\ st.job = Job(p) /\ Working(node, st)
         /\ st.pc \in {"search", "insert", "move", "more", "next", "fin"} /\ st.pc # "move"
         /\ st.pc = "insert" => Op(p) = "insert" /\ res = "enoent"
    BY <2>14 DEF Follow, res
  <2>16. Ready(img.node, v, st.pc, st.job)
    <3>1. CASE st.pc = "insert"
      <4>1. Op(p) = "insert" /\ ~b BY <2>15, <2>r, <3>1
      <4>2. ~Full(img.node[v.node])
        <5>1. CASE split BY <2>9, <5>1
        <5>2. CASE ~split
          <6>1. ~MustSplit(p) BY <4>1, <5>2
          <6>2. ~Full(x) BY <2>1, <4>1, <6>1 DEF MustSplit, Inserting
          <6>3. v.node = cu.node /\ img.node = node BY <2>3, <2>8, <5>2 DEF img
          <6> QED BY <6>2, <6>3
        <5> QED BY <5>1, <5>2
      <4>3. Fitting(img.node, v, Key(p))
        <5>1. ~AsOf(p) BY <4>1 DEF AsOf
        <5>2. Fitting(node, w, Key(p)) BY <1>1, <1>2, <1>3, <2>3, <5>1, StopFits
        <5> QED BY <2>9, <5>2
      <4>4. Key(p) = st.job.key /\ st.job.op = "insert"
        <5>1. Key(p) = pr[p].beg BY <1>2, <1>3, <4>1, KeyIs
        <5>2. Job(p).op = "insert" BY <4>1 DEF Op, Job
        <5>3. pr[p].beg = Job(p).key BY <1>2, <1>3, <5>2 DEF Sits, Working, Job
        <5> QED BY <2>15, <5>1, <5>2, <5>3
      <4>5. ~IsInternal(img.node[v.node]) BY <2>1, <2>9 DEF IsInternal
      <4> HIDE DEF v, b
      <4> QED BY <2>9, <3>1, <4>2, <4>3, <4>4, <4>5 DEF Ready, Fitting
    <3>2. CASE st.pc # "insert"
      <4> HIDE DEF v
      <4> QED BY <2>9, <2>15, <3>2 DEF Ready
    <3> QED BY <3>1, <3>2
  <2>17. st.pc \in Busy /\ st.pc # "prop" BY <2>15 DEF Busy
  <2> DEFINE M == Mine(v)
  <2>18. M = Mine(v) OBVIOUS
  <2>19. Settles(p, img, V, M, st)
    <3>1. Becomes(img) /\ pr' = [pr EXCEPT ![p] = st] BY <1>5
    <3> HIDE DEF M
    <3> QED BY <2>9, <2>10, <2>11, <2>12, <2>15, <2>16, <2>17, <2>18, <3>1 DEF Settles
  <2> HIDE DEF M
  <2> QED BY <1>2, <2>19, SettleStep
<1> QED BY <1>1, <1>4, <1>5
-----------------------------------------------------------------------------
(* A cursor whose node has been changed in place.                          *)
LEMMA SeatedStays ==
  ASSUME NEW rt, NEW nd, Tree(rt, nd), NEW cu, Seated(nd, cu), NEW y, y.type = nd[cu.node].type,
         y.parent = nd[cu.node].parent, NEW md, md = [nd EXCEPT ![cu.node] = y]
  PROVE  Seated(md, cu) /\ md[cu.node] = y
<1>1. cu.node \in InUse(nd) /\ cu.node \in Node /\ nd \in [Node -> NodeRec] BY DEF Seated, InUse, Tree
<1>2. md[cu.node] = y /\ \A m \in Node : m # cu.node => md[m] = nd[m] BY <1>1
<1>3. cu.parent # NULL => cu.parent \in Node /\ cu.parent # cu.node
  <2>1. cu.parent = nd[cu.node].parent BY DEF Seated
  <2> QED BY <1>1, <2>1, Up DEF InUse
<1>4. cu.node \in InUse(md) BY <1>1, <1>2 DEF InUse
<1> QED BY <1>2, <1>3, <1>4 DEF Seated

(* hammer_btree_insert puts the record at its place.                       *)
LEMMA InsertStep ==
  ASSUME IInv, NEW p \in Proc, Insert(p)
  PROVE  IInv'
<1> DEFINE c == Act(p)
           cu == Cur(p)
           x == node[cu.node]
           e == [base |-> Job(p).key, dtid |-> 0]
           im2 == InsertElm(Image, c, e)
           next == IF N(p).mtid < e.base.t THEN "push" ELSE "fin"
           st == [pr[p] EXCEPT !.pc = next]
<1>1. /\ pr[p].pc = "insert"
      /\ \/ ~CanUpgrade(p, cu.node) /\ Restart(p, cu.node) /\ UNCHANGED tree
         \/ /\ CanUpgrade(p, cu.node) /\ Becomes(im2) /\ Lock(p, {cu.node}, Mine(cu) \ {cu.node})
            /\ pr' = [pr EXCEPT ![p] = st]
  BY DEF Insert, At, tree
<1>2. pr[p].pc \in Busy /\ pr[p].pc # "prop" /\ pr[p].pc # "idle" BY <1>1 DEF Busy
<1>3. Sits(p) /\ Sat(p) BY <1>2, SitsIs, SatIs
<1>4. /\ cu \in CursorRec /\ N(p) = x /\ cu = cur[c] /\ c \in Cursor /\ Count(x) \in Int
      /\ cu.node \in Node /\ (cu.parent # NULL => Shares(lk, p, cu.parent)) /\ Seated(node, cu)
      /\ LockOK(lk) /\ Tree(root, node) /\ Ready(node, cu, "insert", Job(p))
  BY <1>1, <1>3, IInvIs DEF Sat
<1>5. /\ ~IsInternal(x) /\ ~Full(x) /\ cu.index \in 0 .. Count(x)
      /\ Job(p).op = "insert" /\ Fitting(node, cu, Job(p).key)
  BY <1>4 DEF Ready, Fitting
<1>6. CASE ~CanUpgrade(p, cu.node) /\ Restart(p, cu.node) /\ UNCHANGED tree
  <2>1. Op(p) # "reblock" /\ Op(p) # "rollback" /\ ~Pruning(p) BY <1>5 DEF Op, Job, Pruning
  <2>2. root' = root /\ node' = node BY <1>6 DEF tree
  <2> DEFINE k == E(N(p), Cur(p).index).base
  <2>3. k = E(N(p), Cur(p).index).base OBVIOUS
  <2> HIDE DEF k
  <2> QED BY <1>2, <1>3, <1>4, <1>6, <2>1, <2>2, <2>3, RestartQuietly
<1>7. CASE /\ CanUpgrade(p, cu.node) /\ Becomes(im2) /\ Lock(p, {cu.node}, Mine(cu) \ {cu.node})
           /\ pr' = [pr EXCEPT ![p] = st]
  <2>1. e \in LeafElm /\ e.base = Job(p).key
    <3>1. Job(p) \in Jobs BY <1>3 DEF Sits
    <3>2. Job(p).key \in AnyKey /\ Job(p).key.t \in 1 .. MaxTid BY <1>5, <3>1, JobIs
    <3> DEFINE k == Job(p).key
    <3>3. k \in [k : 0 .. MaxKey, t : 1 .. MaxTid] BY <3>2 DEF AnyKey
    <3>4. 0 \in Tid BY ProcAssumption DEF Tid
    <3> HIDE DEF k
    <3>5. [base |-> k, dtid |-> 0] \in LeafElm BY <3>3, <3>4 DEF LeafElm
    <3> QED BY <3>5 DEF k
  <2> HIDE DEF e
  <2>2. Image.root = root /\ Image.node = node /\ Image.cur = cur /\ Sound(Image) BY StaysQuietly DEF Image
  <2>3. im2 = InsertElm(Image, c, e) OBVIOUS
  <2> HIDE DEF im2
  <2>4. InsertOf(Image, c, e, im2)
    <3>1. /\ Seated(Image.node, Image.cur[c]) /\ ~IsInternal(Image.node[Image.cur[c].node])
          /\ ~Full(Image.node[Image.cur[c].node])
          /\ Image.cur[c].index \in 0 .. Count(Image.node[Image.cur[c].node])
          /\ Fitting(Image.node, Image.cur[c], e.base)
      BY <1>4, <1>5, <2>1, <2>2
    <3> QED BY <1>4, <2>1, <2>2, <2>3, <3>1, InsertIs
  <2> DEFINE y == im2.node[cu.node]
             V == {cu.node}
             M == {cu.node} \union (Mine(cu) \ {cu.node})
  <2>5. /\ Advances(Image, im2, V, c) /\ im2.cur[c] = cu /\ im2.root = root
        /\ y.type = x.type /\ y.parent = x.parent /\ Len(y.elms) = Len(x.elms) + 1
        /\ im2.node = [node EXCEPT ![cu.node] = y]
    <3>1. Image.cur[c] = cu BY <1>4, <2>2
    <3> HIDE DEF cu
    <3>2. /\ Advances(Image, im2, V, c) /\ im2.cur[c] = cu /\ im2.root = root
          /\ y.type = x.type /\ y.parent = x.parent /\ Inserted(y.elms, x.elms, cu.index + 1, e)
          /\ im2.node = [node EXCEPT ![cu.node] = y]
      BY <2>2, <2>4, <3>1 DEF InsertOf
    <3> QED BY <3>2 DEF Inserted
  <2>6. Seated(im2.node, cu)
    <3> HIDE DEF y, cu
    <3> QED BY <1>4, <2>5, SeatedStays
  <2>7. Solely(lk, p, cu.node) BY <1>4, <1>7, OwnLock
  <2>8. Mine(cu) \in SUBSET Node /\ \A n \in Mine(cu) : im2.node[n].type # "free"
    <3>1. Tree(im2.root, im2.node) BY <2>5 DEF Advances, Sound
    <3> QED BY <2>6, <3>1, MineIs
  <2>9. Takes(lk, lk', p, M)
    <3> DEFINE X == {cu.node}
               S == Mine(cu) \ {cu.node}
    <3>1. X \in SUBSET Node /\ S \in SUBSET Node BY <1>4, <2>8
    <3>2. \A n \in X : n \notin S /\ Solely(lk, p, n) BY <2>7
    <3>3. \A n \in S : Shares(lk, p, n) BY <1>4 DEF Mine
    <3>4. Lock(p, X, S) BY <1>7
    <3>5. M = X \union S OBVIOUS
    <3> HIDE DEF X, S, M
    <3> QED BY <1>4, <3>1, <3>2, <3>3, <3>4, <3>5, LockIs
  <2>10. Mine(cu) \subseteq M /\ M \subseteq Mine(cu) BY NodeAssumption, <1>4 DEF Mine
  <2>11. next \in {"push", "fin"} OBVIOUS
  <2>12. st = [pr[p] EXCEPT !.pc = next] OBVIOUS
  <2> HIDE DEF next, st, M
  <2>13. st \in State /\ st.pc = next /\ st.job = Job(p) /\ Working(node, st)
    <3>1. next \in Busy BY <2>11 DEF Busy
    <3> QED BY <1>2, <1>3, <2>12, <3>1, GoesOn
  <2>14. Ready(im2.node, cu, st.pc, st.job)
    <3>1. Count(y) = Count(x) + 1 BY <1>5, <2>5 DEF Count, IsInternal
    <3>2. cu.index \in 0 .. Count(y) BY <1>4, <1>5, <3>1
    <3> QED BY <2>11, <2>13, <3>2 DEF Ready
  <2>15. st.pc \in Busy /\ st.pc # "prop" BY <2>11, <2>13 DEF Busy
  <2>16. \A n \in Node : n \in V => Solely(lk, p, n) BY <2>7
  <2>17. \A n \in M : im2.node[n].type # "free" BY <2>8, <2>10
  <2> HIDE DEF V, y, cu
  <2>18. Settles(p, im2, V, M, st)
    <3>1. Becomes(im2) /\ pr' = [pr EXCEPT ![p] = st] BY <1>7
    <3>2. im2.cur[Act(p)] = cu BY <2>5
    <3> QED BY <2>5, <2>6, <2>9, <2>10, <2>13, <2>14, <2>15, <2>16, <2>17, <3>1, <3>2 DEF Settles
  <2> QED BY <1>2, <2>18, SettleStep
<1> QED BY <1>1, <1>6, <1>7
-----------------------------------------------------------------------------
(* hammer_unlock_cursor: the thread leaves its cursor to be tracked.       *)
LEMMA TrackIs ==
  ASSUME NEW u \in CursorRec
  PROVE  /\ Track(u) \in CursorRec /\ Track(u).trk /\ Track(u).parent = NULL
         /\ Track(u).node = u.node /\ Track(u).index = u.index
<1>1. NULL \in AnyNode /\ 0 \in Int BY DEF AnyNode
<1> DEFINE v == [u EXCEPT !.trk = TRUE]
<1>2. v \in CursorRec /\ v.trk /\ v.node = u.node /\ v.index = u.index BY DEF CursorRec
<1>3. Track(u) = [v EXCEPT !.parent = NULL, !.pindex = 0] BY DEF Track, CursorRec
<1> HIDE DEF v
<1>4. Track(u) \in CursorRec BY <1>1, <1>2, <1>3, CursorAt
<1>5. /\ Track(u).parent = NULL /\ Track(u).node = u.node /\ Track(u).index = u.index
      /\ Track(u).trk = v.trk
  BY <1>2, <1>3 DEF CursorRec
<1> QED BY <1>2, <1>4, <1>5

(* Any step that unlocks a cursor and leaves it tracked.                   *)
LEMMA AwayStep ==
  ASSUME IInv, NEW p \in Proc, Sits(p), Sat(p), pr[p].pc # "idle", root' = root, node' = node,
         Cur(p).index \in 0 .. Count(N(p)), cur' = [cur EXCEPT ![Act(p)] = Track(Cur(p))],
         Lock(p, {}, {}), NEW st \in State, Away(st), Rest(pr[p], st), pr' = [pr EXCEPT ![p] = st]
  PROVE  IInv'
<1> DEFINE c == Act(p)
           v == Track(Cur(p))
           M == {}
<1>1. /\ Cur(p) \in CursorRec /\ N(p) = node[Cur(p).node] /\ Cur(p).node \in InUse(node)
      /\ Cur(p).node \in Node /\ LockOK(lk)
  BY IInvIs DEF Sat
<1>2. /\ v \in CursorRec /\ v.trk /\ v.parent = NULL /\ v.node = Cur(p).node /\ v.index = Cur(p).index
  BY <1>1, TrackIs
<1>3. st.pc \in {"relock", "dlk"} /\ ~Out(st) /\ st.pc \notin Busy /\ st.pc # "first"
  BY DEF Away, Out, Busy
<1>4. cur' = [cur EXCEPT ![c] = v] OBVIOUS
<1> HIDE DEF v, M, c
<1>5. Takes(lk, lk', p, M)
  <2>1. M \in SUBSET Node /\ (\A n \in M : Shares(lk, p, n)) /\ Lock(p, {}, M) BY DEF M
  <2> QED BY <1>1, <2>1, SharesThese
<1>6. TrackedAt(node, v) BY <1>1, <1>2 DEF TrackedAt
<1>7. Stands(node, lk', p, v, st) BY <1>2, <1>3 DEF Stands
<1>8. Working(node, st)
  <2>1. Working(node, pr[p]) /\ pr[p] \in State BY DEF Sits
  <2> QED BY <1>3, <2>1, WorkingOn
<1>9. Turn(p, c, v, st)
  <2>1. v.node # NULL BY <1>1, <1>2, NodeAssumption
  <2>2. Goal(st) # "prop" BY <1>3 DEF Goal
  <2> QED BY <1>3, <2>1, <2>2 DEF Turn, c, Sits
<1>10. \A n \in M : node[n].type # "free" BY DEF M
<1>11. Rests(p, c, v, M, st) BY <1>2, <1>4, <1>5, <1>6, <1>7, <1>8, <1>9, <1>10 DEF Rests
<1> QED BY <1>11, RestsStep

(* A thread that will lock its cursor again.                               *)
LEMMA RelockState ==
  ASSUME NEW p \in Proc, pr[p] \in State, NEW st, st = [pr[p] EXCEPT !.pc = "relock"]
  PROVE  st \in State /\ Away(st) /\ Rest(pr[p], st)
<1>1. "relock" \in Word BY DEF Word
<1> QED BY <1>1 DEF State, Away, Rest

(* hammer_unlock_cursor.                                                   *)
LEMMA YieldStep ==
  ASSUME IInv, NEW p \in Proc, Yield(p)
  PROVE  IInv'
<1> DEFINE st == [pr[p] EXCEPT !.pc = "relock"]
<1>1. /\ pr[p].pc = "more" /\ cur' = [cur EXCEPT ![Act(p)] = Track(Cur(p))] /\ Lock(p, {}, {})
      /\ pr' = [pr EXCEPT ![p] = st] /\ root' = root /\ node' = node
  BY DEF Yield, At, tree, Cur
<1>2. pr[p].pc \in Busy /\ pr[p].pc # "idle" BY <1>1 DEF Busy
<1>3. Sits(p) /\ Sat(p) BY <1>2, SitsIs, SatIs
<1>4. Cur(p).index \in 0 .. Count(N(p)) BY <1>1, <1>3 DEF Sat, Ready
<1>5. pr[p] \in State BY <1>3 DEF Sits
<1>6. st \in State /\ Away(st) /\ Rest(pr[p], st) BY <1>5, RelockState
<1> HIDE DEF st
<1> QED BY <1>1, <1>2, <1>3, <1>4, <1>6, AwayStep

(* The propagation of a mirror_tid could not upgrade its lock.             *)
LEMMA PropagateDeadlockStep ==
  ASSUME IInv, NEW p \in Proc, PropagateDeadlock(p)
  PROVE  IInv'
<1> DEFINE st == [pr[p] EXCEPT !.pc = "dlk", !.dlk = Upgrade(p), !.cont = "relock"]
<1>1. /\ pr[p].pc = "prop" /\ cur' = [cur EXCEPT ![Act(p)] = Track(Cur(p))] /\ Lock(p, {}, {})
      /\ pr' = [pr EXCEPT ![p] = st] /\ root' = root /\ node' = node /\ Upgrade(p) # NULL
  BY DEF PropagateDeadlock, At, tree, Cur
<1>2. pr[p].pc \in Busy /\ pr[p].pc # "idle" BY <1>1 DEF Busy
<1>3. Sits(p) /\ Sat(p) BY <1>2, SitsIs, SatIs
<1>4. Cur(p).index \in 0 .. Count(N(p)) BY <1>1, <1>3 DEF Sat, Ready
<1>5. pr[p] \in State BY <1>3 DEF Sits
<1>6. "relock" \in Word /\ "dlk" \in Word BY DEF Word
<1>7. Upgrade(p) \in AnyNode BY <1>1, <1>3, UpgradeIs DEF AnyNode
<1>8. st \in State BY <1>5, <1>6, <1>7 DEF State
<1>9. Away(st) /\ Rest(pr[p], st) BY <1>5 DEF State, Away, Rest
<1> HIDE DEF st
<1> QED BY <1>1, <1>2, <1>3, <1>4, <1>8, <1>9, AwayStep

(* hammer_btree_do_propagation goes on with a second cursor.               *)
LEMMA PushStep ==
  ASSUME IInv, NEW p \in Proc, Push(p)
  PROVE  IInv'
<1> DEFINE cu == Cur(p)
           a == cu.parent
           v == [NoCursor EXCEPT !.node = a, !.index = cu.pindex]
           s == [pr[p] EXCEPT !.tid = N(p).mtid]
           st == AwaitParent(s, a, node[a].parent, "prop")
           rs == [pr[p] EXCEPT !.pc = "relock"]
<1>1. /\ pr[p].pc = "push" /\ root' = root /\ node' = node
      /\ IF a = NULL
           THEN /\ cur' = [cur EXCEPT ![<<p, 1>>] = Track(cur[<<p, 1>>])] /\ Lock(p, {}, {})
                /\ pr' = [pr EXCEPT ![p] = rs]
           ELSE /\ cur' = [cur EXCEPT ![<<p, 1>>] = Track(cur[<<p, 1>>]), ![<<p, 2>>] = v]
                /\ Lock(p, {}, {a}) /\ pr' = [pr EXCEPT ![p] = st]
  BY DEF Push, At, tree
<1>2. pr[p].pc \in Busy /\ pr[p].pc # "idle" /\ pr[p].pc # "prop" BY <1>1 DEF Busy
<1>3. Sits(p) /\ Sat(p) BY <1>2, SitsIs, SatIs
<1>4. cu.index \in 0 .. Count(N(p)) BY <1>1, <1>3 DEF Sat, Ready
<1>5. pr[p] \in State /\ Act(p) = <<p, 1>> /\ cu = cur[<<p, 1>>] /\ cu \in CursorRec
      /\ Working(node, pr[p])
  BY <1>2, <1>3 DEF Sits, Cur
<1>6. CASE a = NULL
  <2>1. rs \in State /\ Away(rs) /\ Rest(pr[p], rs) BY <1>5, RelockState
  <2> HIDE DEF rs
  <2> QED BY <1>1, <1>2, <1>3, <1>4, <1>5, <1>6, <2>1, AwayStep
<1>7. CASE a # NULL
  <2> DEFINE M == {a}
             C1 == [cur EXCEPT ![<<p, 1>>] = Track(cu)]
  <2>1. /\ a \in Node /\ a \in InUse(node) /\ Shares(lk, p, a) /\ LockOK(lk) /\ Tree(root, node)
        /\ cu.pindex \in 0 .. Count(node[a]) - 1 /\ cu.pindex \in Int /\ N(p) \in NodeRec
        /\ cu.node \in InUse(node) /\ cur \in [Cursor -> CursorRec] /\ N(p) = node[cu.node]
        /\ Count(node[a]) \in Int
    BY <1>3, <1>7, IInvIs DEF Sat
  <2>2. a \in AnyNode /\ a # NULL /\ node \in [Node -> NodeRec] BY <2>1, NodeAssumption DEF AnyNode, Tree
  <2>3. /\ v \in CursorRec /\ v.node = a /\ v.index = cu.pindex /\ ~v.trk /\ v.parent = NULL
    <3> DEFINE i == cu.pindex
    <3>1. v = [NoCursor EXCEPT !.node = a, !.index = i] /\ a \in AnyNode /\ i \in Int BY <2>1, <2>2
    <3> HIDE DEF a, i, v
    <3>2. /\ [NoCursor EXCEPT !.node = a, !.index = i] \in CursorRec
          /\ [NoCursor EXCEPT !.node = a, !.index = i].node = a
          /\ [NoCursor EXCEPT !.node = a, !.index = i].index = i
          /\ ~[NoCursor EXCEPT !.node = a, !.index = i].trk
          /\ [NoCursor EXCEPT !.node = a, !.index = i].parent = NULL
      BY <3>1, NoCursorIs
    <3>3. v \in CursorRec /\ v.node = a /\ v.index = i /\ ~v.trk /\ v.parent = NULL BY <3>1, <3>2
    <3> QED BY <3>3 DEF i
  <2>4. N(p).mtid \in Nat BY <2>1 DEF NodeRec
  <2>5. s \in State /\ s.job = Job(p) /\ Rest(pr[p], s)
    <3> DEFINE m == N(p).mtid
    <3>1. m \in Nat /\ s = [pr[p] EXCEPT !.tid = m] BY <2>4
    <3> HIDE DEF m, s
    <3>2. s \in State BY <1>5, <3>1 DEF State
    <3> QED BY <1>5, <3>1, <3>2 DEF State, Rest, Job
  <2>t. /\ Track(cu) \in CursorRec /\ Track(cu).trk /\ Track(cu).parent = NULL
        /\ Track(cu).node = cu.node /\ Track(cu).index = cu.index
    BY <1>5, TrackIs
  <2> DEFINE tc == Track(cu)
  <2>6. Takes(lk, lk', p, M)
    <3>1. M \in SUBSET Node /\ (\A n \in M : Shares(lk, p, n)) /\ Lock(p, {}, M) BY <1>1, <1>7, <2>1
    <3> HIDE DEF M
    <3> QED BY <2>1, <3>1, SharesThese
  <2>7. /\ cur' = [cur EXCEPT ![<<p, 1>>] = tc, ![<<p, 2>>] = v] /\ pr' = [pr EXCEPT ![p] = st]
    BY <1>1, <1>5, <1>7
  <2>c. <<p, 1>> \in Cursor /\ <<p, 2>> \in Cursor /\ <<p, 1>> # <<p, 2>> BY DEF Cursor
  <2> HIDE DEF v, s, tc
  <2>8. /\ cur'[<<p, 1>>] = tc /\ cur'[<<p, 2>>] = v /\ cur' \in [Cursor -> CursorRec]
        /\ \A d \in Cursor : d # <<p, 1>> /\ d # <<p, 2>> => cur'[d] = cur[d]
    <3>1. tc \in CursorRec BY <2>t DEF tc
    <3> QED BY <2>1, <2>3, <2>7, <2>c, <3>1
  <2>9. Awaits(node, lk', p, v, s, "prop", st)
    <3>1. Has(lk', p, v.node) BY <2>3, <2>6 DEF Takes
    <3>2. Ready(node, v, "prop", s.job) BY <2>1, <2>3 DEF Ready
    <3>3. st = AwaitParent(s, v.node, node[v.node].parent, "prop") BY <2>3
    <3>4. "prop" \in Busy \ {"insert", "delete"} BY DEF Busy
    <3> HIDE DEF st
    <3> QED BY <2>1, <2>2, <2>3, <2>5, <3>1, <3>2, <3>3, <3>4, AwaitIs
  <2> HIDE DEF st, M
  <2>10. /\ st \in State /\ Stands(node, lk', p, v, st) /\ Goal(st) = "prop" /\ ~Out(st)
         /\ Rest(s, st) /\ st.pc \in {"prop", "parent"}
    BY <2>9 DEF Awaits
  <2>11. Placed(node, cur', lk', p, st)
    <3>1. cur'[<<p, 2>>].node # NULL BY <2>2, <2>3, <2>8
    <3>2. cur'[<<p, 1>>].trk BY <2>8, <2>t DEF tc
    <3> QED BY <2>8, <2>10, <3>1, <3>2, PlacedTwo
  <2>12. Working(node, st)
    <3>1. Rest(pr[p], st) BY <2>5, <2>10 DEF Rest
    <3>2. st.pc # "first" BY <2>10
    <3> QED BY <1>2, <1>5, <3>1, <3>2, WorkingOn
  <2>13. TrackedAt(node, cur'[<<p, 1>>]) /\ TrackedAt(node, cur'[<<p, 2>>])
    BY <1>4, <2>1, <2>3, <2>8, <2>t DEF TrackedAt, tc
  <2>14. Apart(p, {}) BY <1>1, <2>8, <2>13, QuietApart
  <2>15. \A n \in M : node'[n].type # "free" BY <1>1, <2>1 DEF M, InUse
  <2>16. Comes(p, M, st) BY <1>1, <2>6, <2>7, <2>10, <2>11, <2>12, <2>15 DEF Comes
  <2> QED BY <2>14, <2>16, Step
<1> QED BY <1>6, <1>7
(* hammer_lock_cursor.                                                     *)
LEMMA RelockStep ==
  ASSUME IInv, NEW p \in Proc, Relock(p)
  PROVE  IInv'
<1> DEFINE c == Act(p)
           cu == Cur(p)
           n == cu.node
           next == IF Act(p) = <<p, 2>> THEN "prop" ELSE IF Iterating(p) THEN "more" ELSE "fin"
           st == AwaitParent(pr[p], n, node[n].parent, next)
           M == {n}
<1>1. /\ pr[p].pc = "relock" /\ CanShare(n) /\ Lock(p, {}, M) /\ pr' = [pr EXCEPT ![p] = st]
      /\ root' = root /\ node' = node
  BY DEF Relock, At, tree, N
<1>2. PICK ate \in RelockAte(p) :
        cur' = [cur EXCEPT ![c] = [@ EXCEPT !.trk = FALSE, !.rip = FALSE, !.ate = ate]]
  BY DEF Relock
<1>3. Waiting(p) /\ Tree(root, node) /\ LockOK(lk) /\ cur \in [Cursor -> CursorRec] /\ Tracked(node, cur)
  BY WaitingIs, IInvIs
<1>4. /\ c \in Cursor /\ cu \in CursorRec /\ cu = cur[c] /\ pr[p] \in State /\ Working(node, pr[p])
      /\ \/ c = <<p, 1>> /\ cur[<<p, 2>>] = NoCursor
         \/ c = <<p, 2>> /\ cur[<<p, 1>>].trk
      /\ cu.trk
  BY <1>1, <1>3 DEF Waiting, Stands, Away
<1>5. n \in InUse(node) /\ n \in Node /\ cu.index \in 0 .. Count(node[n]) /\ cu.parent = NULL
  BY <1>3, <1>4 DEF Tracked, TrackedAt, InUse
<1>6. ate \in BOOLEAN BY <1>4 DEF RelockAte, CursorRec
<1> DEFINE v == [cu EXCEPT !.trk = FALSE, !.rip = FALSE, !.ate = ate]
<1>7. v \in CursorRec /\ ~v.trk /\ v.node = n /\ v.index = cu.index /\ v.parent = NULL
  BY <1>4, <1>5, <1>6 DEF CursorRec
<1>8. cur' = [cur EXCEPT ![c] = v] BY <1>2, <1>4
<1>9. next \in {"prop", "more", "fin"} /\ (next = "prop" <=> c = <<p, 2>>) OBVIOUS
<1> HIDE DEF v, next, c, cu
<1>10. Takes(lk, lk', p, M)
  <2>1. M \in SUBSET Node /\ (\A m \in M : Shares(lk, p, m)) BY <1>1, <1>3, <1>5, OwnLock
  <2> HIDE DEF M
  <2> QED BY <1>1, <1>3, <2>1, SharesThese
<1>11. Awaits(node, lk', p, v, pr[p], next, st)
  <2>1. Has(lk', p, v.node) BY <1>7, <1>10 DEF Takes
  <2>2. Ready(node, v, next, pr[p].job) BY <1>5, <1>7, <1>9 DEF Ready
  <2>3. st = AwaitParent(pr[p], v.node, node[v.node].parent, next) BY <1>7
  <2>4. next \in Busy \ {"insert", "delete"} BY <1>9 DEF Busy
  <2>5. node \in [Node -> NodeRec] /\ v.node \in InUse(node) BY <1>3, <1>5, <1>7 DEF Tree
  <2> HIDE DEF st, n
  <2> QED BY <1>4, <1>7, <2>1, <2>2, <2>3, <2>4, <2>5, AwaitIs
<1> HIDE DEF st
<1>12. /\ st \in State /\ Stands(node, lk', p, v, st) /\ Goal(st) = next /\ ~Out(st)
       /\ Rest(pr[p], st) /\ st.pc \in {next, "parent"}
  BY <1>11 DEF Awaits
<1>13. Working(node, st) BY <1>1, <1>4, <1>9, <1>12, WorkingOn
<1>14. Turn(p, c, v, st)
  <2>1. v.node # NULL BY <1>5, <1>7, NodeAssumption
  <2> QED BY <1>4, <1>9, <1>12, <2>1 DEF Turn
<1>15. \A m \in M : node[m].type # "free" BY <1>5 DEF InUse
<1>16. TrackedAt(node, v) BY <1>7 DEF TrackedAt
<1> HIDE DEF M
<1>17. Rests(p, c, v, M, st) BY <1>1, <1>7, <1>8, <1>10, <1>12, <1>13, <1>14, <1>15, <1>16 DEF Rests
<1> QED BY <1>17, RestsStep
-----------------------------------------------------------------------------
(* hammer_btree_mirror_propagate, one level.                               *)
Marks(p, im2, W) ==
  /\ Advances(Image, im2, W, Act(p)) /\ \A n \in Node : n \in W => Solely(lk, p, n)
  /\ im2.cur = cur /\ im2.root = root /\ W \subseteq {Cur(p).node}
(* A mirror_tid that is set keeps the tree.                                *)
LEMMA MarksIs ==
  ASSUME IInv, NEW p \in Proc, Sits(p), Sat(p), pr[p].pc = "prop", Upgrade(p) = NULL,
         NEW nd, NEW set, set => IsInternal(N(p)),
         nd = IF set THEN [node EXCEPT ![Cur(p).node] = Marked(@, Cur(p).index, pr[p].tid)] ELSE node,
         NEW im2, im2 = [root |-> root, node |-> nd, cur |-> cur]
  PROVE  \E W : Marks(p, im2, W)
<1> DEFINE c == Act(p)
           cu == Cur(p)
           n == cu.node
           x == node[n]
           tid == pr[p].tid
           i == cu.index
           W == {n}
<1>1. /\ Image.root = root /\ Image.node = node /\ Image.cur = cur /\ Sound(Image)
      /\ Advances(Image, Image, {}, c)
  BY StaysQuietly DEF Image
<1>2. /\ N(p) = x /\ c \in Cursor /\ cu = cur[c] /\ n \in Node /\ n \in InUse(node) /\ x \in NodeRec
      /\ Count(x) \in Int /\ ~cu.trk /\ cu.index \in 0 .. Count(x)
      /\ (IsInternal(x) => x.elms \in Seq(IntElm) /\ Count(x) = Len(x.elms) - 1)
      /\ Len(x.elms) \in Nat /\ Seated(node, cu) /\ n \in Mine(cu)
      /\ Tree(root, node) /\ node \in [Node -> NodeRec] /\ cur \in [Cursor -> CursorRec]
  <2>1. n \in Node /\ n \in Mine(cu) BY NodeAssumption DEF Sat, Mine
  <2>2. Tree(root, node) /\ node \in [Node -> NodeRec] /\ cur \in [Cursor -> CursorRec]
    BY IInvIs DEF Tree
  <2>3. cu.index \in 0 .. Count(x) BY DEF Sat, Ready
  <2> QED BY <2>1, <2>2, <2>3 DEF Sat
<1>3. tid \in Nat
  <2>1. pr[p] \in State BY DEF Sits
  <2> QED BY <2>1, StateAt
<1>4. CASE ~set
  <2>1. im2 = Image BY <1>4 DEF Image
  <2>2. Marks(p, Image, {}) BY <1>1 DEF Marks
  <2> QED BY <2>1, <2>2
<1>5. CASE set
  <2> DEFINE y == Marked(x, i, tid)
             e == [E(x, i) EXCEPT !.mtid = tid]
  <2>1. IsInternal(x) /\ i \in 0 .. Len(x.elms) - 1 /\ x.elms \in Seq(IntElm) BY <1>2, <1>5
  <2>2. Patched(x, i, e, IntElm, y)
    <3> HIDE DEF x, i, tid
    <3> QED BY <1>2, <1>3, <2>1, MarkedIs
  <2>3. E(x, i) \in IntElm BY <2>1 DEF E
  <2>4. e.sub = E(x, i).sub /\ e.base = E(x, i).base BY <2>3 DEF IntElm
  <2>t. y = Marked(x, i, tid) OBVIOUS
  <2> HIDE DEF e, y
  <2>5. /\ y \in NodeRec /\ y.type = x.type /\ y.parent = x.parent /\ Len(y.elms) = Len(x.elms)
        /\ \A j \in 1 .. Len(x.elms) : y.elms[j].base = x.elms[j].base
    BY <2>1, <2>2, <2>4 DEF Patched, E
  <2> DEFINE lo == Bounds(node, cu)[1]
             hi == Bounds(node, cu)[2]
  <2>6. Confines(root, node, n, lo, hi) BY <1>2, SeatBounds
  <2> HIDE DEF lo, hi
  <2>7. Fits(y, lo, hi)
    <3>1. Fits(x, lo, hi) BY <2>6 DEF Confines
    <3> HIDE DEF x
    <3> QED BY <2>5, <3>1, FitsAlike
  <2>8. Changes(root, node, n, y)
    <3> HIDE DEF n
    <3> QED BY <1>2, <2>1, <2>2, <2>4, <2>6, <2>7, InternalChanges
  <2>9. Count(y) = Count(x) BY <2>5 DEF Count, IsInternal
  <2>10. im2.root = root /\ im2.cur = cur /\ im2.node = [node EXCEPT ![n] = y]
    BY <1>2, <1>5, <2>t
  <2>11. Advances(Image, im2, W, c)
    <3>1. /\ n \in InUse(Image.node) /\ Count(y) = Count(Image.node[n]) /\ Changes(Image.root, Image.node, n, y)
          /\ y.type = Image.node[n].type /\ im2.root = Image.root
          /\ im2.node = [Image.node EXCEPT ![n] = y] /\ im2.cur \in [Cursor -> CursorRec]
          /\ (\A d \in Cursor : d # c => im2.cur[d] = Image.cur[d]) /\ ~im2.cur[c].trk
      BY <1>1, <1>2, <2>5, <2>8, <2>9, <2>10
    <3> HIDE DEF n, c
    <3> QED BY <1>1, <1>2, <3>1, PatchAdvances
  <2>12. \A m \in Node : m \in W => Solely(lk, p, m) BY <1>2, UpgradeIs
  <2> QED BY <2>10, <2>11, <2>12 DEF Marks
<1> QED BY <1>4, <1>5

(* hammer_btree_mirror_propagate at one level.                             *)
LEMMA PropagateStep ==
  ASSUME IInv, NEW p \in Proc, Propagate(p)
  PROVE  IInv'
<1> DEFINE c == Act(p)
           cu == Cur(p)
           a == cu.parent
           set == IsInternal(N(p)) /\ E(N(p), cu.index).mtid < pr[p].tid
           agg == set /\ N(p).mtid < pr[p].tid
           st == [pr[p] EXCEPT !.pc = "relock"]
           nd == IF set THEN [node EXCEPT ![cu.node] = Marked(@, cu.index, pr[p].tid)] ELSE node
           im2 == [root |-> root, node |-> nd, cur |-> cur]
<1>1. /\ pr[p].pc = "prop" /\ Upgrade(p) = NULL /\ root' = root /\ node' = nd
      /\ IF agg /\ a # NULL THEN CursorUp(p, cu.pindex, "prop")
         ELSE cur' = Popped(p, cur) /\ Lock(p, {}, {}) /\ pr' = [pr EXCEPT ![p] = st]
  BY DEF Propagate, At
<1>2. pr[p].pc \in Busy /\ pr[p].pc # "idle" BY <1>1 DEF Busy
<1>3. Sits(p) /\ Sat(p) BY <1>2, SitsIs, SatIs
<1>4. im2.root = root' /\ im2.node = node' /\ im2.cur = cur BY <1>1
<1>5. PICK W : Marks(p, im2, W)
  <2>1. set => IsInternal(N(p)) OBVIOUS
  <2>2. nd = IF set THEN [node EXCEPT ![Cur(p).node] = Marked(@, Cur(p).index, pr[p].tid)] ELSE node
    OBVIOUS
  <2>3. im2 = [root |-> root, node |-> nd, cur |-> cur] OBVIOUS
  <2> HIDE DEF im2, nd, set
  <2> QED BY <1>1, <1>3, <2>1, <2>2, <2>3, MarksIs
<1> HIDE DEF im2, nd, set
<1>6. /\ Advances(Image, im2, W, c) /\ \A n \in Node : n \in W => Solely(lk, p, n)
      /\ W \subseteq {cu.node}
  BY <1>5 DEF Marks
<1>7. /\ c = <<p, 2>> /\ cur[<<p, 1>>].trk /\ pr[p] \in State /\ Working(node, pr[p]) /\ Job(p) \in Jobs
  BY <1>1, <1>3 DEF Sits
<1>s. /\ Sound(im2) /\ \A n \in Node : node[n].type # "free" =>
           node'[n].type # "free" /\ (n \notin W => node'[n] = node[n])
  BY <1>4, <1>6 DEF Advances, Image
<1>8. CASE agg /\ a # NULL
  <2>1. CursorUp(p, cu.pindex, "prop") BY <1>1, <1>8
  <2>2. /\ a \in Node /\ a # cu.node /\ a \in InUse(node) /\ cu.pindex \in Int
        /\ cu.pindex \in 0 .. Count(node[a]) - 1 /\ Count(node[a]) \in Int
    BY <1>3, <1>8 DEF Sat
  <2>3. im2.node[a] = node[a] BY <1>4, <1>6, <1>s, <2>2 DEF InUse
  <2>4. Leaves(p, im2, W) BY <1>4, <1>6, <2>3 DEF Leaves
  <2>5. Arrives(p, im2.node, cu.pindex, "prop")
    <3>1. "prop" \in Busy \ {"insert", "delete"} BY DEF Busy
    <3>2. \A u : u.node = Cur(p).parent /\ u.index = cu.pindex => Ready(im2.node, u, "prop", Job(p))
      BY <2>2, <2>3 DEF Ready
    <3> QED BY <1>7, <2>2, <3>1, <3>2 DEF Arrives
  <2> QED BY <1>2, <1>3, <1>8, <2>1, <2>4, <2>5, UpStep
<1>9. CASE ~(agg /\ a # NULL)
  <2> DEFINE M == {}
  <2>1. cur' = [cur EXCEPT ![<<p, 2>>] = NoCursor] /\ Lock(p, {}, M) /\ pr' = [pr EXCEPT ![p] = st]
    BY <1>1, <1>9 DEF Popped
  <2>2. LockOK(lk) /\ cur \in [Cursor -> CursorRec] /\ NoCursor \in CursorRec /\ ~NoCursor.trk
    <3>1. NULL \in AnyNode /\ 0 \in Int BY DEF AnyNode
    <3> QED BY <3>1, IInvIs, NoCursorIs
  <2>3. <<p, 1>> \in Cursor /\ <<p, 2>> \in Cursor /\ <<p, 1>> # <<p, 2>> BY DEF Cursor
  <2>4. /\ cur' \in [Cursor -> CursorRec] /\ cur'[<<p, 1>>] = cur[<<p, 1>>] /\ cur'[<<p, 2>>] = NoCursor
        /\ \A d \in Cursor : d # <<p, 2>> => cur'[d] = cur[d]
    BY <2>1, <2>2, <2>3
  <2>5. Tree(root', node') /\ Tracked(node', cur) BY <1>4, <1>s DEF Sound
  <2>6. Tracked(node', cur')
    <3> SUFFICES ASSUME NEW d \in Cursor PROVE TrackedAt(node', cur'[d]) BY DEF Tracked
    <3>1. CASE d = <<p, 2>> BY <2>2, <2>4, <3>1 DEF TrackedAt
    <3>2. CASE d # <<p, 2>> BY <2>4, <2>5, <3>2 DEF Tracked
    <3> QED BY <3>1, <3>2
  <2>7. Apart(p, W)
    <3>1. \A d \in Cursor : d # <<p, 1>> /\ d # <<p, 2>> => Same(cur[d], cur'[d])
      BY <2>4 DEF Same
    <3> QED BY <1>6, <1>s, <2>4, <2>5, <2>6, <3>1 DEF Apart
  <2>8. st \in State /\ Away(st) /\ Rest(pr[p], st) /\ st.pc = "relock"
    <3>1. st.pc = "relock" BY <1>7 DEF State
    <3> QED BY <1>7, <3>1, RelockState
  <2> HIDE DEF st, M
  <2>9. Takes(lk, lk', p, M)
    <3>1. M \in SUBSET Node /\ (\A m \in M : Shares(lk, p, m)) BY DEF M
    <3> QED BY <2>1, <2>2, <3>1, SharesThese
  <2>10. Stands(node', lk', p, cur'[<<p, 1>>], st) BY <1>7, <2>4, <2>8 DEF Stands, Busy
  <2>11. Placed(node', cur', lk', p, st)
    <3>1. Goal(st) # "prop" /\ ~Out(st) BY <2>8 DEF Goal, Out
    <3> QED BY <2>4, <2>10, <3>1, PlacedOne
  <2>12. Working(node', st)
    <3>1. st.pc # "first" BY <2>8
    <3> QED BY <1>2, <1>7, <1>s, <2>8, <3>1, WorkingOn
  <2>13. \A n \in M : node'[n].type # "free" BY DEF M
  <2>14. Comes(p, M, st) BY <2>1, <2>8, <2>9, <2>11, <2>12, <2>13 DEF Comes
  <2> QED BY <2>7, <2>14, Step
<1> QED BY <1>8, <1>9
-----------------------------------------------------------------------------
(* hammer_reblock_helper.                                                  *)
LEMMA MoveStep ==
  ASSUME IInv, NEW p \in Proc, Move(p)
  PROVE  IInv'
<1> DEFINE c == Act(p)
           cu == Cur(p)
           x == node[cu.node]
           nn == Alloc(node)
           im2 == MoveNode(Image, c, nn)
           fs == [pr[p] EXCEPT !.pc = "fin"]
           ms == [pr[p] EXCEPT !.pc = "more"]
<1>1. /\ pr[p].pc = "move"
      /\ \/ MoveBlocked(p) # NULL /\ Restart(p, MoveBlocked(p)) /\ UNCHANGED tree
         \/ MoveBlocked(p) = NULL /\ pr' = [pr EXCEPT ![p] = fs] /\ UNCHANGED <<tree, cur, lk>>
         \/ /\ MoveBlocked(p) = NULL /\ FreeNodes(node) # {} /\ Becomes(im2)
            /\ Lock(p, {}, Mine(im2.cur[c])) /\ pr' = [pr EXCEPT ![p] = ms]
  BY DEF Move, At
<1>2. pr[p].pc \in Busy /\ pr[p].pc # "idle" /\ pr[p].pc # "prop" BY <1>1 DEF Busy
<1>3. Sits(p) /\ Sat(p) BY <1>2, SitsIs, SatIs
<1>4. /\ N(p) = x /\ c \in Cursor /\ cu = cur[c] /\ cu \in CursorRec /\ ~cu.trk /\ Seated(node, cu)
      /\ cu.index = 0 /\ x.elms # <<>> /\ Op(p) = "reblock" /\ Count(x) \in Int /\ Count(x) >= 0
      /\ (IsInternal(x) => x.elms \in Seq(IntElm)) /\ (~IsInternal(x) => x.elms \in Seq(LeafElm))
      /\ LockOK(lk) /\ Tree(root, node) /\ cur \in [Cursor -> CursorRec]
      /\ cu.node \in Node /\ (cu.parent # NULL => cu.parent \in Node)
      /\ (cu.parent # NULL => Shares(lk, p, cu.parent)) /\ x \in NodeRec
  BY <1>1, <1>3, IInvIs DEF Sat, Ready, Op, Job
<1>5. CASE MoveBlocked(p) # NULL /\ Restart(p, MoveBlocked(p)) /\ UNCHANGED tree
  <2>1. MoveBlocked(p) \in Node BY <1>3, <1>5, UpgradeIs, ChildBlockedIs DEF MoveBlocked
  <2>2. root' = root /\ node' = node BY <1>5 DEF tree
  <2> DEFINE k == E(N(p), Cur(p).index).base
  <2>3. k.k \in 0 .. MaxKey
    <3>1. CASE IsInternal(x)
      <4>1. x.elms[1] \in IntElm BY <1>4, <3>1
      <4>2. k = x.elms[1].base BY <1>4 DEF E
      <4> QED BY <4>1, <4>2 DEF IntElm, AnyKey
    <3>2. CASE ~IsInternal(x)
      <4>1. x.elms[1] \in LeafElm BY <1>4, <3>2
      <4>2. k = x.elms[1].base BY <1>4 DEF E
      <4> QED BY <4>1, <4>2 DEF LeafElm
    <3> QED BY <3>1, <3>2
  <2>4. k = E(N(p), Cur(p).index).base OBVIOUS
  <2>5. Op(p) # "rollback" BY <1>4
  <2> HIDE DEF k
  <2> QED BY <1>2, <1>3, <1>5, <2>1, <2>2, <2>3, <2>4, <2>5, RestartQuietly
<1>6. CASE MoveBlocked(p) = NULL /\ pr' = [pr EXCEPT ![p] = fs] /\ UNCHANGED <<tree, cur, lk>>
  <2>1. "fin" \in Busy BY DEF Busy
  <2> DEFINE next == "fin"
  <2>2. fs = [pr[p] EXCEPT !.pc = next] /\ next \in Busy BY <2>1
  <2> HIDE DEF fs
  <2>3. fs \in State /\ fs.pc = "fin" /\ fs.job = Job(p) /\ Working(node, fs)
    <3>1. next = "fin" OBVIOUS
    <3> HIDE DEF next
    <3>2. fs \in State /\ fs.pc = next /\ fs.job = Job(p) /\ Working(node, fs)
      BY <1>2, <1>3, <2>2, GoesOn
    <3> QED BY <3>1, <3>2
  <2>4. cur' = [cur EXCEPT ![c] = cu] BY <1>4, <1>6
  <2>5. Ready(node, cu, "fin", fs.job) BY DEF Ready
  <2>6. root' = root /\ node' = node /\ lk' = lk /\ pr' = [pr EXCEPT ![p] = fs] BY <1>6 DEF tree
  <2>7. Shifts(p, cu, fs)
    <3> HIDE DEF cu
    <3>1. cu.node = Cur(p).node /\ cu.parent = Cur(p).parent /\ cu.pindex = Cur(p).pindex BY DEF cu
    <3> QED BY <1>4, <2>1, <2>3, <2>4, <2>5, <2>6, <3>1 DEF Shifts
  <2> QED BY <1>2, <2>7, ShiftStep
<1>7. CASE /\ MoveBlocked(p) = NULL /\ FreeNodes(node) # {} /\ Becomes(im2)
           /\ Lock(p, {}, Mine(im2.cur[c])) /\ pr' = [pr EXCEPT ![p] = ms]
  <2>1. Image.root = root /\ Image.node = node /\ Image.cur = cur /\ Sound(Image) BY StaysQuietly DEF Image
  <2>2. nn \in FreeNodes(node) /\ nn \in Node /\ node[nn].type = "free"
    <3>1. nn \in FreeNodes(node) BY <1>7 DEF Alloc
    <3> QED BY <3>1 DEF FreeNodes
  <2>3. MoveOf(Image, c, nn, im2)
    <3>1. im2 = MoveNode(Image, c, nn) OBVIOUS
    <3>2. Seated(Image.node, Image.cur[c]) /\ nn \in FreeNodes(Image.node) BY <1>4, <2>1, <2>2
    <3> HIDE DEF im2, nn, c
    <3> QED BY <1>4, <2>1, <3>1, <3>2, MoveNodeIs
  <2> HIDE DEF im2, nn
  <2> DEFINE v == im2.cur[c]
             V == {cu.node, cu.parent} \union Children(x)
             M == Mine(v)
  <2>4. /\ Advances(Image, im2, V, c) /\ Seated(im2.node, v) /\ v.node = nn /\ v.index = 0
        /\ im2.node[nn] = x /\ Mine(v) \subseteq Mine(cu) \union {nn}
    BY <1>4, <2>1, <2>3 DEF MoveOf
  <2>5. Upgrade(p) = NULL /\ ChildBlocked(p) = NULL BY <1>7 DEF MoveBlocked
  <2>6. \A n \in Node : n \in V => Solely(lk, p, n)
    <3>1. \A n \in Mine(cu) : n \in Node /\ Solely(lk, p, n) BY <1>3, <2>5, UpgradeIs
    <3>2. \A n \in Children(x) : Solely(lk, p, n) BY <1>3, <1>4, <2>5, ChildBlockedIs
    <3>3. \A n \in Node : n \in {cu.node, cu.parent} => n \in Mine(cu) BY NodeAssumption DEF Mine
    <3> QED BY <3>1, <3>2, <3>3
  <2>7. M \in SUBSET Node /\ \A n \in M : im2.node[n].type # "free"
    <3>1. Tree(im2.root, im2.node) BY <2>4 DEF Advances, Sound
    <3> HIDE DEF v
    <3> QED BY <2>4, <3>1, MineIs
  <2>8. \A n \in M : Shares(lk, p, n)
    <3>1. Shares(lk, p, nn)
      <4>1. lk[nn].ex = NULL BY <2>2, IInvIs DEF Untouched
      <4> QED BY <4>1 DEF Shares
    <3>2. \A n \in Mine(cu) : Shares(lk, p, n)
      <4>1. \A n \in Mine(cu) : n \in Node /\ Solely(lk, p, n) BY <1>3, <2>5, UpgradeIs
      <4> QED BY <1>4, <4>1, OwnLock
    <3> QED BY <2>4, <3>1, <3>2
  <2>9. Takes(lk, lk', p, M)
    <3>1. Lock(p, {}, M) BY <1>7
    <3> HIDE DEF M
    <3> QED BY <1>4, <2>7, <2>8, <3>1, SharesThese
  <2> DEFINE next == "more"
  <2>10. ms = [pr[p] EXCEPT !.pc = next] /\ next = "more" OBVIOUS
  <2> HIDE DEF ms, next
  <2>11. ms \in State /\ ms.pc = "more" /\ ms.job = Job(p) /\ Working(node, ms) /\ "more" \in Busy
    <3>1. "more" \in Busy BY DEF Busy
    <3>2. ms \in State /\ ms.pc = next /\ ms.job = Job(p) /\ Working(node, ms)
      BY <1>2, <1>3, <2>10, <3>1, GoesOn
    <3> QED BY <2>10, <3>1, <3>2
  <2>12. Ready(im2.node, v, ms.pc, ms.job)
    <3>1. v.index \in 0 .. Count(im2.node[v.node]) BY <1>4, <2>4
    <3> QED BY <2>11, <3>1 DEF Ready
  <2> HIDE DEF V
  <2>13. Settles(p, im2, V, M, ms)
    <3>1. Becomes(im2) /\ pr' = [pr EXCEPT ![p] = ms] /\ Mine(v) \subseteq M BY <1>7
    <3> HIDE DEF M
    <3> QED BY <2>4, <2>6, <2>7, <2>9, <2>11, <2>12, <3>1 DEF Settles
  <2> HIDE DEF M
  <2> QED BY <1>2, <2>13, SettleStep
<1> QED BY <1>1, <1>5, <1>6, <1>7
-----------------------------------------------------------------------------
(* hammer_delete_at_cursor, up to the removal of an empty leaf: p's leaf   *)
(* has become z.                                                           *)
Staged(p, im, z) ==
  LET c  == Act(p)
      cu == Cur(p)
      w  == im.cur[c]
  IN /\ \E V : Advances(Image, im, V, c) /\ \A n \in Node : n \in V => Solely(lk, p, n)
     /\ im.root = root /\ Seated(im.node, w)
     /\ w.node = cu.node /\ w.parent = cu.parent /\ w.index = cu.index
     /\ im.node = [node EXCEPT ![cu.node] = z]
     /\ z \in NodeRec /\ z.type = node[cu.node].type /\ z.parent = node[cu.node].parent
(* The image hammer_delete_at_cursor starts from.                          *)
LEMMA StageZero ==
  ASSUME IInv, NEW p \in Proc, Sits(p), Sat(p), pr[p].pc = "delete",
         NEW im, im = [Image EXCEPT !.cur[Act(p)].ate = Pruning(p)]
  PROVE  Staged(p, im, N(p))
<1> DEFINE c == Act(p)
           cu == Cur(p)
           x == node[cu.node]
           b == Pruning(p)
           w == [cu EXCEPT !.ate = b]
           j == cu.index
<1>1. Image = [root |-> root, node |-> node, cur |-> cur] /\ Image.node = node /\ Image.cur = cur
  BY DEF Image
<1>2. /\ cu \in CursorRec /\ ~cu.trk /\ N(p) = x /\ cu = cur[c] /\ c \in Cursor /\ Count(x) \in Int
      /\ j \in 0 .. Count(x) - 1 /\ j \in Int /\ cu.node \in Node /\ x \in NodeRec
      /\ cur \in [Cursor -> CursorRec] /\ node \in [Node -> NodeRec]
  BY IInvIs DEF Sat, Ready, Tree
<1>3. w \in CursorRec /\ ~w.trk /\ w.node = cu.node /\ w.parent = cu.parent /\ w.pindex = cu.pindex
      /\ w.index = j
  <2>1. b \in BOOLEAN BY DEF Pruning
  <2> HIDE DEF b
  <2> QED BY <1>2, <2>1 DEF CursorRec
<1>4. im = [root |-> root, node |-> node, cur |-> [cur EXCEPT ![c] = w]]
  <2>1. im = [Image EXCEPT !.cur = [Image.cur EXCEPT ![c] = [Image.cur[c] EXCEPT !.ate = b]]] OBVIOUS
  <2>2. w = [cur[c] EXCEPT !.ate = b] BY <1>2
  <2> HIDE DEF w, b
  <2> QED BY <1>1, <2>1, <2>2
<1>5. PICK W : Fixed(p, Image, W) BY QuietFixed
<1> HIDE DEF w, j, b
<1>6. Poised(p, im, W, j)
  <2>1. Image = [root |-> root, node |-> Image.node, cur |-> cur]
        /\ im = [root |-> root, node |-> Image.node, cur |-> [cur EXCEPT ![c] = w]]
        /\ j \in 0 .. Count(node[Cur(p).node])
    BY <1>1, <1>2, <1>4
  <2> QED BY <1>2, <1>3, <1>5, <2>1, PoisedIs
<1>7. /\ Advances(Image, im, W, c) /\ im.cur[c] = w /\ im.node = node /\ im.root = root
      /\ \A n \in Node : n \in W => Solely(lk, p, n)
  BY <1>2, <1>4, <1>6 DEF Poised
<1>8. Seated(im.node, im.cur[c]) BY <1>6 DEF Poised, Divides
<1>9. im.node = [node EXCEPT ![cu.node] = N(p)]
  <2> DEFINE n == cu.node
  <2>1. N(p) = node[n] /\ n \in Node /\ im.node = node BY <1>2, <1>7
  <2> HIDE DEF n
  <2>2. node = [m \in Node |-> node[m]] BY <1>2
  <2>3. [node EXCEPT ![n] = node[n]] = node BY <2>1, <2>2
  <2> QED BY <2>1, <2>3 DEF n
<1> QED BY <1>2, <1>3, <1>7, <1>8, <1>9 DEF Staged, j

(* A change of the leaf the cursor is on, and of nothing else.             *)
LEMMA StageOn ==
  ASSUME IInv, NEW p \in Proc, Sits(p), Sat(p), Upgrade(p) = NULL, NEW im, NEW z, Staged(p, im, z),
         NEW im2, NEW y, Advances(im, im2, {im.cur[Act(p)].node}, Act(p)),
         im2.cur[Act(p)] = im.cur[Act(p)], im2.root = im.root,
         im2.node = [im.node EXCEPT ![Cur(p).node] = y],
         y \in NodeRec, y.type = z.type, y.parent = z.parent
  PROVE  Staged(p, im2, y)
<1> DEFINE c == Act(p)
           cu == Cur(p)
           w == im.cur[c]
           n == cu.node
<1>1. PICK V : Advances(Image, im, V, c) /\ \A m \in Node : m \in V => Solely(lk, p, m) BY DEF Staged
<1>2. /\ im.root = root /\ Seated(im.node, w)
      /\ w.node = n /\ w.parent = cu.parent /\ w.index = cu.index
      /\ im.node = [node EXCEPT ![n] = z]
      /\ z \in NodeRec /\ z.type = node[n].type /\ z.parent = node[n].parent
  BY DEF Staged
<1>3. n \in Node /\ node \in [Node -> NodeRec] /\ n \in Mine(cu) BY NodeAssumption, IInvIs DEF Sat, Tree, Mine
<1> DEFINE V2 == V \union {n}
<1>4. Advances(Image, im2, V2, c)
  <2> DEFINE W == {n}
  <2>1. Advances(im, im2, W, c) BY <1>2
  <2>2. V2 = V \union W OBVIOUS
  <2> HIDE DEF V2, W, c
  <2> QED BY <1>1, <2>1, <2>2, AdvancesTrans
<1>5. \A m \in Node : m \in V2 => Solely(lk, p, m) BY <1>1, <1>3, UpgradeIs
<1>6. im2.node = [node EXCEPT ![n] = y] BY <1>2, <1>3
<1>7. Seated(im2.node, w)
  <2>1. Tree(im.root, im.node) BY <1>1 DEF Advances, Sound
  <2>2. im.node[n] = z BY <1>2, <1>3
  <2>3. im2.node = [im.node EXCEPT ![w.node] = y] /\ y.type = im.node[w.node].type
        /\ y.parent = im.node[w.node].parent
    BY <1>2, <2>2
  <2> DEFINE nd == im.node
             md == im2.node
  <2>4. Tree(im.root, nd) /\ Seated(nd, w) /\ md = [nd EXCEPT ![w.node] = y] /\ y.type = nd[w.node].type
        /\ y.parent = nd[w.node].parent
    BY <1>2, <2>1, <2>3
  <2> HIDE DEF w, nd, md
  <2>5. Seated(md, w) BY <2>4, SeatedStays
  <2> QED BY <2>5 DEF md
<1> HIDE DEF V2
<1> QED BY <1>2, <1>4, <1>5, <1>6, <1>7 DEF Staged

(* What the thread has deleted of its leaf.                                *)
Struck(p, x, i, y) ==
  \E z \in NodeRec :
    /\ z.type = x.type /\ z.parent = x.parent /\ Len(z.elms) = Len(x.elms) /\ z.elms \in Seq(LeafElm)
    /\ IF Adjusts(p, E(x, i))
         THEN Patched(x, i, [E(x, i) EXCEPT !.dtid = DeleteTid(p)], LeafElm, z) ELSE z = x
    /\ IF Destroys(p, E(x, i)) THEN Removed(y.elms, z.elms, i + 1) ELSE y = z
DeletesAt(p, im2, y) ==
  /\ Staged(p, im2, y) /\ Struck(p, N(p), Cur(p).index, y)
(* The leaf with the delete_tid set, or the element taken out, or both.    *)
LEMMA StageTwo ==
  ASSUME IInv, NEW p \in Proc, Sits(p), Sat(p), pr[p].pc = "delete", Upgrade(p) = NULL,
         NEW im0, im0 = [Image EXCEPT !.cur[Act(p)].ate = Pruning(p)],
         NEW e, e = E(N(p), Cur(p).index),
         NEW im1, im1 = IF Adjusts(p, e) THEN AdjustElm(im0, Act(p), DeleteTid(p)) ELSE im0,
         NEW im2, im2 = IF Destroys(p, e) THEN DeleteElm(im1, Act(p)) ELSE im1
  PROVE  \E y : DeletesAt(p, im2, y)
<1> DEFINE c == Act(p)
           cu == Cur(p)
           n == cu.node
           x == N(p)
           i == cu.index
<1>1. /\ x = node[n] /\ n \in Node /\ x \in NodeRec /\ c \in Cursor /\ ~IsInternal(x)
      /\ x.elms \in Seq(LeafElm) /\ Count(x) = Len(x.elms) /\ i \in 0 .. Count(x) - 1
      /\ Doomed(Job(p), e) /\ node \in [Node -> NodeRec] /\ Len(x.elms) \in Nat
  BY IInvIs DEF Sat, Ready, Tree
<1>2. Staged(p, im0, x) BY StageZero
<1>3. DeleteTid(p) \in Tid \/ ~Adjusts(p, e)
  <2>1. Job(p) \in Jobs BY DEF Sits
  <2>2. Op(p) = Job(p).op BY DEF Op, Job
  <2>3. Op(p) \in {"delete", "prune", "rollback"} BY <1>1, <2>2 DEF Doomed
  <2>4. Op(p) = "delete" => Job(p).tid \in 1 .. MaxTid BY <2>1, <2>2, JobIs
  <2>5. Op(p) = "prune" => ~Adjusts(p, e) BY DEF Adjusts
  <2> QED BY <2>3, <2>4, <2>5, ProcAssumption DEF DeleteTid, Tid
<1> DEFINE e1 == [E(x, i) EXCEPT !.dtid = DeleteTid(p)]
<1>4. \E z \in NodeRec : /\ Staged(p, im1, z) /\ z.type = x.type /\ z.parent = x.parent
                         /\ Len(z.elms) = Len(x.elms) /\ z.elms \in Seq(LeafElm)
                         /\ IF Adjusts(p, E(x, i)) THEN Patched(x, i, e1, LeafElm, z) ELSE z = x
  <2>1. CASE ~Adjusts(p, e) BY <1>1, <1>2, <2>1
  <2>2. CASE Adjusts(p, e)
    <3> DEFINE w == im0.cur[c]
               tid == DeleteTid(p)
               z == im1.node[n]
    <3>1. /\ Sound(im0) /\ Seated(im0.node, w) /\ w.node = n /\ w.index = i
          /\ im0.node = [node EXCEPT ![n] = x]
      BY <1>2 DEF Staged, Advances
    <3>2. im0.node[n] = x BY <1>1, <3>1
    <3>3. AdjustOf(im0, c, tid, im1)
      <4>1. tid \in Tid /\ im1 = AdjustElm(im0, c, tid) BY <1>3, <2>2
      <4>2. /\ ~IsInternal(im0.node[w.node]) /\ w.index \in 0 .. Count(im0.node[w.node]) - 1
        BY <1>1, <3>1, <3>2
      <4>3. w = im0.cur[c] OBVIOUS
      <4> DEFINE u == im0.node[w.node]
      <4>4. u = im0.node[w.node] OBVIOUS
      <4> HIDE DEF tid, w, c, u
      <4> QED BY <1>1, <3>1, <4>1, <4>2, <4>3, <4>4, AdjustIs
    <3>4. /\ Advances(im0, im1, {w.node}, c) /\ im1.cur = im0.cur /\ im1.root = im0.root
          /\ Patched(x, i, e1, LeafElm, z)
          /\ im1.node = [im0.node EXCEPT ![n] = z]
      BY <3>1, <3>2, <3>3 DEF AdjustOf
    <3> HIDE DEF z, e1
    <3>5. /\ z \in NodeRec /\ z.type = x.type /\ z.parent = x.parent /\ z.elms \in Seq(LeafElm)
          /\ Len(z.elms) = Len(x.elms)
      BY <3>4 DEF Patched
    <3>6. Staged(p, im1, z)
      <4> HIDE DEF x
      <4> QED BY <1>2, <3>4, <3>5, StageOn
    <3> QED BY <2>2, <3>4, <3>5, <3>6
  <2> QED BY <2>1, <2>2
<1>5. PICK z \in NodeRec : /\ Staged(p, im1, z) /\ z.type = x.type /\ z.parent = x.parent
                           /\ Len(z.elms) = Len(x.elms) /\ z.elms \in Seq(LeafElm)
                           /\ IF Adjusts(p, E(x, i)) THEN Patched(x, i, e1, LeafElm, z) ELSE z = x
  BY <1>4
<1>6. CASE ~Destroys(p, e)
  <2>1. im2 = im1 BY <1>6
  <2>2. Struck(p, x, i, z) BY <1>5, <1>6 DEF Struck
  <2> QED BY <1>5, <2>1, <2>2 DEF DeletesAt
<1>7. CASE Destroys(p, e)
  <2> DEFINE w == im1.cur[c]
             y == im2.node[n]
  <2>1. /\ Sound(im1) /\ Seated(im1.node, w) /\ w.node = n /\ w.index = i
        /\ im1.node = [node EXCEPT ![n] = z]
    BY <1>5 DEF Staged, Advances
  <2>2. im1.node[n] = z BY <1>1, <2>1
  <2>3. DeleteOf(im1, c, im2)
    <3>1. im2 = DeleteElm(im1, c) BY <1>7
    <3>2. ~IsInternal(z) /\ Count(z) = Len(z.elms) BY <1>1, <1>5 DEF IsInternal, Count
    <3>3. /\ ~IsInternal(im1.node[im1.cur[c].node])
          /\ im1.cur[c].index \in 0 .. Count(im1.node[im1.cur[c].node]) - 1
      BY <1>1, <1>5, <2>1, <2>2, <3>2
    <3>4. Sound(im1) /\ Seated(im1.node, im1.cur[c]) /\ c \in Cursor BY <1>1, <2>1
    <3> HIDE DEF c
    <3>5. DeleteOf(im1, c, DeleteElm(im1, c)) BY <3>3, <3>4, DeleteIs
    <3> QED BY <3>1, <3>5
  <2>4. /\ Advances(im1, im2, {w.node}, c) /\ im2.cur[c] = w /\ im2.root = im1.root
        /\ y \in NodeRec /\ y.type = z.type /\ y.parent = z.parent
        /\ Removed(y.elms, z.elms, i + 1)
        /\ im2.node = [im1.node EXCEPT ![n] = y]
    BY <2>1, <2>2, <2>3 DEF DeleteOf
  <2> HIDE DEF y, x
  <2>5. Staged(p, im2, y)
    <3>1. Staged(p, im1, z) BY <1>5
    <3>2. /\ Advances(im1, im2, {im1.cur[Act(p)].node}, Act(p)) /\ im2.cur[Act(p)] = im1.cur[Act(p)]
          /\ im2.root = im1.root /\ im2.node = [im1.node EXCEPT ![Cur(p).node] = y]
          /\ y \in NodeRec /\ y.type = z.type /\ y.parent = z.parent
      BY <2>4
    <3> QED BY <3>1, <3>2, StageOn
  <2>6. Struck(p, x, i, y)
    <3>1. Destroys(p, E(x, i)) BY <1>7 DEF x
    <3> HIDE DEF i, e1
    <3>2. IF Adjusts(p, E(x, i))
          THEN Patched(x, i, [E(x, i) EXCEPT !.dtid = DeleteTid(p)], LeafElm, z) ELSE z = x
      BY <1>5 DEF e1
    <3> QED BY <1>5, <2>4, <3>1, <3>2 DEF Struck
  <2> QED BY <2>5, <2>6 DEF DeletesAt, x
<1> QED BY <1>6, <1>7
(* ... and after it.                                                       *)
Outcome(p, im2, out) ==
  LET c  == Act(p)
      v  == out.img.cur[c]
      md == out.img.node
  IN /\ \E V : Advances(Image, out.img, V, c) /\ \A n \in Node : n \in V => Solely(lk, p, n)
     /\ out.img.root = root /\ KeepsLeaves(im2.node, md, Cur(p).node)
     /\ ~v.trk /\ v.node \in InUse(md) /\ v.index \in 0 .. Count(md[v.node])
     /\ \A n \in Mine(v) \union out.held : n \in Node /\ Solely(lk, p, n) /\ md[n].type # "free"
     /\ out.ex \in BOOLEAN
     /\ out.ex => Seated(md, v) /\ out.up = NULL
     /\ ~out.ex => v.parent = NULL /\ out.up = md[v.node].parent /\ v.node \notin out.held
(* The image after an emptied leaf was removed, or could not be.           *)
LEMMA OutcomeIs ==
  ASSUME IInv, NEW p \in Proc, Sits(p), Sat(p), pr[p].pc = "delete", Upgrade(p) = NULL,
         NEW im2, NEW y, DeletesAt(p, im2, y), NEW b, b => Destroys(p, E(N(p), Cur(p).index)) /\ Count(N(p)) = 1,
         NEW out, out = IF b THEN RemoveNode(im2, Act(p), {n \in Node : Free(n)})
                        ELSE [img |-> im2, ex |-> TRUE, up |-> NULL, held |-> {}]
  PROVE  Outcome(p, im2, out)
<1> DEFINE c == Act(p)
           cu == Cur(p)
           n == cu.node
           x == N(p)
           i == cu.index
           w == im2.cur[c]
           F == {m \in Node : Free(m)}
<1>1. /\ x = node[n] /\ n \in Node /\ x \in NodeRec /\ c \in Cursor /\ ~IsInternal(x)
      /\ x.elms \in Seq(LeafElm) /\ Count(x) = Len(x.elms) /\ i \in 0 .. Count(x) - 1
      /\ node \in [Node -> NodeRec] /\ Len(x.elms) \in Nat /\ LockOK(lk) /\ Tree(root, node)
      /\ Seated(node, cu)
  BY IInvIs DEF Sat, Ready, Tree
<1>2. PICK V : Advances(Image, im2, V, c) /\ \A m \in Node : m \in V => Solely(lk, p, m)
  BY DEF DeletesAt, Staged
<1>3. /\ im2.root = root /\ Seated(im2.node, w)
      /\ w.node = n /\ w.parent = cu.parent /\ w.index = i
      /\ im2.node = [node EXCEPT ![n] = y]
      /\ y \in NodeRec /\ y.type = x.type /\ y.parent = x.parent
  BY <1>1 DEF DeletesAt, Staged
<1>4. /\ im2.node[n] = y /\ ~IsInternal(y) /\ Count(y) = Len(y.elms) BY <1>1, <1>3 DEF IsInternal, Count
<1>5. /\ Len(y.elms) \in {Len(x.elms), Len(x.elms) - 1}
      /\ (Destroys(p, E(x, i)) => Len(y.elms) = Len(x.elms) - 1)
  BY DEF DeletesAt, Struck, Removed
<1>6. Mine(w) = Mine(cu) /\ \A m \in Mine(cu) : m \in Node /\ Solely(lk, p, m)
  BY <1>3, UpgradeIs DEF Mine
<1>7. Sound(im2) /\ Tree(im2.root, im2.node) BY <1>2 DEF Advances, Sound
<1>8. CASE ~b
  <2>1. out.img = im2 /\ out.ex = TRUE /\ out.up = NULL /\ out.held = {} BY <1>8
  <2>2. w.index \in 0 .. Count(im2.node[w.node]) /\ w.node \in InUse(im2.node) /\ ~w.trk
    BY <1>1, <1>3, <1>4, <1>5 DEF Seated
  <2>3. \A m \in Mine(w) : im2.node[m].type # "free"
    <3> DEFINE nd == im2.node
    <3>1. Tree(im2.root, nd) /\ Seated(nd, w) BY <1>3, <1>7
    <3> HIDE DEF w, nd
    <3>2. \A m \in Mine(w) : nd[m].type # "free" BY <3>1, MineIs
    <3> QED BY <3>2 DEF nd
  <2>4. KeepsLeaves(im2.node, im2.node, n) BY DEF KeepsLeaves
  <2> HIDE DEF n
  <2> QED BY <1>2, <1>3, <1>6, <2>1, <2>2, <2>3, <2>4 DEF Outcome, n
<1>9. CASE b
  <2>1. out = RemoveNode(im2, c, F) /\ F \in SUBSET Node BY <1>9
  <2>2. Len(x.elms) = 1 /\ Count(y) = 0
    <3>1. Destroys(p, E(x, i)) /\ Count(x) = 1 BY <1>9
    <3> HIDE DEF x, i
    <3> QED BY <1>1, <1>4, <1>5, <3>1
  <2>3. RemoveOf(im2, c, F, out)
    <3>1. /\ ~IsInternal(im2.node[im2.cur[c].node]) /\ Count(im2.node[im2.cur[c].node]) = 0
          /\ im2.cur[c].index \in 0 .. Count(im2.node[im2.cur[c].node])
      BY <1>1, <1>3, <1>4, <2>2
    <3>2. Seated(im2.node, im2.cur[c]) BY <1>3
    <3> HIDE DEF c, F
    <3> QED BY <1>1, <1>7, <2>1, <3>1, <3>2, RemoveNodeIs
  <2> DEFINE v == out.img.cur[c]
             md == out.img.node
             K == Mine(cu) \union F
  <2>4. /\ \E W \in SUBSET K : Advances(im2, out.img, W, c)
        /\ out.img.root = root
        /\ ~v.trk /\ v.node \in InUse(md) /\ v.index \in 0 .. Count(md[v.node])
        /\ Mine(v) \union out.held \subseteq K
        /\ out.held \subseteq InUse(im2.node) /\ KeepsLeaves(im2.node, md, n)
        /\ out.ex \in BOOLEAN
        /\ out.ex => Seated(md, v) /\ out.up = NULL
        /\ ~out.ex => v.parent = NULL /\ out.up = md[v.node].parent /\ v.node \notin out.held
    BY <1>3, <1>6, <2>3 DEF RemoveOf
  <2>5. \A m \in K : m \in Node /\ Solely(lk, p, m) BY <1>1, <1>6, OwnLock
  <2> HIDE DEF K, v, md, F
  <2>6. PICK W \in SUBSET K : Advances(im2, out.img, W, c) BY <2>4
  <2> DEFINE V2 == V \union W
  <2>7. V2 = V \union W OBVIOUS
  <2> HIDE DEF V2
  <2>8. Advances(Image, out.img, V2, c)
    <3> HIDE DEF c
    <3> QED BY <1>2, <2>6, <2>7, AdvancesTrans
  <2>9. \A m \in Node : m \in V2 => Solely(lk, p, m) BY <1>2, <2>5, <2>7
  <2>10. \A m \in out.held : md[m].type # "free"
    <3>1. \A m \in Node : im2.node[m].type # "free" => md[m].type # "free" BY <2>6 DEF Advances, md
    <3>2. \A m \in InUse(im2.node) : m \in Node /\ im2.node[m].type # "free" BY DEF InUse
    <3> QED BY <2>4, <3>1, <3>2
  <2>11. \A m \in Mine(v) : md[m].type # "free"
    <3>1. Tree(out.img.root, md) BY <2>8 DEF Advances, Sound, md
    <3>2. CASE out.ex BY <2>4, <3>1, <3>2, MineIs
    <3>3. CASE ~out.ex BY <2>4, <3>3 DEF Mine, InUse
    <3> QED BY <2>4, <3>2, <3>3
  <2>12. \A m \in Mine(v) \union out.held : m \in Node /\ Solely(lk, p, m) /\ md[m].type # "free"
    BY <2>4, <2>5, <2>10, <2>11
  <2> QED BY <2>4, <2>8, <2>9, <2>12 DEF Outcome, v, md
<1> QED BY <1>8, <1>9
(* hammer_delete_at_cursor.                                                *)
LEMMA DeleteStep ==
  ASSUME IInv, NEW p \in Proc, Delete(p)
  PROVE  IInv'
<1> DEFINE c == Act(p)
           cu == Cur(p)
           x == N(p)
           e == E(x, cu.index)
           e1 == [e EXCEPT !.dtid = DeleteTid(p)]
           prop == Adjusts(p, e) /\ e1.dtid > x.mtid
           im0 == [Image EXCEPT !.cur[c].ate = Pruning(p)]
           im1 == IF Adjusts(p, e) THEN AdjustElm(im0, c, e1.dtid) ELSE im0
           im2 == IF Destroys(p, e) THEN DeleteElm(im1, c) ELSE im1
           b == Destroys(p, e) /\ Count(x) = 1
           out == IF b THEN RemoveNode(im2, c, {n \in Node : Free(n)})
                  ELSE [img |-> im2, ex |-> TRUE, up |-> NULL, held |-> {}]
           v == out.img.cur[c]
           next == IF prop THEN "push" ELSE IF Iterating(p) THEN "more" ELSE "fin"
           st == AwaitParent(pr[p], v.node, out.up, next)
<1>1. /\ pr[p].pc = "delete"
      /\ \/ Upgrade(p) # NULL /\ Restart(p, Upgrade(p)) /\ UNCHANGED tree
         \/ /\ Upgrade(p) = NULL /\ Becomes(out.img)
            /\ IF out.ex THEN Lock(p, Mine(v), {}) ELSE Lock(p, out.held, {v.node})
            /\ pr' = [pr EXCEPT ![p] = st]
  BY DEF Delete, At
<1>2. pr[p].pc \in Busy /\ pr[p].pc # "idle" /\ pr[p].pc # "prop" BY <1>1 DEF Busy
<1>3. Sits(p) /\ Sat(p) BY <1>2, SitsIs, SatIs
<1>4. /\ ~IsInternal(x) /\ cu.index \in 0 .. Count(x) - 1 /\ x.elms \in Seq(LeafElm)
      /\ Count(x) = Len(x.elms) /\ LockOK(lk)
  BY <1>1, <1>3, IInvIs DEF Sat, Ready
<1>5. e \in LeafElm BY <1>4 DEF E
<1>6. CASE Upgrade(p) # NULL /\ Restart(p, Upgrade(p)) /\ UNCHANGED tree
  <2>1. Upgrade(p) \in Node BY <1>3, <1>6, UpgradeIs
  <2>2. root' = root /\ node' = node BY <1>6 DEF tree
  <2> DEFINE k == E(N(p), Cur(p).index).base
  <2>3. k.k \in 0 .. MaxKey /\ k \in AnyKey /\ k.t # 0
    <3>1. k \in [k : 0 .. MaxKey, t : 1 .. MaxTid] BY <1>5 DEF LeafElm
    <3> HIDE DEF k
    <3> QED BY <3>1, ProcAssumption DEF AnyKey, Tid
  <2>4. k = E(N(p), Cur(p).index).base OBVIOUS
  <2> HIDE DEF k
  <2> QED BY <1>2, <1>3, <1>6, <2>1, <2>2, <2>3, <2>4, RestartQuietly
<1>7. CASE /\ Upgrade(p) = NULL /\ Becomes(out.img)
           /\ IF out.ex THEN Lock(p, Mine(v), {}) ELSE Lock(p, out.held, {v.node})
           /\ pr' = [pr EXCEPT ![p] = st]
  <2>1. e1.dtid = DeleteTid(p) BY <1>5 DEF LeafElm
  <2>2. \E y : DeletesAt(p, im2, y)
    <3>1. im0 = [Image EXCEPT !.cur[Act(p)].ate = Pruning(p)] OBVIOUS
    <3>2. e = E(N(p), Cur(p).index) OBVIOUS
    <3> HIDE DEF im0
    <3>3. im1 = IF Adjusts(p, e) THEN AdjustElm(im0, Act(p), DeleteTid(p)) ELSE im0 BY <2>1
    <3> HIDE DEF im1
    <3>4. im2 = IF Destroys(p, e) THEN DeleteElm(im1, Act(p)) ELSE im1 OBVIOUS
    <3> HIDE DEF im2, e
    <3> QED BY <1>1, <1>3, <1>7, <3>1, <3>2, <3>3, <3>4, StageTwo
  <2>3. PICK y : DeletesAt(p, im2, y) BY <2>2
  <2> HIDE DEF im2
  <2>4. Outcome(p, im2, out)
    <3>1. b => Destroys(p, E(N(p), Cur(p).index)) /\ Count(N(p)) = 1 OBVIOUS
    <3>2. out = IF b THEN RemoveNode(im2, Act(p), {n \in Node : Free(n)})
                ELSE [img |-> im2, ex |-> TRUE, up |-> NULL, held |-> {}]
      OBVIOUS
    <3> HIDE DEF b, out
    <3> QED BY <1>1, <1>3, <1>7, <2>3, <3>1, <3>2, OutcomeIs
  <2>5. next \in {"push", "more", "fin"} OBVIOUS
  <2>6. next \in Busy \ {"insert", "delete"} /\ next # "prop" BY <2>5 DEF Busy
  <2> DEFINE md == out.img.node
  <2> HIDE DEF next
  <2>7. PICK V : Advances(Image, out.img, V, c) /\ \A n \in Node : n \in V => Solely(lk, p, n)
    BY <2>4 DEF Outcome
  <2>8. /\ out.img.root = root
        /\ ~v.trk /\ v.node \in InUse(md) /\ v.index \in 0 .. Count(md[v.node])
        /\ \A n \in Mine(v) \union out.held : n \in Node /\ Solely(lk, p, n) /\ md[n].type # "free"
        /\ out.ex => Seated(md, v) /\ out.up = NULL
        /\ ~out.ex => v.parent = NULL /\ out.up = md[v.node].parent /\ v.node \notin out.held
    BY <2>4 DEF Outcome
  <2>9. Ready(md, v, next, Job(p)) BY <2>5, <2>8 DEF Ready
  <2>10. root' = out.img.root /\ node' = md /\ cur' = out.img.cur /\ pr' = [pr EXCEPT ![p] = st]
    BY <1>7 DEF Becomes
  <2>11. /\ pr[p] \in State /\ Working(node, pr[p]) /\ c = <<p, 1>> /\ cur[<<p, 2>>] = NoCursor
         /\ c \in Cursor
    BY <1>2, <1>3 DEF Sits
  <2>12. v.node \in Mine(v) BY <2>8, NodeAssumption DEF Mine, InUse
  <2>13. CASE out.ex
    <3> DEFINE M == Mine(v)
    <3>1. Lock(p, M, {}) BY <1>7, <2>13
    <3>2. st = [pr[p] EXCEPT !.pc = next] BY <2>8, <2>13 DEF AwaitParent
    <3>3. M \subseteq Node /\ \A n \in M : Solely(lk, p, n) /\ md[n].type # "free" BY <2>8
    <3>4. Seated(md, v) BY <2>8, <2>13
    <3> HIDE DEF out, v, st, md
    <3>5. st \in State /\ st.pc = next /\ st.job = Job(p) /\ Working(node, st)
      <4>1. next \in Busy BY <2>6
      <4> QED BY <1>2, <1>3, <3>2, <4>1, GoesOn
    <3>6. Mine(v) \subseteq M OBVIOUS
    <3> HIDE DEF M
    <3>7. Takes(lk, lk', p, M) BY <1>4, <3>1, <3>3, OwnsThese
    <3>8. Settles(p, out.img, V, M, st)
      <4>1. Becomes(out.img) BY <1>7
      <4>2. out.img.cur[Act(p)] = v /\ out.img.node = md BY DEF v, md
      <4> QED BY <2>6, <2>7, <2>9, <2>10, <3>3, <3>4, <3>5, <3>6, <3>7, <4>1, <4>2 DEF Settles
    <3> QED BY <1>2, <3>8, SettleStep
  <2>14. CASE ~out.ex
    <3> DEFINE H == out.held
               S == {v.node}
               M == H \union S
    <3>1. Lock(p, H, S) BY <1>7, <2>14
    <3>2. st = AwaitParent(pr[p], v.node, md[v.node].parent, next) BY <2>8, <2>14
    <3>3. H \in SUBSET Node /\ S \in SUBSET Node BY <2>8, <2>12
    <3>4. \A n \in H : n \notin S /\ Solely(lk, p, n) BY <2>8, <2>14
    <3>5. \A n \in S : Shares(lk, p, n) BY <2>8, <2>12 DEF Solely, Shares
    <3>6. \A n \in M : md[n].type # "free" BY <2>8, <2>12
    <3>7. v.node \in M OBVIOUS
    <3>8. v.parent = NULL BY <2>8, <2>14
    <3>9. M = H \union S OBVIOUS
    <3> HIDE DEF out, v, st, md, H, S, M
    <3>10. Takes(lk, lk', p, M) BY <1>4, <2>11, <3>1, <3>3, <3>4, <3>5, <3>9, LockIs
    <3>11. Has(lk', p, v.node) BY <3>7, <3>10 DEF Takes
    <3>12. md \in [Node -> NodeRec] /\ out.img.cur \in [Cursor -> CursorRec]
      BY <2>7 DEF Advances, Sound, Tree, md
    <3>13. Awaits(md, lk', p, v, pr[p], next, st)
      <4>1. Ready(md, v, next, pr[p].job) BY <2>9 DEF Job
      <4> QED BY <2>6, <2>8, <2>11, <3>2, <3>8, <3>11, <3>12, <4>1, AwaitIs
    <3>14. /\ st \in State /\ Stands(md, lk', p, v, st) /\ Goal(st) = next /\ ~Out(st)
           /\ Rest(pr[p], st) /\ st.pc \in {next, "parent"}
      BY <3>13 DEF Awaits
    <3>15. Working(md, st)
      <4>1. st.pc # "first" BY <2>5, <3>14
      <4>2. \A n \in Node : node[n].type # "free" => md[n].type # "free" BY <2>7 DEF Advances, Image, md
      <4> QED BY <1>2, <2>11, <3>14, <4>1, <4>2, WorkingOn
    <3>16. Turn(p, c, v, st)
      <4> HIDE DEF c
      <4> QED BY <2>6, <2>11, <3>14 DEF Turn
    <3>17. cur' = [out.img.cur EXCEPT ![c] = v] /\ v \in CursorRec
      <4> DEFINE C == out.img.cur
      <4>1. C \in [Cursor -> CursorRec] /\ v = C[c] /\ cur' = C BY <2>10, <3>12 DEF v
      <4> HIDE DEF C, c
      <4>2. C = [d \in Cursor |-> C[d]] BY <4>1
      <4>3. cur' = [C EXCEPT ![c] = v] /\ v \in CursorRec BY <2>11, <4>1, <4>2
      <4> QED BY <4>3 DEF C
    <3>18. TrackedAt(md, v) BY <2>8 DEF TrackedAt
    <3>19. out.img.node = md BY DEF md
    <3>20. Goes(p, c, out.img, V, v, M, st)
      BY <2>7, <2>10, <3>6, <3>10, <3>14, <3>15, <3>16, <3>17, <3>18, <3>19 DEF Goes
    <3> QED BY <3>20, GoesStep
  <2> QED BY <2>13, <2>14
<1> QED BY <1>1, <1>6, <1>7
-----------------------------------------------------------------------------
(* All that a thread is before its first job.                              *)
LEMMA IdleIs ==
  ASSUME NEW js \in Seq(SUBSET Jobs), NEW st, st = [Idle EXCEPT !.jobs = js]
  PROVE  st \in State /\ st.pc = "idle" /\ st.cache = NULL
<1>1. Idle \in State /\ Idle.pc = "idle" /\ Idle.cache = NULL
  <2>1. "idle" \in Word /\ "" \in Word BY DEF Word
  <2>2. RootBeg \in AnyKey /\ RootEnd \in AnyKey BY RootKeys
  <2>3. 0 \in Tid /\ 0 \in Nat BY ProcAssumption DEF Tid
  <2>4. <<>> \in Seq(SUBSET Jobs) /\ NULL \in AnyNode /\ FALSE \in BOOLEAN BY DEF AnyNode
  <2> HIDE DEF RootBeg, RootEnd
  <2> QED BY <2>1, <2>2, <2>3, <2>4 DEF Idle, State
<1> QED BY <1>1 DEF State

(* The invariant holds when the file system has been mounted.              *)
LEMMA InitIInv == Init => IInv
<1> SUFFICES ASSUME Init PROVE IInv OBVIOUS
<1>1. /\ cur = [c \in Cursor |-> NoCursor]
      /\ lk = [n \in Node |-> [ex |-> NULL, sh |-> {}]]
  BY DEF Init
<1>2. PICK sc \in Scenarios :
        root = sc.root /\ node = sc.node /\ pr = [p \in Proc |-> [Idle EXCEPT !.jobs = sc.jobs[p]]]
  BY DEF Init
<1>3. /\ sc.node \in [Node -> NodeRec] /\ Kinds(sc.node) /\ WellFormed(sc.root, sc.node)
      /\ \A p \in Proc : sc.jobs[p] \in Seq(SUBSET Jobs)
  BY ScenarioAssumption
<1>4. Tree(root, node) BY <1>2, <1>3, HangsTree
<1>5. NoCursor \in CursorRec BY DEF NoCursor, CursorRec, AnyNode
<1>6. cur \in [Cursor -> CursorRec] BY <1>1, <1>5
<1>7. ~NoCursor.trk /\ NoCursor.node = NULL BY DEF NoCursor
<1>8. Tracked(node, cur) BY <1>1, <1>7 DEF Tracked, TrackedAt
<1>9. LockOK(lk) BY <1>1 DEF LockOK, LockRec
<1>10. Untouched(node, lk) BY <1>1 DEF Untouched
<1>11. ASSUME NEW p \in Proc
       PROVE  /\ pr[p] \in State /\ pr[p].pc = "idle" /\ pr[p].cache = NULL
              /\ pr[p] = [Idle EXCEPT !.jobs = sc.jobs[p]]
  <2>1. pr[p] = [Idle EXCEPT !.jobs = sc.jobs[p]] BY <1>2
  <2> QED BY <1>3, <2>1, IdleIs
<1>12. pr \in [Proc -> State]
  <2>1. pr = [p \in Proc |-> pr[p]] BY <1>2
  <2> QED BY <1>11, <2>1
<1>13. ASSUME NEW p \in Proc PROVE Placed(node, cur, lk, p, pr[p]) /\ Working(node, pr[p])
  <2>1. cur[<<p, 1>>] = NoCursor /\ cur[<<p, 2>>] = NoCursor BY <1>1 DEF Cursor
  <2>2. Out(pr[p]) /\ ~Away(pr[p]) /\ Goal(pr[p]) # "prop" BY <1>11 DEF Out, Away, Goal
  <2>3. Stands(node, lk, p, cur[Using(cur, p)], pr[p]) BY <1>11, <2>2 DEF Stands, Busy
  <2>4. Placed(node, cur, lk, p, pr[p]) BY <1>7, <2>1, <2>2, <2>3 DEF Placed
  <2>5. Working(node, pr[p]) BY <1>11 DEF Working
  <2> QED BY <2>4, <2>5
<1> QED BY <1>4, <1>6, <1>8, <1>9, <1>10, <1>12, <1>13, IInvIs
-----------------------------------------------------------------------------
(* Every step keeps it.                                                    *)
LEMMA NextIInv == IInv /\ [Next]_vars => IInv'
<1> SUFFICES ASSUME IInv, [Next]_vars PROVE IInv' OBVIOUS
<1>1. CASE UNCHANGED vars BY <1>1 DEF vars, IInv, TypeOK, Locks
<1>2. ASSUME NEW p \in Proc,
             \/ Begin(p) \/ InitCursor(p) \/ InitLocked(p) \/ ParentLocked(p)
             \/ ChildLocked(p) \/ DeadlockClears(p)
      PROVE  IInv'
  BY <1>2, BeginStep, InitCursorStep, InitLockedStep, ParentLockedStep, ChildLockedStep,
     DeadlockClearsStep
<1>3. ASSUME NEW p \in Proc,
             \/ SearchUp(p) \/ SearchGap(p) \/ SearchDeadlock(p) \/ SearchDown(p)
             \/ SearchFound(p) \/ SearchNotFound(p) \/ Insert(p) \/ Delete(p)
      PROVE  IInv'
  BY <1>3, SearchUpStep, SearchGapStep, SearchDeadlockStep, SearchDownStep, SearchFoundStep,
     SearchNotFoundStep, InsertStep, DeleteStep
<1>4. ASSUME NEW p \in Proc,
             Yield(p) \/ Relock(p) \/ Push(p) \/ PropagateDeadlock(p) \/ Propagate(p)
      PROVE  IInv'
  BY <1>4, YieldStep, RelockStep, PushStep, PropagateDeadlockStep, PropagateStep
<1>5. ASSUME NEW p \in Proc,
             \/ IterUp(p) \/ IterEnd(p) \/ IterFilter(p) \/ IterDown(p) \/ IterLeaf(p)
             \/ Move(p) \/ End(p)
      PROVE  IInv'
  BY <1>5, IterUpStep, IterEndStep, IterFilterStep, IterDownStep, IterLeafStep, MoveStep, EndStep
<1>6. CASE Finished BY <1>1, <1>6 DEF Finished
<1> QED BY <1>1, <1>2, <1>3, <1>4, <1>5, <1>6 DEF Next

(* What a reachable state is like: each thread's cursor is where its next  *)
(* step relies on it to be, on a tree that is one.                         *)
THEOREM Invariance == Spec => []IInv
<1>1. Init => IInv BY InitIInv
<1>2. IInv /\ [Next]_vars => IInv' BY NextIInv
<1> QED BY <1>1, <1>2, PTL DEF Spec

(* The states are what the code's types and the elements' sizes allow.     *)
THEOREM TypeCorrect == Spec => []TypeOK
<1>1. IInv => TypeOK BY DEF IInv
<1> QED BY <1>1, Invariance, PTL

(* Splits, collapses, moves and corrected boundaries keep the tree well    *)
(* formed between any two points where a thread can wait for a lock.       *)
THEOREM WellFormedTree == Spec => []TreeOK
<1>1. IInv => TreeOK
  <2> SUFFICES ASSUME IInv PROVE TreeOK OBVIOUS
  <2>1. Tree(root, node) BY IInvIs
  <2> QED BY <2>1, TreeHangs DEF TreeOK
<1> QED BY <1>1, Invariance, PTL

(* Where a cursor can be.                                                  *)
InTree(nd, n) == n \in InUse(nd) \union {NULL}
(* The nodes of a cursor are in the tree.                                  *)
LEMMA StandsInTree ==
  ASSUME NEW rt, NEW nd, Tree(rt, nd), NEW L, NEW p, NEW cu, TrackedAt(nd, cu), NEW st \in State,
         Stands(nd, L, p, cu, st), Out(st) => cu = NoCursor
  PROVE  /\ InTree(nd, cu.node) /\ InTree(nd, cu.parent)
         /\ st.pc \in {"parent", "child"} => InTree(nd, st.want)
<1>1. CASE cu.trk
  <2>1. InTree(nd, cu.node) /\ InTree(nd, cu.parent) BY <1>1 DEF TrackedAt, InTree
  <2>2. st.pc \notin {"parent", "child"} BY <1>1 DEF Stands, GoesUp, GoesDown
  <2> QED BY <2>1, <2>2
<1>2. CASE Out(st)
  <2>1. cu.node = NULL /\ cu.parent = NULL BY <1>2 DEF NoCursor
  <2>2. st.pc \notin {"parent", "child"} BY <1>2 DEF Out
  <2> QED BY <2>1, <2>2 DEF InTree
<1>3. CASE st.pc \in Busy
  <2>1. cu.node \in InUse(nd) /\ cu.parent = nd[cu.node].parent
    BY <1>3 DEF Stands, AtWork, Seated
  <2>2. InTree(nd, cu.parent) BY <2>1, Up DEF InTree
  <2>3. st.pc \notin {"parent", "child"} BY <1>3 DEF Busy
  <2> QED BY <2>1, <2>2, <2>3 DEF InTree
<1>4. CASE st.pc = "parent"
  <2>1. cu.node \in InUse(nd) /\ cu.parent = NULL /\ st.want = nd[cu.node].parent
    BY <1>4 DEF Stands, GoesUp
  <2>2. InTree(nd, st.want) BY <2>1, Up DEF InTree
  <2> QED BY <2>1, <2>2 DEF InTree
<1>5. CASE st.pc = "child"
  <2>1. /\ cu.node = NULL /\ cu.parent \in InUse(nd) /\ IsInternal(nd[cu.parent])
        /\ cu.pindex \in 0 .. Count(nd[cu.parent]) - 1
        /\ st.want = E(nd[cu.parent], cu.pindex).sub
    BY <1>5 DEF Stands, GoesDown
  <2>2. InTree(nd, st.want) BY <2>1, Down DEF InTree
  <2> QED BY <2>1, <2>2 DEF InTree
<1>6. cu.trk \/ Out(st) \/ st.pc \in Busy \/ st.pc = "parent" \/ st.pc = "child"
  BY DEF Stands
<1> QED BY <1>1, <1>2, <1>3, <1>4, <1>5, <1>6

(* A thread never works at, or waits for, a node that has been taken out   *)
(* of the tree.                                                            *)
THEOREM NoStaleNodes == Spec => []NoStaleNode
<1>1. IInv => NoStaleNode
  <2> SUFFICES ASSUME IInv PROVE NoStaleNode OBVIOUS
  <2>1. /\ Tree(root, node) /\ Tracked(node, cur) /\ pr \in [Proc -> State]
        /\ \A p \in Proc : Placed(node, cur, lk, p, pr[p])
    BY IInvIs
  <2>2. ASSUME NEW p \in Proc
        PROVE  /\ InTree(node, cur[<<p, 1>>].node) /\ InTree(node, cur[<<p, 1>>].parent)
               /\ InTree(node, cur[<<p, 2>>].node) /\ InTree(node, cur[<<p, 2>>].parent)
               /\ pr[p].pc \in {"parent", "child"} => InTree(node, pr[p].want)
    <3>1. <<p, 1>> \in Cursor /\ <<p, 2>> \in Cursor BY DEF Cursor
    <3>2. TrackedAt(node, cur[<<p, 1>>]) /\ TrackedAt(node, cur[<<p, 2>>])
      BY <2>1, <3>1 DEF Tracked
    <3>3. /\ Out(pr[p]) => cur[<<p, 1>>] = NoCursor /\ cur[<<p, 2>>] = NoCursor
          /\ Stands(node, lk, p, cur[Using(cur, p)], pr[p])
          /\ cur[<<p, 2>>].node = NULL => cur[<<p, 2>>] = NoCursor
          /\ cur[<<p, 2>>].node # NULL => cur[<<p, 1>>].trk
      BY <2>1 DEF Placed
    <3>4. CASE cur[<<p, 2>>].node = NULL
      <4>1. Stands(node, lk, p, cur[<<p, 1>>], pr[p]) BY <3>3, <3>4 DEF Using
      <4>2. /\ InTree(node, cur[<<p, 1>>].node) /\ InTree(node, cur[<<p, 1>>].parent)
            /\ pr[p].pc \in {"parent", "child"} => InTree(node, pr[p].want)
        BY <2>1, <3>2, <3>3, <4>1, StandsInTree
      <4>3. cur[<<p, 2>>].parent = NULL BY <3>3, <3>4 DEF NoCursor
      <4> QED BY <3>4, <4>2, <4>3 DEF InTree
    <3>5. CASE cur[<<p, 2>>].node # NULL
      <4>1. Stands(node, lk, p, cur[<<p, 2>>], pr[p]) BY <3>3, <3>5 DEF Using
      <4>2. /\ InTree(node, cur[<<p, 2>>].node) /\ InTree(node, cur[<<p, 2>>].parent)
            /\ pr[p].pc \in {"parent", "child"} => InTree(node, pr[p].want)
        BY <2>1, <3>2, <3>3, <4>1, StandsInTree
      <4>3. InTree(node, cur[<<p, 1>>].node) /\ InTree(node, cur[<<p, 1>>].parent)
        BY <3>2, <3>3, <3>5 DEF TrackedAt, InTree
      <4> QED BY <4>2, <4>3
    <3> QED BY <3>4, <3>5
  <2>3. ASSUME NEW c \in Cursor PROVE InTree(node, cur[c].node) /\ InTree(node, cur[c].parent)
    <3>1. PICK p \in Proc : c = <<p, 1>> \/ c = <<p, 2>> BY DEF Cursor
    <3> QED BY <2>2, <3>1
  <2> DEFINE A == UNION {{cur[c].node, cur[c].parent} : c \in Cursor}
             W == {pr[p].want : p \in {q \in Proc : pr[q].pc \in {"parent", "child"}}}
  <2>4. ASSUME NEW x \in A PROVE InTree(node, x)
    <3>1. PICK c \in Cursor : x \in {cur[c].node, cur[c].parent} OBVIOUS
    <3> QED BY <2>3, <3>1
  <2>5. ASSUME NEW x \in W PROVE InTree(node, x)
    <3>1. PICK p \in Proc : pr[p].pc \in {"parent", "child"} /\ x = pr[p].want OBVIOUS
    <3> QED BY <2>2, <3>1
  <2>6. A \union W \subseteq Used \union {NULL}
    <3> HIDE DEF A, W
    <3> QED BY <2>4, <2>5 DEF InTree, Used
  <2> QED BY <2>6, Zenon DEF NoStaleNode
<1> QED BY <1>1, Invariance, PTL
-----------------------------------------------------------------------------
(* What the steps do to the records.                                       *)
RecordsOf(nd) == UNION {ToSet(nd[n].elms) : n \in {m \in InUse(nd) : ~IsInternal(nd[m])}}
(* The records of the leaves, as a set.                                    *)
LEMMA RecordsAre ==
  ASSUME NEW nd, nd \in [Node -> NodeRec], Kinds(nd)
  PROVE  \A e : (e \in RecordsOf(nd)) <=> Holds(nd, e)
<1>1. ASSUME NEW n, Leaf(nd, n) PROVE DOMAIN nd[n].elms = 1 .. Len(nd[n].elms)
  <2>1. nd[n].elms \in Seq(LeafElm) BY <1>1, Shape DEF Leaf
  <2> QED BY <2>1
<1>2. ASSUME NEW e, e \in RecordsOf(nd) PROVE Holds(nd, e)
  <2>1. PICK n \in {m \in InUse(nd) : ~IsInternal(nd[m])} : e \in ToSet(nd[n].elms)
    BY <1>2 DEF RecordsOf
  <2>2. Leaf(nd, n) BY DEF Leaf
  <2> QED BY <1>1, <2>1, <2>2 DEF Holds, ToSet
<1>3. ASSUME NEW e, Holds(nd, e) PROVE e \in RecordsOf(nd)
  <2>1. PICK n : Leaf(nd, n) /\ \E i \in 1 .. Len(nd[n].elms) : nd[n].elms[i] = e BY <1>3 DEF Holds
  <2>2. e \in ToSet(nd[n].elms) BY <1>1, <2>1 DEF ToSet
  <2>3. n \in {m \in InUse(nd) : ~IsInternal(nd[m])} BY <2>1 DEF Leaf
  <2> QED BY <2>2, <2>3 DEF RecordsOf
<1> QED BY <1>2, <1>3

(* The records the abstract index has.                                     *)
LEMMA RecordsNow ==
  ASSUME IInv
  PROVE  \A e : (e \in Records) <=> Holds(node, e)
<1>1. Records = RecordsOf(node) BY DEF Records, RecordsOf, Used
<1>2. node \in [Node -> NodeRec] /\ Kinds(node) BY IInvIs DEF Tree
<1> QED BY <1>1, <1>2, RecordsAre
(* The records it has next.                                                *)
LEMMA RecordsNext ==
  ASSUME IInv'
  PROVE  \A e : (e \in Records') <=> Holds(node', e)
<1>1. Records' = RecordsOf(node') BY DEF Records, RecordsOf, Used
<1>2. node' \in [Node -> NodeRec] /\ Kinds(node') BY DEF IInv, TypeOK
<1> QED BY <1>1, <1>2, RecordsAre
(* Leaves with the same records are the same index.                        *)
LEMMA RecordsKept ==
  ASSUME IInv, IInv', KeepsRecords(node, node')
  PROVE  Records' = Records
<1>1. ASSUME NEW e PROVE (e \in Records') <=> (e \in Records)
  BY RecordsNow, RecordsNext DEF KeepsRecords
<1>2. Records' = {e \in Records' : TRUE} /\ Records = {e \in Records : TRUE} OBVIOUS
<1> QED BY <1>1, <1>2

(* ... nothing, when only internal nodes change, ...                       *)
LEMMA FixKeeps ==
  ASSUME NEW p \in Proc, NEW im, NEW W, Fixed(p, im, W), IsInternal(N(p)), Sat(p)
  PROVE  KeepsRecords(node, im.node)
<1> DEFINE V == {Cur(p).node}
<1>1. /\ im.node[Cur(p).node].type = node[Cur(p).node].type
      /\ \A m \in Node : m # Cur(p).node => im.node[m] = node[m]
  BY DEF Fixed
<1>2. N(p) = node[Cur(p).node] BY DEF N
<1>3. \A m \in Node : m \in V => ~Leaf(node, m) /\ ~Leaf(im.node, m)
  BY <1>1, <1>2 DEF Leaf, IsInternal
<1>4. \A m \in Node : m \notin V => im.node[m].type = node[m].type /\ im.node[m].elms = node[m].elms
  BY <1>1
<1> HIDE DEF V
<1> QED BY <1>3, <1>4, InternalKeeps

(* A search that gives up changes no record.                               *)
LEMMA SearchDeadlockKeeps ==
  ASSUME IInv, NEW p \in Proc, SearchDeadlock(p)
  PROVE  KeepsRecords(node, node')
<1>1. pr[p].pc = "search" /\ IsInternal(N(p)) BY DEF SearchDeadlock, AtInternal, At
<1>2. Sits(p) /\ Sat(p) BY <1>1, SitsIs, SatIs DEF Busy
<1>3. CASE node' = node BY <1>3, KeepsSame
<1>4. CASE ~FixBlocked(p) /\ node' = FixGap(p).node
  <2>1. PICK W : Fixed(p, FixGap(p), W) BY <1>1, <1>2, <1>4, FixIs DEF FixBlocked
  <2>2. KeepsRecords(node, FixGap(p).node) BY <1>1, <1>2, <2>1, FixKeeps
  <2> QED BY <1>4, <2>2
<1> QED BY <1>3, <1>4 DEF SearchDeadlock, tree

(* A propagated mirror_tid changes no record.                              *)
LEMMA PropagateKeeps ==
  ASSUME IInv, NEW p \in Proc, Propagate(p)
  PROVE  KeepsRecords(node, node')
<1> DEFINE n == Cur(p).node
           x == node[n]
           y == Marked(x, Cur(p).index, pr[p].tid)
<1>1. pr[p].pc = "prop" BY DEF Propagate, At
<1>2. Sits(p) /\ Sat(p) BY <1>1, SitsIs, SatIs DEF Busy
<1>3. n \in Node /\ x \in NodeRec /\ N(p) = x /\ node \in [Node -> NodeRec] BY <1>2, IInvIs DEF Sat, Tree
<1>4. CASE node' = node BY <1>4, KeepsSame
<1>5. CASE IsInternal(x) /\ node' = [node EXCEPT ![n] = y]
  <2> DEFINE V == {n}
  <2>1. y.type = x.type BY <1>3 DEF Marked, NodeRec
  <2> HIDE DEF y
  <2>2. \A m \in Node : m \in V => ~Leaf(node, m) /\ ~Leaf(node', m)
    BY <1>3, <1>5, <2>1 DEF Leaf, IsInternal
  <2>3. \A m \in Node : m \notin V => node'[m].type = node[m].type /\ node'[m].elms = node[m].elms
    BY <1>3, <1>5
  <2> HIDE DEF V
  <2> QED BY <2>2, <2>3, InternalKeeps
<1>6. \/ node' = node
      \/ IsInternal(x) /\ node' = [node EXCEPT ![n] = y]
  BY <1>3 DEF Propagate
<1> QED BY <1>4, <1>5, <1>6

(* ... nothing, when a node is split, ...                                  *)
LEMMA SearchDownKeeps ==
  ASSUME IInv, NEW p \in Proc, SearchDown(p)
  PROVE  KeepsRecords(node, node')
<1> DEFINE c == Act(p)
           cu == Cur(p)
           x == node[cu.node]
           j == PushIndex(p)
           w == [cu EXCEPT !.index = j]
           im == FixGap(p)
           img == [im EXCEPT !.cur[c].index = j]
           split == MustSplit(p) /\ HasSpace(p)
           im2 == IF split THEN SplitImage(p, img) ELSE img
<1>1. /\ pr[p].pc = "search" /\ IsInternal(N(p)) /\ ~NoRoomHere(p)
      /\ Gap(p) => Upgrade(p) = NULL
      /\ MustSplit(p) => SplitBlocked(p) = NULL
      /\ node' = im2.node
  BY DEF SearchDown, AtInternal, At, FixBlocked, CursorDown
<1>2. pr[p].pc \in Busy /\ pr[p].pc # "prop" /\ pr[p].pc # "idle" BY <1>1 DEF Busy
<1>3. Sits(p) /\ Sat(p) BY <1>2, SitsIs, SatIs
<1>4. /\ cu \in CursorRec /\ ~cu.trk /\ N(p) = x /\ cu = cur[c] /\ c \in Cursor /\ Count(x) \in Int
  BY <1>3 DEF Sat
<1>5. j \in 0 .. Count(x) - 1 /\ j \in Int /\ j \in 0 .. Count(x)
  <2>1. j \in 0 .. Count(x) - 1 BY <1>1, <1>3, <1>4, PushIndexIs
  <2> QED BY <1>4, <2>1
<1>6. PICK W : Fixed(p, im, W) BY <1>1, <1>3, FixIs
<1>7. im = [root |-> root, node |-> im.node, cur |-> cur] BY FixGapIs
<1>8. w \in CursorRec /\ ~w.trk /\ w.node = cu.node /\ w.parent = cu.parent /\ w.pindex = cu.pindex /\ w.index = j
  BY <1>4, <1>5 DEF CursorRec
<1>9. img = [root |-> root, node |-> im.node, cur |-> [cur EXCEPT ![c] = w]]
  <2> HIDE DEF im
  <2>1. im.cur = cur /\ im.root = root BY <1>7
  <2>2. img = [im EXCEPT !.cur[c].index = j] OBVIOUS
  <2>3. img = [im EXCEPT !.cur = [im.cur EXCEPT ![c] = [im.cur[c] EXCEPT !.index = j]]] BY <2>2
  <2>4. w = [cur[c] EXCEPT !.index = j] BY <1>4
  <2> HIDE DEF img, w, j
  <2> QED BY <1>7, <2>1, <2>3, <2>4
<1> HIDE DEF im, img, w, j
<1>10. Poised(p, img, W, j) BY <1>3, <1>4, <1>5, <1>6, <1>7, <1>8, <1>9, PoisedIs
<1>11. KeepsRecords(node, im.node) BY <1>1, <1>3, <1>6, FixKeeps
<1>12. img.node = im.node BY <1>9
<1>13. CASE split
  <2>1. im2 = SplitImage(p, img) BY <1>13
  <2> HIDE DEF im2
  <2>2. Divides(p, img) BY <1>10 DEF Poised
  <2>3. SplitOf(img, c, Key(p), im2) BY <1>1, <1>2, <1>3, <1>13, <2>1, <2>2, SplitImageIs
  <2>4. KeepsRecords(img.node, im2.node) BY <2>3 DEF SplitOf
  <2> QED BY <1>1, <1>11, <1>12, <2>4, KeepsTrans
<1>14. CASE ~split
  <2>1. im2 = img BY <1>14
  <2> HIDE DEF im2
  <2> QED BY <1>1, <1>11, <1>12, <2>1
<1> QED BY <1>13, <1>14

(* Splitting a leaf changes no record.                                     *)
LEMMA SearchNotFoundKeeps ==
  ASSUME IInv, NEW p \in Proc, SearchNotFound(p)
  PROVE  KeepsRecords(node, node')
<1> DEFINE c == Act(p)
           cu == Cur(p)
           x == node[cu.node]
           w == [cu EXCEPT !.index = LeafStop(p), !.ate = Pruning(p)]
           at == [Image EXCEPT !.cur[c] = [@ EXCEPT !.index = LeafStop(p), !.ate = Pruning(p)]]
           split == MustSplit(p) /\ HasSpace(p)
           img == IF split THEN SplitImage(p, at) ELSE at
           j == LeafStop(p)
<1>1. /\ pr[p].pc = "search" /\ ~IsInternal(N(p)) /\ ~NoRoomHere(p)
      /\ node' = node \/ node' = img.node
  BY DEF SearchNotFound, AtLeaf, At, tree, Becomes
<1>2. pr[p].pc \in Busy /\ pr[p].pc # "prop" /\ pr[p].pc # "idle" BY <1>1 DEF Busy
<1>3. Sits(p) /\ Sat(p) BY <1>2, SitsIs, SatIs
<1>4. CASE node' = node BY <1>4, KeepsSame
<1>5. CASE node' = img.node
  <2>1. cu \in CursorRec /\ N(p) = x /\ cu = cur[c] /\ c \in Cursor /\ Count(x) \in Int
    BY <1>3 DEF Sat
  <2>2. LeafStop(p) \in 0 .. Count(x) /\ LeafStop(p) \in Int BY <1>1, <1>3, <2>1, LeafStopIs
  <2>3. w \in CursorRec /\ ~w.trk /\ w.node = cu.node /\ w.parent = cu.parent /\ w.pindex = cu.pindex
        /\ w.index = LeafStop(p)
    <3>1. w = [Cur(p) EXCEPT !.index = LeafStop(p), !.ate = Pruning(p)] OBVIOUS
    <3> HIDE DEF w
    <3> QED BY <1>3, <3>1, StopCursor
  <2>4. Image = [root |-> root, node |-> node, cur |-> cur] /\ Image.node = node BY DEF Image
  <2>5. at = [root |-> root, node |-> node, cur |-> [cur EXCEPT ![c] = w]]
    <3>1. at = [Image EXCEPT !.cur = [Image.cur EXCEPT ![c] = [Image.cur[c] EXCEPT !.index = LeafStop(p), !.ate = Pruning(p)]]]
      OBVIOUS
    <3>2. Image.cur = cur /\ w = [cur[c] EXCEPT !.index = LeafStop(p), !.ate = Pruning(p)] BY <2>1, <2>4
    <3> HIDE DEF at, w
    <3> QED BY <2>4, <3>1, <3>2
  <2>6. PICK W : Fixed(p, Image, W) BY <1>3, QuietFixed
  <2> HIDE DEF w, at, j
  <2>7. Poised(p, at, W, j)
    <3>1. Image = [root |-> root, node |-> Image.node, cur |-> cur]
          /\ at = [root |-> root, node |-> Image.node, cur |-> [cur EXCEPT ![c] = w]]
          /\ w.index = j /\ j \in Int /\ j \in 0 .. Count(x)
      BY <2>2, <2>3, <2>4, <2>5 DEF j
    <3> QED BY <1>3, <2>3, <2>6, <3>1, PoisedIs
  <2>8. at.node = node BY <2>5
  <2>9. CASE split
    <3>1. img = SplitImage(p, at) BY <2>9
    <3> HIDE DEF img
    <3>2. Divides(p, at) BY <2>7 DEF Poised
    <3>3. SplitOf(at, c, Key(p), img) BY <1>1, <1>2, <1>3, <2>9, <3>1, <3>2, SplitImageIs
    <3>4. KeepsRecords(at.node, img.node) BY <3>3 DEF SplitOf
    <3> QED BY <1>5, <2>8, <3>4
  <2>10. CASE ~split
    <3>1. img = at BY <2>10
    <3> HIDE DEF img
    <3> QED BY <1>5, <2>8, <3>1, KeepsSame
  <2> QED BY <2>9, <2>10
<1> QED BY <1>1, <1>4, <1>5

(* ... and nothing, when a node is moved.                                  *)
LEMMA RelocatesKeeps ==
  ASSUME NEW rt, NEW nd, Tree(rt, nd), NEW n \in InUse(nd), NEW nn \in FreeNodes(nd), NEW pi,
         NEW a, a = nd[n].parent, NEW md, Relocates(nd, n, nn, a, pi, md)
  PROVE  KeepsRecords(nd, md)
<1> DEFINE x == nd[n]
           K == Children(x)
<1>1. /\ md[n] = Deleted /\ md[nn] = x
      /\ \A m \in K : md[m] = [nd[m] EXCEPT !.parent = nn]
      /\ a # NULL => md[a] = Redirect(nd[a], pi, nn)
      /\ \A m \in Node : m \notin K /\ m \notin {n, nn, a} => md[m] = nd[m]
  BY DEF Relocates
<1>2. /\ nd \in [Node -> NodeRec] /\ Kinds(nd) BY DEF Tree
<1>3. a # NULL => /\ a \in InUse(nd) /\ IsInternal(nd[a]) /\ a # n /\ a \in Node /\ nd[a] \in NodeRec
                  /\ IsInternal(md[a])
  <2> SUFFICES ASSUME a # NULL
               PROVE  /\ a \in InUse(nd) /\ IsInternal(nd[a]) /\ a # n /\ a \in Node /\ nd[a] \in NodeRec
                      /\ IsInternal(md[a])
    OBVIOUS
  <2>1. a \in InUse(nd) /\ IsInternal(nd[a]) /\ a # n BY Up
  <2>2. a \in Node /\ nd[a] \in NodeRec BY <1>2, <2>1, Shape
  <2>3. Redirect(nd[a], pi, nn).type = nd[a].type BY <2>2 DEF Redirect, NodeRec
  <2> QED BY <1>1, <2>1, <2>2, <2>3 DEF IsInternal
<1>4. /\ nn \in Node /\ nn \notin InUse(nd) /\ nn # n /\ n \in Node /\ n # NULL
  BY NodeAssumption DEF FreeNodes, InUse
<1>5. ASSUME NEW m \in K
      PROVE  /\ m \in InUse(nd) /\ m \in Node /\ m # n /\ m # a /\ m # nn
             /\ md[m].type = nd[m].type /\ md[m].elms = nd[m].elms
  <2>1. IsInternal(x) BY DEF Children
  <2>2. PICK i \in 0 .. Count(x) - 1 : m = E(x, i).sub BY <2>1 DEF Children
  <2>3. m \in InUse(nd) /\ nd[m].parent = n /\ m # n BY <2>1, <2>2, Down
  <2>4. m # a
    <3>1. CASE n = rt
      <4>1. a = NULL BY <3>1, Up
      <4>2. m \in Node BY <2>3 DEF InUse
      <4> QED BY <4>1, <4>2, NodeAssumption
    <3>2. CASE n # rt BY <2>3, <3>2, Elder
    <3> QED BY <3>1, <3>2
  <2>5. m \in Node /\ nd[m] \in NodeRec BY <1>2, <2>3, Shape
  <2> QED BY <1>1, <1>4, <2>3, <2>4, <2>5 DEF NodeRec
<1> HIDE DEF K
<1>6. ~Leaf(md, n) BY <1>1 DEF Leaf, InUse, Deleted, IsInternal
<1>7. ASSUME NEW m, Leaf(nd, m) PROVE \E l : Leaf(md, l) /\ md[l].elms = nd[m].elms
  <2>1. m \in Node /\ m # nn /\ (a # NULL => m # a) /\ m # NULL
    BY <1>3, <1>4, <1>7, NodeAssumption DEF Leaf, InUse
  <2>2. CASE m = n BY <1>1, <1>4, <1>7, <2>2 DEF Leaf, InUse
  <2>3. CASE m # n
    <3>1. md[m].type = nd[m].type /\ md[m].elms = nd[m].elms BY <1>1, <1>5, <2>1, <2>3
    <3> QED BY <1>7, <2>1, <3>1 DEF Leaf, InUse, IsInternal
  <2> QED BY <2>2, <2>3
<1>8. ASSUME NEW m, Leaf(md, m) PROVE \E l : Leaf(nd, l) /\ md[m].elms = nd[l].elms
  <2>1. m \in Node /\ (a # NULL => m # a) /\ m # NULL BY <1>3, <1>8, NodeAssumption DEF Leaf, InUse
  <2>4. m # n BY <1>1, <1>8 DEF Leaf, InUse, Deleted
  <2>2. CASE m = nn
    <3>1. Leaf(nd, n) BY <1>1, <1>8, <2>2 DEF Leaf
    <3> QED BY <1>1, <2>2, <3>1
  <2>3. CASE m # nn
    <3>1. md[m].type = nd[m].type /\ md[m].elms = nd[m].elms BY <1>1, <1>5, <2>1, <2>3, <2>4
    <3> QED BY <1>8, <2>1, <3>1 DEF Leaf, InUse, IsInternal
  <2> QED BY <2>2, <2>3
<1> QED BY <1>7, <1>8, LeavesKept

(* Moving a node changes no record.                                        *)
LEMMA MoveKeeps ==
  ASSUME IInv, NEW p \in Proc, Move(p)
  PROVE  KeepsRecords(node, node')
<1> DEFINE c == Act(p)
           cu == Cur(p)
           nn == Alloc(node)
           im2 == MoveNode(Image, c, nn)
<1>1. /\ pr[p].pc = "move"
      /\ node' = node \/ (FreeNodes(node) # {} /\ node' = im2.node)
  BY DEF Move, At, tree, Becomes
<1>2. pr[p].pc \in Busy /\ pr[p].pc # "idle" /\ pr[p].pc # "prop" BY <1>1 DEF Busy
<1>3. Sits(p) /\ Sat(p) BY <1>2, SitsIs, SatIs
<1>4. /\ c \in Cursor /\ cu = cur[c] /\ Seated(node, cu) /\ Tree(root, node) /\ cu.node \in InUse(node)
      /\ cu.parent = node[cu.node].parent
  BY <1>3, IInvIs DEF Sat
<1>5. CASE node' = node BY <1>5, KeepsSame
<1>6. CASE FreeNodes(node) # {} /\ node' = im2.node
  <2>1. Image.root = root /\ Image.node = node /\ Image.cur = cur /\ Sound(Image) BY StaysQuietly DEF Image
  <2>2. nn \in FreeNodes(node) BY <1>6 DEF Alloc
  <2>3. MoveOf(Image, c, nn, im2)
    <3>1. im2 = MoveNode(Image, c, nn) OBVIOUS
    <3>2. Seated(Image.node, Image.cur[c]) /\ nn \in FreeNodes(Image.node) BY <1>4, <2>1, <2>2
    <3> HIDE DEF im2, nn, c
    <3> QED BY <1>4, <2>1, <3>1, <3>2, MoveNodeIs
  <2> HIDE DEF im2, nn
  <2>4. Relocates(node, cu.node, nn, cu.parent, cu.pindex, im2.node)
    BY <1>4, <2>1, <2>3 DEF MoveOf
  <2> HIDE DEF cu
  <2>5. KeepsRecords(node, im2.node) BY <1>4, <2>2, <2>4, RelocatesKeeps
  <2> QED BY <1>6, <2>5
<1> QED BY <1>1, <1>5, <1>6
-----------------------------------------------------------------------------
(* Where a key belongs: the nodes that cover it are one above the other.   *)
Covers(rt, nd, n, key) ==
  \E lo, hi : Spans(rt, nd, n, lo, hi) /\ Cmp(lo, key) <= 0 /\ Cmp(key, hi) < 0

(* The range of a node lies within that of its parent.                     *)
LEMMA CoversUp ==
  ASSUME NEW rt, NEW nd, Tree(rt, nd), NEW n \in InUse(nd), n # rt, NEW key \in AnyKey,
         Covers(rt, nd, n, key), NEW a, a = nd[n].parent
  PROVE  Covers(rt, nd, a, key)
<1> DEFINE y == nd[a]
<1>1. PICK lo, hi : Spans(rt, nd, n, lo, hi) /\ Cmp(lo, key) <= 0 /\ Cmp(key, hi) < 0 BY DEF Covers
<1>2. PICK i \in 0 .. Count(y) - 1 : lo = E(y, i).base /\ hi = E(y, i + 1).base
  BY <1>1 DEF Spans
<1>3. a \in InUse(nd) /\ IsInternal(y) BY Up
<1>4. /\ nd \in [Node -> NodeRec] /\ Kinds(nd) /\ Linked(rt, nd) BY DEF Tree
<1>5. /\ Len(y.elms) \in Nat /\ Count(y) = Len(y.elms) - 1
      /\ \A j \in 1 .. Len(y.elms) : y.elms[j].base \in AnyKey
  BY <1>3, <1>4, Shape
<1>6. \E l, h : Spans(rt, nd, a, l, h)
  <2>1. CASE a = rt BY <2>1 DEF Spans
  <2>2. CASE a # rt
    <3>1. Attached(nd, a) BY <1>3, <1>4, <2>2, LinkedIs
    <3> QED BY <2>2, <3>1 DEF Attached, Spans
  <2> QED BY <2>1, <2>2
<1>7. PICK l, h : Spans(rt, nd, a, l, h) BY <1>6
<1>8. l \in AnyKey /\ h \in AnyKey /\ Fits(y, l, h) BY <1>3, <1>7, SpansIs
<1>9. i + 1 \in 1 .. Len(y.elms) /\ i + 1 + 1 \in 1 .. Len(y.elms) BY <1>5
<1>10. Cmp(l, lo) <= 0 BY <1>2, <1>8, <1>9 DEF Fits, E
<1>11. Cmp(hi, h) <= 0 BY <1>2, <1>3, <1>8, <1>9 DEF Fits, E
<1>12. lo \in AnyKey /\ hi \in AnyKey BY <1>2, <1>5, <1>9 DEF E
<1>13. Cmp(l, key) <= 0 BY <1>1, <1>8, <1>10, <1>12, CmpOrder
<1>14. Cmp(key, h) < 0 BY <1>1, <1>8, <1>11, <1>12, CmpOrder
<1> QED BY <1>7, <1>13, <1>14 DEF Covers

(* The ranges of two children do not overlap.                              *)
LEMMA CoversOnce ==
  ASSUME NEW rt, NEW nd, Tree(rt, nd), NEW n \in InUse(nd), NEW m \in InUse(nd), n # rt, m # rt,
         nd[n].parent = nd[m].parent, NEW key \in AnyKey,
         Covers(rt, nd, n, key), Covers(rt, nd, m, key)
  PROVE  n = m
<1> DEFINE a == nd[n].parent
           y == nd[a]
<1>1. PICK lo, hi : Spans(rt, nd, n, lo, hi) /\ Cmp(lo, key) <= 0 /\ Cmp(key, hi) < 0 BY DEF Covers
<1>2. PICK i \in 0 .. Count(y) - 1 : E(y, i).sub = n /\ lo = E(y, i).base /\ hi = E(y, i + 1).base
  BY <1>1 DEF Spans
<1>3. PICK lo2, hi2 : Spans(rt, nd, m, lo2, hi2) /\ Cmp(lo2, key) <= 0 /\ Cmp(key, hi2) < 0 BY DEF Covers
<1>4. PICK j \in 0 .. Count(y) - 1 : E(y, j).sub = m /\ lo2 = E(y, j).base /\ hi2 = E(y, j + 1).base
  BY <1>3 DEF Spans
<1>5. a \in InUse(nd) /\ IsInternal(y) BY Up
<1>6. /\ nd \in [Node -> NodeRec] /\ Kinds(nd) /\ Linked(rt, nd) BY DEF Tree
<1>7. /\ Len(y.elms) \in Nat /\ Count(y) = Len(y.elms) - 1
      /\ \A k \in 1 .. Len(y.elms) : y.elms[k].base \in AnyKey
  BY <1>5, <1>6, Shape
<1>8. \E l, h : Spans(rt, nd, a, l, h)
  <2>1. CASE a = rt BY <2>1 DEF Spans
  <2>2. CASE a # rt
    <3>1. Attached(nd, a) BY <1>5, <1>6, <2>2, LinkedIs
    <3> QED BY <2>2, <3>1 DEF Attached, Spans
  <2> QED BY <2>1, <2>2
<1>9. PICK l, h : Spans(rt, nd, a, l, h) BY <1>8
<1>10. Fits(y, l, h) BY <1>5, <1>9, SpansIs
<1>11. \A u, v \in 1 .. Len(y.elms) : u < v => Cmp(y.elms[u].base, y.elms[v].base) < 0
  BY <1>10 DEF Fits
<1>12. /\ i + 1 \in 1 .. Len(y.elms) /\ i + 1 + 1 \in 1 .. Len(y.elms)
       /\ j + 1 \in 1 .. Len(y.elms) /\ j + 1 + 1 \in 1 .. Len(y.elms)
  BY <1>7
<1>13. lo \in AnyKey /\ hi \in AnyKey /\ lo2 \in AnyKey /\ hi2 \in AnyKey
  BY <1>2, <1>4, <1>7, <1>12 DEF E
<1>14. ~(i < j)
  <2> SUFFICES ASSUME i < j PROVE FALSE OBVIOUS
  <2>1. Cmp(hi, lo2) <= 0
    <3>1. CASE i + 1 = j
      <4>1. hi = lo2 BY <1>2, <1>4, <3>1
      <4> QED BY <1>13, <4>1, CmpOrder
    <3>2. CASE i + 1 # j
      <4>1. i + 1 + 1 < j + 1 BY <1>7, <3>2
      <4>2. Cmp(hi, lo2) < 0 BY <1>2, <1>4, <1>11, <1>12, <4>1 DEF E
      <4> QED BY <1>13, <4>2, CmpOrder
    <3> QED BY <3>1, <3>2
  <2>2. Cmp(hi, key) <= 0 BY <1>3, <1>13, <2>1, CmpOrder
  <2>3. Cmp(key, key) < 0 BY <1>1, <1>13, <2>2, CmpOrder
  <2> QED BY <2>3, CmpOrder
<1>15. ~(j < i)
  <2> SUFFICES ASSUME j < i PROVE FALSE OBVIOUS
  <2>1. Cmp(hi2, lo) <= 0
    <3>1. CASE j + 1 = i
      <4>1. hi2 = lo BY <1>2, <1>4, <3>1
      <4> QED BY <1>13, <4>1, CmpOrder
    <3>2. CASE j + 1 # i
      <4>1. j + 1 + 1 < i + 1 BY <1>7, <3>2
      <4>2. Cmp(hi2, lo) < 0 BY <1>2, <1>4, <1>11, <1>12, <4>1 DEF E
      <4> QED BY <1>13, <4>2, CmpOrder
    <3> QED BY <3>1, <3>2
  <2>2. Cmp(hi2, key) <= 0 BY <1>1, <1>13, <2>1, CmpOrder
  <2>3. Cmp(key, key) < 0 BY <1>3, <1>13, <2>2, CmpOrder
  <2> QED BY <2>3, CmpOrder
<1>16. i = j BY <1>7, <1>14, <1>15
<1> QED BY <1>2, <1>4, <1>16
(* So do all ancestors of a node that covers it, ...                       *)
LEMMA CoversChain ==
  ASSUME NEW rt, NEW nd, Tree(rt, nd), NEW n \in InUse(nd), NEW key \in AnyKey, Covers(rt, nd, n, key),
         NEW ch, ch[0] = n, NEW d \in Nat, Leads(rt, nd, ch, d)
  PROVE  \A i \in 0 .. d : Covers(rt, nd, ch[i], key)
<1> DEFINE S == {i \in 0 .. d : ~Covers(rt, nd, ch[i], key)}
<1> SUFFICES ASSUME S # {} PROVE FALSE OBVIOUS
<1>1. S \in SUBSET Nat OBVIOUS
<1>2. PICK i \in S : \A j \in S : i <= j BY <1>1, LeastOf
<1>3. i \in 0 .. d /\ ~Covers(rt, nd, ch[i], key) BY <1>2
<1>4. i # 0 BY <1>3
<1>5. i - 1 \in 0 .. d /\ i - 1 # d /\ (i - 1) + 1 = i /\ ~(i <= i - 1) BY <1>3, <1>4
<1>6. Covers(rt, nd, ch[i - 1], key) BY <1>2, <1>5
<1> HIDE DEF S
<1>7. ch[i - 1] \in InUse(nd) /\ ch[i - 1] # rt /\ ch[i] = nd[ch[i - 1]].parent BY <1>5 DEF Leads
<1> QED BY <1>3, <1>6, <1>7, CoversUp

(* ... and no two leaves do.                                               *)
LEMMA CoversLeaf ==
  ASSUME NEW rt, NEW nd, Tree(rt, nd), NEW n, Leaf(nd, n), NEW m, Leaf(nd, m), NEW key \in AnyKey,
         Covers(rt, nd, n, key), Covers(rt, nd, m, key)
  PROVE  n = m
<1>1. n \in InUse(nd) /\ ~IsInternal(nd[n]) /\ m \in InUse(nd) /\ ~IsInternal(nd[m]) BY DEF Leaf
<1>2. n \in Node /\ m \in Node /\ nd \in [Node -> NodeRec] BY <1>1, Shape DEF Tree, InUse
<1> DEFINE a == Chain(nd, n)
           b == Chain(nd, m)
<1>3. a[0] = n /\ b[0] = m /\ Cardinality(Node) \in Nat BY <1>2, ChainIs
<1>4. PICK d : Leads(rt, nd, a, d) BY <1>1, ChainLeads
<1>5. PICK e : Leads(rt, nd, b, e) BY <1>1, ChainLeads
<1> HIDE DEF a, b
<1>6. d \in Nat /\ e \in Nat BY <1>3, <1>4, <1>5 DEF Leads
<1>7. \A i \in 0 .. d : Covers(rt, nd, a[i], key) BY <1>1, <1>3, <1>4, <1>6, CoversChain
<1>8. \A i \in 0 .. e : Covers(rt, nd, b[i], key) BY <1>1, <1>3, <1>5, <1>6, CoversChain
<1> DEFINE S == {i \in 0 .. d : \E j \in 0 .. e : b[j] = a[i]}
<1>9. S \in SUBSET Nat OBVIOUS
<1>10. d \in S BY <1>4, <1>5, <1>6 DEF Leads
<1>11. PICK i \in S : \A l \in S : i <= l BY <1>9, <1>10, LeastOf
<1>12. PICK j \in 0 .. e : b[j] = a[i] BY <1>11
<1>13. i \in 0 .. d BY <1>11
<1>14. CASE i = 0 /\ j = 0 BY <1>3, <1>12, <1>14
<1>15. CASE i = 0 /\ j # 0
  <2>1. j - 1 \in 0 .. e /\ j - 1 # e /\ (j - 1) + 1 = j BY <1>6, <1>15
  <2>2. b[j - 1] \in InUse(nd) /\ b[j - 1] # rt /\ b[j] = nd[b[j - 1]].parent BY <1>5, <2>1 DEF Leads
  <2>3. IsInternal(nd[b[j]]) BY <2>2, Up
  <2> QED BY <1>1, <1>3, <1>12, <1>15, <2>3
<1>16. CASE i # 0
  <2>1. i - 1 \in 0 .. d /\ i - 1 # d /\ (i - 1) + 1 = i /\ ~(i <= i - 1) BY <1>6, <1>13, <1>16
  <2>2. a[i - 1] \in InUse(nd) /\ a[i - 1] # rt /\ a[i] = nd[a[i - 1]].parent BY <1>4, <2>1 DEF Leads
  <2>3. IsInternal(nd[a[i]]) BY <2>2, Up
  <2>4. j # 0 BY <1>1, <1>3, <1>12, <2>3
  <2>5. j - 1 \in 0 .. e /\ j - 1 # e /\ (j - 1) + 1 = j BY <1>6, <2>4
  <2>6. b[j - 1] \in InUse(nd) /\ b[j - 1] # rt /\ b[j] = nd[b[j - 1]].parent BY <1>5, <2>5 DEF Leads
  <2>7. a[i - 1] = b[j - 1] BY <1>7, <1>8, <1>12, <2>1, <2>2, <2>5, <2>6, CoversOnce
  <2>8. i - 1 \in S BY <2>1, <2>5, <2>7
  <2> QED BY <1>11, <2>1, <2>8
<1> QED BY <1>14, <1>15, <1>16

(* The records of a leaf belong there.                                     *)
LEMMA ElementCovered ==
  ASSUME NEW rt, NEW nd, Tree(rt, nd), NEW n, Leaf(nd, n), NEW i \in 1 .. Len(nd[n].elms)
  PROVE  nd[n].elms[i].base \in AnyKey /\ Covers(rt, nd, n, nd[n].elms[i].base)
<1>1. n \in InUse(nd) /\ ~IsInternal(nd[n]) BY DEF Leaf
<1>2. nd \in [Node -> NodeRec] /\ Kinds(nd) /\ Linked(rt, nd) BY DEF Tree
<1>3. nd[n].elms[i].base \in AnyKey BY <1>1, <1>2, Shape
<1>4. \E l, h : Spans(rt, nd, n, l, h)
  <2>1. CASE n = rt BY <2>1 DEF Spans
  <2>2. CASE n # rt
    <3>1. Attached(nd, n) BY <1>1, <1>2, <2>2, LinkedIs
    <3> QED BY <2>2, <3>1 DEF Attached, Spans
  <2> QED BY <2>1, <2>2
<1>5. PICK l, h : Spans(rt, nd, n, l, h) BY <1>4
<1>6. l \in AnyKey /\ h \in AnyKey /\ Fits(nd[n], l, h) BY <1>1, <1>5, SpansIs
<1>7. Cmp(l, nd[n].elms[i].base) <= 0 /\ Cmp(nd[n].elms[i].base, h) <= -1 BY <1>1, <1>6 DEF Fits
<1>8. Cmp(nd[n].elms[i].base, h) \in Int BY <1>3, <1>6, CmpOrder
<1>9. Cmp(nd[n].elms[i].base, h) < 0 BY <1>7, <1>8
<1> QED BY <1>3, <1>5, <1>7, <1>9 DEF Covers

(* No two records have the same key.                                       *)
LEMMA RecordsDiffer ==
  ASSUME NEW rt, NEW nd, Tree(rt, nd), NEW e, Holds(nd, e), NEW f, Holds(nd, f), e.base = f.base
  PROVE  e = f
<1>1. PICK n : Leaf(nd, n) /\ \E i \in 1 .. Len(nd[n].elms) : nd[n].elms[i] = e BY DEF Holds
<1>2. PICK i \in 1 .. Len(nd[n].elms) : nd[n].elms[i] = e BY <1>1
<1>3. PICK m : Leaf(nd, m) /\ \E j \in 1 .. Len(nd[m].elms) : nd[m].elms[j] = f BY DEF Holds
<1>4. PICK j \in 1 .. Len(nd[m].elms) : nd[m].elms[j] = f BY <1>3
<1>5. e.base \in AnyKey /\ Covers(rt, nd, n, e.base) BY <1>1, <1>2, ElementCovered
<1>6. Covers(rt, nd, m, e.base) BY <1>3, <1>4, ElementCovered
<1>7. n = m BY <1>1, <1>3, <1>5, <1>6, CoversLeaf
<1>8. PICK l, h : Spans(rt, nd, n, l, h) BY <1>5 DEF Covers
<1>9. n \in InUse(nd) BY <1>1 DEF Leaf
<1>10. Fits(nd[n], l, h) BY <1>8, <1>9, SpansIs
<1>11. i < j => Cmp(e.base, e.base) < 0 BY <1>2, <1>4, <1>7, <1>10 DEF Fits
<1>12. j < i => Cmp(e.base, e.base) < 0 BY <1>2, <1>4, <1>7, <1>10 DEF Fits
<1>13. Cmp(e.base, e.base) = 0 BY <1>5, CmpOrder
<1>14. Len(nd[n].elms) \in Nat BY <1>9, Shape DEF Tree
<1>15. i = j BY <1>7, <1>11, <1>12, <1>13, <1>14
<1> QED BY <1>2, <1>4, <1>7, <1>15
-----------------------------------------------------------------------------
(* A record is put in.                                                     *)
LEMMA InsertHolds ==
  ASSUME NEW nd, NEW n, Leaf(nd, n), n \in DOMAIN nd, NEW y, NEW md, md = [nd EXCEPT ![n] = y],
         DOMAIN nd = Node, y.type = nd[n].type, Len(nd[n].elms) \in Nat,
         NEW i \in 1 .. Len(nd[n].elms) + 1, NEW e, Inserted(y.elms, nd[n].elms, i, e)
  PROVE  \A f : Holds(md, f) <=> (Holds(nd, f) \/ f = e)
<1> DEFINE s == nd[n].elms
           w == y.elms
<1>1. md[n] = y /\ \A m \in Node : m # n => md[m] = nd[m] OBVIOUS
<1>2. \A m : Leaf(md, m) <=> Leaf(nd, m) BY <1>1 DEF Leaf, InUse, IsInternal
<1>3. /\ Len(w) = Len(s) + 1 /\ w[i] = e
      /\ \A j \in 1 .. i - 1 : w[j] = s[j]
      /\ \A j \in i .. Len(s) : w[j + 1] = s[j]
  BY DEF Inserted
<1>4. ASSUME NEW f, Holds(nd, f) PROVE Holds(md, f)
  <2>1. PICK m : Leaf(nd, m) /\ \E j \in 1 .. Len(nd[m].elms) : nd[m].elms[j] = f BY <1>4 DEF Holds
  <2>2. PICK j \in 1 .. Len(nd[m].elms) : nd[m].elms[j] = f BY <2>1
  <2>3. m \in Node BY <2>1 DEF Leaf, InUse
  <2>4. CASE m # n BY <1>1, <1>2, <2>1, <2>3, <2>4 DEF Holds
  <2>5. CASE m = n
    <3>1. \E k \in 1 .. Len(w) : w[k] = f
      <4>1. CASE j < i
        <5>1. j \in 1 .. Len(w) /\ w[j] = f BY <1>3, <2>2, <2>5, <4>1
        <5> QED BY <5>1
      <4>2. CASE j >= i
        <5>1. j \in i .. Len(s) /\ j + 1 \in 1 .. Len(w) BY <1>3, <2>2, <2>5, <4>2
        <5>2. w[j + 1] = f BY <1>3, <2>2, <2>5, <5>1
        <5> QED BY <5>1, <5>2
      <4>3. j \in Int BY <2>2
      <4> QED BY <4>1, <4>2, <4>3
    <3> QED BY <1>1, <1>2, <2>1, <2>5, <3>1 DEF Holds
  <2> QED BY <2>4, <2>5
<1>5. Holds(md, e)
  <2>1. i \in 1 .. Len(md[n].elms) /\ md[n].elms[i] = e BY <1>1, <1>3
  <2>2. Leaf(md, n) BY <1>2
  <2> QED BY <2>1, <2>2 DEF Holds
<1>6. ASSUME NEW f, Holds(md, f), f # e PROVE Holds(nd, f)
  <2>1. PICK m : Leaf(md, m) /\ \E j \in 1 .. Len(md[m].elms) : md[m].elms[j] = f BY <1>6 DEF Holds
  <2>2. PICK j \in 1 .. Len(md[m].elms) : md[m].elms[j] = f BY <2>1
  <2>3. m \in Node BY <2>1 DEF Leaf, InUse
  <2>4. CASE m # n BY <1>1, <1>2, <2>1, <2>3, <2>4 DEF Holds
  <2>5. CASE m = n
    <3>1. j \in 1 .. Len(w) /\ w[j] = f /\ j # i BY <1>1, <1>3, <1>6, <2>2, <2>5
    <3>2. \E k \in 1 .. Len(s) : s[k] = f
      <4>1. CASE j < i
        <5>1. j \in 1 .. Len(s) /\ s[j] = f BY <1>3, <3>1, <4>1
        <5> QED BY <5>1
      <4>2. CASE j > i
        <5>1. j - 1 \in i .. Len(s) /\ (j - 1) + 1 = j /\ j - 1 \in 1 .. Len(s) BY <1>3, <3>1, <4>2
        <5>2. s[j - 1] = f BY <1>3, <3>1, <5>1
        <5> QED BY <5>1, <5>2
      <4> QED BY <3>1, <4>1, <4>2
    <3> QED BY <1>2, <2>1, <2>5, <3>2 DEF Holds
  <2> QED BY <2>4, <2>5
<1> QED BY <1>4, <1>5, <1>6

(* The key that is put in where a cursor stands is not in the tree yet.    *)
LEMMA InsertFresh ==
  ASSUME NEW rt, NEW nd, Tree(rt, nd), NEW cu, Seated(nd, cu), ~IsInternal(nd[cu.node]),
         NEW key \in AnyKey, Fitting(nd, cu, key), cu.index \in Int
  PROVE  \A f : Holds(nd, f) => f.base # key
<1> DEFINE n == cu.node
           lo == Bounds(nd, cu)[1]
           hi == Bounds(nd, cu)[2]
<1>1. n \in InUse(nd) /\ Leaf(nd, n) BY DEF Seated, Leaf
<1>2. nd \in [Node -> NodeRec] /\ Kinds(nd) /\ Linked(rt, nd) BY DEF Tree
<1>3. Confines(rt, nd, n, lo, hi) BY SeatBounds
<1>4. Slot(nd[n], cu.index, key) /\ Cmp(lo, key) <= 0 /\ Cmp(key, hi) < 0 BY DEF Fitting
<1> HIDE DEF lo, hi
<1>5. Covers(rt, nd, n, key)
  <2>1. \E l, h : Spans(rt, nd, n, l, h)
    <3>1. CASE n = rt BY <3>1 DEF Spans
    <3>2. CASE n # rt
      <4>1. Attached(nd, n) BY <1>1, <1>2, <3>2, LinkedIs
      <4> QED BY <3>2, <4>1 DEF Attached, Spans
    <3> QED BY <3>1, <3>2
  <2>2. PICK l, h : Spans(rt, nd, n, l, h) BY <2>1
  <2>3. l = lo /\ h = hi BY <1>3, <2>2 DEF Confines
  <2> QED BY <1>4, <2>2, <2>3 DEF Covers
<1> SUFFICES ASSUME NEW f, Holds(nd, f), f.base = key PROVE FALSE OBVIOUS
<1>6. PICK m : Leaf(nd, m) /\ \E j \in 1 .. Len(nd[m].elms) : nd[m].elms[j] = f BY DEF Holds
<1>7. PICK j \in 1 .. Len(nd[m].elms) : nd[m].elms[j] = f BY <1>6
<1>8. Covers(rt, nd, m, key) BY <1>6, <1>7, ElementCovered
<1>9. m = n BY <1>1, <1>5, <1>6, <1>8, CoversLeaf
<1>10. Len(nd[n].elms) \in Nat /\ Count(nd[n]) = Len(nd[n].elms) BY <1>1, <1>2, Shape
<1>11. j - 1 \in 0 .. Count(nd[n]) - 1 /\ (j - 1) + 1 = j BY <1>7, <1>9, <1>10
<1>12. E(nd[n], j - 1).base = key BY <1>7, <1>9, <1>11 DEF E
<1>13. Cmp(key, key) = 0 BY CmpOrder
<1>14. CASE j - 1 < cu.index
  <2>1. j - 1 \in 0 .. cu.index - 1 BY <1>11, <1>14
  <2> QED BY <1>4, <1>12, <1>13, <2>1 DEF Slot
<1>15. CASE j - 1 >= cu.index
  <2>1. j - 1 \in cu.index .. Count(nd[n]) - 1 BY <1>11, <1>15
  <2> QED BY <1>4, <1>12, <1>13, <2>1 DEF Slot
<1> QED BY <1>11, <1>14, <1>15
(* A thread's job is among those that are asked for.                       *)
LEMMA JobAsked ==
  ASSUME NEW p \in Proc, Job(p) \in Jobs
  PROVE  Job(p) \in Asked
BY ProcAssumption DEF Asked

(* hammer_btree_insert adds one new record, the one the call asked for: an *)
(* insertion of the index.                                                 *)
LEMMA InsertRecords ==
  ASSUME IInv, IInv', NEW p \in Proc, Insert(p)
  PROVE  [Index!Next]_Records
<1> DEFINE c == Act(p)
           cu == Cur(p)
           x == node[cu.node]
           e == [base |-> Job(p).key, dtid |-> 0]
           im2 == InsertElm(Image, c, e)
<1>1. /\ pr[p].pc = "insert"
      /\ UNCHANGED tree \/ Becomes(im2)
  BY DEF Insert, At
<1>2. pr[p].pc \in Busy BY <1>1 DEF Busy
<1>3. Sits(p) /\ Sat(p) BY <1>2, SitsIs, SatIs
<1>4. /\ cu \in CursorRec /\ N(p) = x /\ cu = cur[c] /\ c \in Cursor /\ Count(x) \in Int
      /\ cu.node \in Node /\ Seated(node, cu) /\ cu.index \in Int
      /\ Tree(root, node) /\ Ready(node, cu, "insert", Job(p))
  BY <1>1, <1>3, IInvIs DEF Sat
<1>5. /\ ~IsInternal(x) /\ ~Full(x) /\ cu.index \in 0 .. Count(x)
      /\ Job(p).op = "insert" /\ Fitting(node, cu, Job(p).key)
  BY <1>4 DEF Ready, Fitting
<1>6. CASE UNCHANGED tree
  <2>1. node' = node BY <1>6 DEF tree
  <2>2. KeepsRecords(node, node') BY <2>1, KeepsSame
  <2>3. Records' = Records BY <2>2, RecordsKept
  <2> QED BY <2>3
<1>7. CASE Becomes(im2)
  <2>1. e \in LeafElm /\ e.base = Job(p).key /\ Job(p).key \in AnyKey /\ Job(p) \in Jobs
    <3>1. Job(p) \in Jobs BY <1>3 DEF Sits
    <3>2. Job(p).key \in AnyKey /\ Job(p).key.t \in 1 .. MaxTid BY <1>5, <3>1, JobIs
    <3> DEFINE k == Job(p).key
    <3>3. k \in [k : 0 .. MaxKey, t : 1 .. MaxTid] BY <3>2 DEF AnyKey
    <3>4. 0 \in Tid BY ProcAssumption DEF Tid
    <3> HIDE DEF k
    <3>5. [base |-> k, dtid |-> 0] \in LeafElm BY <3>3, <3>4 DEF LeafElm
    <3> QED BY <3>1, <3>2, <3>5 DEF k
  <2>2. e.base = Job(p).key /\ e.dtid = 0 OBVIOUS
  <2> HIDE DEF e
  <2>3. Image.root = root /\ Image.node = node /\ Image.cur = cur /\ Sound(Image) BY StaysQuietly DEF Image
  <2>4. im2 = InsertElm(Image, c, e) /\ node' = im2.node BY <1>7 DEF Becomes
  <2> HIDE DEF im2
  <2>5. InsertOf(Image, c, e, im2)
    <3>1. /\ Seated(Image.node, Image.cur[c]) /\ ~IsInternal(Image.node[Image.cur[c].node])
          /\ ~Full(Image.node[Image.cur[c].node])
          /\ Image.cur[c].index \in 0 .. Count(Image.node[Image.cur[c].node])
          /\ Fitting(Image.node, Image.cur[c], e.base)
      BY <1>4, <1>5, <2>1, <2>3
    <3> QED BY <1>4, <2>1, <2>3, <2>4, <3>1, InsertIs
  <2> DEFINE n == cu.node
             y == im2.node[n]
             i == cu.index + 1
  <2>6. /\ y.type = x.type /\ Inserted(y.elms, x.elms, i, e)
        /\ node' = [node EXCEPT ![n] = y]
    <3>1. Image.cur[c] = cu BY <1>4, <2>3
    <3> HIDE DEF cu
    <3> QED BY <2>3, <2>4, <2>5, <3>1 DEF InsertOf
  <2>7. /\ Leaf(node, n) /\ DOMAIN node = Node /\ node[n] = x
        /\ Len(x.elms) \in Nat /\ i \in 1 .. Len(x.elms) + 1
    <3>1. n \in InUse(node) BY <1>4 DEF Seated
    <3>2. node \in [Node -> NodeRec] BY <1>4 DEF Tree
    <3>3. Len(x.elms) \in Nat /\ Count(x) = Len(x.elms) BY <1>3, <1>5 DEF Sat
    <3>4. Leaf(node, n) BY <1>5, <3>1 DEF Leaf
    <3>5. i \in 1 .. Len(x.elms) + 1 BY <1>5, <3>3
    <3> QED BY <3>2, <3>3, <3>4, <3>5
  <2> HIDE DEF y, i
  <2>8. \A f : Holds(node', f) <=> (Holds(node, f) \/ f = e)
    <3>1. /\ n \in DOMAIN node /\ y.type = node[n].type /\ Inserted(y.elms, node[n].elms, i, e)
          /\ Len(node[n].elms) \in Nat /\ i \in 1 .. Len(node[n].elms) + 1
      BY <1>4, <2>6, <2>7
    <3> HIDE DEF n, x, cu
    <3>2. /\ Leaf(node, n) /\ n \in DOMAIN node /\ node' = [node EXCEPT ![n] = y]
          /\ DOMAIN node = Node /\ y.type = node[n].type /\ Len(node[n].elms) \in Nat
          /\ i \in 1 .. Len(node[n].elms) + 1 /\ Inserted(y.elms, node[n].elms, i, e)
      BY <2>6, <2>7, <3>1
    <3>3. \A md : md = [node EXCEPT ![n] = y] => \A f : Holds(md, f) <=> (Holds(node, f) \/ f = e)
      BY <3>2, InsertHolds
    <3> QED BY <3>2, <3>3
  <2>9. \A f : Holds(node, f) => f.base # Job(p).key
    BY <1>4, <1>5, <2>1, InsertFresh
  <2>10. \A f : (f \in Records) <=> Holds(node, f) BY RecordsNow
  <2>11. \A f : (f \in Records') <=> Holds(node', f) BY RecordsNext
  <2>12. \A f \in Records : f.base # e.base BY <2>1, <2>9, <2>10
  <2>13. e \in Records' \ Records BY <2>1, <2>8, <2>9, <2>10, <2>11
  <2>14. Records' = Records \union {e}
    <3>1. \A f : (f \in Records') <=> (f \in Records \union {e}) BY <2>8, <2>10, <2>11
    <3> QED BY <3>1
  <2>15. Job(p) \in Asked BY <2>1, JobAsked
  <2>16. Index!Insert BY <1>5, <2>1, <2>2, <2>12, <2>13, <2>14, <2>15 DEF Index!Insert
  <2> QED BY <2>16 DEF Index!Next
<1> QED BY <1>1, <1>6, <1>7
-----------------------------------------------------------------------------
(* A key is in one place.                                                  *)
LEMMA OnePlace ==
  ASSUME NEW rt, NEW nd, Tree(rt, nd), NEW n, Leaf(nd, n), NEW m, Leaf(nd, m),
         NEW i \in 1 .. Len(nd[n].elms), NEW j \in 1 .. Len(nd[m].elms),
         nd[n].elms[i].base = nd[m].elms[j].base
  PROVE  n = m /\ i = j
<1> DEFINE b == nd[n].elms[i].base
<1>1. b \in AnyKey /\ Covers(rt, nd, n, b) BY ElementCovered
<1>2. Covers(rt, nd, m, b) BY ElementCovered
<1>3. n = m BY <1>1, <1>2, CoversLeaf
<1>4. PICK l, h : Spans(rt, nd, n, l, h) BY <1>1 DEF Covers
<1>5. n \in InUse(nd) BY DEF Leaf
<1>6. Fits(nd[n], l, h) BY <1>4, <1>5, SpansIs
<1>7. i < j => Cmp(b, b) < 0 BY <1>3, <1>6 DEF Fits
<1>8. j < i => Cmp(b, b) < 0 BY <1>3, <1>6 DEF Fits
<1>9. Cmp(b, b) = 0 BY <1>1, CmpOrder
<1>10. Len(nd[n].elms) \in Nat BY <1>5, Shape DEF Tree
<1> HIDE DEF b
<1>11. i = j BY <1>3, <1>7, <1>8, <1>9, <1>10
<1> QED BY <1>3, <1>11

(* A leaf loses the element at i, and gets the elements T.                 *)
HoldsAt(x, f, I) == \E j \in 1 .. Len(x.elms) : j \notin I /\ x.elms[j] = f
Trades(x, y, i, T) ==
  \A f : HoldsAt(y, f, {}) <=> (HoldsAt(x, f, {i}) \/ f \in T)
Traded(nd, md, e, T) == \A f : Holds(md, f) <=> ((Holds(nd, f) /\ f # e) \/ f \in T)
(* A change of one leaf changes the records of the tree in the same way.   *)
LEMMA TradeHolds ==
  ASSUME NEW rt, NEW nd, Tree(rt, nd), NEW n, Leaf(nd, n), NEW i \in 1 .. Len(nd[n].elms),
         NEW y, y.type = nd[n].type, NEW T, Trades(nd[n], y, i, T),
         NEW e, e = nd[n].elms[i], NEW md, md = [nd EXCEPT ![n] = y]
  PROVE  Traded(nd, md, e, T)
<1>1. n \in Node /\ DOMAIN nd = Node BY DEF Tree, Leaf, InUse
<1>2. md[n] = y /\ \A m \in Node : m # n => md[m] = nd[m] BY <1>1
<1>3. \A m : Leaf(md, m) <=> Leaf(nd, m) BY <1>2 DEF Leaf, InUse, IsInternal
<1>4. \A f : Holds(md, f) <=> \E m : Leaf(nd, m) /\ HoldsAt(md[m], f, {}) BY <1>3 DEF Holds, HoldsAt
<1>5. ASSUME NEW f, Holds(nd, f), f # e PROVE Holds(md, f)
  <2>1. PICK m : Leaf(nd, m) /\ \E j \in 1 .. Len(nd[m].elms) : nd[m].elms[j] = f BY <1>5 DEF Holds
  <2>2. PICK j \in 1 .. Len(nd[m].elms) : nd[m].elms[j] = f BY <2>1
  <2>3. m \in Node BY <2>1 DEF Leaf, InUse
  <2>4. CASE m # n
    <3>1. HoldsAt(md[m], f, {}) BY <1>2, <2>2, <2>3, <2>4 DEF HoldsAt
    <3> QED BY <1>4, <2>1, <3>1
  <2>5. CASE m = n
    <3>1. j # i BY <1>5, <2>2, <2>5
    <3>2. HoldsAt(nd[n], f, {i}) BY <2>2, <2>5, <3>1 DEF HoldsAt
    <3>3. HoldsAt(y, f, {}) BY <3>2 DEF Trades
    <3> QED BY <1>2, <1>4, <3>3
  <2> QED BY <2>4, <2>5
<1>6. ASSUME NEW f \in T PROVE Holds(md, f)
  <2>1. HoldsAt(y, f, {}) BY DEF Trades
  <2> QED BY <1>2, <1>4, <2>1
<1>7. ASSUME NEW f, Holds(md, f), f \notin T PROVE Holds(nd, f) /\ f # e
  <2>1. PICK m : Leaf(nd, m) /\ HoldsAt(md[m], f, {}) BY <1>4, <1>7
  <2>2. m \in Node BY <2>1 DEF Leaf, InUse
  <2>3. \E j \in 1 .. Len(nd[m].elms) : nd[m].elms[j] = f /\ ~(m = n /\ j = i)
    <3>1. CASE m # n BY <1>2, <2>1, <2>2, <3>1 DEF HoldsAt
    <3>2. CASE m = n
      <4>1. HoldsAt(nd[n], f, {i}) BY <1>2, <1>7, <2>1, <3>2 DEF Trades
      <4> QED BY <3>2, <4>1 DEF HoldsAt
    <3> QED BY <3>1, <3>2
  <2>4. PICK j \in 1 .. Len(nd[m].elms) : nd[m].elms[j] = f /\ ~(m = n /\ j = i) BY <2>3
  <2>5. Holds(nd, f) BY <2>1, <2>4 DEF Holds
  <2>6. f = e => nd[m].elms[j].base = nd[n].elms[i].base BY <2>4
  <2>7. nd[m].elms[j].base = nd[n].elms[i].base => m = n /\ j = i BY <2>1, <2>4, OnePlace
  <2> QED BY <2>4, <2>5, <2>6, <2>7
<1> QED BY <1>5, <1>6, <1>7 DEF Traded

(* Nodes that are empty do not hold records.                               *)
LEMMA EmptiedKeeps ==
  ASSUME NEW nd, NEW md, NEW n, KeepsLeaves(nd, md, n), Len(nd[n].elms) = 0
  PROVE  KeepsRecords(nd, md)
<1>1. ASSUME NEW f, Holds(nd, f) PROVE Holds(md, f)
  <2>1. PICK m : Leaf(nd, m) /\ \E j \in 1 .. Len(nd[m].elms) : nd[m].elms[j] = f BY <1>1 DEF Holds
  <2>2. m # n BY <2>1
  <2>3. m \in InUse(md) /\ md[m] = nd[m] BY <2>1, <2>2 DEF KeepsLeaves, Leaf
  <2>4. Leaf(md, m) BY <2>1, <2>3 DEF Leaf
  <2> QED BY <2>1, <2>3, <2>4 DEF Holds
<1>2. ASSUME NEW f, Holds(md, f) PROVE Holds(nd, f)
  <2>1. PICK m : Leaf(md, m) /\ \E j \in 1 .. Len(md[m].elms) : md[m].elms[j] = f BY <1>2 DEF Holds
  <2>2. md[m].elms # <<>> BY <2>1
  <2>3. m \in InUse(nd) /\ md[m] = nd[m] BY <2>1, <2>2 DEF KeepsLeaves, Leaf
  <2>4. Leaf(nd, m) BY <2>1, <2>3 DEF Leaf
  <2> QED BY <2>1, <2>3, <2>4 DEF Holds
<1> QED BY <1>1, <1>2 DEF KeepsRecords
(* What hammer_delete_at_cursor leaves of an element.                      *)
Remains(p, e) == IF Destroys(p, e) THEN {}
                 ELSE IF Adjusts(p, e) THEN {[e EXCEPT !.dtid = DeleteTid(p)]} ELSE {e}
(* hammer_delete_at_cursor trades the record for the same one with a       *)
(* delete_tid, or for nothing.                                             *)
LEMMA StruckTrades ==
  ASSUME NEW p, NEW x, x.elms \in Seq(LeafElm), NEW i \in 0 .. Len(x.elms) - 1,
         NEW y, Struck(p, x, i, y), NEW e, e = E(x, i)
  PROVE  Trades(x, y, i + 1, Remains(p, e))
<1> DEFINE k == i + 1
           e1 == [e EXCEPT !.dtid = DeleteTid(p)]
           s == x.elms
           g == IF Adjusts(p, e) THEN e1 ELSE e
<1>1. PICK z : /\ Len(z.elms) = Len(x.elms)
               /\ IF Adjusts(p, e) THEN Patched(x, i, e1, LeafElm, z) ELSE z = x
               /\ IF Destroys(p, e) THEN Removed(y.elms, z.elms, k) ELSE y = z
  BY DEF Struck
<1>2. k \in 1 .. Len(s) /\ Len(s) \in Nat /\ s[k] = e BY DEF E
<1>3. z.elms[k] = g /\ \A j \in 1 .. Len(s) : j # k => z.elms[j] = s[j]
  <2>1. CASE Adjusts(p, e) BY <1>1, <1>2, <2>1 DEF Patched
  <2>2. CASE ~Adjusts(p, e) BY <1>1, <1>2, <2>2
  <2> QED BY <2>1, <2>2
<1>4. Remains(p, e) = IF Destroys(p, e) THEN {} ELSE {g} BY DEF Remains
<1> HIDE DEF e1, g, k
<1>5. CASE ~Destroys(p, e)
  <2>1. y = z /\ Remains(p, e) = {g} BY <1>1, <1>4, <1>5
  <2>2. ASSUME NEW f PROVE HoldsAt(y, f, {}) <=> (HoldsAt(x, f, {k}) \/ f \in {g})
    <3>1. HoldsAt(z, f, {}) <=> \E j \in 1 .. Len(s) : z.elms[j] = f BY <1>1 DEF HoldsAt
    <3>2. (\E j \in 1 .. Len(s) : z.elms[j] = f) <=> (g = f \/ \E j \in 1 .. Len(s) : j # k /\ z.elms[j] = f)
      BY <1>2, <1>3
    <3>3. HoldsAt(x, f, {k}) <=> \E j \in 1 .. Len(s) : j # k /\ s[j] = f BY DEF HoldsAt
    <3> QED BY <1>3, <2>1, <3>1, <3>2, <3>3
  <2> QED BY <2>1, <2>2 DEF Trades, k
<1>6. CASE Destroys(p, e)
  <2> DEFINE w == y.elms
  <2>1. /\ Len(w) = Len(s) - 1
        /\ \A j \in 1 .. k - 1 : w[j] = z.elms[j]
        /\ \A j \in k .. Len(s) - 1 : w[j] = z.elms[j + 1]
    BY <1>1, <1>6 DEF Removed
  <2>2. ASSUME NEW f, HoldsAt(y, f, {}) PROVE HoldsAt(x, f, {k})
    <3>1. PICK j \in 1 .. Len(w) : w[j] = f BY <2>2 DEF HoldsAt
    <3>2. CASE j < k
      <4>1. j \in 1 .. k - 1 /\ j \in 1 .. Len(s) /\ j # k BY <1>2, <2>1, <3>1, <3>2
      <4>2. s[j] = f BY <1>3, <2>1, <3>1, <4>1
      <4> QED BY <4>1, <4>2 DEF HoldsAt
    <3>3. CASE j >= k
      <4>1. j \in k .. Len(s) - 1 /\ j + 1 \in 1 .. Len(s) /\ j + 1 # k BY <1>2, <2>1, <3>1, <3>3
      <4>2. s[j + 1] = f BY <1>3, <2>1, <3>1, <4>1
      <4> QED BY <4>1, <4>2 DEF HoldsAt
    <3>4. j \in Int /\ k \in Int BY <1>2, <3>1
    <3> QED BY <3>2, <3>3, <3>4
  <2>3. ASSUME NEW f, HoldsAt(x, f, {k}) PROVE HoldsAt(y, f, {})
    <3>1. PICK j \in 1 .. Len(s) : j # k /\ s[j] = f BY <2>3 DEF HoldsAt
    <3>2. CASE j < k
      <4>1. j \in 1 .. k - 1 /\ j \in 1 .. Len(w) BY <1>2, <2>1, <3>1, <3>2
      <4>2. w[j] = f BY <1>3, <2>1, <3>1, <4>1
      <4> QED BY <4>1, <4>2 DEF HoldsAt
    <3>3. CASE j > k
      <4>1. j - 1 \in k .. Len(s) - 1 /\ j - 1 \in 1 .. Len(w) /\ (j - 1) + 1 = j BY <1>2, <2>1, <3>1, <3>3
      <4>2. w[j - 1] = f BY <1>3, <2>1, <3>1, <4>1
      <4> QED BY <4>1, <4>2 DEF HoldsAt
    <3>4. j \in Int /\ k \in Int BY <1>2, <3>1
    <3> QED BY <3>1, <3>2, <3>3, <3>4
  <2>4. Remains(p, e) = {} BY <1>4, <1>6
  <2>5. \A f : HoldsAt(y, f, {}) <=> (HoldsAt(x, f, {k}) \/ f \in {}) BY <2>2, <2>3
  <2> QED BY <2>4, <2>5 DEF Trades, k
<1> QED BY <1>5, <1>6

(* What hammer_delete_at_cursor does to the records.                       *)
Strikes(p, e) ==
  /\ e \in Records /\ Job(p) \in Jobs /\ Doomed(Job(p), e)
  /\ Records' = (Records \ {e}) \union Remains(p, e)
(* A deletion changes one record, which the thread's job may change.       *)
LEMMA DeleteStrikes ==
  ASSUME IInv, IInv', NEW p \in Proc, Delete(p)
  PROVE  Records' = Records \/ \E e : Strikes(p, e)
<1> DEFINE c == Act(p)
           cu == Cur(p)
           n == cu.node
           x == N(p)
           e == E(x, cu.index)
           e1 == [e EXCEPT !.dtid = DeleteTid(p)]
           im0 == [Image EXCEPT !.cur[c].ate = Pruning(p)]
           im1 == IF Adjusts(p, e) THEN AdjustElm(im0, c, e1.dtid) ELSE im0
           im2 == IF Destroys(p, e) THEN DeleteElm(im1, c) ELSE im1
           b == Destroys(p, e) /\ Count(x) = 1
           out == IF b THEN RemoveNode(im2, c, {m \in Node : Free(m)})
                  ELSE [img |-> im2, ex |-> TRUE, up |-> NULL, held |-> {}]
           md == out.img.node
<1>1. /\ pr[p].pc = "delete"
      /\ UNCHANGED tree \/ (Upgrade(p) = NULL /\ Becomes(out.img))
  BY DEF Delete, At
<1>2. pr[p].pc \in Busy BY <1>1 DEF Busy
<1>3. Sits(p) /\ Sat(p) BY <1>2, SitsIs, SatIs
<1>4. /\ ~IsInternal(x) /\ cu.index \in 0 .. Count(x) - 1 /\ x.elms \in Seq(LeafElm)
      /\ Count(x) = Len(x.elms) /\ Doomed(Job(p), e) /\ Tree(root, node)
      /\ n \in InUse(node) /\ x = node[n]
  BY <1>1, <1>3, IInvIs DEF Sat, Ready
<1>5. e \in LeafElm BY <1>4 DEF E
<1>6. CASE UNCHANGED tree
  <2>1. node' = node BY <1>6 DEF tree
  <2>2. KeepsRecords(node, node') BY <2>1, KeepsSame
  <2> QED BY <2>2, RecordsKept
<1>7. CASE Upgrade(p) = NULL /\ Becomes(out.img)
  <2>1. e1.dtid = DeleteTid(p) BY <1>5 DEF LeafElm
  <2>2. \E y : DeletesAt(p, im2, y)
    <3>1. im0 = [Image EXCEPT !.cur[Act(p)].ate = Pruning(p)] OBVIOUS
    <3>2. e = E(N(p), Cur(p).index) OBVIOUS
    <3> HIDE DEF im0
    <3>3. im1 = IF Adjusts(p, e) THEN AdjustElm(im0, Act(p), DeleteTid(p)) ELSE im0 BY <2>1
    <3> HIDE DEF im1
    <3>4. im2 = IF Destroys(p, e) THEN DeleteElm(im1, Act(p)) ELSE im1 OBVIOUS
    <3> HIDE DEF im2, e
    <3> QED BY <1>1, <1>3, <1>7, <3>1, <3>2, <3>3, <3>4, StageTwo
  <2>3. PICK y : DeletesAt(p, im2, y) BY <2>2
  <2> HIDE DEF im2
  <2>4. Outcome(p, im2, out)
    <3>1. b => Destroys(p, E(N(p), Cur(p).index)) /\ Count(N(p)) = 1 OBVIOUS
    <3>2. out = IF b THEN RemoveNode(im2, Act(p), {m \in Node : Free(m)})
                ELSE [img |-> im2, ex |-> TRUE, up |-> NULL, held |-> {}]
      OBVIOUS
    <3> HIDE DEF b, out
    <3> QED BY <1>1, <1>3, <1>7, <2>3, <3>1, <3>2, OutcomeIs
  <2>5. KeepsLeaves(im2.node, md, n) BY <2>4 DEF Outcome
  <2>6. Struck(p, x, cu.index, y) /\ im2.node = [node EXCEPT ![n] = y] /\ y.type = x.type
    BY <1>4, <2>3 DEF DeletesAt, Staged
  <2>7. n \in Node /\ DOMAIN node = Node BY <1>4 DEF InUse, Tree
  <2>8. im2.node[n] = y BY <2>6, <2>7
  <2>9. Len(x.elms) \in Nat /\ cu.index \in 0 .. Len(x.elms) - 1 /\ cu.index + 1 \in 1 .. Len(x.elms)
    BY <1>4
  <2>10. KeepsRecords(im2.node, md)
    <3>1. CASE b
      <4>1. Destroys(p, e) /\ Len(x.elms) = 1 BY <1>4, <3>1
      <4>2. Len(y.elms) = 0 BY <2>6, <4>1 DEF Struck, Removed
      <4> QED BY <2>5, <2>8, <4>2, EmptiedKeeps
    <3>2. CASE ~b
      <4>1. md = im2.node BY <3>2
      <4> QED BY <4>1, KeepsSame
    <3> QED BY <3>1, <3>2
  <2>11. node' = md BY <1>7 DEF Becomes
  <2> DEFINE T == Remains(p, e)
             i == cu.index + 1
  <2>12. e = E(x, cu.index) /\ e = x.elms[i] BY DEF E
  <2> HIDE DEF b, out, md, e
  <2>13. Trades(x, y, i, T) BY <1>4, <2>6, <2>9, <2>12, StruckTrades
  <2>14. Leaf(node, n) BY <1>4 DEF Leaf
  <2> HIDE DEF T
  <2>15. \A f : Holds(im2.node, f) <=> ((Holds(node, f) /\ f # e) \/ f \in T)
    <3>1. /\ i \in 1 .. Len(node[n].elms) /\ y.type = node[n].type /\ Trades(node[n], y, i, T)
          /\ e = node[n].elms[i]
      BY <1>4, <2>6, <2>9, <2>12, <2>13
    <3>2. Tree(root, node) /\ im2.node = [node EXCEPT ![n] = y] BY <1>4, <2>6
    <3> HIDE DEF i, n, x, cu
    <3>3. Traded(node, im2.node, e, T) BY <2>14, <3>1, <3>2, TradeHolds
    <3> QED BY <3>3 DEF Traded
  <2>16. \A f : Holds(node', f) <=> Holds(im2.node, f) BY <2>10, <2>11 DEF KeepsRecords
  <2>17. \A f : (f \in Records) <=> Holds(node, f) BY RecordsNow
  <2>18. \A f : (f \in Records') <=> Holds(node', f) BY RecordsNext
  <2>19. \A f : (f \in Records') <=> (f \in (Records \ {e}) \union T) BY <2>15, <2>16, <2>17, <2>18
  <2>20. Records' = (Records \ {e}) \union T BY <2>19
  <2>21. e \in Records
    <3>1. i \in 1 .. Len(node[n].elms) /\ node[n].elms[i] = e BY <1>4, <2>9, <2>12
    <3>2. Holds(node, e) BY <2>14, <3>1 DEF Holds
    <3> QED BY <2>17, <3>2
  <2>22. Job(p) \in Jobs BY <1>3 DEF Sits
  <2>23. Doomed(Job(p), e) BY <1>4, <2>12
  <2>24. Strikes(p, e) BY <2>20, <2>21, <2>22, <2>23 DEF Strikes, T
  <2> QED BY <2>24
<1> QED BY <1>1, <1>6, <1>7
(* hammer_delete_at_cursor is a deletion or an adjustment of the index.    *)
LEMMA DeleteRecords ==
  ASSUME IInv, IInv', NEW p \in Proc, Delete(p)
  PROVE  [Index!Next]_Records
<1>1. CASE Records' = Records BY <1>1
<1>2. CASE \E e : Strikes(p, e)
  <2>1. PICK e : Strikes(p, e) BY <1>2
  <2> DEFINE j == Job(p)
             e1 == [e EXCEPT !.dtid = DeleteTid(p)]
  <2>2. /\ e \in Records /\ j \in Jobs /\ Doomed(j, e) /\ j \in Asked
        /\ Records' = (Records \ {e}) \union Remains(p, e)
    BY <2>1, JobAsked DEF Strikes
  <2>3. Op(p) = j.op BY DEF Op, Job
  <2>4. e \in LeafElm
    <3>1. Holds(node, e) BY <2>2, RecordsNow
    <3>2. PICK n : Leaf(node, n) /\ \E i \in 1 .. Len(node[n].elms) : node[n].elms[i] = e BY <3>1 DEF Holds
    <3>3. node \in [Node -> NodeRec] /\ Kinds(node) BY IInvIs DEF Tree
    <3> QED BY <3>2, <3>3, Shape DEF Leaf
  <2>5. e1.base = e.base /\ e1.dtid = DeleteTid(p) BY <2>4 DEF LeafElm
  <2>6. CASE j.op = "prune"
    <3>1. Destroys(p, e) BY <2>3, <2>6 DEF Destroys
    <3>2. ShouldPrune(j, e) BY <2>2, <2>6 DEF Doomed
    <3>3. e.dtid # 0 BY <3>2 DEF ShouldPrune
    <3>4. Index!MayDestroy(j, e) BY <2>6, <3>3 DEF Index!MayDestroy
    <3>5. Records' = Records \ {e} BY <2>2, <3>1 DEF Remains
    <3>6. Index!Destroy BY <2>2, <3>4, <3>5 DEF Index!Destroy
    <3> QED BY <3>6 DEF Index!Next
  <2>7. CASE j.op = "delete"
    <3>1. e.base = j.key BY <2>2, <2>7 DEF Doomed
    <3>2. Destroys(p, e) = j.des /\ Adjusts(p, e) = j.adj /\ DeleteTid(p) = j.tid
      BY <2>3, <2>7 DEF Destroys, Adjusts, DeleteTid, Job
    <3>3. CASE j.des
      <4>1. Index!MayDestroy(j, e) BY <2>7, <3>1, <3>3 DEF Index!MayDestroy
      <4>2. Records' = Records \ {e} BY <2>2, <3>2, <3>3 DEF Remains
      <4>3. Index!Destroy BY <2>2, <4>1, <4>2 DEF Index!Destroy
      <4> QED BY <4>3 DEF Index!Next
    <3>4. CASE ~j.des /\ j.adj
      <4>1. Index!MayAdjust(j, e, e1.dtid) BY <2>5, <2>7, <3>1, <3>2, <3>4 DEF Index!MayAdjust
      <4>2. Records' = (Records \ {e}) \union {e1} BY <2>2, <3>2, <3>4 DEF Remains
      <4> HIDE DEF e1
      <4>3. Index!Adjust BY <2>2, <2>5, <4>1, <4>2 DEF Index!Adjust
      <4> QED BY <4>3 DEF Index!Next
    <3>5. CASE ~j.des /\ ~j.adj
      <4>1. Records' = (Records \ {e}) \union {e} BY <2>2, <3>2, <3>5 DEF Remains
      <4>2. Records' = Records BY <2>2, <4>1
      <4> QED BY <4>2
    <3> QED BY <3>3, <3>4, <3>5
  <2>8. CASE j.op = "rollback"
    <3>1. e.base.t >= j.tid \/ e.dtid >= j.tid BY <2>2, <2>8 DEF Doomed, ShouldRollBack
    <3>2. /\ Destroys(p, e) = (e.base.t >= j.tid) /\ Adjusts(p, e) = (e.base.t < j.tid)
          /\ DeleteTid(p) = 0
      BY <2>3, <2>8 DEF Destroys, Adjusts, DeleteTid, Job
    <3>3. CASE e.base.t >= j.tid
      <4>1. Index!MayDestroy(j, e) BY <2>8, <3>3 DEF Index!MayDestroy
      <4>2. Records' = Records \ {e} BY <2>2, <3>2, <3>3 DEF Remains
      <4>3. Index!Destroy BY <2>2, <4>1, <4>2 DEF Index!Destroy
      <4> QED BY <4>3 DEF Index!Next
    <3>4. CASE ~(e.base.t >= j.tid)
      <4>1. e.base.t < j.tid
        <5>1. e.base.t \in Int /\ j.tid \in Int
          <6>1. e.base.t \in 1 .. MaxTid BY <2>4 DEF LeafElm
          <6>2. j.tid \in 1 .. MaxTid BY <2>2, <2>8, JobIs
          <6> HIDE DEF j
          <6> QED BY <6>1, <6>2
        <5> HIDE DEF j
        <5> QED BY <3>4, <5>1
      <4>2. Index!MayAdjust(j, e, e1.dtid) BY <2>5, <2>8, <3>1, <3>2, <3>4, <4>1 DEF Index!MayAdjust
      <4>3. Records' = (Records \ {e}) \union {e1} BY <2>2, <3>2, <3>4, <4>1 DEF Remains
      <4> HIDE DEF e1
      <4>4. Index!Adjust BY <2>2, <2>5, <4>2, <4>3 DEF Index!Adjust
      <4> QED BY <4>4 DEF Index!Next
    <3> QED BY <3>3, <3>4
  <2> QED BY <2>2, <2>6, <2>7, <2>8 DEF Doomed
<1> QED BY <1>1, <1>2, DeleteStrikes

(* The other steps change no leaf.                                         *)
Quietens(p) ==
  \/ Begin(p) \/ InitCursor(p) \/ InitLocked(p) \/ ParentLocked(p)
  \/ ChildLocked(p) \/ DeadlockClears(p) \/ SearchUp(p) \/ SearchGap(p)
  \/ SearchFound(p) \/ Yield(p) \/ Relock(p) \/ Push(p) \/ PropagateDeadlock(p)
  \/ IterUp(p) \/ IterEnd(p) \/ IterFilter(p) \/ IterDown(p) \/ IterLeaf(p) \/ End(p)
(* The steps that change neither leaf nor record.                          *)
LEMMA QuietKeeps ==
  ASSUME NEW p \in Proc, Quietens(p)
  PROVE  KeepsRecords(node, node')
<1>1. node' = node
  <2>1. CASE Begin(p) BY <2>1 DEF Begin, tree
  <2>2. CASE InitCursor(p) BY <2>2 DEF InitCursor, tree
  <2>3. CASE InitLocked(p) BY <2>3 DEF InitLocked, tree
  <2>4. CASE ParentLocked(p) BY <2>4 DEF ParentLocked, tree
  <2>5. CASE ChildLocked(p) BY <2>5 DEF ChildLocked, tree
  <2>6. CASE DeadlockClears(p) BY <2>6 DEF DeadlockClears, tree
  <2>7. CASE SearchUp(p) BY <2>7 DEF SearchUp, tree
  <2>8. CASE SearchGap(p) BY <2>8 DEF SearchGap, tree
  <2>9. CASE SearchFound(p) BY <2>9 DEF SearchFound, tree
  <2>10. CASE Yield(p) BY <2>10 DEF Yield, tree
  <2>11. CASE Relock(p) BY <2>11 DEF Relock, tree
  <2>12. CASE Push(p) BY <2>12 DEF Push, tree
  <2>13. CASE PropagateDeadlock(p) BY <2>13 DEF PropagateDeadlock, tree
  <2>14. CASE IterUp(p) BY <2>14 DEF IterUp, tree
  <2>15. CASE IterEnd(p) BY <2>15 DEF IterEnd, tree
  <2>16. CASE IterFilter(p) BY <2>16 DEF IterFilter, tree
  <2>17. CASE IterDown(p) BY <2>17 DEF IterDown, tree
  <2>18. CASE IterLeaf(p) BY <2>18 DEF IterLeaf, tree
  <2>19. CASE End(p) BY <2>19 DEF End, tree
  <2> QED BY <2>1, <2>2, <2>3, <2>4, <2>5, <2>6, <2>7, <2>8, <2>9, <2>10, <2>11, <2>12,
             <2>13, <2>14, <2>15, <2>16, <2>17, <2>18, <2>19 DEF Quietens
<1> QED BY <1>1, KeepsSame

(* A step changes the records as a deletion does, or as an insertion, or   *)
(* not at all.                                                             *)
LEMMA StepKinds ==
  ASSUME IInv, IInv', [Next]_vars
  PROVE  \/ \E p \in Proc : Insert(p) \/ Delete(p)
         \/ Records' = Records
<1>1. ASSUME NEW p \in Proc, Quietens(p) PROVE Records' = Records BY <1>1, QuietKeeps, RecordsKept
<1>2. ASSUME NEW p \in Proc, \/ SearchDeadlock(p) \/ SearchDown(p) \/ SearchNotFound(p)
                             \/ Propagate(p) \/ Move(p)
      PROVE Records' = Records
  BY <1>2, SearchDeadlockKeeps, SearchDownKeeps, SearchNotFoundKeeps, PropagateKeeps, MoveKeeps,
     RecordsKept
<1>3. CASE UNCHANGED vars
  <2>1. node' = node BY <1>3 DEF vars
  <2>2. KeepsRecords(node, node') BY <2>1, KeepsSame
  <2> QED BY <2>2, RecordsKept
<1>4. CASE Finished
  <2>1. UNCHANGED vars BY <1>4 DEF Finished
  <2> QED BY <1>3, <2>1
<1>5. ASSUME NEW p \in Proc,
             \/ Begin(p) \/ InitCursor(p) \/ InitLocked(p) \/ ParentLocked(p)
             \/ ChildLocked(p) \/ DeadlockClears(p) \/ SearchUp(p) \/ SearchGap(p)
             \/ SearchDeadlock(p) \/ SearchDown(p) \/ SearchFound(p)
             \/ SearchNotFound(p) \/ Insert(p) \/ Delete(p) \/ Yield(p)
             \/ Relock(p) \/ Push(p) \/ PropagateDeadlock(p) \/ Propagate(p)
             \/ IterUp(p) \/ IterEnd(p) \/ IterFilter(p) \/ IterDown(p)
             \/ IterLeaf(p) \/ Move(p) \/ End(p)
      PROVE  Insert(p) \/ Delete(p) \/ Records' = Records
  BY <1>1, <1>2, <1>5 DEF Quietens
<1> QED BY <1>3, <1>4, <1>5 DEF Next

(* Whatever the nodes do, the tree is a set of records with distinct keys, *)
(* to which one record at a time is added, changed or removed, as a call   *)
(* in progress asks for it.                                                *)
THEOREM ImplementsIndex == Spec => Refines
<1>1. IInv => Index!Init
  <2> SUFFICES ASSUME IInv, NEW e \in Records, NEW f \in Records, e.base = f.base PROVE e = f
    BY DEF Index!Init
  <2>1. Holds(node, e) /\ Holds(node, f) /\ Tree(root, node) BY RecordsNow, IInvIs
  <2> QED BY <2>1, RecordsDiffer
<1>2. IInv /\ IInv' /\ [Next]_vars => [Index!Next]_Records
  <2> SUFFICES ASSUME IInv, IInv', [Next]_vars PROVE [Index!Next]_Records OBVIOUS
  <2>1. CASE Records' = Records BY <2>1
  <2>2. ASSUME NEW p \in Proc, Insert(p) PROVE [Index!Next]_Records BY <2>2, InsertRecords
  <2>3. ASSUME NEW p \in Proc, Delete(p) PROVE [Index!Next]_Records BY <2>3, DeleteRecords
  <2> QED BY <2>1, <2>2, <2>3, StepKinds
<1> QED BY <1>1, <1>2, InitIInv, NextIInv, PTL DEF Spec, Refines, Index!Spec
-----------------------------------------------------------------------------
(* Between two times of one period there is no boundary of periods.        *)
LEMMA DivIs ==
  ASSUME NEW a \in Nat, NEW m \in Nat \ {0}
  PROVE  /\ a \div m \in Int /\ a % m \in Int
         /\ m * (a \div m) <= a /\ a < m * (a \div m) + m
         /\ a = m * (a \div m) + (a % m)
OBVIOUS

(* Between two numbers in one bucket there is no multiple of its size.     *)
LEMMA NoBoundary ==
  ASSUME NEW a \in Nat, NEW b \in Nat, NEW c \in Nat, NEW m \in Nat \ {0},
         a < c, c < b, a \div m = b \div m
  PROVE  c % m # 0
<1> DEFINE q == a \div m
           k == c \div m
<1>1. q \in Int /\ k \in Int /\ m * q <= a /\ b < m * q + m /\ c = m * k + (c % m) BY DivIs
<1> HIDE DEF q, k
<1>2. SUFFICES ASSUME c % m = 0 PROVE FALSE OBVIOUS
<1>3. c = m * k /\ m * k \in Int /\ m * q \in Int BY <1>1, <1>2
<1>4. m * q < m * k /\ m * k < m * q + m BY <1>1, <1>3
<1>5. k > q
  <2> SUFFICES ASSUME k <= q PROVE FALSE BY <1>1
  <2>1. m * k <= m * q BY <1>1
  <2> QED BY <1>3, <1>4, <2>1
<1>6. k >= q + 1 BY <1>1, <1>5
<1>7. m * k >= m * (q + 1) BY <1>1, <1>6
<1>8. m * (q + 1) = m * q + m BY <1>1
<1> QED BY <1>3, <1>4, <1>7, <1>8
(* prune_should_delete picks no record that a retained snapshot shows.     *)
LEMMA PrunedUnseen ==
  ASSUME NEW j \in Jobs, j.op = "prune", NEW e \in LeafElm, ShouldPrune(j, e), NEW s \in Retained(j)
  PROVE  ~(e.base.t < s /\ Visible(s, e))
<1>1. j \in [op : {"prune"}, key : JobKey, all : BOOLEAN, elms : Seq(Period)] /\ BackInTime(j)
  BY DEF Jobs, AnyJob
<1>2. j.elms \in Seq(Period) /\ DOMAIN j.elms = 1 .. Len(j.elms) /\ Len(j.elms) \in Nat BY <1>1
<1>3. \A i \in DOMAIN j.elms : j.elms[i].beg \in Nat /\ j.elms[i].end \in Nat /\ j.elms[i].mod \in Nat \ {0}
  <2>1. \A i \in DOMAIN j.elms : j.elms[i] \in Period BY <1>2
  <2> QED BY <2>1 DEF Period
<1>4. \A h, i \in DOMAIN j.elms : h < i => j.elms[i].end <= j.elms[h].beg
  BY <1>1, <1>2 DEF BackInTime
<1> DEFINE b == e.base.t
           d == e.dtid
<1>5. b \in 1 .. MaxTid /\ d \in 0 .. MaxTid /\ MaxTid \in Nat BY ProcAssumption DEF LeafElm, Tid
<1>6. s \in 1 .. MaxTid BY ProcAssumption DEF Retained
<1>7. d # 0 BY DEF ShouldPrune
<1>8. SUFFICES ASSUME b < s, Visible(s, e) PROVE FALSE OBVIOUS
<1>9. s < d BY <1>5, <1>6, <1>7, <1>8 DEF Visible
<1>10. CASE j.all
  <2>1. s = MaxTid BY <1>10 DEF Retained
  <2> HIDE DEF b, d
  <2> QED BY <1>5, <1>9, <2>1
<1>11. CASE ~j.all
  <2>1. PICK i \in DOMAIN j.elms :
          /\ b >= j.elms[i].beg /\ d <= j.elms[i].end
          /\ (b - j.elms[i].beg) \div j.elms[i].mod = (d - j.elms[i].beg) \div j.elms[i].mod
    BY <1>11 DEF ShouldPrune
  <2>2. \/ \E h \in DOMAIN j.elms : /\ s \in j.elms[h].beg .. j.elms[h].end
                                    /\ (s - j.elms[h].beg) % j.elms[h].mod = 0
        \/ \A h \in DOMAIN j.elms : s > j.elms[h].end
    BY <1>11 DEF Retained
  <2> HIDE DEF b, d
  <2> DEFINE beg == j.elms[i].beg
             end == j.elms[i].end
             m == j.elms[i].mod
  <2>3. beg \in Nat /\ end \in Nat /\ m \in Nat \ {0} /\ b >= beg /\ d <= end
        /\ (b - beg) \div m = (d - beg) \div m
    BY <1>3, <2>1
  <2>4. CASE \A h \in DOMAIN j.elms : s > j.elms[h].end
    <3>1. s > end BY <2>4
    <3> HIDE DEF end
    <3> QED BY <1>5, <1>6, <1>9, <2>3, <3>1
  <2>5. ASSUME NEW h \in DOMAIN j.elms, s \in j.elms[h].beg .. j.elms[h].end,
               (s - j.elms[h].beg) % j.elms[h].mod = 0
        PROVE  FALSE
    <3> DEFINE beg2 == j.elms[h].beg
               end2 == j.elms[h].end
    <3>1. beg2 \in Nat /\ end2 \in Nat BY <1>3
    <3>2. s >= beg2 /\ s <= end2 BY <2>5, <3>1
    <3>3. CASE h < i
      <4>1. end <= beg2 BY <1>4, <3>3
      <4> HIDE DEF beg, end, m, beg2, end2
      <4> QED BY <1>5, <1>6, <1>9, <2>3, <3>1, <3>2, <4>1
    <3>4. CASE i < h
      <4>1. end2 <= beg BY <1>4, <3>4
      <4> HIDE DEF beg, end, m, beg2, end2
      <4> QED BY <1>5, <1>6, <1>8, <2>3, <3>1, <3>2, <4>1
    <3>5. CASE h = i
      <4>1. (s - beg) % m = 0 BY <2>5, <3>5
      <4> HIDE DEF beg, end, m
      <4>2. /\ b - beg \in Nat /\ d - beg \in Nat /\ s - beg \in Nat
            /\ b - beg < s - beg /\ s - beg < d - beg
        BY <1>5, <1>6, <1>8, <1>9, <2>3
      <4>3. (s - beg) % m # 0 BY <2>3, <4>2, NoBoundary
      <4> QED BY <4>1, <4>3
    <3>6. h \in Int /\ i \in Int BY <1>2
    <3> QED BY <3>3, <3>4, <3>5, <3>6
  <2> QED BY <2>2, <2>4, <2>5
<1> QED BY <1>10, <1>11

(* Only its own steps change a thread's state, and only a deletion ends    *)
(* one.                                                                    *)
Unmoved(p, q) == q # p /\ pr'[p] = pr[p]
(* A thread leaves "delete" by its own step only.                          *)
LEMMA OwnStep ==
  ASSUME IInv, [Next]_vars, NEW p \in Proc, pr[p].pc = "delete", pr'[p].pc # "delete"
  PROVE  Delete(p)
<1>1. pr \in [Proc -> State] BY IInvIs
<1>2. ASSUME NEW q \in Proc,
             \/ Begin(q) \/ InitCursor(q) \/ InitLocked(q) \/ ParentLocked(q) \/ ChildLocked(q) \/ DeadlockClears(q)
             \/ SearchUp(q) \/ SearchGap(q) \/ SearchDeadlock(q) \/ SearchDown(q) \/ SearchFound(q)
             \/ SearchNotFound(q) \/ Insert(q) \/ Yield(q) \/ Relock(q) \/ Push(q)
             \/ PropagateDeadlock(q) \/ Propagate(q) \/ IterUp(q) \/ IterEnd(q) \/ IterFilter(q)
             \/ IterDown(q) \/ IterLeaf(q) \/ Move(q) \/ End(q)
      PROVE  Unmoved(p, q)
  <2>1. CASE Begin(q) BY <1>1, <2>1 DEF Begin, At, Unmoved
  <2>2. CASE InitCursor(q) BY <1>1, <2>2 DEF InitCursor, At, Unmoved
  <2>3. CASE InitLocked(q) BY <1>1, <2>3 DEF InitLocked, At, Unmoved
  <2>4. CASE ParentLocked(q) BY <1>1, <2>4 DEF ParentLocked, At, Unmoved
  <2>5. CASE ChildLocked(q) BY <1>1, <2>5 DEF ChildLocked, At, Unmoved
  <2>6. CASE DeadlockClears(q) BY <1>1, <2>6 DEF DeadlockClears, At, Unmoved
  <2>7. CASE SearchUp(q) BY <1>1, <2>7 DEF SearchUp, CursorUp, At, Unmoved
  <2>8. CASE SearchGap(q) BY <1>1, <2>8 DEF SearchGap, At, Unmoved
  <2>9. CASE SearchDeadlock(q) BY <1>1, <2>9 DEF SearchDeadlock, AtInternal, Restart, Done, At, Unmoved
  <2>10. CASE SearchDown(q) BY <1>1, <2>10 DEF SearchDown, AtInternal, CursorDown, At, Unmoved
  <2>11. CASE SearchFound(q) BY <1>1, <2>11 DEF SearchFound, AtLeaf, At, Unmoved
  <2>12. CASE SearchNotFound(q) BY <1>1, <2>12 DEF SearchNotFound, AtLeaf, Restart, Done, At, Unmoved
  <2>13. CASE Insert(q) BY <1>1, <2>13 DEF Insert, Restart, Done, At, Unmoved
  <2>14. CASE Yield(q) BY <1>1, <2>14 DEF Yield, At, Unmoved
  <2>15. CASE Relock(q) BY <1>1, <2>15 DEF Relock, At, Unmoved
  <2>16. CASE Push(q) BY <1>1, <2>16 DEF Push, At, Unmoved
  <2>17. CASE PropagateDeadlock(q) BY <1>1, <2>17 DEF PropagateDeadlock, At, Unmoved
  <2>18. CASE Propagate(q) BY <1>1, <2>18 DEF Propagate, CursorUp, At, Unmoved
  <2>19. CASE IterUp(q) BY <1>1, <2>19 DEF IterUp, Stepping, CursorUp, At, Unmoved
  <2>20. CASE IterEnd(q) BY <1>1, <2>20 DEF IterEnd, Stepping, At, Unmoved
  <2>21. CASE IterFilter(q) BY <1>1, <2>21 DEF IterFilter, InRange, Stepping, At, Unmoved
  <2>22. CASE IterDown(q) BY <1>1, <2>22 DEF IterDown, InRange, Stepping, At, Unmoved
  <2>23. CASE IterLeaf(q) BY <1>1, <2>23 DEF IterLeaf, InRange, Stepping, At, Unmoved
  <2>24. CASE Move(q) BY <1>1, <2>24 DEF Move, Restart, Done, At, Unmoved
  <2>25. CASE End(q) BY <1>1, <2>25 DEF End, Finish, Done, At, Unmoved
  <2> QED BY <1>2, <2>1, <2>2, <2>3, <2>4, <2>5, <2>6, <2>7, <2>8, <2>9, <2>10, <2>11, <2>12, <2>13,
             <2>14, <2>15, <2>16, <2>17, <2>18, <2>19, <2>20, <2>21, <2>22, <2>23, <2>24, <2>25
<1>3. ASSUME NEW q \in Proc, Delete(q), q # p PROVE pr'[p] = pr[p]
  BY <1>1, <1>3 DEF Delete, Restart, Done
<1>4. ~UNCHANGED vars /\ ~Finished BY DEF vars, Finished
<1> QED BY <1>2, <1>3, <1>4 DEF Next, Unmoved

(* Pruning destroys no record that a retained snapshot shows.              *)
THEOREM PruningKeepsSnapshots == Spec => PruneKeepsSnapshots
<1> DEFINE Keeps1 == \A p \in Proc : At("delete", p) /\ Pruning(p) /\ pr'[p].pc # "delete" =>
              \A e \in Records \ Records' : \A s \in Retained(Job(p)) :
                ~(e.base.t < s /\ Visible(s, e))
<1>1. IInv /\ IInv' /\ [Next]_vars => Keeps1
  <2> SUFFICES ASSUME IInv, IInv', [Next]_vars, NEW p \in Proc, At("delete", p), Pruning(p),
                      pr'[p].pc # "delete", NEW e \in Records \ Records', NEW s \in Retained(Job(p))
               PROVE  ~(e.base.t < s /\ Visible(s, e))
    OBVIOUS
  <2>1. Delete(p) BY OwnStep DEF At
  <2>2. PICK f : Strikes(p, f) BY <2>1, DeleteStrikes
  <2>3. f \in Records /\ Job(p) \in Jobs /\ Doomed(Job(p), f) /\ Records \ Records' \subseteq {f}
    BY <2>2 DEF Strikes
  <2>4. e = f BY <2>3
  <2>5. Job(p).op = "prune" /\ ShouldPrune(Job(p), e) BY <2>3, <2>4 DEF Pruning, Op, Job, Doomed
  <2>6. e \in LeafElm
    <3>1. Holds(node, e) BY RecordsNow
    <3>2. PICK n : Leaf(node, n) /\ \E i \in 1 .. Len(node[n].elms) : node[n].elms[i] = e BY <3>1 DEF Holds
    <3>3. node \in [Node -> NodeRec] /\ Kinds(node) BY IInvIs DEF Tree
    <3> QED BY <3>2, <3>3, Shape DEF Leaf
  <2> QED BY <2>3, <2>5, <2>6, PrunedUnseen
<1>2. IInv /\ IInv' /\ [Next]_vars => [Keeps1]_vars BY <1>1
<1> QED BY <1>2, InitIInv, NextIInv, PTL DEF Spec, PruneKeepsSnapshots
=============================================================================
