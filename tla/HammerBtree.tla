---------------------------- MODULE HammerBtree ----------------------------
(***************************************************************************)
(* Processes that work on one B-Tree through cursors: searching, inserting *)
(* and deleting (hammer_btree.c, hammer_object.c:hammer_delete_at_cursor), *)
(* scanning forwards, pruning backwards (hammer_prune.c), moving nodes     *)
(* (hammer_reblock.c) and reading for a mirror (hammer_mirror.c).          *)
(*                                                                         *)
(* A step runs from one point where the code may wait for a node's lock to *)
(* the next: everything else it does to the tree it does under exclusive   *)
(* locks, which it only ever tries for and gives up on with EDEADLK.       *)
(* hammer_lock is modelled by its holders (HammerLock is the lock itself). *)
(*                                                                         *)
(* A process has a cursor <<p, 1>>, and while it propagates a mirror_tid a *)
(* pushed one, <<p, 2>>.  A cursor's bounds are its parent's elements.     *)
(*                                                                         *)
(* seen and owed are history: the records a job has come across, and the   *)
(* ones that have been in the tree, unchanged, since it began.             *)
(***************************************************************************)
EXTENDS HammerBtreeNode

CONSTANTS Proc,       \* threads with a cursor
          Scenarios,  \* [root, node, jobs]: trees the file system may be mounted
                      \* with, and what each thread is asked to do, a sequence of
                      \* sets of jobs
          MaxTid      \* transaction ids run from 1 to MaxTid

(* Records and references, and what a thread can be asked to do; the       *)
(* periods of a pruning run go back in time.                               *)
Tid     == 0 .. MaxTid
AnyKey  == [k : 0 .. MaxKey, t : Tid]
LeafElm == [base : [k : 0 .. MaxKey, t : 1 .. MaxTid], dtid : Tid]
IntElm  == [base : AnyKey, sub : Node \union {NULL}, mtid : Nat]
NodeRec == [type : {"free", "deleted", "I", "L"}, parent : Node \union {NULL},
            mtid : Nat, elms : Seq(LeafElm) \union Seq(IntElm)]

Period  == [beg : Nat, end : Nat, mod : Nat \ {0}]
JobKey  == [k : 0 .. MaxKey - 1, t : Tid]
AnyJob  ==
       [op : {"insert"}, key : [k : 0 .. MaxKey - 1, t : 1 .. MaxTid]]
  \cup [op : {"delete"}, key : JobKey, adj : BOOLEAN, des : BOOLEAN, tid : 1 .. MaxTid]
  \cup [op : {"lookup", "scan"}, key : JobKey, asof : Tid]
  \cup [op : {"prune"}, key : JobKey, all : BOOLEAN, elms : Seq(Period)]
  \cup [op : {"reblock"}, key : JobKey, sparse : SUBSET Node]
  \cup [op : {"mirror", "rollback"}, key : JobKey, tid : 1 .. MaxTid]
BackInTime(j) ==
  j.op = "prune" => \A h, i \in 1 .. Len(j.elms) : h < i => j.elms[i].end <= j.elms[h].beg
Jobs == {j \in AnyJob : BackInTime(j)}

Kinds(nd) ==
  \A n \in InUse(nd) : nd[n].elms \in IF IsInternal(nd[n]) THEN Seq(IntElm) ELSE Seq(LeafElm)

ASSUME ProcAssumption == NULL \notin Proc /\ NULL \notin Jobs /\ MaxTid \in Nat \ {0}
ASSUME ScenarioAssumption ==
  \A sc \in Scenarios :
    /\ sc.node \in [Node -> NodeRec] /\ Kinds(sc.node) /\ WellFormed(sc.root, sc.node)
    /\ \A p \in Proc : sc.jobs[p] \in Seq(SUBSET Jobs)

VARIABLES root,       \* vol0_btree_root
          node,       \* [Node -> node]
          cur,        \* [Cursor -> cursor]
          lk,         \* [Node -> [ex: owner, sh: shared holders]]
          pr,         \* [Proc -> state of the call]
          seen, owed, \* history
          panic       \* a KKASSERT has failed

vars == <<root, node, cur, lk, pr, seen, owed, panic>>
tree == <<root, node>>
hist == <<seen, owed>>

Cursor == Proc \X {1, 2}
NoCursor == [node |-> NULL, index |-> 0, parent |-> NULL, pindex |-> 0,
             trk |-> FALSE, rip |-> FALSE, ate |-> FALSE]
Idle == [pc |-> "idle", cont |-> "", jobs |-> <<>>, job |-> NULL, want |-> NULL,
         dlk |-> NULL, beg |-> RootBeg, end |-> RootEnd, check |-> 0,
         enospc |-> FALSE, tid |-> 0, cache |-> NULL]

Image == [root |-> root, node |-> node, cur |-> cur]
Becomes(img) == root' = img.root /\ node' = img.node /\ cur' = img.cur

Init ==
  /\ \E sc \in Scenarios : /\ root = sc.root /\ node = sc.node
                            /\ pr = [p \in Proc |-> [Idle EXCEPT !.jobs = sc.jobs[p]]]
  /\ cur = [c \in Cursor |-> NoCursor]
  /\ lk = [n \in Node |-> [ex |-> NULL, sh |-> {}]]
  /\ seen = [p \in Proc |-> {}] /\ owed = [p \in Proc |-> {}]
  /\ panic = FALSE

-----------------------------------------------------------------------------
(* The nodes in use, and the records in them.                              *)
Used == InUse(node)
Records == UNION {ToSet(node[n].elms) : n \in {m \in Used : ~IsInternal(node[m])}}

At(pc, p) == pr[p].pc = pc
Job(p)  == pr[p].job
Op(p)   == pr[p].job.op
Act(p)  == IF cur[<<p, 2>>].node # NULL THEN <<p, 2>> ELSE <<p, 1>>  \* the cursor in use
Cur(p)  == cur[Act(p)]
N(p)    == node[Cur(p).node]

Inserting(p) == Op(p) = "insert"                       \* HAMMER_CURSOR_INSERT
Pruning(p)   == Op(p) = "prune"                        \* HAMMER_CURSOR_PRUNING
AsOf(p)      == Op(p) \in {"lookup", "scan"}           \* HAMMER_CURSOR_ASOF
Filtered(p)  == Op(p) \in {"mirror", "rollback"}       \* HAMMER_CURSOR_MIRROR_FILTERED
Yields(p)    == Op(p) \in {"prune", "reblock", "rollback"}
Iterating(p) == Op(p) \notin {"insert", "delete", "lookup"}

(* What is searched for: hammer_btree_last starts at the end.              *)
Key(p) == IF Pruning(p) THEN pr[p].end ELSE pr[p].beg

LeftBound(p)  == IF Cur(p).parent = NULL THEN RootBeg
                 ELSE E(node[Cur(p).parent], Cur(p).pindex).base
RightBound(p) == IF Cur(p).parent = NULL THEN RootEnd
                 ELSE E(node[Cur(p).parent], Cur(p).pindex + 1).base

(* Locks: p comes to hold exactly ex exclusively and sh shared.            *)
Lock(p, ex, sh) ==
  lk' = [n \in Node |->
           [ex |-> IF n \in ex THEN p ELSE IF lk[n].ex = p THEN NULL ELSE lk[n].ex,
            sh |-> IF n \in sh THEN lk[n].sh \union {p} ELSE lk[n].sh \ {p}]]
Free(n)          == lk[n].ex = NULL /\ lk[n].sh = {}          \* hammer_lock_ex, _try
CanShare(n)      == lk[n].ex = NULL                           \* hammer_lock_sh
CanUpgrade(p, n) == lk[n].ex = p \/ lk[n].sh = {p}            \* hammer_lock_upgrade

(* hammer_cursor_upgrade: the first of node and parent that others share.  *)
Upgrade(p) ==
  IF ~CanUpgrade(p, Cur(p).node) THEN Cur(p).node
  ELSE IF Cur(p).parent # NULL /\ ~CanUpgrade(p, Cur(p).parent) THEN Cur(p).parent
  ELSE NULL

Mine(cu) == {cu.node, cu.parent} \ {NULL}

(* hammer_done_cursor: locks go first, then the thread waits for the node  *)
(* it deadlocked on.                                                       *)
Done(p, state) ==
  /\ cur' = [cur EXCEPT ![<<p, 1>>] = NoCursor]
  /\ Lock(p, {}, {})
  /\ pr' = [pr EXCEPT ![p] = state]

(* EDEADLK: the caller is done with the cursor and starts over; a pruning  *)
(* or reblocking run starts over where it was.                             *)
Restart(p, n) ==
  LET at == E(N(p), Cur(p).index).base IN
  Done(p, [pr[p] EXCEPT !.pc = "dlk", !.dlk = n, !.cont = "start", !.check = 0,
             !.enospc = FALSE,
             !.end = IF Pruning(p) /\ ~At("search", p)
                       THEN [k |-> at.k, t |-> MaxTid] ELSE @,
             !.beg = CASE Op(p) = "reblock"  -> [k |-> at.k, t |-> 1]
                       [] Op(p) = "rollback" -> at
                       [] OTHER              -> @])

(* The end of a job; the leaf it ends on may be remembered (hammer_cache_node). *)
Finish(p) ==
  Done(p, [Idle EXCEPT !.jobs = Tail(pr[p].jobs),
             !.cache = IF Iterating(p) THEN NULL ELSE Cur(p).node])

(* hammer_load_cursor_parent, up to where it waits.                        *)
AwaitParent(st, n, par, next) ==
  IF par = NULL THEN [st EXCEPT !.pc = next]
  ELSE [st EXCEPT !.pc = "parent", !.want = par, !.cont = next]

(* hammer_cursor_up, leaving the cursor at `index' of the parent (the      *)
(* reblocker gets the node as a new element).                              *)
Raised(p, index) ==
  [Cur(p) EXCEPT !.node = Cur(p).parent, !.index = index, !.parent = NULL, !.pindex = 0,
                 !.ate = @ \/ Op(p) = "reblock"]
CursorUp(p, index, next) ==
  LET par == Cur(p).parent IN
  /\ cur' = [cur EXCEPT ![Act(p)] = Raised(p, index)]
  /\ Lock(p, {}, {par})
  /\ pr' = [pr EXCEPT ![p] = AwaitParent(@, par, node[par].parent, next)]

(* hammer_cursor_down from an image of the tree, up to where it waits; bad *)
(* if the search has met a KKASSERT on the way.                            *)
CursorDown(p, img, st, next, bad) ==
  LET cu == img.cur[Act(p)]
      ch == E(img.node[cu.node], cu.index).sub
  IN /\ root' = img.root /\ node' = img.node
     /\ cur' = [img.cur EXCEPT ![Act(p)] =
                  [@ EXCEPT !.parent = cu.node, !.pindex = cu.index,
                            !.node = NULL, !.index = 0]]
     /\ Lock(p, {}, {cu.node})
     /\ pr' = [pr EXCEPT ![p] = [st EXCEPT !.pc = "child", !.want = ch,
                                           !.cont = next]]
     /\ panic' = (panic \/ bad \/ img.node[ch].parent # cu.node)

-----------------------------------------------------------------------------
(* A job: an ioctl, or the flusher at work on a record.  A mirror is read  *)
(* up to flush_tid1 (hammer_ioc_get_pseudofs), when all changes up to it   *)
(* have been flushed.                                                      *)
Flushed(p) == \A q \in Proc \ {p} : At("idle", q) /\ pr[q].jobs = <<>>

Begin(p) ==
  /\ At("idle", p) /\ pr[p].jobs # <<>>
  /\ \E j \in Head(pr[p].jobs) :
       /\ j.op = "mirror" => Flushed(p)
       /\ pr' = [pr EXCEPT ![p] =
                   [@ EXCEPT !.pc = "start", !.job = j,
                      !.beg = IF j.op \in {"lookup", "scan"}
                                THEN [j.key EXCEPT !.t = j.asof] ELSE j.key,
                      !.end = [k |-> MaxKey - 1, t |-> MaxTid]]]
       /\ owed' = [owed EXCEPT ![p] = Records]
  /\ seen' = [seen EXCEPT ![p] = {}]
  /\ UNCHANGED <<tree, cur, lk, panic>>

(* hammer_init_cursor: from the cached node, or from the root.             *)
InitCursor(p) ==
  /\ At("start", p)
  /\ LET ca == pr[p].cache
         ok == ca # NULL /\ Op(p) \in {"insert", "delete", "lookup"} IN
     pr' = [pr EXCEPT ![p] = [@ EXCEPT !.pc = "first",
              !.want = IF ok THEN ca ELSE root, !.cont = IF ok THEN "cache" ELSE "root"]]
  /\ UNCHANGED <<tree, cur, lk, hist, panic>>

(* ... with the node locked, look again whether it is gone.                *)
InitLocked(p) ==
  /\ At("first", p) /\ CanShare(pr[p].want)
  /\ LET n == pr[p].want IN
     IF node[n].type = "deleted" \/ (pr[p].cont = "root" /\ root # n)
       THEN /\ pr' = [pr EXCEPT ![p] = [@ EXCEPT !.pc = "start", !.cache = NULL,
                                                 !.want = NULL]]
            /\ UNCHANGED <<cur, lk>>
       ELSE /\ cur' = [cur EXCEPT ![<<p, 1>>] = [NoCursor EXCEPT !.node = n]]
            /\ Lock(p, {}, {n})
            /\ pr' = [pr EXCEPT ![p] = AwaitParent([@ EXCEPT !.want = NULL], n,
                                                   node[n].parent, "search")]
  /\ UNCHANGED <<tree, hist, panic>>

(* The parent's lock has been had (hammer_load_cursor_parent).             *)
ParentLocked(p) ==
  /\ At("parent", p) /\ CanShare(pr[p].want)
  /\ cur' = [cur EXCEPT ![Act(p)] =
               [@ EXCEPT !.parent = pr[p].want,
                         !.pindex = ParentIndex(node, Cur(p).node)]]
  /\ Lock(p, {}, {Cur(p).node, pr[p].want})
  /\ pr' = [pr EXCEPT ![p] = [@ EXCEPT !.pc = pr[p].cont, !.want = NULL]]
  /\ panic' = (panic \/ Cur(p).node \notin Children(node[pr[p].want]))
  /\ UNCHANGED <<tree, hist>>

(* The child's lock has been had (hammer_cursor_down); a reverse iteration *)
(* goes on at its last element.                                            *)
ChildLocked(p) ==
  /\ At("child", p) /\ CanShare(pr[p].want)
  /\ LET n == pr[p].want IN
     /\ cur' = [cur EXCEPT ![Act(p)] =
                  [@ EXCEPT !.node = n,
                            !.index = IF Pruning(p) /\ pr[p].cont = "iter"
                                        THEN Count(node[n]) - 1 ELSE 0]]
     /\ Lock(p, {}, {Cur(p).parent, n})
     /\ panic' = (panic \/ node[n].type = "deleted")
  /\ pr' = [pr EXCEPT ![p] = [@ EXCEPT !.pc = pr[p].cont, !.want = NULL]]
  /\ UNCHANGED <<tree, hist>>

(* Wait for the deadlock to clear: lock the node exclusively and unlock it.*)
DeadlockClears(p) ==
  /\ At("dlk", p) /\ Free(pr[p].dlk)
  /\ pr' = [pr EXCEPT ![p] = [@ EXCEPT !.pc = pr[p].cont, !.dlk = NULL]]
  /\ UNCHANGED <<tree, cur, lk, hist, panic>>

-----------------------------------------------------------------------------
(* btree_search and hammer_btree_lookup.                                   *)
InBounds(p) == Cmp(Key(p), LeftBound(p)) >= 0 /\ Cmp(Key(p), RightBound(p)) < 0

(* An insertion goes up further if neither this node nor its parent has    *)
(* room.                                                                   *)
NoRoomHere(p) ==
  /\ Inserting(p) /\ ~pr[p].enospc /\ Full(N(p))
  /\ N(p).parent # NULL /\ Full(node[Cur(p).parent])

SearchUp(p) ==
  /\ At("search", p) /\ (~InBounds(p) \/ NoRoomHere(p))
  /\ CursorUp(p, Cur(p).pindex, "search")
  /\ panic' = (panic \/ Cur(p).parent = NULL)
  /\ UNCHANGED <<tree, hist>>

(* create_check: an element that differs from the key by its create_tid    *)
(* only, and is earlier; an as-of search may have to go left of it.        *)
Earlier(p) ==
  LET es == {LeftBound(p)} \union
              (IF IsInternal(N(p)) THEN {e.base : e \in ToSet(N(p).elms)} ELSE {})
  IN {e \in es : Cmp(Key(p), e) = 1}
CreateCheck(p) ==
  IF Earlier(p) = {} THEN pr[p].check
  ELSE (CHOOSE e \in Earlier(p) : \A f \in Earlier(p) : Cmp(e, f) >= 0).t - 1
BadCheck(p) == \E e \in Earlier(p) : e.t = 1

(* How many elements, the boundary included, are not beyond the key.       *)
Passed(p) == Cardinality({i \in 0 .. Count(N(p)) : Cmp(Key(p), E(N(p), i).base) >= 0})
Gap(p)    == Passed(p) \in {0, Count(N(p)) + 1}

(* prune_should_delete: deleted in the same period it was created in; the  *)
(* list of periods runs back in time.                                      *)
PruneDivLess(j, e) ==
  IF j.all THEN e.dtid # 0
  ELSE \E i \in DOMAIN j.elms :
         LET s == j.elms[i] IN e.dtid # 0 /\ e.base.t >= s.beg /\ e.dtid <= s.end
ShouldPrune(j, e) ==
  IF j.all THEN e.dtid # 0
  ELSE \E i \in DOMAIN j.elms :
         LET s == j.elms[i] IN
         /\ \A h \in 1 .. i : e.base.t < j.elms[h].end /\ e.dtid <= j.elms[h].end
         /\ e.dtid # 0 /\ e.base.t >= s.beg /\ e.dtid <= s.end
         /\ (e.base.t - s.beg) \div s.mod = (e.dtid - s.beg) \div s.mod

(* hammer_pfs_delete_at_cursor: whether the element changes.               *)
ShouldRollBack(j, e) == e.base.t >= j.tid \/ e.dtid >= j.tid

(* hammer_reblock_helper stops at a node's first element.                  *)
ShouldMove(j, n, index) == index = 0 /\ n \in j.sparse

(* What the loops of hammer_ioc_prune, hammer_pfs_rollback,                *)
(* hammer_ioc_reblock and hammer_ioc_mirror_read do with an element; a     *)
(* mirror's reader copies it out and goes on.                              *)
AfterGot(p, e, n, index) ==
  CASE Op(p) = "prune"    /\ ShouldPrune(Job(p), e)    -> "delete"
    [] Op(p) = "rollback" /\ ShouldRollBack(Job(p), e) -> "delete"
    [] Op(p) = "reblock"  /\ ShouldMove(Job(p), n, index) -> "move"
    [] OTHER -> "more"

(* Where a search goes that ends with "found", "enoent" or "enospc".  An   *)
(* as-of lookup that fails is repeated left of create_check.               *)
AfterSearch(p, st, res, e, index) ==
  IF res = "enoent" /\ AsOf(p) /\ st.check # 0
    THEN [st EXCEPT !.pc = "search", !.beg.t = st.check, !.check = 0]
  ELSE [st EXCEPT !.pc =
          CASE Inserting(p) /\ res = "enoent"    -> "insert"
            [] Op(p) = "delete" /\ res = "found" -> "delete"
            [] Iterating(p) /\ res = "found"     -> AfterGot(p, e, Cur(p).node, index)
            [] Iterating(p) /\ res = "enoent"    -> "next"
            [] OTHER                             -> "fin"]

(* Not inserting or pruning, the search may end in a gap between a node's  *)
(* own boundaries and its parent's.                                        *)
SearchGap(p) ==
  /\ At("search", p) /\ InBounds(p) /\ IsInternal(N(p))
  /\ Gap(p) /\ ~(Inserting(p) \/ Pruning(p))
  /\ cur' = [cur EXCEPT ![Act(p)] =
               [@ EXCEPT !.index = IF Passed(p) = 0 THEN 0 ELSE Count(N(p)),
                         !.ate = FALSE]]
  /\ pr' = [pr EXCEPT ![p] = AfterSearch(p, [@ EXCEPT !.check = CreateCheck(p)], "enoent",
                                        NULL, 0)]
  /\ panic' = (panic \/ BadCheck(p))
  /\ UNCHANGED <<tree, lk, hist>>

(* Otherwise the node's boundary is widened to its parent's, ...           *)
Widen(x, i, b) == [x EXCEPT !.elms[i + 1].base = b]
FixGap(p) ==
  LET n == Cur(p).node IN
  IF ~Gap(p) THEN Image
  ELSE IF Passed(p) = 0
    THEN [Image EXCEPT !.node[n] = Widen(@, 0, LeftBound(p))]
    ELSE [Image EXCEPT !.node[n] = Widen(@, Count(N(p)), RightBound(p))]

(* ... and a full node is split on the way down.                           *)
PushIndex(p) == IF Passed(p) = 0 THEN 0
                ELSE IF Gap(p) THEN Count(N(p)) - 1 ELSE Passed(p) - 1
MustSplit(p) == Inserting(p) /\ ~pr[p].enospc /\ Full(N(p))

(* The first child another thread has locked (hammer_btree_lock_children). *)
ChildBlocked(p) ==
  LET bad == {i \in 0 .. Count(N(p)) - 1 : ~Free(E(N(p), i).sub)}
  IN IF ~IsInternal(N(p)) \/ bad = {} THEN NULL
     ELSE E(N(p), CHOOSE i \in bad : \A j \in bad : i <= j).sub

(* What stops a split: an internal node's children are locked first.       *)
SplitBlockedBySelf(p) == Upgrade(p)
SplitBlocked(p) == IF ChildBlocked(p) # NULL THEN ChildBlocked(p) ELSE Upgrade(p)

Alloc(nd) == CHOOSE n \in FreeNodes(nd) : TRUE
HasSpace(p) == Cardinality(FreeNodes(node)) >= IF N(p).parent = NULL THEN 2 ELSE 1
SplitImage(p, img) ==
  LET r  == Alloc(img.node)
      nn == IF N(p).parent = NULL THEN Alloc([img.node EXCEPT ![r].type = "I"]) ELSE r
  IN Split(img, Act(p), Key(p), nn, r)

AtInternal(p) == At("search", p) /\ InBounds(p) /\ ~NoRoomHere(p) /\ IsInternal(N(p))
FixBlocked(p) == Gap(p) /\ Upgrade(p) # NULL

SearchDeadlock(p) ==
  /\ AtInternal(p)
  /\ \/ /\ (Inserting(p) \/ Pruning(p)) /\ FixBlocked(p)
        /\ Restart(p, Upgrade(p)) /\ UNCHANGED tree
     \/ /\ ~FixBlocked(p) /\ MustSplit(p) /\ SplitBlocked(p) # NULL
        /\ Restart(p, SplitBlocked(p))
        /\ node' = FixGap(p).node /\ UNCHANGED root
  /\ UNCHANGED <<hist, panic>>

SearchDown(p) ==
  LET img == [FixGap(p) EXCEPT !.cur[Act(p)].index = PushIndex(p)] IN
  /\ AtInternal(p)
  /\ Gap(p) => (Inserting(p) \/ Pruning(p)) /\ ~FixBlocked(p)
  /\ MustSplit(p) => SplitBlocked(p) = NULL
  /\ CursorDown(p, IF MustSplit(p) /\ HasSpace(p) THEN SplitImage(p, img) ELSE img,
                [pr[p] EXCEPT !.check = CreateCheck(p),
                              !.enospc = @ \/ (MustSplit(p) /\ ~HasSpace(p))],
                "search", BadCheck(p))
  /\ UNCHANGED hist

(* At a leaf: the first element that matches, or is beyond the key.        *)
Hit(p, i) ==
  LET e == E(N(p), i) IN
  IF AsOf(p) THEN Cmp(Key(p), e.base) \in {0, 1} /\ Visible(Job(p).asof, e)
             ELSE Cmp(Key(p), e.base) = 0
LeafStop(p) ==
  LET stops == {i \in 0 .. Count(N(p)) - 1 : Hit(p, i) \/ Cmp(Key(p), E(N(p), i).base) < 0}
  IN IF stops = {} THEN Count(N(p)) ELSE CHOOSE i \in stops : \A j \in stops : i <= j
LeafFound(p) == LeafStop(p) < Count(N(p)) /\ Hit(p, LeafStop(p))

AtLeaf(p) == At("search", p) /\ InBounds(p) /\ ~NoRoomHere(p) /\ ~IsInternal(N(p))
Sees(p, e) == seen' = [seen EXCEPT ![p] = @ \union {e}] /\ UNCHANGED owed

SearchFound(p) ==
  /\ AtLeaf(p) /\ LeafFound(p)
  /\ LET i == LeafStop(p)
         e == E(N(p), i) IN
     /\ cur' = [cur EXCEPT ![Act(p)] = [@ EXCEPT !.index = i, !.ate = TRUE]]
     /\ pr' = [pr EXCEPT ![p] = AfterSearch(p, @, "found", e, i)]
     /\ Sees(p, e)
  /\ UNCHANGED <<tree, lk, panic>>

SearchNotFound(p) ==
  /\ AtLeaf(p) /\ ~LeafFound(p)
  /\ LET at == [Image EXCEPT !.cur[Act(p)] = [@ EXCEPT !.index = LeafStop(p),
                                                     !.ate = Pruning(p)]]
         st == [pr[p] EXCEPT !.check = CreateCheck(p),
                             !.enospc = @ \/ (MustSplit(p) /\ ~HasSpace(p))]
     IN \/ /\ MustSplit(p) /\ Upgrade(p) # NULL
           /\ Restart(p, Upgrade(p)) /\ UNCHANGED tree
        \/ /\ MustSplit(p) => Upgrade(p) = NULL
           /\ LET img == IF MustSplit(p) /\ HasSpace(p) THEN SplitImage(p, at) ELSE at
              IN Becomes(img) /\ Lock(p, {}, Mine(img.cur[Act(p)]))
           /\ pr' = [pr EXCEPT ![p] =
                       AfterSearch(p, st, IF st.enospc THEN "enospc" ELSE "enoent", NULL, 0)]
  /\ panic' = (panic \/ BadCheck(p))
  /\ UNCHANGED hist

-----------------------------------------------------------------------------
(* hammer_btree_insert, with the search's cursor.                          *)
Insert(p) ==
  /\ At("insert", p)
  /\ LET cu  == Cur(p)
         x   == N(p)
         e   == [base |-> Job(p).key, dtid |-> 0]
         img == InsertElm(Image, Act(p), e)
     IN \/ /\ ~CanUpgrade(p, cu.node)
           /\ Restart(p, cu.node) /\ UNCHANGED <<tree, panic>>
        \/ /\ CanUpgrade(p, cu.node)
           /\ Becomes(img) /\ Lock(p, {cu.node}, Mine(cu) \ {cu.node})
           /\ pr' = [pr EXCEPT ![p].pc = IF x.mtid < e.base.t THEN "push" ELSE "fin"]
           /\ panic' = \/ panic \/ IsInternal(x) \/ Full(x)
                       \/ Cmp(LeftBound(p), e.base) > 0 \/ Cmp(RightBound(p), e.base) <= 0
                       \/ cu.index > 0 /\ Cmp(E(x, cu.index - 1).base, e.base) >= 0
                       \/ cu.index < Count(x) /\ Cmp(E(x, cu.index).base, e.base) <= 0
  /\ UNCHANGED hist

-----------------------------------------------------------------------------
(* hammer_delete_at_cursor: what is to become of the element.              *)
Adjusts(p, e)   == CASE Op(p) = "delete"   -> Job(p).adj
                     [] Op(p) = "prune"    -> FALSE
                     [] Op(p) = "rollback" -> e.base.t < Job(p).tid
Destroys(p, e)  == CASE Op(p) = "delete"   -> Job(p).des
                     [] Op(p) = "prune"    -> TRUE
                     [] Op(p) = "rollback" -> e.base.t >= Job(p).tid
DeleteTid(p)    == IF Op(p) = "rollback" THEN 0 ELSE Job(p).tid

Delete(p) ==
  /\ At("delete", p)
  /\ LET c    == Act(p)
         cu   == Cur(p)
         x    == N(p)
         e    == E(x, cu.index)
         e1   == [e EXCEPT !.dtid = DeleteTid(p)]
         prop == Adjusts(p, e) /\ e1.dtid > x.mtid
         img0 == [Image EXCEPT !.cur[c].ate = Pruning(p)]
         img1 == IF Adjusts(p, e) THEN AdjustElm(img0, c, e1.dtid) ELSE img0
         img2 == IF Destroys(p, e) THEN DeleteElm(img1, c) ELSE img1
         out  == IF Destroys(p, e) /\ Count(x) = 1
                   THEN RemoveNode(img2, c, {n \in Node : Free(n)})
                   ELSE [img |-> img2, ex |-> TRUE, up |-> NULL, held |-> {}]
         cu2  == out.img.cur[c]
         next == IF prop THEN "push" ELSE IF Iterating(p) THEN "more" ELSE "fin"
     IN \/ /\ Upgrade(p) # NULL
           /\ Restart(p, Upgrade(p)) /\ UNCHANGED <<tree, hist, panic>>
        \/ /\ Upgrade(p) = NULL
           /\ Becomes(out.img)
           /\ IF out.ex THEN Lock(p, Mine(cu2), {}) ELSE Lock(p, out.held, {cu2.node})
           /\ pr' = [pr EXCEPT ![p] = AwaitParent(@, cu2.node, out.up, next)]
           /\ owed' = [q \in Proc |-> owed[q] \ {e}]
           /\ panic' = (panic \/ IsInternal(x) \/ (Adjusts(p, e) /\ e1.dtid = e.base.t))
           /\ UNCHANGED seen

-----------------------------------------------------------------------------
(* hammer_unlock_cursor: let go of the locks and be tracked.               *)
Track(cu) == [cu EXCEPT !.trk = TRUE, !.parent = NULL, !.pindex = 0]

Yield(p) ==
  /\ At("more", p) /\ Yields(p)
  /\ cur' = [cur EXCEPT ![Act(p)] = Track(@)]
  /\ Lock(p, {}, {})
  /\ pr' = [pr EXCEPT ![p].pc = "relock"]
  /\ UNCHANGED <<tree, hist, panic>>

(* hammer_lock_cursor: a ripout clears ATEDISK; the reblocker sets it      *)
(* again when it had to wait for the flusher.                              *)
RelockAte(p) == {Cur(p).ate /\ ~Cur(p).rip} \union (IF Op(p) = "reblock" THEN {TRUE} ELSE {})

Relock(p) ==
  /\ At("relock", p) /\ CanShare(Cur(p).node)
  /\ \E ate \in RelockAte(p) :
       cur' = [cur EXCEPT ![Act(p)] = [@ EXCEPT !.trk = FALSE, !.rip = FALSE, !.ate = ate]]
  /\ Lock(p, {}, {Cur(p).node})
  /\ pr' = [pr EXCEPT ![p] = AwaitParent(@, Cur(p).node, N(p).parent,
              IF Act(p) = <<p, 2>> THEN "prop" ELSE IF Iterating(p) THEN "more" ELSE "fin")]
  /\ UNCHANGED <<tree, hist, panic>>

(* hammer_btree_do_propagation: a second cursor inherits the locks and     *)
(* takes the leaf's mirror_tid up, the first one is tracked meanwhile.     *)
Popped(p, c) == [c EXCEPT ![<<p, 2>>] = NoCursor]

Push(p) ==
  /\ At("push", p)
  /\ LET cu == Cur(p) IN
     IF cu.parent = NULL
       THEN /\ cur' = [cur EXCEPT ![<<p, 1>>] = Track(@)]
            /\ Lock(p, {}, {})
            /\ pr' = [pr EXCEPT ![p].pc = "relock"]
       ELSE /\ cur' = [cur EXCEPT ![<<p, 1>>] = Track(@),
                                 ![<<p, 2>>] = [NoCursor EXCEPT !.node = cu.parent,
                                                                !.index = cu.pindex]]
            /\ Lock(p, {}, {cu.parent})
            /\ pr' = [pr EXCEPT ![p] = AwaitParent([@ EXCEPT !.tid = N(p).mtid], cu.parent,
                                                  node[cu.parent].parent, "prop")]
  /\ panic' = (panic \/ N(p).mtid = 0)
  /\ UNCHANGED <<tree, hist>>

(* hammer_btree_mirror_propagate, one level; hammer_recover_cursor when    *)
(* the locks cannot be upgraded.                                           *)
PropagateDeadlock(p) ==
  /\ At("prop", p) /\ Upgrade(p) # NULL
  /\ cur' = [cur EXCEPT ![Act(p)] = Track(@)]
  /\ Lock(p, {}, {})
  /\ pr' = [pr EXCEPT ![p] = [@ EXCEPT !.pc = "dlk", !.dlk = Upgrade(p), !.cont = "relock"]]
  /\ UNCHANGED <<tree, hist, panic>>

Marked(x, i, tid) == [x EXCEPT !.elms[i + 1].mtid = tid, !.mtid = Later(@, tid)]
Propagate(p) ==
  /\ At("prop", p) /\ Upgrade(p) = NULL
  /\ LET cu  == Cur(p)
         x   == N(p)
         bad == ~IsInternal(x)
         set == ~bad /\ E(x, cu.index).mtid < pr[p].tid
         agg == set /\ x.mtid < pr[p].tid
     IN /\ panic' = (panic \/ bad)
        /\ node' = IF ~set THEN node
                   ELSE [node EXCEPT ![cu.node] = Marked(@, cu.index, pr[p].tid)]
        /\ IF agg /\ cu.parent # NULL
             THEN CursorUp(p, cu.pindex, "prop")
             ELSE /\ cur' = Popped(p, cur)
                  /\ Lock(p, {}, {})
                  /\ pr' = [pr EXCEPT ![p].pc = "relock"]
  /\ UNCHANGED <<root, hist>>

-----------------------------------------------------------------------------
(* hammer_btree_iterate and _iterate_reverse: step over the element that   *)
(* has been dealt with, ...                                                *)
StepIndex(p) ==
  LET i == Cur(p).index
      n == Count(N(p))
      j == IF i # -1 /\ Cur(p).ate THEN i - 1 ELSE i
  IN IF Pruning(p) THEN (IF j = n THEN j - 1 ELSE j)
     ELSE IF i < n /\ Cur(p).ate THEN i + 1 ELSE i

Pos(p) == IF At("iter", p) THEN Cur(p).index ELSE StepIndex(p)
Stepping(p) == pr[p].pc \in {"next", "more", "iter"}

(* ... go up from the end of a node; the reblocker is shown the internal   *)
(* node, others go on behind (before) its element, ...                     *)
AtEnd(p) == Pos(p) = IF Pruning(p) THEN -1 ELSE Count(N(p))

IterUp(p) ==
  /\ Stepping(p) /\ AtEnd(p) /\ Cur(p).parent # NULL
  /\ LET i == Cur(p).pindex IN
     CursorUp(p, CASE Pruning(p) -> i - 1 [] Op(p) = "reblock" -> i [] OTHER -> i + 1,
              IF Op(p) = "reblock" THEN AfterGot(p, NULL, Cur(p).parent, i) ELSE "iter")
  /\ panic' = (panic \/ E(node[Cur(p).parent], Cur(p).pindex).sub # Cur(p).node)
  /\ UNCHANGED <<tree, hist>>

(* ... end at the end of the tree or of the range, ...                     *)
BeyondRange(p) ==
  LET x == N(p)
      i == Pos(p)
  IN IF ~Pruning(p) THEN Cmp(pr[p].end, E(x, i).base) < 0
     ELSE IF IsInternal(x) THEN Cmp(pr[p].beg, E(x, i + 1).base) >= 0
     ELSE Cmp(pr[p].beg, E(x, i).base) > 0

IterEnd(p) ==
  /\ Stepping(p)
  /\ IF AtEnd(p) THEN Cur(p).parent = NULL ELSE BeyondRange(p)
  /\ pr' = [pr EXCEPT ![p].pc = "fin"]
  /\ UNCHANGED <<tree, cur, lk, hist, panic>>

(* ... skip subtrees that have no change the mirror is after (the rollback *)
(* steps over the element behind them too), ...                            *)
InRange(p) == Stepping(p) /\ ~AtEnd(p) /\ ~BeyondRange(p)
Skippable(p, i) == Filtered(p) /\ E(N(p), i).mtid < Job(p).tid

IterFilter(p) ==
  /\ InRange(p) /\ IsInternal(N(p)) /\ Skippable(p, Pos(p))
  /\ LET stop == {i \in Pos(p) .. Count(N(p)) - 1 : ~Skippable(p, i)} IN
     cur' = [cur EXCEPT ![Act(p)] =
               [@ EXCEPT !.index = IF stop = {} THEN Count(N(p))
                                   ELSE CHOOSE i \in stop : \A j \in stop : i <= j,
                         !.ate = Op(p) = "rollback"]]
  /\ pr' = [pr EXCEPT ![p].pc = "more"]
  /\ UNCHANGED <<tree, lk, hist, panic>>

(* ... go down, asserting that the range does reach into the subtree, ...  *)
IterDown(p) ==
  /\ InRange(p) /\ IsInternal(N(p)) /\ ~Skippable(p, Pos(p))
  /\ LET i  == Pos(p)
         x  == N(p)
         ch == E(x, i).sub
     IN /\ cur' = [cur EXCEPT ![Act(p)] =
                     [@ EXCEPT !.parent = Cur(p).node, !.pindex = i,
                               !.node = NULL, !.index = 0]]
        /\ Lock(p, {}, {Cur(p).node})
        /\ pr' = [pr EXCEPT ![p] = [@ EXCEPT !.pc = "child", !.want = ch, !.cont = "iter"]]
        /\ panic' = \/ panic \/ ch = NULL \/ node[ch].parent # Cur(p).node
                    \/ IF Pruning(p) THEN Cmp(pr[p].end, E(x, i).base) < 0
                                     ELSE Cmp(pr[p].beg, E(x, i + 1).base) > 0
  /\ UNCHANGED <<tree, hist>>

(* ... and stop at a leaf's element that is visible.                       *)
IterLeaf(p) ==
  /\ InRange(p) /\ ~IsInternal(N(p))
  /\ LET i == Pos(p)
         e == E(N(p), i)
     IN IF AsOf(p) /\ ~Visible(Job(p).asof, e)
          THEN /\ cur' = [cur EXCEPT ![Act(p)].index = i + 1]
               /\ pr' = [pr EXCEPT ![p].pc = "iter"]
               /\ UNCHANGED hist
          ELSE /\ cur' = [cur EXCEPT ![Act(p)] = [@ EXCEPT !.index = i, !.ate = TRUE]]
               /\ pr' = [pr EXCEPT ![p].pc = AfterGot(p, e, Cur(p).node, i)]
               /\ Sees(p, e)
  /\ UNCHANGED <<tree, lk, panic>>

(* hammer_reblock_helper: a node found at its first element is moved if    *)
(* hammer_blockmap_getfree says that its big-block is empty enough: the    *)
(* job names the nodes in such blocks.  ENOSPC ends the run.               *)
MoveBlocked(p) == IF Upgrade(p) # NULL THEN Upgrade(p) ELSE ChildBlocked(p)

Move(p) ==
  /\ At("move", p)
  /\ LET img == MoveNode(Image, Act(p), Alloc(node)) IN
     \/ /\ MoveBlocked(p) # NULL
        /\ Restart(p, MoveBlocked(p)) /\ UNCHANGED tree
     \/ /\ MoveBlocked(p) = NULL /\ FreeNodes(node) = {}
        /\ pr' = [pr EXCEPT ![p].pc = "fin"]
        /\ UNCHANGED <<tree, cur, lk>>
     \/ /\ MoveBlocked(p) = NULL /\ FreeNodes(node) # {}
        /\ Becomes(img) /\ Lock(p, {}, Mine(img.cur[Act(p)]))
        /\ pr' = [pr EXCEPT ![p].pc = "more"]
  /\ UNCHANGED <<hist, panic>>

End(p) ==
  /\ At("fin", p) /\ Finish(p)
  /\ UNCHANGED <<tree, hist, panic>>

Finished ==
  /\ \A p \in Proc : At("idle", p) /\ pr[p].jobs = <<>>
  /\ UNCHANGED vars

Next ==
  \/ \E p \in Proc :
       \/ Begin(p) \/ InitCursor(p) \/ InitLocked(p) \/ ParentLocked(p)
       \/ ChildLocked(p) \/ DeadlockClears(p) \/ SearchUp(p) \/ SearchGap(p)
       \/ SearchDeadlock(p) \/ SearchDown(p) \/ SearchFound(p)
       \/ SearchNotFound(p) \/ Insert(p) \/ Delete(p) \/ Yield(p)
       \/ Relock(p) \/ Push(p) \/ PropagateDeadlock(p) \/ Propagate(p)
       \/ IterUp(p) \/ IterEnd(p) \/ IterFilter(p) \/ IterDown(p)
       \/ IterLeaf(p) \/ Move(p) \/ End(p)
  \/ Finished

Spec == Init /\ [][Next]_vars
-----------------------------------------------------------------------------
(* The tree is well formed whatever the threads are doing to it: splits,   *)
(* collapses, moves and corrected boundaries keep it so between any two    *)
(* points where a thread can wait for a lock.                              *)
TreeOK == WellFormed(root, node)

(* The KKASSERTs the actions look at do not fail: those on the links and   *)
(* types of nodes, bounds, room and delete tids.  Not among them: the      *)
(* index of a tracked cursor (hammer_cursor.c:708), the comparison in an   *)
(* iteration (hammer_btree.c:226) and the ranges of a leaf about to be     *)
(* split (:1608-1672), which TreeOK has.                                   *)
NoPanic == ~panic

(* A thread never works at, or waits for, a node that has been taken out   *)
(* of the tree: tracked cursors have been moved off it, and the others     *)
(* held its lock.                                                          *)
NoStaleNode ==
  LET awaited == {p \in Proc : pr[p].pc \in {"parent", "child"}} IN
  (UNION {{cur[c].node, cur[c].parent} : c \in Cursor}) \union {pr[p].want : p \in awaited}
    \subseteq Used \union {NULL}

(* A scan, lookup or pruning run that is through has come across every     *)
(* record that was there all the time and that it should have, however     *)
(* the tree was split, collapsed and moved around under its cursor.        *)
Wanted(p, e) ==
  CASE Op(p) = "scan"   -> e.base.k >= Job(p).key.k /\ Visible(Job(p).asof, e)
    [] Op(p) = "lookup" -> e.base.k = Job(p).key.k /\ Visible(Job(p).asof, e)
    [] Op(p) = "prune"  -> ShouldPrune(Job(p), e)
    [] OTHER            -> FALSE
ScanComplete ==
  \A p \in Proc : At("fin", p) => {e \in owed[p] : Wanted(p, e)} \subseteq seen[p]

(* Pruning destroys no record that a retained snapshot shows: a boundary   *)
(* of the pruning periods, any time after them, and the present.  (A       *)
(* record created in the very transaction a boundary names is not covered: *)
(* the code counts it to the period that begins there.)                    *)
Retained(j) ==
  IF j.all THEN {MaxTid}
  ELSE {s \in 1 .. MaxTid :
          \/ \E i \in DOMAIN j.elms : /\ s \in j.elms[i].beg .. j.elms[i].end
                                      /\ (s - j.elms[i].beg) % j.elms[i].mod = 0
          \/ \A i \in DOMAIN j.elms : s > j.elms[i].end}
PruneKeepsSnapshots ==
  [][\A p \in Proc : At("delete", p) /\ Pruning(p) /\ pr'[p].pc # "delete" =>
       \A e \in Records \ Records' : \A s \in Retained(Job(p)) :
         ~(e.base.t < s /\ Visible(s, e))]_vars

(* What the tree promises its users, whatever its nodes do: the records    *)
(* change one at a time, and only as a call in progress asks for.          *)
Asked == {Job(p) : p \in Proc} \ {NULL}
Index == INSTANCE HammerIndex WITH recs <- Records, asked <- Asked
Refines == Index!Spec
=============================================================================
