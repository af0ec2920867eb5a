-------------------------- MODULE HammerBtreeNode --------------------------
(***************************************************************************)
(* The nodes of HAMMER's B-Tree and what the code of hammer_btree.c does   *)
(* to them under exclusive locks: comparison, separators, splitting a full *)
(* node, removing an empty one, and hammer_cursor.c's adjustment of the    *)
(* cursors that are tracked (unlocked) on the nodes meanwhile.             *)
(*                                                                         *)
(* A key is [k, t]: k stands for localization, obj_id, rec_type and key,   *)
(* which are compared in the same way one after the other, t for           *)
(* create_tid.  A leaf element is [base, dtid], an internal element        *)
(* [base, sub, mtid]; the last element of an internal node is its right    *)
(* boundary and is not counted.  Indexes count from 0 as in the code.      *)
(*                                                                         *)
(* An image [root, node, cur] is the tree with all cursors; the operations *)
(* take an image, the cursor that works, and give the new image.           *)
(*                                                                         *)
(* An operator named after another one with a suffix is not part of the    *)
(* model: it is a slip the code could have made, for the mutation runs.    *)
(***************************************************************************)
EXTENDS Integers, FiniteSets, SequencesExt

CONSTANTS Node,        \* node offsets; a freed offset is not used again
          NULL,        \* no node
          LEAF_ELMS,   \* HAMMER_BTREE_LEAF_ELMS
          INT_ELMS,    \* HAMMER_BTREE_INT_ELMS
          MaxKey       \* keys run from 0 (the left end) to MaxKey

ASSUME ElmsAssumption ==
  LEAF_ELMS \in Nat /\ INT_ELMS = LEAF_ELMS - 1 /\ INT_ELMS >= 3
ASSUME NodeAssumption ==
  NULL \notin Node /\ IsFiniteSet(Node) /\ MaxKey \in Nat \ {0}

RootBeg == [k |-> 0, t |-> 1]           \* hmp->root_btree_beg
RootEnd == [k |-> MaxKey, t |-> 0]      \* hmp->root_btree_end

-----------------------------------------------------------------------------
(* hammer_btree_cmp: 2 or -2 when the keys differ, 1 or -1 when only their *)
(* create_tids do; a create_tid of 0 is later than all others.             *)
Cmp(a, b) ==
  IF a.k # b.k THEN IF a.k < b.k THEN -2 ELSE 2
  ELSE IF a.t = b.t THEN 0
  ELSE IF b.t = 0 \/ (a.t # 0 /\ a.t < b.t) THEN -1 ELSE 1

(* hammer_btree_chkts(asof, elm) == 0; asof 0 is the present.              *)
Visible(asof, e) ==
  IF asof = 0 THEN e.dtid = 0
  ELSE asof >= e.base.t /\ (e.dtid = 0 \/ asof < e.dtid)

(* hammer_make_separator: half way between the keys, rounded up; key2's    *)
(* create_tid, whichever field differs.                                    *)
SeparatorLow(a, b) == [k |-> a.k + (b.k - a.k) \div 2, t |-> b.t]
Separator(a, b) == [k |-> a.k + (b.k - a.k + 1) \div 2, t |-> b.t]

IsInternal(x) == x.type = "I"
Count(x) == IF IsInternal(x) THEN Len(x.elms) - 1 ELSE Len(x.elms)
E(x, i)  == x.elms[i + 1]

(* btree_node_is_full *)
Full(x) == Count(x) = IF IsInternal(x) THEN INT_ELMS ELSE LEAF_ELMS

Children(x) == IF IsInternal(x) THEN {E(x, i).sub : i \in 0 .. Count(x) - 1}
               ELSE {}

(* hammer_btree_get_parent: the element of n's parent that points at n.    *)
ParentIndex(nd, n) ==
  CHOOSE i \in 0 .. Count(nd[nd[n].parent]) - 1 : E(nd[nd[n].parent], i).sub = n

(* hammer_alloc_btree, which may fail (ENOSPC).                            *)
FreeNodes(nd) == {n \in Node : nd[n].type = "free"}

(* hammer_delete_node *)
Deleted == [type |-> "deleted", elms |-> <<>>, parent |-> NULL, mtid |-> 0]

-----------------------------------------------------------------------------
(* Cursors tracked on a node (hammer_cursor.c:681-778).                    *)
On(cur, c, n) == cur[c].trk /\ cur[c].node = n

(* hammer_cursor_inserted_element *)
TrackInsertedNone(cur, n, i) == cur
TrackInserted(cur, n, i) ==
  [c \in DOMAIN cur |-> IF On(cur, c, n) /\ cur[c].index >= i
                          THEN [cur[c] EXCEPT !.index = @ + 1] ELSE cur[c]]

(* hammer_cursor_deleted_element *)
TrackDeleted(cur, n, i) ==
  [c \in DOMAIN cur |->
     IF ~On(cur, c, n) \/ cur[c].index < i THEN cur[c]
     ELSE IF cur[c].index = i THEN [cur[c] EXCEPT !.rip = TRUE]
     ELSE [cur[c] EXCEPT !.index = @ - 1]]

(* hammer_cursor_split_node *)
TrackSplit(cur, n, nn, s) ==
  [c \in DOMAIN cur |-> IF On(cur, c, n) /\ cur[c].index >= s
                          THEN [cur[c] EXCEPT !.node = nn, !.index = @ - s]
                          ELSE cur[c]]

(* hammer_cursor_removed_node, for all nodes of one removal               *)
TrackRemoved(cur, gone, par, i) ==
  [c \in DOMAIN cur |-> IF cur[c].trk /\ cur[c].node \in gone
                          THEN [cur[c] EXCEPT !.node = par, !.index = i,
                                              !.rip = TRUE]
                          ELSE cur[c]]

(* hammer_cursor_replaced_node *)
TrackReplacedNone(cur, n, nn) == cur
TrackReplaced(cur, n, nn) ==
  [c \in DOMAIN cur |-> IF On(cur, c, n) THEN [cur[c] EXCEPT !.node = nn]
                        ELSE cur[c]]

-----------------------------------------------------------------------------
(* btree_split_internal and btree_split_leaf.  The split point leaves the  *)
(* side that gets the new element smaller.  At the root a new root `r' is  *)
(* made above the node; its one element starts with a mirror_tid of 0.     *)
SplitPoint(x, index) ==
  LET s == (Count(x) + 1) \div 2 IN IF index <= s THEN s - 1 ELSE s

NewRoot(n, x) ==
  [type |-> "I", parent |-> NULL, mtid |-> x.mtid,
   elms |-> <<[base |-> RootBeg, sub |-> n, mtid |-> 0],
              [base |-> RootEnd, sub |-> NULL, mtid |-> 0]>>]

(* The left half keeps the separator element as its boundary.              *)
LeftHalfShort(x, s) ==
  IF IsInternal(x)
    THEN Append(SubSeq(x.elms, 1, s), [E(x, s) EXCEPT !.sub = NULL])
    ELSE SubSeq(x.elms, 1, s - 1)
LeftHalf(x, s) ==
  IF IsInternal(x)
    THEN Append(SubSeq(x.elms, 1, s), [E(x, s) EXCEPT !.sub = NULL])
    ELSE SubSeq(x.elms, 1, s)

(* Whether the working cursor goes with the right half.                    *)
GoesRight(x, index, s, key, sep) ==
  IF IsInternal(x) THEN index >= s
  ELSE index > s \/ (index = s /\ Cmp(key, sep) >= 0)

(* btree_set_parent for the children that moved.                           *)
SetParents(nd, n) ==
  [m \in Node |-> IF m \in Children(nd[n]) THEN [nd[m] EXCEPT !.parent = n]
                  ELSE nd[m]]

AddRoot(img, c, r) ==
  LET n == img.cur[c].node
      x == img.node[n]
  IN IF x.parent # NULL THEN img
     ELSE [root |-> r,
           node |-> [img.node EXCEPT ![r] = NewRoot(n, x),
                                     ![n] = [x EXCEPT !.parent = r]],
           cur  |-> [img.cur EXCEPT ![c] = [@ EXCEPT !.parent = r, !.pindex = 0]]]

SplitKey(x, s) == IF IsInternal(x) THEN E(x, s).base
                  ELSE Separator(E(x, s - 1).base, E(x, s).base)

LeftPart(x, s)  == [x EXCEPT !.elms = LeftHalf(x, s)]
RightPart(x, s) == [x EXCEPT !.elms = SubSeq(@, s + 1, Len(@))]
WithSibling(y, pi, e) == [y EXCEPT !.elms = InsertAt(@, pi + 2, e)]

(* The tree after node n, at `pi' of its parent, has been split at s.      *)
Halves(nd, n, nn, s, pi) ==
  LET x   == nd[n]
      e   == [base |-> SplitKey(x, s), sub |-> nn, mtid |-> x.mtid]
      nd1 == [nd EXCEPT ![n] = LeftPart(x, s), ![nn] = RightPart(x, s),
                        ![x.parent] = WithSibling(@, pi, e)]
  IN IF IsInternal(x) THEN SetParents(nd1, nn) ELSE nd1

SplitBelow(img, c, key, nn) ==
  LET cu    == img.cur[c]
      x     == img.node[cu.node]
      s     == SplitPoint(x, cu.index)
      right == GoesRight(x, cu.index, s, key, SplitKey(x, s))
      cur1  == TrackInserted(TrackSplit(img.cur, cu.node, nn, s), x.parent, cu.pindex + 1)
  IN [root |-> img.root,
      node |-> Halves(img.node, cu.node, nn, s, cu.pindex),
      cur  |-> [cur1 EXCEPT ![c] =
                  [cu EXCEPT !.node   = IF right THEN nn ELSE @,
                             !.index  = IF right THEN @ - s ELSE @,
                             !.pindex = IF right THEN @ + 1 ELSE @]]]

Split(img, c, key, nn, r) == SplitBelow(AddRoot(img, c, r), c, key, nn)

-----------------------------------------------------------------------------
(* hammer_btree_insert: put a leaf element in at the cursor.               *)
Later(a, b) == IF a < b THEN b ELSE a

WithElm(x, i, e) == [x EXCEPT !.elms = InsertAt(@, i + 1, e),
                              !.mtid = Later(Later(@, e.dtid), e.base.t)]
InsertElm(img, c, e) ==
  LET cu == img.cur[c] IN
  [root |-> img.root,
   node |-> [img.node EXCEPT ![cu.node] = WithElm(@, cu.index, e)],
   cur  |-> TrackInserted(img.cur, cu.node, cu.index)]

(* hammer_delete_at_cursor: set the element's delete_tid, ...              *)
WithDtid(x, i, tid) == [x EXCEPT !.elms[i + 1].dtid = tid, !.mtid = Later(@, tid)]
AdjustElm(img, c, tid) ==
  LET cu == img.cur[c] IN
  [root |-> img.root,
   node |-> [img.node EXCEPT ![cu.node] = WithDtid(@, cu.index, tid)],
   cur  |-> img.cur]

(* ... and the first part of hammer_btree_delete: take the element out.    *)
WithoutElm(x, i) == [x EXCEPT !.elms = RemoveAt(@, i + 1)]
DeleteElm(img, c) ==
  LET cu == img.cur[c] IN
  [root |-> img.root,
   node |-> [img.node EXCEPT ![cu.node] = WithoutElm(@, cu.index)],
   cur  |-> TrackDeleted(img.cur, cu.node, cu.index)]

-----------------------------------------------------------------------------
(* btree_remove: the empty leaf n, and every ancestor that has no other    *)
(* child, go.  chain[0] is n, chain[j] its j-th ancestor.  The locks       *)
(* beyond the parent are tried one by one; the first that is held by       *)
(* others ends the removal and leaves the empty leaf, with the tracked     *)
(* cursors already moved up to where the removal stopped.                  *)
Parent(nd, n) == IF n = NULL THEN NULL ELSE nd[n].parent
Chain(nd, n) ==
  LET chain[j \in 0 .. Cardinality(Node)] ==
        IF j = 0 THEN n ELSE Parent(nd, chain[j - 1])
  IN chain

(* The level that keeps a child, or the root.                              *)
TopLevel(nd, ch) ==
  CHOOSE m \in 1 .. Cardinality(Node) :
    /\ ch[m] # NULL /\ (Count(nd[ch[m]]) > 1 \/ nd[ch[m]].parent = NULL)
    /\ \A j \in 1 .. m - 1 : Count(nd[ch[j]]) = 1

(* The removed range's mirror_tid goes to the element on its left, at the  *)
(* left edge to the one on its right.                                      *)
DropRef(x, i) ==
  LET heir == IF i > 0 THEN i - 1 ELSE 1
      m    == Later(E(x, heir).mtid, E(x, i).mtid)
  IN [x EXCEPT !.elms = RemoveAt([@ EXCEPT ![heir + 1].mtid = m], i + 1)]

(* What a level that stays looks like: an emptied root becomes a leaf.      *)
Reduced(x, i) == IF Count(x) = 1 THEN [x EXCEPT !.type = "L", !.elms = <<>>]
                 ELSE DropRef(x, i)

Removal(img, c, gone, top, i) ==
  LET cur1 == TrackDeleted(TrackRemoved(img.cur, gone, top, i), top, i) IN
  [root |-> img.root,
   node |-> [m \in Node |-> IF m \in gone THEN Deleted
                            ELSE IF m = top THEN Reduced(img.node[m], i)
                            ELSE img.node[m]],
   cur  |-> [cur1 EXCEPT ![c] = [@ EXCEPT !.node = top, !.index = i,
                                          !.parent = NULL, !.pindex = 0]]]

Stuck(img, c, gone, n, par) ==
  [root |-> img.root, node |-> img.node,
   cur  |-> [TrackRemoved(img.cur, gone, par, 0) EXCEPT
               ![c] = [@ EXCEPT !.node = n, !.index = 0,
                                !.parent = par, !.pindex = 0]]]

(* ex: the cursor keeps its exclusive locks, otherwise it has moved up.    *)
(* up: the parent it has to load next, if any.  held: removed nodes that   *)
(* stay locked until then.  lockable: the nodes above that can be had, the *)
(* first other one means EDEADLK.                                          *)
RemoveNode(img, c, lockable) ==
  LET n    == img.cur[c].node
      ch   == Chain(img.node, n)
      top  == TopLevel(img.node, ch)
      x    == img.node[ch[top]]
      bad  == {j \in 2 .. top : ch[j] \notin lockable}
      f    == CHOOSE j \in bad : \A l \in bad : j <= l
      out  == Removal(img, c, {ch[j] : j \in 0 .. top - 1}, ch[top],
                      ParentIndex(img.node, ch[top - 1]))
  IN IF img.node[n].parent = NULL
       THEN [img |-> img, ex |-> TRUE, up |-> NULL, held |-> {}]
     ELSE IF bad # {}
       THEN [img |-> Stuck(img, c, {ch[j] : j \in 0 .. f - 2}, ch[f - 2], ch[f - 1]),
             ex |-> TRUE, up |-> NULL, held |-> {}]
     ELSE IF Count(x) = 1 THEN [img |-> out, ex |-> TRUE, up |-> NULL, held |-> {}]
     ELSE [img |-> out, ex |-> FALSE, up |-> x.parent,
           held |-> {ch[j] : j \in 0 .. top - 2}]

-----------------------------------------------------------------------------
(* hammer_reblock_leaf_node and hammer_reblock_int_node: move a node to a  *)
(* new offset; its parent or the volume header, its children and the       *)
(* tracked cursors follow.                                                 *)
Redirect(y, pi, nn) == [y EXCEPT !.elms[pi + 1].sub = nn]
Moved(nd, n, nn, par, pi) ==
  LET nd1 == [nd EXCEPT ![nn] = nd[n], ![n] = Deleted]
      nd2 == IF par = NULL THEN nd1 ELSE [nd1 EXCEPT ![par] = Redirect(@, pi, nn)]
  IN IF IsInternal(nd[n]) THEN SetParents(nd2, nn) ELSE nd2

MoveNode(img, c, nn) ==
  LET cu == img.cur[c] IN
  [root |-> IF cu.parent = NULL THEN nn ELSE img.root,
   node |-> Moved(img.node, cu.node, nn, cu.parent, cu.pindex),
   cur  |-> [TrackReplaced(img.cur, cu.node, nn) EXCEPT ![c].node = nn]]

-----------------------------------------------------------------------------
(* A tree is well formed when parent pointers and references agree, no     *)
(* internal node is empty, elements are sorted, all of a subtree lies      *)
(* within the bounds its parent gives it (internal nodes may leave a gap   *)
(* there), and every node in use hangs from the root.                      *)
InUse(nd) == {n \in Node : nd[n].type \in {"I", "L"}}

Fits(x, lo, hi) ==
  /\ \A i \in 1 .. Len(x.elms) :
       /\ Cmp(lo, x.elms[i].base) <= 0
       /\ Cmp(x.elms[i].base, hi) <= IF IsInternal(x) THEN 0 ELSE -1
  /\ \A i, j \in 1 .. Len(x.elms) : i < j => Cmp(x.elms[i].base, x.elms[j].base) < 0

Linked(rt, nd) ==
  /\ rt \in InUse(nd) /\ Fits(nd[rt], RootBeg, RootEnd)
  /\ \A n \in InUse(nd) :
       LET x == nd[n] IN
       /\ (x.parent = NULL) <=> (n = rt)
       /\ n # rt => x.parent \in InUse(nd) /\ n \in Children(nd[x.parent])
       /\ Count(x) \in IF IsInternal(x) THEN 1 .. INT_ELMS ELSE 0 .. LEAF_ELMS
       /\ IsInternal(x) =>
            \A i \in 0 .. Count(x) - 1 :
              LET c == E(x, i).sub IN
              /\ c \in InUse(nd) /\ nd[c].parent = n
              /\ \A j \in 0 .. i - 1 : E(x, j).sub # c
              /\ Fits(nd[c], E(x, i).base, E(x, i + 1).base)

Hangs(rt, nd, n) == \E j \in 0 .. Cardinality(Node) : Chain(nd, n)[j] = rt

WellFormed(rt, nd) == Linked(rt, nd) /\ \A n \in InUse(nd) : Hangs(rt, nd, n)
=============================================================================
