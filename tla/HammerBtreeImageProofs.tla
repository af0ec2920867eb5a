----------------------- MODULE HammerBtreeImageProofs -----------------------
(***************************************************************************)
(* What the operations of HammerBtreeNode do to an image: the tree with    *)
(* all the cursors. Each operation that the working cursor can come to     *)
(* gives a sound image again; it keeps the records of the leaves, or       *)
(* changes them as it should; the other cursors tracked on its nodes       *)
(* follow; and nodes other than those named are left alone (Advances).     *)
(***************************************************************************)
EXTENDS HammerBtreeNodeProofs

CursorRec == [node : AnyNode, index : Int, parent : AnyNode, pindex : Int,
              trk : BOOLEAN, rip : BOOLEAN, ate : BOOLEAN]

(* A cursor that is unlocked meanwhile is on a node in use.                *)
TrackedAt(nd, cu) ==
  cu.trk => /\ cu.node \in InUse(nd) /\ cu.index \in 0 .. Count(nd[cu.node])
            /\ cu.parent = NULL
Tracked(nd, C) == \A c \in Cursor : TrackedAt(nd, C[c])

(* A locked cursor knows its node and its parent and holds both.           *)
Seated(nd, cu) ==
  /\ ~cu.trk /\ cu.node \in InUse(nd) /\ cu.parent = nd[cu.node].parent
  /\ cu.parent # NULL => /\ cu.pindex \in 0 .. Count(nd[cu.parent]) - 1
                         /\ E(nd[cu.parent], cu.pindex).sub = cu.node

Bounds(nd, cu) ==
  IF cu.parent = NULL THEN <<RootBeg, RootEnd>>
  ELSE <<E(nd[cu.parent], cu.pindex).base, E(nd[cu.parent], cu.pindex + 1).base>>

(* The place for key in the leaf x.                                        *)
Slot(x, i, key) ==
  /\ \A j \in 0 .. i - 1 : Cmp(E(x, j).base, key) < 0
  /\ \A j \in i .. Count(x) - 1 : Cmp(E(x, j).base, key) > 0

(* Nodes with the same elements.                                           *)
LEMMA Alike ==
  ASSUME NEW x, NEW y, y.type = x.type, y.elms = x.elms
  PROVE  /\ Count(y) = Count(x) /\ Full(y) = Full(x) /\ IsInternal(y) = IsInternal(x)
         /\ Children(y) = Children(x) /\ \A i : E(y, i) = E(x, i)
<1>1. /\ IsInternal(y) = IsInternal(x) /\ Count(y) = Count(x) /\ Full(y) = Full(x)
      /\ \A i : E(y, i) = E(x, i)
  BY DEF IsInternal, Count, E, Full
<1>2. Children(y) = Children(x)
  <2>1. CASE IsInternal(x)
    <3>1. Children(x) = {E(x, i).sub : i \in 0 .. Count(x) - 1} BY <2>1 DEF Children
    <3>2. Children(y) = {E(y, i).sub : i \in 0 .. Count(x) - 1} BY <1>1, <2>1 DEF Children
    <3> QED BY <1>1, <3>1, <3>2
  <2>2. CASE ~IsInternal(x)
    <3>1. Children(x) = {} /\ Children(y) = {} BY <1>1, <2>2 DEF Children
    <3> QED BY <3>1
  <2> QED BY <2>1, <2>2
<1> QED BY <1>1, <1>2
-----------------------------------------------------------------------------
(* A cursor's fields.                                                      *)
LEMMA CursorAt ==
  ASSUME NEW u \in CursorRec, NEW n \in AnyNode, NEW i \in Int
  PROVE  /\ [u EXCEPT !.node = n, !.index = i] \in CursorRec
         /\ [u EXCEPT !.parent = n, !.pindex = i] \in CursorRec
<1>1. [u EXCEPT !.node = n] \in CursorRec BY DEF CursorRec
<1>2. [[u EXCEPT !.node = n] EXCEPT !.index = i] \in CursorRec BY <1>1 DEF CursorRec
<1>3. [u EXCEPT !.node = n, !.index = i] = [[u EXCEPT !.node = n] EXCEPT !.index = i] OBVIOUS
<1>4. [u EXCEPT !.parent = n] \in CursorRec BY DEF CursorRec
<1>5. [[u EXCEPT !.parent = n] EXCEPT !.pindex = i] \in CursorRec BY <1>4 DEF CursorRec
<1>6. [u EXCEPT !.parent = n, !.pindex = i] = [[u EXCEPT !.parent = n] EXCEPT !.pindex = i] OBVIOUS
<1> QED BY <1>2, <1>3, <1>5, <1>6

(* The records of a tree: what the elements of its leaves are.             *)
Leaf(nd, n) == n \in InUse(nd) /\ ~IsInternal(nd[n])
Holds(nd, e) == \E n : Leaf(nd, n) /\ \E i \in 1 .. Len(nd[n].elms) : nd[n].elms[i] = e
KeepsRecords(nd, md) == \A e : Holds(nd, e) <=> Holds(md, e)

(* The leaves of nd are found in md, maybe elsewhere.                      *)
LEMMA LeavesKept ==
  ASSUME NEW nd, NEW md,
         \A n : Leaf(nd, n) => nd[n].elms = <<>> \/ \E m : Leaf(md, m) /\ md[m].elms = nd[n].elms,
         \A m : Leaf(md, m) => md[m].elms = <<>> \/ \E n : Leaf(nd, n) /\ md[m].elms = nd[n].elms
  PROVE  KeepsRecords(nd, md)
<1>1. ASSUME NEW a, NEW b, \A n : Leaf(a, n) => a[n].elms = <<>> \/ \E m : Leaf(b, m) /\ b[m].elms = a[n].elms,
             NEW e, Holds(a, e)
      PROVE  Holds(b, e)
  <2>1. PICK n : Leaf(a, n) /\ \E i \in 1 .. Len(a[n].elms) : a[n].elms[i] = e BY <1>1 DEF Holds
  <2>2. a[n].elms # <<>> BY <2>1
  <2>3. PICK m : Leaf(b, m) /\ b[m].elms = a[n].elms BY <1>1, <2>1, <2>2
  <2> QED BY <2>1, <2>3 DEF Holds
<1>2. \A e : Holds(nd, e) => Holds(md, e) BY <1>1
<1>3. \A n : Leaf(md, n) => md[n].elms = <<>> \/ \E m : Leaf(nd, m) /\ nd[m].elms = md[n].elms
  OBVIOUS
<1>4. \A e : Holds(md, e) => Holds(nd, e) BY <1>1, <1>3
<1> QED BY <1>2, <1>4 DEF KeepsRecords
(* Two changes that keep the records keep them together.                   *)
LEMMA KeepsTrans ==
  ASSUME NEW a, NEW b, NEW c, KeepsRecords(a, b), KeepsRecords(b, c)
  PROVE  KeepsRecords(a, c)
BY DEF KeepsRecords
(* Nothing is lost when nothing happens.                                   *)
LEMMA KeepsSame == ASSUME NEW nd PROVE KeepsRecords(nd, nd)
BY DEF KeepsRecords

(* A change of internal nodes only.                                        *)
LEMMA InternalKeeps ==
  ASSUME NEW nd, NEW md, NEW W,
         \A n \in Node : n \notin W => md[n].type = nd[n].type /\ md[n].elms = nd[n].elms,
         \A n \in Node : n \in W => ~Leaf(nd, n) /\ ~Leaf(md, n)
  PROVE  KeepsRecords(nd, md)
<1>1. ASSUME NEW n PROVE Leaf(nd, n) => Leaf(md, n) /\ md[n].elms = nd[n].elms
  BY DEF Leaf, InUse, IsInternal
<1>2. ASSUME NEW n PROVE Leaf(md, n) => Leaf(nd, n) /\ md[n].elms = nd[n].elms
  BY DEF Leaf, InUse, IsInternal
<1> QED BY <1>1, <1>2, LeavesKept

(* Images: a tree with the cursors tracked on it.                          *)
Sound(img) ==
  /\ Tree(img.root, img.node) /\ img.cur \in [Cursor -> CursorRec]
  /\ Tracked(img.node, img.cur)

(* Only the nodes W have changed, besides new ones, and of the cursors of  *)
(* others only tracked ones.                                               *)
Same(a, b) == IF a.trk THEN b.trk ELSE b = a
Advances(img, im2, W, c) ==
  /\ Sound(im2)
  /\ \A n \in Node : img.node[n].type # "free" =>
       /\ im2.node[n].type # "free"
       /\ n \notin W => im2.node[n] = img.node[n]
  /\ \A d \in Cursor : d # c => Same(img.cur[d], im2.cur[d])

(* A split on the way of cursor c, to key.                                 *)
Fitting(nd, cu, key) ==
  /\ Slot(nd[cu.node], cu.index, key)
  /\ Cmp(Bounds(nd, cu)[1], key) <= 0 /\ Cmp(key, Bounds(nd, cu)[2]) < 0
SplitOf(img, c, key, im2) ==
  LET cu == img.cur[c]
      x  == img.node[cu.node]
      v  == im2.cur[c]
      y  == im2.node[v.node]
  IN /\ Advances(img, im2, {cu.node, cu.parent} \union Children(x), c)
     /\ Seated(im2.node, v) /\ v.index \in 0 .. Count(y) /\ y.type = x.type /\ ~Full(y)
     /\ IsInternal(x) /\ cu.index # Count(x) => v.index # Count(y)
     /\ ~IsInternal(x) /\ Fitting(img.node, cu, key) => Fitting(im2.node, v, key)
     /\ \A n \in Mine(v) : n \in Mine(cu) \/ n \in FreeNodes(img.node)
     /\ KeepsRecords(img.node, im2.node)

(* The split point leaves an element on either side.                       *)
LEMMA SplitPointIs ==
  ASSUME NEW x, Count(x) \in Nat, Full(x), NEW i
  PROVE  SplitPoint(x, i) \in 1 .. Count(x) - 1
<1>1. Count(x) \in Nat /\ Count(x) >= 3 BY ElmsAssumption DEF Full
<1>2. (Count(x) + 1) \div 2 - 1 \in 1 .. Count(x) - 1 /\ (Count(x) + 1) \div 2 \in 1 .. Count(x) - 1
  BY <1>1
<1> QED BY <1>2 DEF SplitPoint
(* All about a node that is split.                                         *)
Halving(rt, nd, n, nn, s, pi) ==
  LET x  == nd[n]
      y  == nd[x.parent]
      e  == [base |-> SplitKey(x, s), sub |-> nn, mtid |-> x.mtid]
      md == Halves(nd, n, nn, s, pi)
  IN /\ Splits(nd, n, nn, s, pi, md) /\ Tree(rt, md) /\ InUse(md) = InUse(nd) \union {nn}
     /\ \A m \in Children(RightPart(x, s)) : m \in Children(x)
     /\ Halved(x, s, LeftPart(x, s), RightPart(x, s))
     /\ Extended(y, pi, e, WithSibling(y, pi, e))
(* The two halves of a split below a parent keep the tree, and the         *)
(* records.                                                                *)
LEMMA HalvesTree ==
  ASSUME NEW rt, NEW nd, Tree(rt, nd), NEW n \in InUse(nd), n # rt,
         NEW nn \in FreeNodes(nd), NEW s \in 1 .. Count(nd[n]) - 1,
         NEW pi \in 0 .. Count(nd[nd[n].parent]) - 1, E(nd[nd[n].parent], pi).sub = n,
         Count(nd[nd[n].parent]) < INT_ELMS
  PROVE  Halving(rt, nd, n, nn, s, pi)
<1>1. /\ Splits(nd, n, nn, s, pi, Halves(nd, n, nn, s, pi))
      /\ \A m \in Children(RightPart(nd[n], s)) : m \in Children(nd[n])
      /\ Halved(nd[n], s, LeftPart(nd[n], s), RightPart(nd[n], s))
      /\ Extended(nd[nd[n].parent], pi,
                  [base |-> SplitKey(nd[n], s), sub |-> nn, mtid |-> nd[n].mtid],
                  WithSibling(nd[nd[n].parent], pi,
                  [base |-> SplitKey(nd[n], s), sub |-> nn, mtid |-> nd[n].mtid]))
  BY HalvesSplit
<1> DEFINE md == Halves(nd, n, nn, s, pi)
<1>2. Splits(nd, n, nn, s, pi, md) BY <1>1
<1> HIDE DEF md
<1>3. Tree(rt, md) /\ InUse(md) = InUse(nd) \union {nn} BY <1>2, SplitTree
<1> QED BY <1>1, <1>3 DEF Halving, md

(* A split keeps the records.                                              *)
LEMMA HalvesKeep ==
  ASSUME NEW rt, NEW nd, Tree(rt, nd), NEW n \in InUse(nd), n # rt,
         NEW nn \in FreeNodes(nd), NEW s \in 1 .. Count(nd[n]) - 1, NEW pi,
         NEW md, md = Halves(nd, n, nn, s, pi), Halving(rt, nd, n, nn, s, pi)
  PROVE  KeepsRecords(nd, md)
<1> DEFINE x == nd[n]
           a == x.parent
           K == Children(RightPart(x, s))
           l == LeftPart(x, s)
           r == RightPart(x, s)
           e == [base |-> SplitKey(x, s), sub |-> nn, mtid |-> x.mtid]
           z == WithSibling(nd[a], pi, e)
<1>1. /\ Splits(nd, n, nn, s, pi, md) /\ InUse(md) = InUse(nd) \union {nn}
      /\ \A m \in K : m \in Children(x)
      /\ Halved(x, s, l, r) /\ Extended(nd[a], pi, e, z)
  BY DEF Halving
<1>2. /\ md[n] = l /\ md[nn] = r /\ md[a] = z
      /\ \A m \in K : md[m] = [nd[m] EXCEPT !.parent = nn]
      /\ \A m \in Node : m \notin K /\ m \notin {n, nn, a} => md[m] = nd[m]
  BY <1>1 DEF Splits
<1>3. /\ l.type = x.type /\ r.type = x.type /\ Len(r.elms) = Len(x.elms) - s
      /\ IsInternal(x) => Len(l.elms) = s + 1
      /\ ~IsInternal(x) => Len(l.elms) = s
      /\ \A i \in 0 .. s - 1 : E(l, i) = E(x, i)
      /\ \A i \in 0 .. Len(x.elms) - s - 1 : E(r, i) = E(x, i + s)
  BY <1>1 DEF Halved
<1>4. IsInternal(z) BY <1>1 DEF Extended
<1>5. /\ nd \in [Node -> NodeRec] /\ Kinds(nd) BY DEF Tree
<1>6. /\ a \in InUse(nd) /\ IsInternal(nd[a]) /\ a # n BY Up
<1>7. /\ nn \in Node /\ nn \notin InUse(nd) /\ nn # n /\ nn # a /\ n \in Node /\ a \in Node
  BY <1>6 DEF FreeNodes, InUse
<1>8. ASSUME NEW m \in K
      PROVE  /\ m \in InUse(nd) /\ m \in Node /\ m # n /\ m # a /\ m # nn
             /\ md[m].type = nd[m].type /\ md[m].elms = nd[m].elms
  <2>1. m \in Children(x) BY <1>1
  <2>2. IsInternal(x) BY <2>1 DEF Children
  <2>3. PICK i \in 0 .. Count(x) - 1 : m = E(x, i).sub BY <2>1, <2>2 DEF Children
  <2>4. m \in InUse(nd) /\ nd[m].parent = n BY <2>2, <2>3, Down
  <2>5. m # a /\ m # n BY <2>4, Elder
  <2>6. m \in Node /\ nd[m] \in NodeRec BY <1>5, <2>4, Shape
  <2> QED BY <1>2, <1>7, <2>4, <2>5, <2>6 DEF NodeRec
<1> HIDE DEF K, l, r, z, e
<1>9. CASE IsInternal(x)
  <2> DEFINE W == {n, nn, a}
  <2>1. ASSUME NEW m \in Node, m \notin W PROVE md[m].type = nd[m].type /\ md[m].elms = nd[m].elms
    BY <1>2, <1>8, <2>1
  <2>2. \A m \in W : ~Leaf(nd, m) /\ ~Leaf(md, m)
    <3>1. IsInternal(l) /\ IsInternal(r) BY <1>3, <1>9 DEF IsInternal
    <3> QED BY <1>2, <1>4, <1>6, <1>7, <1>9, <3>1 DEF Leaf
  <2> HIDE DEF W, x, a
  <2> QED BY <2>1, <2>2, InternalKeeps
<1>10. CASE ~IsInternal(x)
  <2>1. K = {}
    <3>1. ASSUME NEW m \in K PROVE FALSE
      <4>1. m \in Children(x) BY <1>1 DEF K
      <4> QED BY <1>10, <4>1 DEF Children
    <3> QED BY <3>1
  <2>2. ~IsInternal(l) /\ ~IsInternal(r) BY <1>3, <1>10 DEF IsInternal
  <2>3. Leaf(nd, n) /\ Leaf(md, n) /\ Leaf(md, nn) BY <1>1, <1>2, <1>10, <2>2 DEF Leaf
  <2>4. s \in Nat /\ 1 <= s /\ s < Len(x.elms) /\ Len(x.elms) \in Nat
    BY <1>5, <1>10, Shape
  <2>5. \A j \in 1 .. s : l.elms[j] = x.elms[j]
    <3>1. ASSUME NEW j \in 1 .. s PROVE l.elms[j] = x.elms[j]
      <4>1. j - 1 \in 0 .. s - 1 /\ j - 1 + 1 = j BY <2>4
      <4> QED BY <1>3, <4>1 DEF E
    <3> QED BY <3>1
  <2>6. \A j \in 1 .. Len(x.elms) - s : r.elms[j] = x.elms[j + s]
    <3>1. ASSUME NEW j \in 1 .. Len(x.elms) - s PROVE r.elms[j] = x.elms[j + s]
      <4>1. j - 1 \in 0 .. Len(x.elms) - s - 1 /\ j - 1 + 1 = j /\ j - 1 + s + 1 = j + s BY <2>4
      <4> QED BY <1>3, <4>1 DEF E
    <3> QED BY <3>1
  <2>7. ASSUME NEW f PROVE Holds(nd, f) => Holds(md, f)
    <3> SUFFICES ASSUME Holds(nd, f) PROVE Holds(md, f) OBVIOUS
    <3>1. PICK m : Leaf(nd, m) /\ \E i \in 1 .. Len(nd[m].elms) : nd[m].elms[i] = f BY DEF Holds
    <3>2. PICK i \in 1 .. Len(nd[m].elms) : nd[m].elms[i] = f BY <3>1
    <3>3. CASE m = n
      <4>1. CASE i <= s
        <5>1. i \in 1 .. s /\ i \in 1 .. Len(l.elms) BY <1>3, <1>10, <2>4, <3>2, <4>1
        <5> QED BY <1>2, <2>3, <2>5, <3>2, <3>3, <5>1 DEF Holds
      <4>2. CASE i > s
        <5>1. i - s \in 1 .. Len(x.elms) - s /\ i - s \in 1 .. Len(r.elms) /\ i - s + s = i
          BY <1>3, <2>4, <3>2, <3>3, <4>2
        <5>2. r.elms[i - s] = x.elms[i - s + s] BY <2>6, <5>1
        <5>3. md[nn].elms[i - s] = f BY <1>2, <3>2, <3>3, <5>1, <5>2
        <5>4. i - s \in 1 .. Len(md[nn].elms) BY <1>2, <5>1
        <5> QED BY <2>3, <5>3, <5>4 DEF Holds
      <4> QED BY <2>4, <3>3, <4>1, <4>2
    <3>4. CASE m # n
      <4>1. m \in Node /\ m # nn /\ m # a BY <1>6, <1>7, <3>1 DEF Leaf, InUse
      <4>2. md[m] = nd[m] BY <1>2, <2>1, <3>4, <4>1
      <4>3. Leaf(md, m) BY <1>1, <3>1, <4>2 DEF Leaf
      <4> QED BY <3>1, <4>2, <4>3 DEF Holds
    <3> QED BY <3>3, <3>4
  <2>8. ASSUME NEW f PROVE Holds(md, f) => Holds(nd, f)
    <3> SUFFICES ASSUME Holds(md, f) PROVE Holds(nd, f) OBVIOUS
    <3>1. PICK m : Leaf(md, m) /\ \E i \in 1 .. Len(md[m].elms) : md[m].elms[i] = f BY DEF Holds
    <3>2. PICK i \in 1 .. Len(md[m].elms) : md[m].elms[i] = f BY <3>1
    <3>3. CASE m = n
      <4>1. i \in 1 .. s /\ i \in 1 .. Len(x.elms) BY <1>2, <1>3, <1>10, <2>4, <3>2, <3>3
      <4> QED BY <1>2, <2>3, <2>5, <3>2, <3>3, <4>1 DEF Holds
    <3>4. CASE m = nn
      <4>1. i \in 1 .. Len(x.elms) - s /\ i + s \in 1 .. Len(x.elms)
        BY <1>2, <1>3, <2>4, <3>2, <3>4
      <4>2. r.elms[i] = x.elms[i + s] BY <2>6, <4>1
      <4>3. nd[n].elms[i + s] = f BY <1>2, <3>2, <3>4, <4>2
      <4>4. i + s \in 1 .. Len(nd[n].elms) BY <4>1
      <4> QED BY <2>3, <4>3, <4>4 DEF Holds
    <3>5. CASE m # n /\ m # nn
      <4>1. m \in Node /\ m \in InUse(nd) BY <1>1, <3>1, <3>5 DEF Leaf, InUse
      <4>2. m # a BY <1>2, <1>4, <3>1 DEF Leaf
      <4>3. md[m] = nd[m] BY <1>2, <2>1, <3>5, <4>1, <4>2
      <4>4. Leaf(nd, m) BY <3>1, <4>1, <4>3 DEF Leaf
      <4> QED BY <3>1, <4>3, <4>4 DEF Holds
    <3> QED BY <3>3, <3>4, <3>5
  <2> QED BY <2>7, <2>8 DEF KeepsRecords
<1> QED BY <1>9, <1>10

(* The tracked cursors follow.                                             *)
Follows(C, D, md) ==
  /\ D \in [Cursor -> CursorRec] /\ Tracked(md, D)
  /\ \A d \in Cursor : Same(C[d], D[d])
(* The cursors that are tracked on the two halves and on their parent.     *)
SplitCounts(nd, md, n, nn, a, s) ==
  /\ n # a /\ nn # a /\ a # NULL /\ nn \in Node /\ n \in InUse(nd)
  /\ InUse(md) = InUse(nd) \union {nn}
  /\ s \in Nat /\ Count(nd[n]) \in Nat /\ Count(nd[a]) \in Nat /\ s <= Count(nd[n])
  /\ Count(md[n]) = s /\ Count(md[nn]) = Count(nd[n]) - s /\ Count(md[a]) = Count(nd[a]) + 1
  /\ \A m \in InUse(nd) : m \notin {n, a} => Count(md[m]) = Count(nd[m])
(* A cursor tracked on a node that is split stays within the node it ends  *)
(* up on.                                                                  *)
LEMMA SplitTracked ==
  ASSUME NEW nd, NEW C \in [Cursor -> CursorRec], Tracked(nd, C),
         NEW n, NEW nn, NEW a, NEW s, NEW md, SplitCounts(nd, md, n, nn, a, s), NEW i \in Nat
  PROVE  Follows(C, TrackInserted(TrackSplit(C, n, nn, s), a, i), md)
<1> DEFINE D == TrackInserted(TrackSplit(C, n, nn, s), a, i)
           B == TrackSplit(C, n, nn, s)
<1>0. /\ n # a /\ nn # a /\ a # NULL /\ nn \in Node /\ n \in InUse(nd)
      /\ InUse(md) = InUse(nd) \union {nn}
      /\ s \in Nat /\ Count(nd[n]) \in Nat /\ Count(nd[a]) \in Nat /\ s <= Count(nd[n])
      /\ Count(md[n]) = s /\ Count(md[nn]) = Count(nd[n]) - s
      /\ Count(md[a]) = Count(nd[a]) + 1
      /\ \A m \in InUse(nd) : m \notin {n, a} => Count(md[m]) = Count(nd[m])
  BY DEF SplitCounts
<1>1. ASSUME NEW d \in Cursor
      PROVE  /\ D[d] \in CursorRec /\ TrackedAt(md, D[d]) /\ Same(C[d], D[d])
             /\ d \in DOMAIN B /\ d \in DOMAIN C
  <2> DEFINE u == C[d]
             v == B[d]
             w == D[d]
  <2>1. d \in DOMAIN C /\ u \in CursorRec /\ TrackedAt(nd, u) BY <1>0 DEF Tracked
  <2>2. v = IF On(C, d, n) /\ u.index >= s THEN [u EXCEPT !.node = nn, !.index = @ - s] ELSE u
    BY <1>0, <2>1 DEF TrackSplit
  <2>3. DOMAIN B = DOMAIN C BY <1>0 DEF TrackSplit
  <2>4. w = IF On(B, d, a) /\ v.index >= i THEN [v EXCEPT !.index = @ + 1] ELSE v
    BY <1>0, <2>1, <2>3 DEF TrackInserted
  <2>5. On(C, d, n) <=> u.trk /\ u.node = n BY <1>0 DEF On
  <2>6. On(B, d, a) <=> v.trk /\ v.node = a BY <1>0 DEF On
  <2>7. u.index \in Int /\ u.trk \in BOOLEAN /\ u.node \in AnyNode /\ nn \in AnyNode
    BY <1>0, <2>1 DEF CursorRec, AnyNode
  <2> HIDE DEF u, v, w, B
  <2>8. CASE ~u.trk
    <3>1. v = u /\ w = u BY <1>0, <2>2, <2>4, <2>5, <2>6, <2>8
    <3> QED BY <1>0, <2>1, <2>3, <2>8, <3>1 DEF TrackedAt, Same, u, w
  <2>9. CASE u.trk /\ u.node = n /\ u.index >= s
    <3>1. v = [u EXCEPT !.node = nn, !.index = @ - s] BY <1>0, <2>2, <2>5, <2>9
    <3>2. v \in CursorRec /\ v.node = nn /\ v.index = u.index - s /\ v.trk /\ v.parent = u.parent
      <4>1. u.index - s \in Int BY <1>0, <2>7
      <4>2. v = [[u EXCEPT !.index = u.index - s] EXCEPT !.node = nn] BY <1>0, <2>1, <3>1 DEF CursorRec
      <4> QED BY <1>0, <2>1, <2>7, <2>9, <4>1, <4>2 DEF CursorRec
    <3>3. w = v BY <1>0, <2>4, <2>6, <3>2
    <3>4. u.index \in 0 .. Count(nd[n]) /\ u.parent = NULL BY <1>0, <2>1, <2>9 DEF TrackedAt
    <3>5. v.index \in 0 .. Count(md[nn]) BY <1>0, <2>9, <3>2, <3>4
    <3> QED BY <1>0, <2>1, <2>3, <2>9, <3>2, <3>3, <3>4, <3>5 DEF TrackedAt, Same, u, w
  <2>10. CASE u.trk /\ u.node = n /\ ~(u.index >= s)
    <3>1. v = u BY <1>0, <2>2, <2>5, <2>10
    <3>2. w = v BY <1>0, <2>4, <2>6, <2>10, <3>1
    <3>3. u.index \in 0 .. Count(nd[n]) /\ u.parent = NULL BY <1>0, <2>1, <2>10 DEF TrackedAt
    <3>4. u.index \in 0 .. Count(md[n]) BY <1>0, <2>7, <2>10, <3>3
    <3> QED BY <1>0, <2>1, <2>3, <2>10, <3>1, <3>2, <3>3, <3>4 DEF TrackedAt, Same, u, w
  <2>11. CASE u.trk /\ u.node = a
    <3>1. v = u BY <1>0, <2>2, <2>5, <2>11
    <3>2. u.index \in 0 .. Count(nd[a]) /\ u.parent = NULL /\ a \in InUse(nd)
      BY <1>0, <2>1, <2>11 DEF TrackedAt
    <3>3. CASE u.index >= i
      <4>1. w = [u EXCEPT !.index = @ + 1] BY <1>0, <2>4, <2>6, <2>11, <3>1, <3>3
      <4>2. w \in CursorRec /\ w.node = a /\ w.index = u.index + 1 /\ w.trk /\ w.parent = u.parent
        BY <1>0, <2>1, <2>7, <2>11, <4>1 DEF CursorRec
      <4>3. w.index \in 0 .. Count(md[a]) BY <1>0, <3>2, <4>2
      <4> QED BY <1>0, <2>1, <2>3, <2>11, <3>2, <4>2, <4>3 DEF TrackedAt, Same, u, w
    <3>4. CASE ~(u.index >= i)
      <4>1. w = u BY <1>0, <2>4, <2>6, <2>11, <3>1, <3>4
      <4>3. w.index \in 0 .. Count(md[a]) BY <1>0, <3>2, <4>1
      <4> QED BY <1>0, <2>1, <2>3, <2>11, <3>2, <4>1, <4>3 DEF TrackedAt, Same, u, w
    <3> QED BY <1>0, <3>3, <3>4
  <2>12. CASE u.trk /\ u.node \notin {n, a}
    <3>1. v = u /\ w = u BY <1>0, <2>2, <2>4, <2>5, <2>6, <2>12
    <3>2. u.index \in 0 .. Count(nd[u.node]) /\ u.parent = NULL /\ u.node \in InUse(nd)
      BY <1>0, <2>1, <2>12 DEF TrackedAt
    <3> QED BY <1>0, <2>1, <2>3, <2>12, <3>1, <3>2 DEF TrackedAt, Same, u, w
  <2> QED BY <1>0, <2>8, <2>9, <2>10, <2>11, <2>12
<1>2. D = [d \in Cursor |-> D[d]]
  <2>1. DOMAIN TrackSplit(C, n, nn, s) = Cursor BY DEF TrackSplit
  <2> QED BY <2>1 DEF TrackInserted
<1> HIDE DEF B
<1> QED BY <1>1, <1>2 DEF Tracked, Follows
(* A split below a parent that has room: the tree, the records, the        *)
(* tracked cursors, and where the working cursor goes.                     *)
LEMMA SplitBelowIs ==
  ASSUME NEW img, Sound(img), NEW c \in Cursor, NEW cu, cu = img.cur[c],
         NEW nd, nd = img.node, NEW n, n = cu.node, NEW a, a = cu.parent, NEW pi, pi = cu.pindex,
         NEW x, x = nd[n], Seated(nd, cu), a # NULL,
         Full(x), ~Full(nd[a]), cu.index \in 0 .. Count(x),
         NEW nn \in FreeNodes(nd), NEW key \in AnyKey,
         NEW im2, im2 = SplitBelow(img, c, key, nn)
  PROVE  SplitOf(img, c, key, im2) /\ im2.root = img.root
<1> DEFINE s == SplitPoint(x, cu.index)
           k == SplitKey(x, s)
           e == [base |-> k, sub |-> nn, mtid |-> x.mtid]
           right == GoesRight(x, cu.index, s, key, k)
           l == LeftPart(x, s)
           r == RightPart(x, s)
           z == WithSibling(nd[a], pi, e)
           K == Children(r)
           md == Halves(nd, n, nn, s, pi)
           cur1 == TrackInserted(TrackSplit(img.cur, n, nn, s), a, pi + 1)
           v == [cu EXCEPT !.node   = IF right THEN nn ELSE @,
                           !.index  = IF right THEN @ - s ELSE @,
                           !.pindex = IF right THEN @ + 1 ELSE @]
<1>0. /\ Tree(img.root, nd) /\ img.cur \in [Cursor -> CursorRec] /\ Tracked(nd, img.cur)
      /\ nd \in [Node -> NodeRec] /\ Kinds(nd) /\ Linked(img.root, nd)
  BY DEF Sound, Tree
<1>a. Tree(img.root, nd) /\ nd \in [Node -> NodeRec] /\ Kinds(nd) BY <1>0
<1>1. cu \in CursorRec /\ ~cu.trk /\ n \in InUse(nd) /\ a = nd[n].parent
  BY <1>0 DEF Seated
<1>b. pi \in 0 .. Count(nd[a]) - 1 /\ E(nd[a], pi).sub = n BY DEF Seated
<1>2. /\ n # img.root /\ a \in InUse(nd) /\ IsInternal(nd[a]) /\ a # n /\ a # NULL
  BY <1>a, <1>1, Up
<1>3. /\ nn \in Node /\ nn # NULL /\ nn \notin InUse(nd) /\ nn # n /\ nn # a
      /\ n \in Node /\ a \in Node /\ \A m \in InUse(nd) : m \in Node /\ m # nn
  BY <1>1, <1>2, NodeAssumption DEF FreeNodes, InUse
<1>4. /\ x \in NodeRec /\ Len(x.elms) \in Nat /\ Count(x) \in Int /\ x.type \in {"I", "L"}
      /\ IsInternal(x) => Count(x) = Len(x.elms) - 1
      /\ ~IsInternal(x) => Count(x) = Len(x.elms)
      /\ \A i \in 1 .. Len(x.elms) : x.elms[i].base \in AnyKey
      /\ Count(nd[a]) \in Int
  BY <1>a, <1>1, <1>2, Shape
<1>c. Count(x) \in Int /\ Count(nd[a]) \in Int BY <1>4
<1>5. /\ s \in 1 .. Count(x) - 1 /\ s \in Nat /\ 1 <= s /\ s < Count(x) /\ Count(x) \in Nat
  <2>1. Count(x) \in Nat BY <1>c, ElmsAssumption DEF Full
  <2>2. s \in 1 .. Count(x) - 1 BY <2>1, SplitPointIs
  <2> QED BY <2>1, <2>2
<1>d. s \in 1 .. Count(nd[n]) - 1 /\ s \in Int BY <1>5
<1>e. pi \in Int BY <1>b, <1>c
<1>6. /\ cu.index \in Int /\ 0 <= cu.index /\ cu.index <= Count(x) /\ pi \in Int /\ 0 <= pi
      /\ pi <= Count(nd[a]) - 1
  BY <1>b, <1>c
<1>7. /\ im2.root = img.root /\ im2.node = md /\ im2.cur = [cur1 EXCEPT ![c] = v]
  BY <1>1 DEF SplitBelow
<1> HIDE DEF s
<1>9. Count(nd[a]) < INT_ELMS
  <2>1. Linked(img.root, nd) BY <1>0
  <2>2. Sized(nd[a]) BY <1>a, <1>2, <2>1, LinkedIs
  <2>3. Count(nd[a]) <= INT_ELMS /\ INT_ELMS \in Int BY <1>2, <1>c, <2>2, ElmsAssumption DEF Sized
  <2>4. Count(nd[a]) # INT_ELMS BY <1>2 DEF Full
  <2> QED BY <1>c, <2>3, <2>4
<1>f. Halving(img.root, nd, n, nn, s, pi)
  <2>1. Tree(img.root, nd) /\ n \in InUse(nd) /\ n # img.root /\ nn \in FreeNodes(nd)
    BY <1>a, <1>1, <1>2
  <2>2. pi \in 0 .. Count(nd[nd[n].parent]) - 1 /\ E(nd[nd[n].parent], pi).sub = n BY <1>1, <1>b
  <2>3. Count(nd[nd[n].parent]) < INT_ELMS BY <1>1, <1>9
  <2> QED BY <1>d, <1>e, <2>1, <2>2, <2>3, HalvesTree
<1>g. KeepsRecords(nd, md)
  <2>1. md = Halves(nd, n, nn, s, pi) OBVIOUS
  <2> HIDE DEF md
  <2> QED BY <1>a, <1>d, <1>f, <1>1, <1>2, <2>1, HalvesKeep
<1>8. /\ Splits(nd, n, nn, s, pi, md) /\ \A m \in K : m \in Children(x)
      /\ Halved(x, s, l, r) /\ Extended(nd[a], pi, e, z)
  BY <1>1, <1>f DEF Halving
<1>10. Tree(img.root, md) /\ InUse(md) = InUse(nd) \union {nn} BY <1>f DEF Halving
<1>11. /\ md \in [Node -> NodeRec] /\ md[n] = l /\ md[nn] = r /\ md[a] = z
       /\ \A m \in K : md[m] = [nd[m] EXCEPT !.parent = nn]
       /\ \A m \in Node : m \notin K /\ m \notin {n, nn, a} => md[m] = nd[m]
  BY <1>1, <1>8 DEF Splits
<1>12. /\ l.type = x.type /\ r.type = x.type /\ l.parent = a /\ r.parent = a
       /\ Count(l) = s /\ Count(r) = Count(x) - s
       /\ \A i \in 0 .. s - 1 : E(l, i) = E(x, i)
       /\ \A i \in 0 .. Len(x.elms) - s - 1 : E(r, i) = E(x, i + s)
  BY <1>1, <1>8 DEF Halved
<1>13. /\ z.type = "I" /\ Count(z) = Count(nd[a]) + 1
       /\ \A i \in 0 .. pi : E(z, i) = E(nd[a], i)
       /\ E(z, pi + 1) = e
       /\ \A i \in pi + 2 .. Count(z) : E(z, i) = E(nd[a], i - 1)
  BY <1>8 DEF Extended
<1>14. /\ k \in AnyKey /\ Cmp(E(nd[a], pi).base, k) < 0 /\ Cmp(k, E(nd[a], pi + 1).base) < 0
       /\ ~IsInternal(x) => /\ Cmp(E(x, s - 1).base, k) < 0 /\ Cmp(k, E(x, s).base) <= 0
       /\ E(nd[a], pi).base \in AnyKey /\ E(nd[a], pi + 1).base \in AnyKey
  <2>1. /\ Fits(x, E(nd[a], pi).base, E(nd[a], pi + 1).base)
        /\ E(nd[a], pi).base \in AnyKey /\ E(nd[a], pi + 1).base \in AnyKey
    BY <1>a, <1>b, <1>2, Down
  <2> QED BY <1>a, <1>1, <1>5, <2>1, PartsFit
<1> HIDE DEF l, r, z, K, md, k, cur1
<1>15. \A m \in InUse(nd) : m \notin {n, a} => Count(md[m]) = Count(nd[m])
  <2>1. ASSUME NEW m \in K PROVE Count(md[m]) = Count(nd[m])
    <3>0. m \in Children(x) BY <1>8, <2>1
    <3>1. m \in Node
      <4>1. PICK i \in 0 .. Count(x) - 1 : IsInternal(x) /\ E(x, i).sub = m BY <3>0 DEF Children
      <4>2. m \in InUse(nd) BY <1>a, <1>1, <4>1, Down
      <4> QED BY <4>2 DEF InUse
    <3>2. nd[m] \in NodeRec /\ md[m] = [nd[m] EXCEPT !.parent = nn] BY <1>0, <1>11, <2>1, <3>1
    <3>3. md[m].elms = nd[m].elms /\ md[m].type = nd[m].type BY <3>2 DEF NodeRec
    <3> QED BY <3>3 DEF Count, IsInternal
  <2>2. ASSUME NEW m \in InUse(nd), m \notin {n, a}, m \notin K PROVE Count(md[m]) = Count(nd[m])
    BY <1>3, <1>11, <2>2
  <2> QED BY <2>1, <2>2
<1>16. /\ cur1 \in [Cursor -> CursorRec] /\ Tracked(md, cur1)
       /\ \A d \in Cursor : Same(img.cur[d], cur1[d])
  <2>1. /\ Count(md[n]) = s /\ Count(md[nn]) = Count(nd[n]) - s /\ s <= Count(nd[n])
        /\ Count(md[a]) = Count(nd[a]) + 1 /\ Count(nd[a]) \in Nat /\ Count(nd[n]) \in Nat
        /\ pi + 1 \in Nat
    <3>1. md[n] = l /\ md[nn] = r /\ md[a] = z BY <1>11
    <3>2. Count(l) = s /\ Count(r) = Count(x) - s /\ Count(z) = Count(nd[a]) + 1 BY <1>12, <1>13
    <3> QED BY <1>c, <1>5, <1>6, <3>1, <3>2
  <2>2. img.cur \in [Cursor -> CursorRec] /\ Tracked(nd, img.cur) BY <1>0
  <2>3. n # a /\ nn # a /\ a # NULL /\ nn \in Node /\ n \in InUse(nd) BY <1>1, <1>2, <1>3
  <2>4. InUse(md) = InUse(nd) \union {nn} BY <1>10
  <2>5. cur1 = TrackInserted(TrackSplit(img.cur, n, nn, s), a, pi + 1) BY DEF cur1
  <2>6. s \in Nat BY <1>5
  <2> HIDE DEF v, right, e
  <2>7. Follows(img.cur, TrackInserted(TrackSplit(img.cur, n, nn, s), a, pi + 1), md)
    <3>1. SplitCounts(nd, md, n, nn, a, s) BY <1>15, <2>1, <2>3, <2>4, <2>6 DEF SplitCounts
    <3>2. pi + 1 \in Nat BY <2>1
    <3> QED BY <1>e, <2>2, <3>1, <3>2, SplitTracked
  <2> QED BY <2>5, <2>7 DEF Follows
<1>17. /\ v \in CursorRec /\ ~v.trk /\ v.parent = a
       /\ v.node = IF right THEN nn ELSE n
       /\ v.index = IF right THEN cu.index - s ELSE cu.index
       /\ v.pindex = IF right THEN pi + 1 ELSE pi
  <2>1. CASE right
    <3>1. v = [cu EXCEPT !.node = nn, !.index = cu.index - s, !.pindex = pi + 1]
      BY <1>1, <2>1 DEF CursorRec
    <3>2. cu.index - s \in Int /\ pi + 1 \in Int /\ nn \in AnyNode BY <1>3, <1>5, <1>6 DEF AnyNode
    <3> QED BY <1>1, <2>1, <3>1, <3>2 DEF CursorRec
  <2>2. CASE ~right
    <3>1. v = [cu EXCEPT !.node = n, !.index = cu.index, !.pindex = pi] BY <1>1, <2>2 DEF CursorRec
    <3>2. v = cu BY <1>1, <3>1 DEF CursorRec
    <3> HIDE DEF v, right
    <3> QED BY <1>1, <2>2, <3>2
  <2> HIDE DEF v, right
  <2> QED BY <2>1, <2>2
<1> HIDE DEF v
<1>18. /\ im2.cur \in [Cursor -> CursorRec] /\ im2.cur[c] = v
       /\ \A d \in Cursor : d # c => im2.cur[d] = cur1[d]
  BY <1>7, <1>16, <1>17
<1>19. Tracked(md, im2.cur)
  <2>1. \A d \in Cursor : d # c => TrackedAt(md, im2.cur[d]) BY <1>16, <1>18 DEF Tracked
  <2>2. TrackedAt(md, im2.cur[c]) BY <1>17, <1>18 DEF TrackedAt
  <2> QED BY <2>1, <2>2 DEF Tracked
<1>20. Advances(img, im2, {n, a} \union Children(x), c)
  <2>1. Sound(im2) BY <1>7, <1>10, <1>18, <1>19 DEF Sound
  <2>2. ASSUME NEW m \in Node, nd[m].type # "free"
        PROVE  /\ md[m].type # "free"
               /\ m \notin {n, a} \union Children(x) => md[m] = nd[m]
    <3>1. m # nn BY <2>2 DEF FreeNodes
    <3>2. m \notin {n, a} /\ m \notin K => md[m] = nd[m] BY <1>11, <3>1
    <3>3. m \in K => m \in Children(x) BY <1>8
    <3>4. m \in K => md[m].type = nd[m].type
      <4>1. nd[m] \in NodeRec BY <1>0
      <4> QED BY <1>11, <4>1 DEF NodeRec
    <3>5. m = n => md[m].type = nd[m].type BY <1>11, <1>12
    <3>6. m = a => md[m].type = "I" BY <1>11, <1>13
    <3> QED BY <2>2, <3>2, <3>3, <3>4, <3>5, <3>6
  <2>3. \A d \in Cursor : d # c => Same(img.cur[d], im2.cur[d]) BY <1>16, <1>18
  <2> QED BY <1>7, <2>1, <2>2, <2>3 DEF Advances
<1>21. md[v.node].type = x.type /\ md[v.node].parent = a /\ v.node \in InUse(md)
  <2> HIDE DEF right
  <2> QED BY <1>1, <1>10, <1>11, <1>12, <1>17
<1>22. /\ v.pindex \in 0 .. Count(md[a]) - 1 /\ E(md[a], v.pindex).sub = v.node
       /\ right => v.pindex = pi + 1 /\ E(md[a], v.pindex).base = k
                   /\ E(md[a], v.pindex + 1).base = E(nd[a], pi + 1).base
       /\ ~right => v.pindex = pi /\ E(md[a], v.pindex).base = E(nd[a], pi).base
                    /\ E(md[a], v.pindex + 1).base = k
  <2>0. Count(z) = Count(nd[a]) + 1 /\ md[a] = z /\ e.base = k /\ e.sub = nn BY <1>11, <1>13
  <2>1. CASE right
    <3>1. pi + 2 \in pi + 2 .. Count(z) /\ (pi + 1) + 1 = pi + 2 /\ pi + 2 - 1 = pi + 1
      BY <1>c, <1>6, <2>0
    <3>2. pi + 1 \in 0 .. Count(z) - 1 BY <1>c, <1>6, <2>0
    <3>3. E(z, pi + 2) = E(nd[a], pi + 1)
      <4>1. \A i \in pi + 2 .. Count(z) : E(z, i) = E(nd[a], i - 1) BY <1>13
      <4> HIDE DEF right, e
      <4>0. pi + 2 \in pi + 2 .. Count(z) BY <3>1
      <4>2. E(z, pi + 2) = E(nd[a], pi + 2 - 1) BY <1>e, <4>0, <4>1
      <4> QED BY <3>1, <4>2
    <3> HIDE DEF e
    <3> QED BY <1>13, <1>17, <2>0, <2>1, <3>1, <3>2, <3>3
  <2>2. CASE ~right
    <3>1. pi \in 0 .. pi /\ pi \in 0 .. Count(z) - 1 BY <1>c, <1>6, <2>0
    <3> HIDE DEF e
    <3> QED BY <1>b, <1>13, <1>17, <2>0, <2>2, <3>1
  <2> QED BY <2>1, <2>2
<1>23. Seated(md, v) BY <1>17, <1>21, <1>22 DEF Seated
<1>24. /\ right => v.index = cu.index - s /\ Count(md[v.node]) = Count(x) - s /\ cu.index >= s
       /\ ~right => v.index = cu.index /\ Count(md[v.node]) = s /\ cu.index <= s
       /\ ~right /\ IsInternal(x) => cu.index < s
  <2>1. right => cu.index >= s BY <1>5, <1>6 DEF GoesRight
  <2>2. ~right => cu.index <= s BY <1>5, <1>6 DEF GoesRight
  <2>3. ~right /\ IsInternal(x) => cu.index < s BY <1>5, <1>6 DEF GoesRight
  <2> HIDE DEF right
  <2> QED BY <1>11, <1>12, <1>17, <2>1, <2>2, <2>3
<1>25. /\ v.index \in 0 .. Count(md[v.node])
       /\ IsInternal(x) /\ cu.index # Count(x) => v.index # Count(md[v.node])
       /\ Count(md[v.node]) # Count(x)
  <2> HIDE DEF right
  <2> QED BY <1>5, <1>6, <1>24
<1>26. ~Full(md[v.node])
  <2>1. IsInternal(md[v.node]) <=> IsInternal(x) BY <1>21 DEF IsInternal
  <2> QED BY <1>25, <2>1 DEF Full
<1>27. ASSUME ~IsInternal(x), Fitting(nd, cu, key) PROVE Fitting(md, v, key)
  <2>1. /\ \A j \in 0 .. cu.index - 1 : Cmp(E(x, j).base, key) < 0
        /\ \A j \in cu.index .. Count(x) - 1 : Cmp(E(x, j).base, key) > 0
        /\ Cmp(E(nd[a], pi).base, key) <= 0 /\ Cmp(key, E(nd[a], pi + 1).base) < 0
    BY <1>2, <1>27 DEF Fitting, Slot, Bounds
  <2>2. Bounds(md, v) = <<E(md[a], v.pindex).base, E(md[a], v.pindex + 1).base>>
    BY <1>2, <1>17 DEF Bounds
  <2>3. /\ s - 1 \in 0 .. Count(x) - 1 /\ s \in 0 .. Count(x) - 1
        /\ \A i \in 0 .. Count(x) - 1 : i + 1 \in 1 .. Len(x.elms)
    <3>1. Count(x) = Len(x.elms) BY <1>4, <1>27
    <3>2. s - 1 \in 0 .. Count(x) - 1 /\ s \in 0 .. Count(x) - 1 BY <1>5
    <3>3. \A i \in 0 .. Count(x) - 1 : i + 1 \in 1 .. Count(x) BY <1>c
    <3> QED BY <3>1, <3>2, <3>3
  <2>4. E(x, s - 1).base \in AnyKey /\ E(x, s).base \in AnyKey
    <3>2. s - 1 + 1 = s BY <1>d
    <3>3. s + 1 \in 1 .. Len(x.elms) BY <2>3
    <3>4. s - 1 + 1 \in 1 .. Len(x.elms) BY <2>3
    <3>1. s \in 1 .. Len(x.elms) /\ s + 1 \in 1 .. Len(x.elms) /\ s - 1 + 1 = s
      BY <3>2, <3>3, <3>4
    <3> QED BY <1>4, <3>1 DEF E
  <2>5. Cmp(E(x, s - 1).base, k) < 0 /\ Cmp(k, E(x, s).base) <= 0 BY <1>14, <1>27
  <2>6. CASE right
    <3>1. Cmp(k, key) <= 0
      <4>1. CASE cu.index > s
        <5>1. s \in 0 .. cu.index - 1 BY <1>5, <1>6, <4>1
        <5>2. Cmp(E(x, s).base, key) < 0 BY <2>1, <5>1
        <5>3. Cmp(k, key) < 0 \/ Cmp(k, key) <= 0 BY <1>14, <2>4, <2>5, <5>2, CmpOrder
        <5> QED BY <1>14, <5>3, CmpOrder
      <4>2. CASE Cmp(key, k) >= 0 BY <1>14, <4>2, CmpOrder
      <4> QED BY <1>27, <2>6, <4>1, <4>2 DEF GoesRight
    <3>2. ASSUME NEW j \in 0 .. Count(r) - 1 PROVE E(r, j) = E(x, j + s) /\ j + s \in 0 .. Count(x) - 1
      <4>1. j \in 0 .. Len(x.elms) - s - 1 BY <1>4, <1>5, <1>12, <1>27
      <4>2. j + s \in 0 .. Count(x) - 1
        <5>1. Len(x.elms) = Count(x) BY <1>4, <1>27
        <5> QED BY <1>5, <4>1, <5>1
      <4> QED BY <1>12, <4>1, <4>2
    <3>3. md[v.node] = r /\ v.index = cu.index - s BY <1>11, <1>17, <2>6
    <3>4. Slot(r, v.index, key)
      <4>1. ASSUME NEW j \in 0 .. v.index - 1 PROVE Cmp(E(r, j).base, key) < 0
        <5>1. j \in 0 .. Count(r) - 1 /\ j + s \in 0 .. cu.index - 1
          BY <1>5, <1>6, <1>12, <3>3
        <5> QED BY <2>1, <3>2, <5>1
      <4>2. ASSUME NEW j \in v.index .. Count(r) - 1 PROVE Cmp(E(r, j).base, key) > 0
        <5>1. j \in 0 .. Count(r) - 1 /\ j + s \in cu.index .. Count(x) - 1
          <6>1. v.index = cu.index - s /\ cu.index >= s BY <1>24, <2>6
          <6>2. Count(r) = Count(x) - s BY <1>12
          <6> QED BY <1>5, <1>6, <6>1, <6>2
        <5> QED BY <2>1, <3>2, <5>1
      <4> QED BY <4>1, <4>2 DEF Slot
    <3>5. Bounds(md, v) = <<k, E(nd[a], pi + 1).base>> BY <1>22, <2>2, <2>6
    <3>6. Bounds(md, v)[1] = k /\ Bounds(md, v)[2] = E(nd[a], pi + 1).base BY <3>5
    <3> QED BY <2>1, <3>1, <3>3, <3>4, <3>6 DEF Fitting
  <2>7. CASE ~right
    <3>1. Cmp(key, k) < 0
      <4>0. cu.index < s \/ (cu.index = s /\ ~(Cmp(key, k) >= 0))
        BY <1>5, <1>6, <1>27, <2>7 DEF GoesRight
      <4>1. CASE cu.index < s
        <5>1. s - 1 \in cu.index .. Count(x) - 1 BY <1>5, <1>6, <4>1
        <5>2. Cmp(E(x, s - 1).base, key) > 0 BY <2>1, <5>1
        <5>3. Cmp(key, E(x, s - 1).base) < 0 BY <2>4, <5>2, CmpOrder
        <5>4. Cmp(E(x, s - 1).base, k) <= 0 BY <1>14, <2>4, <2>5, CmpOrder
        <5> QED BY <1>14, <2>4, <5>3, <5>4, CmpOrder
      <4>2. CASE ~(Cmp(key, k) >= 0)
        <5>1. Cmp(key, k) \in {-2, -1, 0, 1, 2} BY <1>14, CmpOrder
        <5> QED BY <4>2, <5>1
      <4> QED BY <4>0, <4>1, <4>2
    <3>2. md[v.node] = l /\ v.index = cu.index BY <1>11, <1>17, <2>7
    <3>3. Slot(l, v.index, key)
      <4>1. ASSUME NEW j \in 0 .. v.index - 1 PROVE Cmp(E(l, j).base, key) < 0
        <5>1. j \in 0 .. s - 1 /\ j \in 0 .. cu.index - 1 BY <1>5, <1>6, <1>24, <2>7, <3>2
        <5> QED BY <1>12, <2>1, <5>1
      <4>2. ASSUME NEW j \in v.index .. Count(l) - 1 PROVE Cmp(E(l, j).base, key) > 0
        <5>0. Count(l) = s /\ v.index = cu.index BY <1>12, <3>2
        <5>2. j \in cu.index .. s - 1 BY <5>0
        <5>3. j \in Int /\ cu.index <= j /\ j <= s - 1 BY <1>5, <1>6, <5>2
        <5>1. j \in 0 .. s - 1 /\ j \in cu.index .. Count(x) - 1
          BY <1>5, <1>6, <5>3
        <5> QED BY <1>12, <2>1, <5>1
      <4> QED BY <4>1, <4>2 DEF Slot
    <3>5. Bounds(md, v) = <<E(nd[a], pi).base, k>> BY <1>22, <2>2, <2>7
    <3>6. Bounds(md, v)[1] = E(nd[a], pi).base /\ Bounds(md, v)[2] = k BY <3>5
    <3> QED BY <2>1, <3>1, <3>2, <3>3, <3>6 DEF Fitting
  <2> QED BY <2>6, <2>7
<1>28. \A m \in Mine(v) : m \in Mine(cu) \/ m \in FreeNodes(nd)
  BY <1>3, <1>17 DEF Mine
<1> HIDE DEF right
<1>29. SplitOf(img, c, key, im2)
  <2>1. Seated(im2.node, im2.cur[c]) BY <1>7, <1>18, <1>23
  <2>2. Advances(img, im2, {cu.node, cu.parent} \union Children(x), c) BY <1>20
  <2>3. ~IsInternal(x) /\ Fitting(img.node, cu, key) => Fitting(im2.node, im2.cur[c], key)
    BY <1>7, <1>18, <1>27
  <2> QED BY <1>7, <1>g, <1>18, <1>21, <1>25, <1>26, <1>28, <2>1, <2>2, <2>3 DEF SplitOf
<1> QED BY <1>7, <1>29
(* A new root, for the split of the old one.                               *)
Rooted(img, c, r, im1) ==
  LET cu == img.cur[c]
      x  == img.node[cu.node]
      w  == im1.cur[c]
  IN /\ Sound(im1) /\ Seated(im1.node, w) /\ Mine(w) = {cu.node, r}
     /\ w.node = cu.node /\ w.index = cu.index /\ w.parent = r
     /\ im1.node[cu.node].type = x.type /\ im1.node[cu.node].elms = x.elms
     /\ Count(im1.node[r]) = 1 /\ IsInternal(im1.node[r])
     /\ Bounds(im1.node, w) = <<RootBeg, RootEnd>>
     /\ \A m \in Node : m \notin {cu.node, r} => im1.node[m] = img.node[m]
     /\ \A d \in Cursor : d # c => im1.cur[d] = img.cur[d]

(* A new root above the old one.                                           *)
LEMMA AddRootIs ==
  ASSUME NEW img, Sound(img), NEW c \in Cursor, Seated(img.node, img.cur[c]),
         img.cur[c].parent = NULL, NEW r \in FreeNodes(img.node)
  PROVE  Rooted(img, c, r, AddRoot(img, c, r))
<1> DEFINE nd == img.node
           cu == img.cur[c]
           n == cu.node
           x == nd[n]
           im1 == AddRoot(img, c, r)
           md == [nd EXCEPT ![r] = NewRoot(n, x), ![n] = [x EXCEPT !.parent = r]]
           w == [cu EXCEPT !.parent = r, !.pindex = 0]
<1>1. /\ Tree(img.root, nd) /\ img.cur \in [Cursor -> CursorRec] /\ Tracked(nd, img.cur)
      /\ nd \in [Node -> NodeRec]
  BY DEF Sound, Tree
<1>2. cu \in CursorRec /\ n \in InUse(nd) /\ ~cu.trk /\ x.parent = NULL
  BY <1>1 DEF Seated
<1>3. n \in Node /\ r \in Node /\ r # n /\ r \notin InUse(nd) /\ x \in NodeRec /\ r # NULL
  BY <1>1, <1>2, NodeAssumption DEF InUse, FreeNodes
<1>4. n = img.root BY <1>1, <1>2, Up
<1>5. im1.root = r /\ im1.node = md /\ im1.cur = [img.cur EXCEPT ![c] = w]
  <2>1. im1 = [root |-> r, node |-> md, cur |-> [img.cur EXCEPT ![c] = w]]
    BY <1>2 DEF AddRoot
  <2> HIDE DEF im1, md, w
  <2> QED BY <2>1
<1> HIDE DEF im1
<1>6. NewRoot(n, x) \in NodeRec
  <2> DEFINE e0 == [base |-> RootBeg, sub |-> n, mtid |-> 0]
             e1 == [base |-> RootEnd, sub |-> NULL, mtid |-> 0]
  <2>1. e0 \in IntElm /\ e1 \in IntElm BY <1>3, RootKeys DEF IntElm
  <2>2. NewRoot(n, x) = [type |-> "I", parent |-> NULL, mtid |-> x.mtid, elms |-> <<e0, e1>>]
    BY DEF NewRoot
  <2> HIDE DEF e0, e1
  <2>3. <<e0, e1>> \in Seq(IntElm) BY <2>1
  <2>4. x.mtid \in Nat BY <1>3 DEF NodeRec
  <2> QED BY <2>2, <2>3, <2>4 DEF NodeRec
<1>7. /\ md \in [Node -> NodeRec] /\ md[r] = NewRoot(n, x) /\ md[n] = [x EXCEPT !.parent = r]
      /\ \A m \in Node : m \notin {n, r} => md[m] = nd[m]
  <2>1. [x EXCEPT !.parent = r] \in NodeRec BY <1>3 DEF NodeRec
  <2> DEFINE y == NewRoot(n, x)
             x1 == [x EXCEPT !.parent = r]
  <2>2. md = [nd EXCEPT ![r] = y, ![n] = x1] OBVIOUS
  <2> HIDE DEF y, x1, n, x, md
  <2>3. /\ md \in [Node -> NodeRec] /\ md[r] = y /\ md[n] = x1
        /\ \A m \in Node : m \notin {n, r} => md[m] = nd[m]
    BY <1>1, <1>3, <1>6, <2>1, <2>2 DEF y, x1
  <2> QED BY <2>3 DEF y, x1, x
<1> HIDE DEF md
<1>8. Tree(r, md) /\ InUse(md) = InUse(nd) \union {r}
  <2>1. /\ md[r] = NewRoot(img.root, nd[img.root])
        /\ md[img.root] = [nd[img.root] EXCEPT !.parent = r]
        /\ \A m \in Node : m \notin {r, img.root} => md[m] = nd[m]
    BY <1>4, <1>7
  <2> QED BY <1>1, <1>7, <2>1, NewRootTree
<1>9. md[n].type = x.type /\ md[n].elms = x.elms /\ md[n].parent = r BY <1>3, <1>7 DEF NodeRec
<1>10. /\ IsInternal(md[r]) /\ Count(md[r]) = 1 /\ E(md[r], 0).sub = n
       /\ E(md[r], 0).base = RootBeg /\ E(md[r], 1).base = RootEnd
  BY <1>7 DEF NewRoot, IsInternal, Count, E
<1>11. w \in CursorRec /\ w.node = n /\ w.index = cu.index /\ w.parent = r /\ w.pindex = 0 /\ ~w.trk
  <2>1. r \in AnyNode BY <1>3 DEF AnyNode
  <2>2. w = [cu EXCEPT !.parent = r, !.pindex = 0] OBVIOUS
  <2> HIDE DEF cu, w
  <2>3. w.trk = cu.trk /\ w.node = cu.node /\ w.index = cu.index /\ w.parent = r /\ w.pindex = 0
    BY <1>2, <2>2 DEF CursorRec
  <2>4. w \in CursorRec
    <3>1. 0 \in Int OBVIOUS
    <3> QED BY <1>2, <2>1, <2>2, <3>1, CursorAt
  <2> QED BY <1>2, <2>3, <2>4
<1> HIDE DEF w
<1>12. /\ im1.cur \in [Cursor -> CursorRec] /\ im1.cur[c] = w
       /\ \A d \in Cursor : d # c => im1.cur[d] = img.cur[d]
  BY <1>1, <1>5, <1>11
<1>13. \A m \in InUse(nd) : m \in InUse(md) /\ Count(md[m]) = Count(nd[m])
  <2>1. Count(md[n]) = Count(nd[n]) BY <1>9 DEF Count, IsInternal
  <2>2. \A m \in InUse(nd) : m \in Node /\ m # r BY <1>3 DEF InUse
  <2> HIDE DEF n
  <2> QED BY <1>7, <1>8, <2>1, <2>2
<1>14. Tracked(md, im1.cur)
  <2>1. \A d \in Cursor : d # c => TrackedAt(md, im1.cur[d])
    BY <1>1, <1>12, <1>13 DEF Tracked, TrackedAt
  <2>2. TrackedAt(md, im1.cur[c]) BY <1>11, <1>12 DEF TrackedAt
  <2> QED BY <2>1, <2>2 DEF Tracked
<1>15. Sound(im1) BY <1>5, <1>8, <1>12, <1>14 DEF Sound
<1>16. Seated(md, w)
  <2>1. 0 \in 0 .. Count(md[r]) - 1 BY <1>10
  <2> QED BY <1>2, <1>8, <1>9, <1>10, <1>11, <2>1 DEF Seated
<1>17. Bounds(md, w) = <<RootBeg, RootEnd>>
  <2>1. 0 + 1 = 1 OBVIOUS
  <2> QED BY <1>3, <1>10, <1>11, <2>1 DEF Bounds
<1>18. Mine(w) = {n, r} BY <1>3, <1>11, NodeAssumption DEF Mine
<1> QED BY <1>5, <1>7, <1>9, <1>10, <1>11, <1>12, <1>15, <1>16, <1>17, <1>18 DEF Rooted, im1
(* A split of any full node, with a new root if it needs one.              *)
LEMMA SplitIs ==
  ASSUME NEW img, Sound(img), NEW c \in Cursor, Seated(img.node, img.cur[c]),
         Full(img.node[img.cur[c].node]),
         img.cur[c].parent # NULL => ~Full(img.node[img.cur[c].parent]),
         img.cur[c].index \in 0 .. Count(img.node[img.cur[c].node]),
         NEW key \in AnyKey, NEW nn \in FreeNodes(img.node), NEW r \in FreeNodes(img.node),
         img.cur[c].parent = NULL => nn # r
  PROVE  SplitOf(img, c, key, Split(img, c, key, nn, r))
<1> DEFINE im1 == AddRoot(img, c, r)
           im2 == SplitBelow(im1, c, key, nn)
<1>1. Split(img, c, key, nn, r) = im2 BY DEF Split
<1>2. CASE img.cur[c].parent # NULL
  <2>1. img.node[img.cur[c].node].parent # NULL BY <1>2 DEF Seated
  <2>2. im1 = img BY <2>1 DEF AddRoot
  <2>3. SplitOf(img, c, key, SplitBelow(img, c, key, nn)) BY <1>2, SplitBelowIs
  <2> QED BY <1>1, <2>2, <2>3
<1>3. CASE img.cur[c].parent = NULL
  <2> DEFINE cu == img.cur[c]
             x == img.node[cu.node]
             w == im1.cur[c]
  <2>1. Rooted(img, c, r, im1) BY <1>3, AddRootIs
  <2> HIDE DEF im1
  <2>2. /\ Sound(im1) /\ Seated(im1.node, w) /\ Mine(w) = {cu.node, r}
        /\ w.node = cu.node /\ w.index = cu.index /\ w.parent = r
        /\ im1.node[cu.node].type = x.type /\ im1.node[cu.node].elms = x.elms
        /\ Count(im1.node[r]) = 1 /\ IsInternal(im1.node[r])
        /\ Bounds(im1.node, w) = <<RootBeg, RootEnd>>
        /\ \A m \in Node : m \notin {cu.node, r} => im1.node[m] = img.node[m]
        /\ \A d \in Cursor : d # c => im1.cur[d] = img.cur[d]
    BY <2>1 DEF Rooted
  <2>3. Count(im1.node[cu.node]) = Count(x) /\ (IsInternal(im1.node[cu.node]) <=> IsInternal(x))
    BY <2>2 DEF Count, IsInternal
  <2>4. cu.node \in Node /\ r \in Node /\ nn \in Node /\ r # NULL /\ r # cu.node /\ nn # cu.node
    BY NodeAssumption DEF Seated, InUse, FreeNodes
  <2>5. Full(im1.node[w.node]) /\ ~Full(im1.node[w.parent]) /\ w.parent # NULL
    BY <2>2, <2>3, <2>4, ElmsAssumption DEF Full
  <2>6. w.index \in 0 .. Count(im1.node[w.node]) BY <2>2, <2>3
  <2>7. nn \in FreeNodes(im1.node)
    <3>1. nn \notin {cu.node, r} /\ img.node[nn].type = "free" BY <1>3, <2>4 DEF FreeNodes
    <3> QED BY <2>2, <2>4, <3>1 DEF FreeNodes
  <2>8. SplitOf(im1, c, key, im2) BY <2>2, <2>5, <2>6, <2>7, SplitBelowIs
  <2> HIDE DEF im2
  <2> DEFINE v == im2.cur[c]
             y == im2.node[v.node]
  <2>9. /\ Advances(im1, im2, {w.node, w.parent} \union Children(im1.node[w.node]), c)
        /\ Seated(im2.node, v) /\ v.index \in 0 .. Count(y) /\ y.type = im1.node[w.node].type
        /\ ~Full(y)
        /\ IsInternal(im1.node[w.node]) /\ w.index # Count(im1.node[w.node]) => v.index # Count(y)
        /\ ~IsInternal(im1.node[w.node]) /\ Fitting(im1.node, w, key) => Fitting(im2.node, v, key)
        /\ \A n \in Mine(v) : n \in Mine(w) \/ n \in FreeNodes(im1.node)
        /\ KeepsRecords(im1.node, im2.node)
    BY <2>8 DEF SplitOf
  <2>10. Fitting(img.node, cu, key) => Fitting(im1.node, w, key)
    <3>1. Bounds(img.node, cu) = <<RootBeg, RootEnd>> BY <1>3 DEF Bounds
    <3>2. \A i, k : Slot(x, i, k) => Slot(im1.node[w.node], i, k)
      BY <2>2, <2>3 DEF Slot, E
    <3> QED BY <2>2, <3>1, <3>2 DEF Fitting
  <2>11. Children(im1.node[w.node]) = Children(x)
    <3>1. im1.node[w.node].type = x.type /\ im1.node[w.node].elms = x.elms BY <2>2
    <3> QED BY <3>1, Alike
  <2>12. ASSUME NEW m \in Node, img.node[m].type # "free"
         PROVE  /\ im2.node[m].type # "free"
                /\ m \notin {cu.node, cu.parent} \union Children(x) => im2.node[m] = img.node[m]
    <3>1. m # r BY <2>12 DEF FreeNodes
    <3>2. im1.node[m].type = img.node[m].type BY <2>2, <3>1
    <3>3. im2.node[m].type # "free" BY <2>9, <2>12, <3>2 DEF Advances
    <3>4. m \notin {cu.node} \union Children(x) => im1.node[m] = img.node[m]
      BY <2>2, <3>1
    <3>5. m \notin {cu.node} \union Children(x) => im2.node[m] = im1.node[m]
      BY <2>2, <2>9, <2>11, <2>12, <3>1, <3>2 DEF Advances
    <3> QED BY <3>3, <3>4, <3>5
  <2>13. Sound(im2) /\ \A d \in Cursor : d # c => Same(img.cur[d], im2.cur[d])
    BY <2>2, <2>9 DEF Advances
  <2>14. Advances(img, im2, {cu.node, cu.parent} \union Children(x), c)
    BY <2>12, <2>13 DEF Advances
  <2>15. \A n \in Mine(v) : n \in Mine(cu) \/ n \in FreeNodes(img.node)
    <3>1. cu.node \in Mine(cu) BY <2>4, NodeAssumption DEF Mine
    <3>2. \A n \in FreeNodes(im1.node) : n = cu.node \/ n \in FreeNodes(img.node)
      BY <2>2 DEF FreeNodes
    <3> HIDE DEF v
    <3> QED BY <2>2, <2>9, <3>1, <3>2
  <2>16. SplitOf(img, c, key, im2)
    <3>1. /\ y.type = x.type
          /\ IsInternal(x) /\ cu.index # Count(x) => v.index # Count(y)
          /\ ~IsInternal(x) /\ Fitting(img.node, cu, key) => Fitting(im2.node, v, key)
      BY <2>2, <2>3, <2>9, <2>10
    <3>2. KeepsRecords(img.node, im1.node)
      <4> DEFINE W == {r}
      <4>1. \A m \in Node : m \notin W =>
              im1.node[m].type = img.node[m].type /\ im1.node[m].elms = img.node[m].elms
        BY <2>2
      <4>2. \A m \in Node : m \in W => ~Leaf(img.node, m) /\ ~Leaf(im1.node, m)
        BY <2>2 DEF Leaf, InUse, FreeNodes
      <4> HIDE DEF W
      <4> QED BY <4>1, <4>2, InternalKeeps
    <3>3. KeepsRecords(img.node, im2.node) BY <2>9, <3>2, KeepsTrans
    <3> QED BY <2>9, <2>14, <2>15, <3>1, <3>3 DEF SplitOf
  <2> QED BY <1>1, <2>16
<1> QED BY <1>2, <1>3
-----------------------------------------------------------------------------
(* A locked cursor's bounds are those of its node.                         *)
Confines(rt, nd, n, lo, hi) ==
  /\ lo \in AnyKey /\ hi \in AnyKey /\ Fits(nd[n], lo, hi)
  /\ \A lo2, hi2 : Spans(rt, nd, n, lo2, hi2) => lo2 = lo /\ hi2 = hi
(* The boundaries hammer_load_cursor_parent reads are bounds of the node.  *)
LEMMA SeatBounds ==
  ASSUME NEW rt, NEW nd, Tree(rt, nd), NEW cu, Seated(nd, cu)
  PROVE  Confines(rt, nd, cu.node, Bounds(nd, cu)[1], Bounds(nd, cu)[2])
<1> DEFINE n == cu.node
           lo == Bounds(nd, cu)[1]
           hi == Bounds(nd, cu)[2]
<1>1. n \in InUse(nd) /\ cu.parent = nd[n].parent BY DEF Seated
<1>2. CASE cu.parent = NULL
  <2>1. n = rt BY <1>1, <1>2, Up
  <2>2. lo = RootBeg /\ hi = RootEnd BY <1>2 DEF Bounds
  <2>3. Spans(rt, nd, n, lo, hi) BY <2>1, <2>2 DEF Spans
  <2>4. \A lo2, hi2 : Spans(rt, nd, n, lo2, hi2) => lo2 = lo /\ hi2 = hi
    BY <2>1, <2>2 DEF Spans
  <2> HIDE DEF n, lo, hi
  <2>5. lo \in AnyKey /\ hi \in AnyKey /\ Fits(nd[n], lo, hi) BY <1>1, <2>3, SpansIs
  <2> QED BY <2>4, <2>5 DEF Confines, n, lo, hi
<1>3. CASE cu.parent # NULL
  <2>1. n # rt BY <1>1, <1>3, Up
  <2>2. /\ cu.pindex \in 0 .. Count(nd[nd[n].parent]) - 1
        /\ E(nd[nd[n].parent], cu.pindex).sub = n
    BY <1>1, <1>3 DEF Seated
  <2>3. /\ lo = E(nd[nd[n].parent], cu.pindex).base
        /\ hi = E(nd[nd[n].parent], cu.pindex + 1).base
    BY <1>1, <1>3 DEF Bounds
  <2> HIDE DEF n, lo, hi
  <2>4. Spans(rt, nd, n, lo, hi) BY <2>1, <2>2, <2>3 DEF Spans
  <2>5. lo \in AnyKey /\ hi \in AnyKey /\ Fits(nd[n], lo, hi) BY <1>1, <2>4, SpansIs
  <2>6. ASSUME NEW lo2, NEW hi2, Spans(rt, nd, n, lo2, hi2) PROVE lo2 = lo /\ hi2 = hi
    <3>1. /\ lo2 = E(nd[nd[n].parent], cu.pindex).base
          /\ hi2 = E(nd[nd[n].parent], cu.pindex + 1).base
      BY <1>1, <2>1, <2>2, <2>6, SpansIs
    <3> QED BY <2>3, <3>1
  <2> QED BY <2>5, <2>6 DEF Confines, n, lo, hi
<1> QED BY <1>2, <1>3

(* Nodes in use that keep their size keep their tracked cursors.           *)
LEMMA TrackedStays ==
  ASSUME NEW nd, NEW md, NEW C, Tracked(nd, C),
         \A m \in InUse(nd) : m \in InUse(md) /\ Count(md[m]) = Count(nd[m])
  PROVE  Tracked(md, C)
BY DEF Tracked, TrackedAt

(* An element that has its place in a leaf fits there.                     *)
LEMMA SlotFits ==
  ASSUME NEW x, ~IsInternal(x), x.elms \in Seq(LeafElm), NEW lo \in AnyKey, NEW hi \in AnyKey,
         Fits(x, lo, hi), NEW i \in 0 .. Count(x), NEW e \in LeafElm, Slot(x, i, e.base),
         Cmp(lo, e.base) <= 0, Cmp(e.base, hi) < 0,
         NEW y, ~IsInternal(y), y.elms \in Seq(LeafElm), Inserted(y.elms, x.elms, i + 1, e)
  PROVE  Fits(y, lo, hi)
<1> DEFINE L == Len(x.elms)
           b(j) == y.elms[j].base
           Old(j) == IF j <= i THEN j ELSE j - 1
<1>1. L \in Nat /\ Count(x) = L /\ i \in Nat /\ i <= L BY DEF Count
<1>2. /\ Len(y.elms) = L + 1
      /\ \A j \in 1 .. i + 1 - 1 : y.elms[j] = x.elms[j]
      /\ y.elms[i + 1] = e
      /\ \A j \in i + 1 .. L : y.elms[j + 1] = x.elms[j]
  BY DEF Inserted
<1>3. /\ \A j \in 1 .. L : x.elms[j] \in LeafElm /\ x.elms[j].base \in AnyKey
      /\ e.base \in AnyKey
  <2>1. \A f \in LeafElm : f.base \in AnyKey BY ProcAssumption DEF LeafElm, AnyKey, Tid
  <2> QED BY <2>1
<1>4. /\ \A j \in 1 .. L : Cmp(lo, x.elms[j].base) <= 0 /\ Cmp(x.elms[j].base, hi) <= -1
      /\ \A j, k \in 1 .. L : j < k => Cmp(x.elms[j].base, x.elms[k].base) < 0
  BY DEF Fits
<1>5. /\ \A j \in 0 .. i - 1 : Cmp(E(x, j).base, e.base) < 0
      /\ \A j \in i .. Count(x) - 1 : Cmp(E(x, j).base, e.base) > 0
  BY DEF Slot
<1> HIDE DEF L
<1>6. ASSUME NEW j \in 1 .. L + 1, j # i + 1
      PROVE  /\ Old(j) \in 1 .. L /\ b(j) = x.elms[Old(j)].base
             /\ j < i + 1 => Cmp(b(j), e.base) < 0
             /\ j > i + 1 => Cmp(e.base, b(j)) < 0
  <2>1. j \in Nat /\ 1 <= j /\ j <= L + 1 BY <1>1
  <2>2. CASE j <= i
    <3>1. j \in 1 .. L /\ j \in 1 .. i + 1 - 1 /\ j - 1 \in 0 .. i - 1 /\ j - 1 + 1 = j /\ Old(j) = j
      BY <1>1, <2>1, <2>2
    <3>2. y.elms[j] = x.elms[j] BY <1>2, <3>1
    <3>3. Cmp(E(x, j - 1).base, e.base) < 0 BY <1>5, <3>1
    <3>4. E(x, j - 1) = x.elms[j] BY <3>1 DEF E
    <3>5. ~(j > i + 1) BY <1>1, <2>1, <2>2
    <3> QED BY <3>1, <3>2, <3>3, <3>4, <3>5
  <2>3. CASE j > i + 1
    <3>1. /\ j - 1 \in 1 .. L /\ j - 1 \in i + 1 .. L /\ j - 2 \in i .. Count(x) - 1
          /\ j - 2 + 1 = j - 1 /\ j - 1 + 1 = j /\ Old(j) = j - 1
      BY <1>1, <2>1, <2>3
    <3>2. y.elms[j] = x.elms[j - 1]
      <4>1. y.elms[j - 1 + 1] = x.elms[j - 1] BY <1>1, <1>2, <2>1, <3>1
      <4> QED BY <3>1, <4>1
    <3>3. Cmp(E(x, j - 2).base, e.base) > 0 BY <1>1, <1>5, <2>1, <3>1
    <3>4. E(x, j - 2) = x.elms[j - 1] BY <3>1 DEF E
    <3>5. ~(j < i + 1) BY <1>1, <2>1, <2>3
    <3>6. Cmp(e.base, x.elms[j - 1].base) < 0 BY <1>3, <3>1, <3>3, <3>4, CmpOrder
    <3> QED BY <3>1, <3>2, <3>5, <3>6
  <2> QED BY <1>1, <1>6, <2>1, <2>2, <2>3
<1>7. ASSUME NEW j \in 1 .. L + 1 PROVE Cmp(lo, b(j)) <= 0 /\ Cmp(b(j), hi) <= -1
  <2>1. CASE j = i + 1
    <3>1. b(j) = e.base BY <1>2, <2>1
    <3>2. Cmp(e.base, hi) \in {-2, -1, 0, 1, 2} BY <1>3, CmpOrder
    <3>3. Cmp(e.base, hi) <= -1 BY <3>2
    <3> QED BY <3>1, <3>3
  <2>2. CASE j # i + 1
    <3>1. Old(j) \in 1 .. L /\ b(j) = x.elms[Old(j)].base BY <1>6, <2>2
    <3> HIDE DEF Old, b
    <3> QED BY <1>4, <3>1
  <2> QED BY <2>1, <2>2
<1>8. ASSUME NEW j \in 1 .. L + 1, NEW k \in 1 .. L + 1, j < k PROVE Cmp(b(j), b(k)) < 0
  <2>0. j \in Nat /\ k \in Nat BY <1>1
  <2>1. CASE j = i + 1
    <3>1. b(j) = e.base BY <1>2, <2>1
    <3>2. k > i + 1 /\ k # i + 1 BY <1>1, <1>8, <2>0, <2>1
    <3> QED BY <1>6, <3>1, <3>2
  <2>2. CASE k = i + 1
    <3>1. b(k) = e.base BY <1>2, <2>2
    <3>2. j < i + 1 /\ j # i + 1 BY <1>1, <1>8, <2>0, <2>2
    <3> QED BY <1>6, <3>1, <3>2
  <2>3. CASE j # i + 1 /\ k # i + 1
    <3>1. Old(j) < Old(k) BY <1>1, <1>8, <2>0, <2>3
    <3>2. /\ Old(j) \in 1 .. L /\ b(j) = x.elms[Old(j)].base
          /\ Old(k) \in 1 .. L /\ b(k) = x.elms[Old(k)].base
      BY <1>6, <2>3
    <3> HIDE DEF Old, b
    <3> QED BY <1>4, <3>1, <3>2
  <2> QED BY <2>1, <2>2, <2>3
<1> QED BY <1>2, <1>7, <1>8 DEF Fits
(* A node is changed in place.                                             *)
Changes(rt, nd, n, y) ==
  Tree(rt, [nd EXCEPT ![n] = y]) /\ InUse([nd EXCEPT ![n] = y]) = InUse(nd)
(* A leaf may be replaced by any leaf within its bounds.                   *)
LEMMA LeafChanges ==
  ASSUME NEW rt, NEW nd, Tree(rt, nd), NEW n \in InUse(nd), ~IsInternal(nd[n]), NEW y \in NodeRec,
         y.type = nd[n].type, y.parent = nd[n].parent, y.elms \in Seq(LeafElm),
         Len(y.elms) <= LEAF_ELMS, NEW lo, NEW hi, Confines(rt, nd, n, lo, hi), Fits(y, lo, hi)
  PROVE  Changes(rt, nd, n, y)
<1>1. ~IsInternal(y) BY DEF IsInternal
<1>2. \A lo2, hi2 : Spans(rt, nd, n, lo2, hi2) => Fits(y, lo2, hi2) BY DEF Confines
<1>3. Tree(rt, [nd EXCEPT ![n] = y]) /\ InUse([nd EXCEPT ![n] = y]) = InUse(nd)
  BY <1>1, <1>2, OneNode
<1> QED BY <1>3 DEF Changes
(* hammer_btree_insert.                                                    *)
InsertOf(img, c, e, im2) ==
  LET cu == img.cur[c]
      x  == img.node[cu.node]
      y  == im2.node[cu.node]
  IN /\ Advances(img, im2, {cu.node}, c) /\ im2.cur[c] = cu /\ im2.root = img.root
     /\ y \in NodeRec /\ y.type = x.type /\ y.parent = x.parent
     /\ y.elms = InsertAt(x.elms, cu.index + 1, e) /\ Inserted(y.elms, x.elms, cu.index + 1, e)
     /\ im2.node = [img.node EXCEPT ![cu.node] = y]

(* A tracked cursor stays within its node when an element is inserted.     *)
LEMMA TrackInsertedIs ==
  ASSUME NEW nd, NEW C \in [Cursor -> CursorRec], Tracked(nd, C), NEW n, NEW i \in Int,
         NEW md, \A m \in InUse(nd) : /\ m \in InUse(md) /\ Count(nd[m]) \in Nat
                                      /\ Count(md[m]) = IF m = n THEN Count(nd[m]) + 1
                                                                 ELSE Count(nd[m])
  PROVE  Follows(C, TrackInserted(C, n, i), md)
<1> DEFINE D == TrackInserted(C, n, i)
<1>1. ASSUME NEW d \in Cursor
      PROVE  D[d] \in CursorRec /\ TrackedAt(md, D[d]) /\ Same(C[d], D[d]) /\ d \in DOMAIN C
  <2> DEFINE u == C[d]
             w == D[d]
  <2>1. d \in DOMAIN C /\ u \in CursorRec /\ TrackedAt(nd, u) BY DEF Tracked
  <2>2. w = IF On(C, d, n) /\ u.index >= i THEN [u EXCEPT !.index = @ + 1] ELSE u
    BY <2>1 DEF TrackInserted
  <2>3. On(C, d, n) <=> u.trk /\ u.node = n BY DEF On
  <2> HIDE DEF u, w
  <2>4. u.index \in Int BY <2>1 DEF CursorRec
  <2>5. CASE u.trk /\ u.node = n /\ u.index >= i
    <3>1. w = [u EXCEPT !.index = @ + 1] BY <2>2, <2>3, <2>5
    <3>2. /\ w \in CursorRec /\ w.node = u.node /\ w.index = u.index + 1 /\ w.trk
          /\ w.parent = u.parent
      BY <2>1, <2>4, <2>5, <3>1 DEF CursorRec
    <3>3. u.index \in 0 .. Count(nd[n]) /\ u.parent = NULL /\ n \in InUse(nd)
      BY <2>1, <2>5 DEF TrackedAt
    <3>4. w.index \in 0 .. Count(md[n]) BY <3>2, <3>3
    <3> QED BY <2>1, <2>5, <3>2, <3>3, <3>4 DEF TrackedAt, Same, u, w
  <2>6. CASE ~(u.trk /\ u.node = n /\ u.index >= i)
    <3>1. w = u BY <2>2, <2>3, <2>6
    <3>2. TrackedAt(md, u)
      <4>1. SUFFICES ASSUME u.trk PROVE TrackedAt(md, u) BY DEF TrackedAt
      <4>2. u.index \in 0 .. Count(nd[u.node]) /\ u.parent = NULL /\ u.node \in InUse(nd)
        BY <2>1, <4>1 DEF TrackedAt
      <4>3. u.index \in 0 .. Count(md[u.node]) BY <4>2
      <4> QED BY <4>2, <4>3 DEF TrackedAt
    <3> QED BY <2>1, <3>1, <3>2 DEF Same, u, w
  <2> QED BY <2>5, <2>6
<1>2. D = [d \in Cursor |-> D[d]] BY DEF TrackInserted
<1> QED BY <1>1, <1>2 DEF Tracked, Follows

(* hammer_btree_insert on a leaf with room for a key within its bounds.    *)
LEMMA InsertIs ==
  ASSUME NEW img, Sound(img), NEW c \in Cursor, Seated(img.node, img.cur[c]),
         ~IsInternal(img.node[img.cur[c].node]), ~Full(img.node[img.cur[c].node]),
         img.cur[c].index \in 0 .. Count(img.node[img.cur[c].node]),
         NEW e \in LeafElm, Fitting(img.node, img.cur[c], e.base)
  PROVE  InsertOf(img, c, e, InsertElm(img, c, e))
<1> DEFINE nd == img.node
           cu == img.cur[c]
           n == cu.node
           x == nd[n]
           i == cu.index
           s == InsertAt(x.elms, i + 1, e)
           y == [x EXCEPT !.elms = s, !.mtid = Later(Later(x.mtid, e.dtid), e.base.t)]
           md == [nd EXCEPT ![n] = y]
           D == TrackInserted(img.cur, n, i)
           im2 == InsertElm(img, c, e)
           rt == img.root
           lo == Bounds(nd, cu)[1]
           hi == Bounds(nd, cu)[2]
<1>1. /\ Tree(rt, nd) /\ img.cur \in [Cursor -> CursorRec] /\ Tracked(nd, img.cur)
      /\ nd \in [Node -> NodeRec] /\ Kinds(nd) /\ Linked(rt, nd)
  BY DEF Sound, Tree
<1>2. cu \in CursorRec /\ n \in InUse(nd) /\ ~cu.trk BY <1>1 DEF Seated
<1>3. /\ n \in Node /\ x \in NodeRec /\ x.elms \in Seq(LeafElm) /\ Len(x.elms) \in Nat
      /\ Count(x) = Len(x.elms) /\ x.type \in {"I", "L"} /\ ~IsInternal(x)
  BY <1>1, <1>2, Shape
<1>4. Len(x.elms) < LEAF_ELMS
  <2>1. Sized(x) BY <1>1, <1>2, LinkedIs
  <2>2. Count(x) <= LEAF_ELMS /\ Count(x) # LEAF_ELMS BY <1>3, <2>1, ElmsAssumption DEF Sized, Full
  <2> QED BY <1>3, <2>2, ElmsAssumption
<1>5. im2.root = rt /\ im2.node = md /\ im2.cur = D BY DEF InsertElm, WithElm
<1>6. /\ Confines(rt, nd, n, lo, hi) /\ Slot(x, i, e.base)
      /\ Cmp(lo, e.base) <= 0 /\ Cmp(e.base, hi) < 0 /\ i \in 0 .. Count(x)
  BY <1>1, SeatBounds DEF Fitting
<1> HIDE DEF lo, hi
<1>7. /\ lo \in AnyKey /\ hi \in AnyKey /\ Fits(x, lo, hi)
      /\ \A lo2, hi2 : Spans(rt, nd, n, lo2, hi2) => lo2 = lo /\ hi2 = hi
  BY <1>6 DEF Confines
<1> HIDE DEF im2, D, rt, cu
<1>8. s \in Seq(LeafElm) /\ Inserted(s, x.elms, i + 1, e)
  <2>1. i + 1 \in 1 .. Len(x.elms) + 1 BY <1>3, <1>6
  <2> QED BY <1>3, <2>1, InsertAtIs
<1>9. Len(s) = Len(x.elms) + 1 BY <1>8 DEF Inserted
<1> HIDE DEF s
<1>10. /\ y \in NodeRec /\ y.type = x.type /\ y.parent = x.parent /\ y.elms = s
       /\ ~IsInternal(y) /\ Count(y) = Len(s)
  <2>1. Later(Later(x.mtid, e.dtid), e.base.t) \in Nat
    <3>1. x.mtid \in Nat /\ e.dtid \in Nat /\ e.base.t \in Nat
      BY <1>3, ProcAssumption DEF NodeRec, LeafElm, Tid
    <3> QED BY <3>1 DEF Later
  <2> DEFINE m == Later(Later(x.mtid, e.dtid), e.base.t)
  <2>2. y = [x EXCEPT !.elms = s, !.mtid = m] OBVIOUS
  <2> HIDE DEF m, y, x
  <2>3. y \in NodeRec /\ y.type = x.type /\ y.parent = x.parent /\ y.elms = s
    <3>1. s \in Seq(LeafElm) \union Seq(IntElm) BY <1>8
    <3> QED BY <1>3, <2>1, <2>2, <3>1 DEF NodeRec, m
  <2> QED BY <1>3, <2>3 DEF IsInternal, Count
<1> HIDE DEF y
<1>11. Fits(y, lo, hi) BY <1>3, <1>6, <1>7, <1>8, <1>10, SlotFits
<1>12. Tree(rt, md) /\ InUse(md) = InUse(nd)
  <2>2. y.elms \in Seq(LeafElm) /\ Len(y.elms) <= LEAF_ELMS
    BY <1>3, <1>4, <1>8, <1>9, <1>10, ElmsAssumption
  <2>3. y \in NodeRec /\ y.type = x.type /\ y.parent = x.parent /\ ~IsInternal(y) BY <1>10
  <2> HIDE DEF nd, n
  <2>4. Changes(rt, nd, n, y) BY <1>1, <1>2, <1>3, <1>6, <1>11, <2>2, <2>3, LeafChanges
  <2> QED BY <2>4 DEF Changes
<1>13. Follows(img.cur, D, md)
  <2>1. md[n] = y /\ \A m \in Node : m # n => md[m] = nd[m] BY <1>1, <1>3
  <2>2. \A m \in InUse(nd) : m \in Node /\ Count(nd[m]) \in Int /\ Sized(nd[m]) BY <1>1, Shape, LinkedIs
  <2>3. \A m \in InUse(nd) : Count(nd[m]) \in Nat
    BY <2>2, ElmsAssumption DEF Sized
  <2>4. ASSUME NEW m \in InUse(nd)
        PROVE  /\ m \in InUse(md) /\ Count(nd[m]) \in Nat
               /\ Count(md[m]) = IF m = n THEN Count(nd[m]) + 1 ELSE Count(nd[m])
    <3> HIDE DEF md, nd, n
    <3> QED BY <1>3, <1>9, <1>10, <1>12, <2>1, <2>2, <2>3 DEF x
  <2>5. i \in Int BY <1>3, <1>6
  <2> HIDE DEF md, n, i, nd
  <2>6. Follows(img.cur, TrackInserted(img.cur, n, i), md) BY <1>1, <2>4, <2>5, TrackInsertedIs
  <2> QED BY <2>6 DEF D
<1>14. D[c] = cu
  BY <1>1, <1>2 DEF D, TrackInserted, On, cu
<1>15. Advances(img, im2, {n}, c)
  <2>1. Sound(im2) BY <1>5, <1>12, <1>13 DEF Sound, Follows
  <2>2. ASSUME NEW m \in Node, nd[m].type # "free"
        PROVE  md[m].type # "free" /\ (m \notin {n} => md[m] = nd[m])
    BY <1>1, <1>3, <1>10, <2>2
  <2>3. \A d \in Cursor : d # c => Same(img.cur[d], im2.cur[d]) BY <1>5, <1>13 DEF Follows
  <2> QED BY <1>5, <2>1, <2>2, <2>3 DEF Advances
<1>16. md[n] = y BY <1>1, <1>3
<1> QED BY <1>5, <1>8, <1>10, <1>14, <1>15, <1>16 DEF InsertOf, im2, s, cu, rt

(* hammer_btree_delete takes an element out; nothing is on the nodes G.    *)
Shrinks(nd, md, n, i, G) ==
  /\ n \in InUse(nd) => i < Count(nd[n])
  /\ \A m \in InUse(nd) : m \notin G =>
       /\ m \in InUse(md) /\ Count(nd[m]) \in Nat
       /\ Count(md[m]) = IF m = n THEN Count(nd[m]) - 1 ELSE Count(nd[m])
(* A tracked cursor stays within its node when an element is deleted.      *)
LEMMA TrackDeletedIs ==
  ASSUME NEW nd, NEW C \in [Cursor -> CursorRec], Tracked(nd, C), NEW n, NEW i \in Nat,
         NEW G, \A d \in Cursor : C[d].trk => C[d].node \notin G,
         NEW md, Shrinks(nd, md, n, i, G)
  PROVE  Follows(C, TrackDeleted(C, n, i), md)
<1> DEFINE D == TrackDeleted(C, n, i)
<1>1. ASSUME NEW d \in Cursor
      PROVE  D[d] \in CursorRec /\ TrackedAt(md, D[d]) /\ Same(C[d], D[d]) /\ d \in DOMAIN C
  <2> DEFINE u == C[d]
             w == D[d]
  <2>1. d \in DOMAIN C /\ u \in CursorRec /\ TrackedAt(nd, u) BY DEF Tracked
  <2>2. w = IF ~On(C, d, n) \/ u.index < i THEN u
            ELSE IF u.index = i THEN [u EXCEPT !.rip = TRUE]
            ELSE [u EXCEPT !.index = @ - 1]
    BY <2>1 DEF TrackDeleted
  <2>3. On(C, d, n) <=> u.trk /\ u.node = n BY DEF On
  <2>a. u.trk => u.node \notin G OBVIOUS
  <2> HIDE DEF u, w
  <2>4. u.index \in Int BY <2>1 DEF CursorRec
  <2>5. CASE u.trk /\ u.node = n
    <3>1. /\ u.index \in 0 .. Count(nd[n]) /\ u.parent = NULL /\ n \in InUse(nd)
          /\ n \in InUse(md) /\ Count(nd[n]) \in Nat /\ Count(md[n]) = Count(nd[n]) - 1
          /\ i < Count(nd[n])
      BY <2>1, <2>a, <2>5 DEF TrackedAt, Shrinks
    <3>2. CASE u.index < i
      <4>1. w = u BY <2>2, <3>2
      <4>2. u.index \in 0 .. Count(md[n]) BY <3>1, <3>2
      <4> QED BY <2>1, <2>5, <3>1, <4>1, <4>2 DEF TrackedAt, Same, u, w
    <3>3. CASE u.index = i
      <4>1. w = [u EXCEPT !.rip = TRUE] BY <2>2, <2>3, <2>4, <2>5, <3>3
      <4>2. /\ w \in CursorRec /\ w.node = n /\ w.index = u.index /\ w.trk
            /\ w.parent = u.parent
        BY <2>1, <2>5, <4>1 DEF CursorRec
      <4>3. w.index \in 0 .. Count(md[n]) BY <3>1, <3>3, <4>2
      <4> QED BY <2>1, <2>5, <3>1, <4>2, <4>3 DEF TrackedAt, Same, u, w
    <3>4. CASE u.index > i
      <4>1. w = [u EXCEPT !.index = @ - 1] BY <2>2, <2>3, <2>4, <2>5, <3>4
      <4>2. /\ w \in CursorRec /\ w.node = n /\ w.index = u.index - 1 /\ w.trk
            /\ w.parent = u.parent
        BY <2>1, <2>4, <2>5, <4>1 DEF CursorRec
      <4>3. w.index \in 0 .. Count(md[n]) BY <3>1, <3>4, <4>2
      <4> QED BY <2>1, <2>5, <3>1, <4>2, <4>3 DEF TrackedAt, Same, u, w
    <3> QED BY <2>4, <3>2, <3>3, <3>4
  <2>6. CASE ~(u.trk /\ u.node = n)
    <3>1. w = u BY <2>2, <2>3, <2>6
    <3>2. TrackedAt(md, u)
      <4>1. SUFFICES ASSUME u.trk PROVE TrackedAt(md, u) BY DEF TrackedAt
      <4>2. u.index \in 0 .. Count(nd[u.node]) /\ u.parent = NULL /\ u.node \in InUse(nd)
        BY <2>1, <4>1 DEF TrackedAt
      <4>3. u.index \in 0 .. Count(md[u.node]) /\ u.node \in InUse(md) BY <2>6, <2>a, <4>1, <4>2 DEF Shrinks
      <4> QED BY <4>2, <4>3 DEF TrackedAt
    <3> QED BY <2>1, <3>1, <3>2 DEF Same, u, w
  <2> QED BY <2>5, <2>6
<1>2. D = [d \in Cursor |-> D[d]] BY DEF TrackDeleted
<1> QED BY <1>1, <1>2 DEF Tracked, Follows

DeleteOf(img, c, im2) ==
  LET cu == img.cur[c]
      x  == img.node[cu.node]
      y  == im2.node[cu.node]
  IN /\ Advances(img, im2, {cu.node}, c) /\ im2.cur[c] = cu /\ im2.root = img.root
     /\ y \in NodeRec /\ y.type = x.type /\ y.parent = x.parent
     /\ y.elms = RemoveAt(x.elms, cu.index + 1) /\ Removed(y.elms, x.elms, cu.index + 1)
     /\ im2.node = [img.node EXCEPT ![cu.node] = y]

(* hammer_btree_delete as far as it takes the element out.                 *)
LEMMA DeleteIs ==
  ASSUME NEW img, Sound(img), NEW c \in Cursor, Seated(img.node, img.cur[c]),
         ~IsInternal(img.node[img.cur[c].node]),
         img.cur[c].index \in 0 .. Count(img.node[img.cur[c].node]) - 1
  PROVE  DeleteOf(img, c, DeleteElm(img, c))
<1> DEFINE nd == img.node
           cu == img.cur[c]
           n == cu.node
           x == nd[n]
           i == cu.index
           s == RemoveAt(x.elms, i + 1)
           y == [x EXCEPT !.elms = s]
           md == [nd EXCEPT ![n] = y]
           D == TrackDeleted(img.cur, n, i)
           im2 == DeleteElm(img, c)
           rt == img.root
           lo == Bounds(nd, cu)[1]
           hi == Bounds(nd, cu)[2]
<1>1. /\ Tree(rt, nd) /\ img.cur \in [Cursor -> CursorRec] /\ Tracked(nd, img.cur)
      /\ nd \in [Node -> NodeRec] /\ Kinds(nd) /\ Linked(rt, nd)
  BY DEF Sound, Tree
<1>2. cu \in CursorRec /\ n \in InUse(nd) /\ ~cu.trk BY <1>1 DEF Seated
<1>3. /\ n \in Node /\ x \in NodeRec /\ x.elms \in Seq(LeafElm) /\ Len(x.elms) \in Nat
      /\ Count(x) = Len(x.elms) /\ x.type \in {"I", "L"} /\ ~IsInternal(x)
      /\ \A j \in 1 .. Len(x.elms) : x.elms[j].base \in AnyKey
  BY <1>1, <1>2, Shape
<1>4. Len(x.elms) <= LEAF_ELMS
  <2>1. Sized(x) BY <1>1, <1>2, LinkedIs
  <2>2. Count(x) \in 0 .. LEAF_ELMS BY <1>3, <2>1 DEF Sized
  <2> HIDE DEF x
  <2> QED BY <1>3, <2>2, ElmsAssumption
<1>5. im2.root = rt /\ im2.node = md /\ im2.cur = D BY DEF DeleteElm, WithoutElm
<1>6. Confines(rt, nd, n, lo, hi) /\ i \in 0 .. Count(x) - 1 BY <1>1, SeatBounds
<1> HIDE DEF lo, hi
<1>7. /\ lo \in AnyKey /\ hi \in AnyKey /\ Fits(x, lo, hi) BY <1>6 DEF Confines
<1> HIDE DEF im2, D, rt, cu
<1>8. s \in Seq(LeafElm) /\ Removed(s, x.elms, i + 1)
  <2>1. i + 1 \in 1 .. Len(x.elms) BY <1>3, <1>6
  <2> QED BY <1>3, <2>1, RemoveAtIs
<1>9. Len(s) = Len(x.elms) - 1 BY <1>8 DEF Removed
<1> HIDE DEF s
<1>10. /\ y \in NodeRec /\ y.type = x.type /\ y.parent = x.parent /\ y.elms = s
       /\ ~IsInternal(y) /\ Count(y) = Len(s)
  <2>2. y = [x EXCEPT !.elms = s] OBVIOUS
  <2> HIDE DEF y, x
  <2>3. y \in NodeRec /\ y.type = x.type /\ y.parent = x.parent /\ y.elms = s
    <3>1. s \in Seq(LeafElm) \union Seq(IntElm) BY <1>8
    <3> QED BY <1>3, <2>2, <3>1 DEF NodeRec
  <2> QED BY <1>3, <2>3 DEF IsInternal, Count
<1> HIDE DEF y
<1>11. Fits(y, lo, hi)
  <2> DEFINE Old(j) == IF j < i + 1 THEN j ELSE j + 1
             L == Len(x.elms)
  <2>1. L \in Nat /\ i \in Nat /\ Len(y.elms) = L - 1 BY <1>3, <1>6, <1>9, <1>10
  <2>2. ASSUME NEW j \in 1 .. L - 1
        PROVE Old(j) \in 1 .. L /\ y.elms[j] = x.elms[Old(j)]
    <3>1. CASE j < i + 1
      <4>1. j \in 1 .. i + 1 - 1 /\ j \in 1 .. L BY <2>1, <3>1
      <4>2. s[j] = x.elms[j]
        <5> HIDE DEF x, L, i
        <5> QED BY <1>8, <2>1, <4>1 DEF Removed
      <4> QED BY <1>10, <3>1, <4>1, <4>2
    <3>2. CASE ~(j < i + 1)
      <4>1. j \in i + 1 .. L - 1 /\ j + 1 \in 1 .. L BY <2>1, <3>2
      <4>2. s[j] = x.elms[j + 1] BY <1>8, <4>1 DEF Removed
      <4> QED BY <1>10, <3>2, <4>1, <4>2
    <3> QED BY <3>1, <3>2
  <2>3. \A j, k \in 1 .. L - 1 : j < k => Old(j) < Old(k) BY <2>1
  <2> HIDE DEF Old
  <2>4. \A j \in 1 .. L - 1 : Cmp(lo, y.elms[j].base) <= 0 /\ Cmp(y.elms[j].base, hi) <= -1
    BY <1>3, <1>7, <2>2 DEF Fits
  <2>5. \A j, k \in 1 .. L - 1 : j < k => Cmp(y.elms[j].base, y.elms[k].base) < 0
    BY <1>7, <2>2, <2>3 DEF Fits
  <2> QED BY <1>10, <2>1, <2>4, <2>5 DEF Fits
<1>12. Tree(rt, md) /\ InUse(md) = InUse(nd)
  <2>2. y.elms \in Seq(LeafElm) /\ Len(y.elms) <= LEAF_ELMS
    BY <1>3, <1>4, <1>8, <1>9, <1>10, ElmsAssumption
  <2>3. y \in NodeRec /\ y.type = x.type /\ y.parent = x.parent /\ ~IsInternal(y) BY <1>10
  <2> HIDE DEF nd, n
  <2>4. Changes(rt, nd, n, y) BY <1>1, <1>2, <1>3, <1>6, <1>11, <2>2, <2>3, LeafChanges
  <2> QED BY <2>4 DEF Changes
<1>13. Follows(img.cur, D, md)
  <2>1. md[n] = y /\ \A m \in Node : m # n => md[m] = nd[m] BY <1>1, <1>3
  <2>2. \A m \in InUse(nd) : m \in Node /\ Count(nd[m]) \in Int /\ Sized(nd[m]) BY <1>1, Shape, LinkedIs
  <2>3. \A m \in InUse(nd) : Count(nd[m]) \in Nat
    BY <2>2, ElmsAssumption DEF Sized
  <2>4. ASSUME NEW m \in InUse(nd)
        PROVE  /\ m \in InUse(md) /\ Count(nd[m]) \in Nat
               /\ Count(md[m]) = IF m = n THEN Count(nd[m]) - 1 ELSE Count(nd[m])
    <3> HIDE DEF md, nd, n
    <3> QED BY <1>3, <1>9, <1>10, <1>12, <2>1, <2>2, <2>3 DEF x
  <2>5. i \in Nat /\ i < Count(nd[n]) BY <1>3, <1>6
  <2> HIDE DEF md, n, i, nd
  <2>6. Follows(img.cur, TrackDeleted(img.cur, n, i), md)
    <3> DEFINE G == {}
    <3>1. \A d \in Cursor : img.cur[d].trk => img.cur[d].node \notin G OBVIOUS
    <3> HIDE DEF G, x
    <3>2. \A m \in InUse(nd) : m \notin G =>
            /\ m \in InUse(md) /\ Count(nd[m]) \in Nat
            /\ Count(md[m]) = IF m = n THEN Count(nd[m]) - 1 ELSE Count(nd[m])
      BY <2>4
    <3>3. n \in InUse(nd) => i < Count(nd[n]) BY <2>5
    <3>4. i \in Nat BY <2>5
    <3>5. img.cur \in [Cursor -> CursorRec] /\ Tracked(nd, img.cur) BY <1>1
    <3>6. Shrinks(nd, md, n, i, G) BY <3>2, <3>3 DEF Shrinks
    <3> QED BY <3>1, <3>4, <3>5, <3>6, TrackDeletedIs
  <2> QED BY <2>6 DEF D
<1>14. D[c] = cu
  BY <1>1, <1>2 DEF D, TrackDeleted, On, cu
<1>15. Advances(img, im2, {n}, c)
  <2>1. Sound(im2) BY <1>5, <1>12, <1>13 DEF Sound, Follows
  <2>2. ASSUME NEW m \in Node, nd[m].type # "free"
        PROVE  md[m].type # "free" /\ (m \notin {n} => md[m] = nd[m])
    BY <1>1, <1>3, <1>10, <2>2
  <2>3. \A d \in Cursor : d # c => Same(img.cur[d], im2.cur[d]) BY <1>5, <1>13 DEF Follows
  <2> QED BY <1>5, <2>1, <2>2, <2>3 DEF Advances
<1>16. md[n] = y BY <1>1, <1>3
<1> QED BY <1>5, <1>8, <1>10, <1>14, <1>15, <1>16 DEF DeleteOf, im2, s, cu, rt

(* One element of a node is changed where it is.                           *)
Patched(x, i, e, S, y) ==
  /\ y \in NodeRec /\ y.type = x.type /\ y.parent = x.parent
  /\ y.elms \in Seq(S) /\ Len(y.elms) = Len(x.elms) /\ e \in S
  /\ \A j \in 1 .. Len(x.elms) : y.elms[j] = IF j = i + 1 THEN e ELSE x.elms[j]

(* A node with one element replaced.                                       *)
LEMMA PatchedIs ==
  ASSUME NEW x \in NodeRec, NEW S \in {LeafElm, IntElm}, x.elms \in Seq(S),
         NEW i \in 0 .. Len(x.elms) - 1, NEW e \in S, NEW m \in Nat
  PROVE  /\ Patched(x, i, e, S, [x EXCEPT !.elms = [@ EXCEPT ![i + 1] = e], !.mtid = m])
         /\ Patched(x, i, e, S, [x EXCEPT !.elms = [@ EXCEPT ![i + 1] = e]])
<1> DEFINE w == [x.elms EXCEPT ![i + 1] = e]
<1>1. i + 1 \in 1 .. Len(x.elms) OBVIOUS
<1>2. /\ w \in Seq(S) /\ Len(w) = Len(x.elms)
      /\ \A j \in 1 .. Len(x.elms) : w[j] = IF j = i + 1 THEN e ELSE x.elms[j]
  BY <1>1, ExceptSeq
<1>3. /\ [x EXCEPT !.elms = [@ EXCEPT ![i + 1] = e], !.mtid = m] = [[x EXCEPT !.elms = w] EXCEPT !.mtid = m]
      /\ [x EXCEPT !.elms = [@ EXCEPT ![i + 1] = e]] = [x EXCEPT !.elms = w]
  OBVIOUS
<1> HIDE DEF w
<1>a. w \in Seq(LeafElm) \union Seq(IntElm) BY <1>2
<1>4. /\ [x EXCEPT !.elms = w] \in NodeRec /\ [x EXCEPT !.elms = w].elms = w
      /\ [x EXCEPT !.elms = w].type = x.type /\ [x EXCEPT !.elms = w].parent = x.parent
  BY <1>a DEF NodeRec
<1> DEFINE y == [x EXCEPT !.elms = w]
<1>5. y \in NodeRec /\ y.elms = w /\ y.type = x.type /\ y.parent = x.parent BY <1>4
<1> HIDE DEF y
<1>6. /\ [y EXCEPT !.mtid = m] \in NodeRec /\ [y EXCEPT !.mtid = m].elms = w
      /\ [y EXCEPT !.mtid = m].type = y.type /\ [y EXCEPT !.mtid = m].parent = y.parent
  BY <1>5 DEF NodeRec
<1>7. Patched(x, i, e, S, y) BY <1>2, <1>5 DEF Patched
<1>8. Patched(x, i, e, S, [y EXCEPT !.mtid = m]) BY <1>2, <1>5, <1>6 DEF Patched
<1> QED BY <1>3, <1>7, <1>8 DEF y

(* A corrected boundary replaces one element.                              *)
LEMMA WidenIs ==
  ASSUME NEW x \in NodeRec, x.elms \in Seq(IntElm), NEW i \in 0 .. Len(x.elms) - 1,
         NEW b \in AnyKey
  PROVE  Patched(x, i, [E(x, i) EXCEPT !.base = b], IntElm, Widen(x, i, b))
<1> DEFINE e == [E(x, i) EXCEPT !.base = b]
<1>1. Len(x.elms) \in Nat /\ i + 1 \in 1 .. Len(x.elms) /\ E(x, i) \in IntElm BY DEF E
<1>2. e \in IntElm BY <1>1 DEF IntElm
<1>3. Widen(x, i, b) = [x EXCEPT !.elms = [@ EXCEPT ![i + 1] = e]] BY DEF Widen, E
<1> HIDE DEF e
<1>4. 0 \in Nat OBVIOUS
<1>5. Patched(x, i, e, IntElm, [x EXCEPT !.elms = [@ EXCEPT ![i + 1] = e]])
  BY <1>2, <1>4, PatchedIs
<1> QED BY <1>3, <1>5 DEF e

(* A propagated mirror_tid replaces one element.                           *)
LEMMA MarkedIs ==
  ASSUME NEW x \in NodeRec, x.elms \in Seq(IntElm), NEW i \in 0 .. Len(x.elms) - 1,
         NEW tid \in Nat
  PROVE  Patched(x, i, [E(x, i) EXCEPT !.mtid = tid], IntElm, Marked(x, i, tid))
<1> DEFINE e == [E(x, i) EXCEPT !.mtid = tid]
           m == Later(x.mtid, tid)
<1>1. Len(x.elms) \in Nat /\ i + 1 \in 1 .. Len(x.elms) /\ E(x, i) \in IntElm BY DEF E
<1>2. e \in IntElm BY <1>1 DEF IntElm
<1>3. Marked(x, i, tid) = [x EXCEPT !.elms = [@ EXCEPT ![i + 1] = e], !.mtid = m] BY DEF Marked, E
<1>4. m \in Nat BY DEF NodeRec, Later
<1> HIDE DEF e, m
<1>5. Patched(x, i, e, IntElm, [x EXCEPT !.elms = [@ EXCEPT ![i + 1] = e], !.mtid = m])
  BY <1>2, <1>4, PatchedIs
<1> QED BY <1>3, <1>5 DEF e

(* A delete_tid replaces one element.                                      *)
LEMMA WithDtidIs ==
  ASSUME NEW x \in NodeRec, x.elms \in Seq(LeafElm), NEW i \in 0 .. Len(x.elms) - 1,
         NEW tid \in Tid
  PROVE  Patched(x, i, [E(x, i) EXCEPT !.dtid = tid], LeafElm, WithDtid(x, i, tid))
<1> DEFINE e == [E(x, i) EXCEPT !.dtid = tid]
           m == Later(x.mtid, tid)
<1>1. Len(x.elms) \in Nat /\ i + 1 \in 1 .. Len(x.elms) /\ E(x, i) \in LeafElm BY DEF E
<1>2. e \in LeafElm BY <1>1 DEF LeafElm
<1>3. WithDtid(x, i, tid) = [x EXCEPT !.elms = [@ EXCEPT ![i + 1] = e], !.mtid = m] BY DEF WithDtid, E
<1>4. m \in Nat BY ProcAssumption DEF NodeRec, Later, Tid
<1> HIDE DEF e, m
<1>5. Patched(x, i, e, LeafElm, [x EXCEPT !.elms = [@ EXCEPT ![i + 1] = e], !.mtid = m])
  BY <1>2, <1>4, PatchedIs
<1> QED BY <1>3, <1>5 DEF e

(* A node with the same bases fits where the other one did.                *)
LEMMA FitsAlike ==
  ASSUME NEW x, NEW y, y.type = x.type, Len(y.elms) = Len(x.elms),
         \A j \in 1 .. Len(x.elms) : y.elms[j].base = x.elms[j].base,
         NEW lo, NEW hi, Fits(x, lo, hi)
  PROVE  Fits(y, lo, hi)
BY DEF Fits, IsInternal

(* Changing node n in place does not disturb the cursors.                  *)
LEMMA PatchAdvances ==
  ASSUME NEW img, Sound(img), NEW n \in InUse(img.node), NEW y, Count(y) = Count(img.node[n]),
         Changes(img.root, img.node, n, y), y.type = img.node[n].type,
         NEW im2, im2.root = img.root, im2.node = [img.node EXCEPT ![n] = y],
         NEW c \in Cursor, im2.cur \in [Cursor -> CursorRec],
         \A d \in Cursor : d # c => im2.cur[d] = img.cur[d], ~im2.cur[c].trk
  PROVE  Advances(img, im2, {n}, c)
<1> DEFINE md == [img.node EXCEPT ![n] = y]
<1>1. /\ Tree(img.root, img.node) /\ img.cur \in [Cursor -> CursorRec]
      /\ Tracked(img.node, img.cur) /\ img.node \in [Node -> NodeRec]
  BY DEF Sound, Tree
<1>2. Tree(img.root, md) /\ InUse(md) = InUse(img.node) BY DEF Changes
<1>3. n \in Node /\ md[n] = y /\ \A m \in Node : m # n => md[m] = img.node[m] BY <1>1 DEF InUse
<1> HIDE DEF md
<1>4. \A m \in InUse(img.node) : m \in InUse(md) /\ Count(md[m]) = Count(img.node[m])
  <2>1. \A m \in InUse(img.node) : m \in Node BY DEF InUse
  <2> QED BY <1>2, <1>3, <2>1
<1>5. Tracked(md, im2.cur)
  <2>1. Tracked(md, img.cur) BY <1>1, <1>4, TrackedStays
  <2>2. ASSUME NEW d \in Cursor PROVE TrackedAt(md, im2.cur[d])
    <3>1. CASE d = c BY <3>1 DEF TrackedAt
    <3>2. CASE d # c BY <2>1, <3>2 DEF Tracked
    <3> QED BY <3>1, <3>2
  <2> QED BY <2>2 DEF Tracked
<1>6. Sound(im2) BY <1>2, <1>5 DEF Sound, md
<1>7. \A m \in Node : img.node[m].type # "free" =>
        md[m].type # "free" /\ (m \notin {n} => md[m] = img.node[m])
  BY <1>3
<1>8. \A d \in Cursor : d # c => Same(img.cur[d], im2.cur[d]) BY DEF Same
<1>9. im2.node = md BY DEF md
<1> QED BY <1>6, <1>7, <1>8, <1>9 DEF Advances

(* An internal node moves its bounds apart, or gets other mirror_tids.     *)
LEMMA InternalChanges ==
  ASSUME NEW rt, NEW nd, Tree(rt, nd), NEW n \in InUse(nd), IsInternal(nd[n]),
         NEW i \in 0 .. Count(nd[n]), NEW e, NEW y, Patched(nd[n], i, e, IntElm, y),
         e.sub = E(nd[n], i).sub,
         \/ e.base = E(nd[n], i).base
         \/ i = 0 /\ Cmp(e.base, E(nd[n], 0).base) <= 0
         \/ i = Count(nd[n]) /\ Cmp(E(nd[n], i).base, e.base) <= 0,
         NEW lo, NEW hi, Confines(rt, nd, n, lo, hi), Fits(y, lo, hi)
  PROVE  Changes(rt, nd, n, y)
<1> DEFINE x == nd[n]
<1>1. /\ x \in NodeRec /\ x.elms \in Seq(IntElm) /\ Len(x.elms) \in Nat
      /\ Count(x) = Len(x.elms) - 1 /\ Count(x) \in Int
      /\ \A j \in 1 .. Len(x.elms) : x.elms[j].base \in AnyKey
  BY Shape DEF Tree
<1>2. /\ y \in NodeRec /\ y.type = x.type /\ y.parent = x.parent
      /\ y.elms \in Seq(IntElm) /\ Len(y.elms) = Len(x.elms) /\ e \in IntElm
      /\ \A j \in 1 .. Len(x.elms) : y.elms[j] = IF j = i + 1 THEN e ELSE x.elms[j]
  BY DEF Patched
<1>3. IsInternal(y) BY <1>2 DEF IsInternal
<1>4. \A lo2, hi2 : Spans(rt, nd, n, lo2, hi2) => Fits(y, lo2, hi2) BY DEF Confines
<1>5. i \in Int /\ 0 <= i /\ i <= Count(x) BY <1>1
<1> HIDE DEF x
<1>6. \A j \in 0 .. Count(x) :
        j \in Int /\ E(x, j).base \in AnyKey /\ E(y, j) = IF j = i THEN e ELSE E(x, j)
  <2>1. ASSUME NEW j \in 0 .. Count(x)
        PROVE j \in Int /\ E(x, j).base \in AnyKey /\ E(y, j) = IF j = i THEN e ELSE E(x, j)
    <3>1. j + 1 \in 1 .. Len(x.elms) /\ (j + 1 = i + 1 <=> j = i) BY <1>1, <1>5
    <3> QED BY <1>1, <1>2, <3>1 DEF E
  <2> QED BY <2>1
<1>7. e.base \in AnyKey BY <1>2 DEF IntElm
<1>8. \A a \in AnyKey : Cmp(a, a) <= 0
  <2>1. \A a \in AnyKey : Cmp(a, a) = 0 BY CmpOrder
  <2> QED BY <2>1
<1>9. ASSUME NEW j \in 0 .. Count(x) - 1
      PROVE  /\ E(y, j).sub = E(x, j).sub
             /\ Cmp(E(y, j).base, E(x, j).base) <= 0
             /\ Cmp(E(x, j + 1).base, E(y, j + 1).base) <= 0
  <2>1. /\ j \in 0 .. Count(x) /\ j + 1 \in 0 .. Count(x) /\ j # Count(x) /\ j + 1 # 0
    BY <1>1
  <2>2. /\ E(y, j) = IF j = i THEN e ELSE E(x, j)
        /\ E(y, j + 1) = IF j + 1 = i THEN e ELSE E(x, j + 1)
        /\ E(x, j).base \in AnyKey /\ E(x, j + 1).base \in AnyKey
    BY <1>6, <2>1
  <2>3. E(y, j).sub = E(x, j).sub BY <2>2 DEF x
  <2>4. Cmp(E(y, j).base, E(x, j).base) <= 0
    <3>1. CASE j # i BY <1>8, <2>2, <3>1
    <3>2. CASE j = i
      <4>1. e.base = E(x, i).base \/ (i = 0 /\ Cmp(e.base, E(x, 0).base) <= 0)
        BY <2>1, <3>2 DEF x
      <4> QED BY <1>8, <2>2, <3>2, <4>1
    <3> QED BY <3>1, <3>2
  <2>5. Cmp(E(x, j + 1).base, E(y, j + 1).base) <= 0
    <3>1. CASE j + 1 # i BY <1>8, <2>2, <3>1
    <3>2. CASE j + 1 = i
      <4>1. e.base = E(x, i).base \/ (i = Count(x) /\ Cmp(E(x, i).base, e.base) <= 0)
        BY <2>1, <3>2 DEF x
      <4> QED BY <1>8, <2>2, <3>2, <4>1
    <3> QED BY <3>1, <3>2
  <2> QED BY <2>3, <2>4, <2>5
<1>10. Tree(rt, [nd EXCEPT ![n] = y]) /\ InUse([nd EXCEPT ![n] = y]) = InUse(nd)
  BY <1>2, <1>3, <1>4, <1>9, OneNode DEF x
<1> QED BY <1>10 DEF Changes

(* The boundary of an internal node becomes its parent's.                  *)
WidenOf(img, c, im2) ==
  LET cu == img.cur[c]
      x  == img.node[cu.node]
      y  == im2.node[cu.node]
  IN /\ Advances(img, im2, {cu.node}, c) /\ im2.cur = img.cur /\ im2.root = img.root
     /\ y.type = x.type /\ y.parent = x.parent /\ Len(y.elms) = Len(x.elms)
     /\ \A j \in 0 .. Count(x) : E(y, j).sub = E(x, j).sub
     /\ Seated(im2.node, cu) /\ InUse(im2.node) = InUse(img.node)
     /\ im2.node = [img.node EXCEPT ![cu.node] = y]

Widens(img, cu, i, b, im2) ==
  LET x == img.node[cu.node] IN
  /\ \/ i = 0 /\ b = Bounds(img.node, cu)[1]
     \/ i = Count(x) /\ b = Bounds(img.node, cu)[2]
  /\ im2.root = img.root /\ im2.cur = img.cur
  /\ im2.node = [img.node EXCEPT ![cu.node] = Widen(x, i, b)]
(* Correcting a boundary of the node the cursor is on keeps the tree.      *)
LEMMA WidenImage ==
  ASSUME NEW img, Sound(img), NEW c \in Cursor, NEW cu, cu = img.cur[c], Seated(img.node, cu),
         NEW x, x = img.node[cu.node], IsInternal(x), NEW i, NEW b, NEW im2,
         Widens(img, cu, i, b, im2)
  PROVE  WidenOf(img, c, im2)
<1> DEFINE nd == img.node
           rt == img.root
           n == cu.node
           lo == Bounds(nd, cu)[1]
           hi == Bounds(nd, cu)[2]
           y == Widen(x, i, b)
           e == [E(x, i) EXCEPT !.base = b]
           md == [nd EXCEPT ![n] = y]
<1>1. Tree(rt, nd) /\ nd \in [Node -> NodeRec] /\ Kinds(nd) /\ img.cur \in [Cursor -> CursorRec]
  BY DEF Sound, Tree
<1>2. cu \in CursorRec /\ n \in InUse(nd) /\ ~cu.trk /\ cu.parent = nd[n].parent BY <1>1 DEF Seated
<1>3. /\ n \in Node /\ x \in NodeRec /\ x.elms \in Seq(IntElm) /\ Len(x.elms) \in Nat
      /\ Count(x) = Len(x.elms) - 1 /\ Count(x) \in Int
      /\ \A j \in 1 .. Len(x.elms) : x.elms[j] \in IntElm /\ x.elms[j].base \in AnyKey
  BY <1>1, <1>2, Shape
<1>4. Count(x) \in 1 .. INT_ELMS
  <2>1. Linked(rt, nd) BY <1>1 DEF Tree
  <2>2. Sized(x) BY <1>1, <1>2, <2>1, LinkedIs
  <2> QED BY <2>2 DEF Sized
<1>5. Confines(rt, nd, n, lo, hi) BY <1>1, SeatBounds
<1>6. lo \in AnyKey /\ hi \in AnyKey /\ Fits(x, lo, hi) BY <1>5 DEF Confines
<1>a. (i = 0 /\ b = lo) \/ (i = Count(x) /\ b = hi) BY DEF Widens
<1> HIDE DEF lo, hi
<1>b. 1 <= Count(x) /\ Count(x) \in Nat
  <2> HIDE DEF nd, n
  <2> QED BY <1>4, ElmsAssumption
<1>c. Len(x.elms) \in Nat /\ Count(x) = Len(x.elms) - 1 /\ 1 <= Count(x) BY <1>3, <1>b
<1>7. i \in 0 .. Count(x) /\ i \in 0 .. Len(x.elms) - 1 /\ b \in AnyKey /\ i \in Nat
  <2>1. b \in AnyKey BY <1>a, <1>6
  <2>2. i = 0 \/ i = Count(x) BY <1>a
  <2>3. /\ 0 \in 0 .. Count(x) /\ 0 \in 0 .. Len(x.elms) - 1 /\ 0 \in Nat
        /\ Count(x) \in 0 .. Count(x) /\ Count(x) \in 0 .. Len(x.elms) - 1 /\ Count(x) \in Nat
    BY <1>c
  <2> QED BY <2>1, <2>2, <2>3
<1>e. \A r, s, t \in AnyKey :
        /\ Cmp(r, s) <= 0 /\ Cmp(s, t) < 0 => Cmp(r, t) < 0
        /\ Cmp(r, s) < 0 /\ Cmp(s, t) <= 0 => Cmp(r, t) < 0
  BY CmpOrder
<1>d. i \in Nat /\ i <= Len(x.elms) - 1 BY <1>7
<1>8. Patched(x, i, e, IntElm, y) BY <1>3, <1>7, WidenIs
<1>9. e.sub = E(x, i).sub /\ e.base = b /\ E(x, i) \in IntElm
  <2>1. i + 1 \in 1 .. Len(x.elms) BY <1>c, <1>d
  <2>2. E(x, i) \in IntElm BY <1>3, <2>1 DEF E
  <2> QED BY <2>2 DEF IntElm
<1> HIDE DEF e, y
<1>10. /\ y \in NodeRec /\ y.type = x.type /\ y.parent = x.parent
       /\ y.elms \in Seq(IntElm) /\ Len(y.elms) = Len(x.elms)
       /\ \A j \in 1 .. Len(x.elms) : y.elms[j] = IF j = i + 1 THEN e ELSE x.elms[j]
  BY <1>8 DEF Patched
<1>11. /\ \A j \in 1 .. Len(x.elms) : Cmp(lo, x.elms[j].base) <= 0 /\ Cmp(x.elms[j].base, hi) <= 0
       /\ \A j, k \in 1 .. Len(x.elms) : j < k => Cmp(x.elms[j].base, x.elms[k].base) < 0
  BY <1>6 DEF Fits
<1>12. Cmp(lo, hi) <= 0 /\ Cmp(lo, lo) <= 0 /\ Cmp(hi, hi) <= 0
  <2>1. 1 \in 1 .. Len(x.elms) BY <1>c
  <2>2. Cmp(lo, x.elms[1].base) <= 0 /\ Cmp(x.elms[1].base, hi) <= 0 /\ x.elms[1].base \in AnyKey
    BY <1>3, <1>11, <2>1
  <2>3. Cmp(lo, hi) <= 0 BY <1>6, <2>2, CmpOrder
  <2>4. Cmp(lo, lo) = 0 /\ Cmp(hi, hi) = 0 BY <1>6, CmpOrder
  <2> QED BY <2>3, <2>4
<1>13. \A j \in 1 .. Len(x.elms) : /\ j # i + 1 => y.elms[j].base = x.elms[j].base
                                   /\ j = i + 1 => y.elms[j].base = b
  BY <1>9, <1>10
<1>14. Fits(y, lo, hi)
  <2>1. ASSUME NEW j \in 1 .. Len(x.elms)
        PROVE Cmp(lo, y.elms[j].base) <= 0 /\ Cmp(y.elms[j].base, hi) <= 0
    BY <1>11, <1>12, <1>13, <1>a
  <2>2. ASSUME NEW j \in 1 .. Len(x.elms), NEW k \in 1 .. Len(x.elms), j < k
        PROVE Cmp(y.elms[j].base, y.elms[k].base) < 0
    <3>1. /\ x.elms[j].base \in AnyKey /\ x.elms[k].base \in AnyKey
          /\ Cmp(x.elms[j].base, x.elms[k].base) < 0
          /\ Cmp(lo, x.elms[j].base) <= 0 /\ Cmp(x.elms[k].base, hi) <= 0
      BY <1>3, <1>11, <2>2
    <3>2. CASE j = i + 1
      <4>1. k # i + 1 /\ i # Count(x) BY <1>c, <1>d, <2>2, <3>2
      <4>2. y.elms[j].base = lo /\ y.elms[k].base = x.elms[k].base
        BY <1>13, <1>a, <2>2, <3>2, <4>1
      <4>3. Cmp(lo, x.elms[k].base) < 0
        <5>1. Cmp(lo, x.elms[j].base) <= 0 BY <3>1
        <5>2. Cmp(x.elms[j].base, x.elms[k].base) < 0 BY <3>1
        <5>3. lo \in AnyKey /\ x.elms[j].base \in AnyKey /\ x.elms[k].base \in AnyKey BY <1>6, <3>1
        <5> QED BY <1>e, <5>1, <5>2, <5>3
      <4> QED BY <4>2, <4>3
    <3>3. CASE k = i + 1
      <4>1. j # i + 1 /\ i # 0 BY <1>c, <1>d, <2>2, <3>3
      <4>2. y.elms[k].base = hi /\ y.elms[j].base = x.elms[j].base
        BY <1>13, <1>a, <2>2, <3>3, <4>1
      <4>3. Cmp(x.elms[j].base, hi) < 0 BY <1>e, <1>6, <3>1
      <4> QED BY <4>2, <4>3
    <3>4. CASE j # i + 1 /\ k # i + 1 BY <1>13, <3>1, <3>4
    <3> QED BY <3>2, <3>3, <3>4
  <2> QED BY <1>10, <2>1, <2>2 DEF Fits, IsInternal
<1>15. Changes(rt, nd, n, y)
  <2>1. \/ e.base = E(nd[n], i).base
        \/ i = 0 /\ Cmp(e.base, E(nd[n], 0).base) <= 0
        \/ i = Count(nd[n]) /\ Cmp(E(nd[n], i).base, e.base) <= 0
    <3>1. i + 1 \in 1 .. Len(x.elms) BY <1>c, <1>d
    <3>2. Cmp(lo, x.elms[i + 1].base) <= 0 /\ Cmp(x.elms[i + 1].base, hi) <= 0 BY <1>11, <3>1
    <3> QED BY <1>9, <1>a, <3>2 DEF E
  <2>2. Patched(nd[n], i, e, IntElm, y) /\ e.sub = E(nd[n], i).sub /\ i \in 0 .. Count(nd[n])
    BY <1>7, <1>8, <1>9
  <2>3. Tree(rt, nd) /\ n \in InUse(nd) /\ IsInternal(nd[n]) BY <1>1, <1>2
  <2> HIDE DEF nd, n, rt
  <2> QED BY <1>5, <1>14, <2>1, <2>2, <2>3, InternalChanges
<1>16. Count(y) = Count(nd[n])
  BY <1>10 DEF Count, IsInternal
<1>17. Advances(img, im2, {n}, c)
  <2>1. im2.cur \in [Cursor -> CursorRec] /\ ~im2.cur[c].trk /\ \A d \in Cursor : im2.cur[d] = img.cur[d]
    BY <1>1, <1>2 DEF Widens
  <2>2. y.type = img.node[n].type /\ im2.node = [img.node EXCEPT ![n] = y] BY <1>10 DEF y, Widens
  <2>3. im2.root = img.root BY DEF Widens
  <2> QED BY <1>2, <1>15, <1>16, <2>1, <2>2, <2>3, PatchAdvances
<1>18. im2.node = md /\ md[n] = y /\ \A m \in Node : m # n => md[m] = nd[m]
  BY <1>1, <1>3 DEF y, Widens
<1>19. InUse(md) = InUse(nd) BY <1>15 DEF Changes
<1> HIDE DEF md
<1>20. \A j \in 0 .. Count(x) : E(y, j).sub = E(x, j).sub
  <2>1. ASSUME NEW j \in 0 .. Count(x) PROVE E(y, j).sub = E(x, j).sub
    <3>1. j + 1 \in 1 .. Len(x.elms) /\ (j + 1 = i + 1 <=> j = i) BY <1>c, <1>d
    <3>2. E(y, j) = IF j = i THEN e ELSE E(x, j) BY <1>10, <3>1 DEF E
    <3> QED BY <1>9, <3>2
  <2> QED BY <2>1
<1>21. Seated(md, cu)
  <2>1. md[n].parent = cu.parent BY <1>2, <1>10, <1>18
  <2>2. cu.parent # NULL => cu.parent \in Node /\ cu.parent # n
    <3>1. cu.parent # NULL => n # rt BY <1>1, <1>2, Up
    <3> QED BY <1>1, <1>2, <3>1, Up DEF InUse
  <2>3. cu.parent # NULL => md[cu.parent] = nd[cu.parent] BY <1>18, <2>2
  <2> QED BY <1>2, <1>19, <2>1, <2>3 DEF Seated
<1> QED BY <1>10, <1>17, <1>18, <1>19, <1>20, <1>21 DEF WidenOf, Widens, y

(* A leaf's element gets a delete_tid.                                     *)
AdjustOf(img, c, tid, im2) ==
  LET cu == img.cur[c]
      x  == img.node[cu.node]
      y  == im2.node[cu.node]
  IN /\ Advances(img, im2, {cu.node}, c) /\ im2.cur = img.cur /\ im2.root = img.root
     /\ Patched(x, cu.index, [E(x, cu.index) EXCEPT !.dtid = tid], LeafElm, y)
     /\ im2.node = [img.node EXCEPT ![cu.node] = y] /\ InUse(im2.node) = InUse(img.node)
     /\ Seated(im2.node, cu)

(* Setting a delete_tid keeps the tree.                                    *)
LEMMA AdjustIs ==
  ASSUME NEW img, Sound(img), NEW c \in Cursor, NEW cu, cu = img.cur[c], Seated(img.node, cu),
         NEW x, x = img.node[cu.node], ~IsInternal(x), cu.index \in 0 .. Count(x) - 1,
         NEW tid \in Tid, NEW im2, im2 = AdjustElm(img, c, tid)
  PROVE  AdjustOf(img, c, tid, im2)
<1> DEFINE nd == img.node
           rt == img.root
           n == cu.node
           i == cu.index
           lo == Bounds(nd, cu)[1]
           hi == Bounds(nd, cu)[2]
           y == WithDtid(x, i, tid)
           e == [E(x, i) EXCEPT !.dtid = tid]
           md == [nd EXCEPT ![n] = y]
<1>0. im2.root = rt /\ im2.cur = img.cur /\ im2.node = md
  BY DEF AdjustElm
<1>1. Tree(rt, nd) /\ nd \in [Node -> NodeRec] /\ Kinds(nd) /\ img.cur \in [Cursor -> CursorRec]
  BY DEF Sound, Tree
<1>2. cu \in CursorRec /\ n \in InUse(nd) /\ ~cu.trk /\ cu.parent = nd[n].parent BY <1>1 DEF Seated
<1>3. /\ n \in Node /\ x \in NodeRec /\ x.elms \in Seq(LeafElm) /\ Len(x.elms) \in Nat
      /\ Count(x) = Len(x.elms)
      /\ \A j \in 1 .. Len(x.elms) : x.elms[j] \in LeafElm
  BY <1>1, <1>2, Shape
<1>4. Count(x) \in 0 .. LEAF_ELMS
  <2>1. Linked(rt, nd) BY <1>1 DEF Tree
  <2>2. Sized(x) BY <1>1, <1>2, <2>1, LinkedIs
  <2> QED BY <2>2 DEF Sized
<1>5. Confines(rt, nd, n, lo, hi) BY <1>1, SeatBounds
<1>6. lo \in AnyKey /\ hi \in AnyKey /\ Fits(x, lo, hi) BY <1>5 DEF Confines
<1> HIDE DEF lo, hi
<1>7. i \in 0 .. Len(x.elms) - 1 BY <1>3
<1>8. Patched(x, i, e, LeafElm, y) BY <1>3, <1>7, WithDtidIs
<1>9. e.base = E(x, i).base
  <2>1. i + 1 \in 1 .. Len(x.elms) BY <1>3, <1>7
  <2>2. E(x, i) \in LeafElm BY <1>3, <2>1 DEF E
  <2> QED BY <2>2 DEF LeafElm
<1> HIDE DEF e, y
<1>10. /\ y \in NodeRec /\ y.type = x.type /\ y.parent = x.parent
       /\ y.elms \in Seq(LeafElm) /\ Len(y.elms) = Len(x.elms)
       /\ \A j \in 1 .. Len(x.elms) : y.elms[j] = IF j = i + 1 THEN e ELSE x.elms[j]
  BY <1>8 DEF Patched
<1>11. Fits(y, lo, hi)
  <2>1. \A j \in 1 .. Len(x.elms) : y.elms[j].base = x.elms[j].base BY <1>9, <1>10 DEF E
  <2>2. y.type = x.type /\ Len(y.elms) = Len(x.elms) BY <1>10
  <2>3. Fits(x, lo, hi) BY <1>6
  <2> HIDE DEF i
  <2> QED BY <2>1, <2>2, <2>3, FitsAlike
<1>15. Changes(rt, nd, n, y)
  <2>1. y \in NodeRec /\ y.type = nd[n].type /\ y.parent = nd[n].parent BY <1>10
  <2>2. Len(y.elms) <= LEAF_ELMS
    <3>1. Len(y.elms) = Count(x) BY <1>3, <1>10
    <3> HIDE DEF nd, n, i
    <3> QED BY <1>4, <3>1, ElmsAssumption
  <2>3. Tree(rt, nd) /\ n \in InUse(nd) /\ ~IsInternal(nd[n]) BY <1>1, <1>2
  <2> HIDE DEF nd, n, rt
  <2> QED BY <1>5, <1>10, <1>11, <2>1, <2>2, <2>3, LeafChanges
<1>16. Count(y) = Count(nd[n])
  BY <1>10 DEF Count, IsInternal
<1>17. Advances(img, im2, {n}, c)
  <2>1. im2.cur \in [Cursor -> CursorRec] /\ ~im2.cur[c].trk /\ \A d \in Cursor : im2.cur[d] = img.cur[d]
    BY <1>0, <1>1, <1>2
  <2>2. y.type = img.node[n].type /\ im2.node = [img.node EXCEPT ![n] = y] BY <1>0, <1>10
  <2> QED BY <1>0, <1>2, <1>15, <1>16, <2>1, <2>2, PatchAdvances
<1>18. im2.node = md /\ md[n] = y /\ \A m \in Node : m # n => md[m] = nd[m]
  BY <1>0, <1>1, <1>3
<1>19. InUse(md) = InUse(nd) BY <1>15 DEF Changes
<1> HIDE DEF md
<1>21. Seated(md, cu)
  <2>1. md[n].parent = cu.parent BY <1>2, <1>10, <1>18
  <2>2. cu.parent # NULL => cu.parent \in Node /\ cu.parent # n
    <3>1. cu.parent # NULL => n # rt BY <1>1, <1>2, Up
    <3> QED BY <1>1, <1>2, <3>1, Up DEF InUse
  <2>3. cu.parent # NULL => md[cu.parent] = nd[cu.parent] BY <1>18, <2>2
  <2> QED BY <1>2, <1>19, <2>1, <2>3 DEF Seated
<1> QED BY <1>0, <1>8, <1>17, <1>18, <1>19, <1>21 DEF AdjustOf, e, md

(* Cursors on removed nodes have been moved to the level that stays.       *)
LEMMA TrackRemovedIs ==
  ASSUME NEW nd, NEW C \in [Cursor -> CursorRec], Tracked(nd, C), NEW G, NEW t \in InUse(nd),
         t \notin G, NEW i \in Int, i \in 0 .. Count(nd[t])
  PROVE  /\ Follows(C, TrackRemoved(C, G, t, i), nd)
         /\ \A d \in Cursor : TrackRemoved(C, G, t, i)[d].trk => TrackRemoved(C, G, t, i)[d].node \notin G
<1> DEFINE D == TrackRemoved(C, G, t, i)
<1>1. ASSUME NEW d \in Cursor
      PROVE  /\ D[d] \in CursorRec /\ TrackedAt(nd, D[d]) /\ Same(C[d], D[d]) /\ d \in DOMAIN C
             /\ D[d].trk => D[d].node \notin G
  <2> DEFINE u == C[d]
             w == D[d]
  <2>1. d \in DOMAIN C /\ u \in CursorRec /\ TrackedAt(nd, u) BY DEF Tracked
  <2>2. w = IF u.trk /\ u.node \in G THEN [u EXCEPT !.node = t, !.index = i, !.rip = TRUE] ELSE u
    BY <2>1 DEF TrackRemoved
  <2> HIDE DEF u, w
  <2>3. t \in AnyNode BY DEF AnyNode, InUse
  <2>4. CASE u.trk /\ u.node \in G
    <3>1. w = [[u EXCEPT !.node = t, !.index = i] EXCEPT !.rip = TRUE] BY <2>2, <2>4
    <3>2. [u EXCEPT !.node = t, !.index = i] \in CursorRec BY <2>1, <2>3, CursorAt
    <3>3. /\ w \in CursorRec /\ w.node = t /\ w.index = i /\ w.trk = u.trk /\ w.parent = u.parent
      BY <2>1, <3>1, <3>2 DEF CursorRec
    <3> QED BY <2>1, <2>4, <3>3 DEF TrackedAt, Same, u, w
  <2>5. CASE ~(u.trk /\ u.node \in G)
    <3>1. w = u BY <2>2, <2>5
    <3> QED BY <2>1, <2>5, <3>1 DEF TrackedAt, Same, u, w
  <2> QED BY <2>4, <2>5
<1>2. D = [d \in Cursor |-> D[d]] BY DEF TrackRemoved
<1> HIDE DEF D
<1>3. D \in [Cursor -> CursorRec] BY <1>1, <1>2
<1>4. Follows(C, D, nd) BY <1>1, <1>3 DEF Tracked, Follows
<1> QED BY <1>1, <1>4 DEF D

(* Nodes are taken out of the tree.                                        *)
RemovalOf(img, c, G, t, pi, im2) ==
  /\ Advances(img, im2, G \union {t}, c) /\ im2.root = img.root
  /\ InUse(im2.node) = InUse(img.node) \ G /\ Count(im2.node[t]) = Count(img.node[t]) - 1
  /\ im2.node[t].parent = img.node[t].parent
  /\ im2.cur[c].node = t /\ im2.cur[c].index = pi
  /\ im2.cur[c].parent = NULL /\ im2.cur[c].pindex = 0 /\ ~im2.cur[c].trk
  /\ im2.cur[c] \in CursorRec
  /\ im2.node = [m \in Node |-> IF m \in G THEN Deleted
                                ELSE IF m = t THEN Reduced(img.node[m], pi)
                                ELSE img.node[m]]

ReducedTo(rt, nd, t, pi, y) ==
  /\ y \in NodeRec /\ Count(y) = Count(nd[t]) - 1 /\ y.parent = nd[t].parent
  /\ \/ t = rt /\ Count(nd[t]) = 1 /\ y = [nd[t] EXCEPT !.type = "L", !.elms = <<>>]
     \/ Count(nd[t]) > 1 /\ y = DropRef(nd[t], pi)
(* What stays of the level where a removal ends fits in the place it has.  *)
LEMMA ReducedIs ==
  ASSUME NEW rt, NEW nd, Tree(rt, nd), NEW t \in InUse(nd), IsInternal(nd[t]),
         NEW pi \in 0 .. Count(nd[t]) - 1, Count(nd[t]) > 1 \/ t = rt,
         NEW y, y = Reduced(nd[t], pi)
  PROVE  ReducedTo(rt, nd, t, pi, y)
<1> DEFINE x == nd[t]
<1>1. nd \in [Node -> NodeRec] /\ Kinds(nd) /\ Linked(rt, nd) BY DEF Tree
<1>2. x \in NodeRec /\ x.elms \in Seq(IntElm) /\ Count(x) = Len(x.elms) - 1 /\ Len(x.elms) \in Nat
  BY <1>1, Shape
<1>3. 1 <= Count(x)
  <2>1. Sized(x) BY <1>1, LinkedIs
  <2>2. Count(x) \in 1 .. INT_ELMS BY <2>1 DEF Sized
  <2> HIDE DEF x
  <2> QED BY <1>2, <2>2, ElmsAssumption
<1>4. CASE Count(x) = 1
  <2>1. t = rt BY <1>4
  <2>2. y = [x EXCEPT !.type = "L", !.elms = <<>>] BY <1>4 DEF Reduced
  <2>3. <<>> \in Seq(LeafElm) \union Seq(IntElm) OBVIOUS
  <2> HIDE DEF x
  <2>4. y \in NodeRec /\ y.type = "L" /\ y.elms = <<>> /\ y.parent = x.parent
    BY <1>2, <2>2, <2>3 DEF NodeRec
  <2>5. Count(y) = 0 BY <2>4 DEF Count, IsInternal
  <2> QED BY <1>4, <2>1, <2>2, <2>4, <2>5 DEF x, ReducedTo
<1>5. CASE Count(x) # 1
  <2>1. Count(x) > 1
    <3>1. Count(x) \in Int BY <1>2
    <3> HIDE DEF x
    <3> QED BY <1>3, <1>5, <3>1
  <2>2. y = DropRef(x, pi) BY <1>5 DEF Reduced
  <2>3. Dropped(x, pi, DropRef(x, pi)) BY <1>1, <2>1, DropIs
  <2> QED BY <2>1, <2>2, <2>3 DEF Dropped, ReducedTo
<1> QED BY <1>4, <1>5

(* A removal up to a level that keeps a child, or to the root.             *)
LEMMA RemovalIs ==
  ASSUME NEW img, Sound(img), NEW c \in Cursor, ~img.cur[c].trk, NEW G, NEW t, NEW g0,
         NEW pi \in Int, Hanging(img.node, G, t, g0, pi),
         Count(img.node[t]) > 1 \/ t = img.root
  PROVE  RemovalOf(img, c, G, t, pi, Removal(img, c, G, t, pi))
<1> DEFINE nd == img.node
           rt == img.root
           C == img.cur
           y == Reduced(nd[t], pi)
           md == [m \in Node |-> IF m \in G THEN Deleted ELSE IF m = t THEN Reduced(nd[m], pi)
                                ELSE nd[m]]
           B == TrackRemoved(C, G, t, pi)
           D == TrackDeleted(B, t, pi)
           v == [D[c] EXCEPT !.node = t, !.index = pi, !.parent = NULL, !.pindex = 0]
           im2 == Removal(img, c, G, t, pi)
<1>1. Tree(rt, nd) /\ nd \in [Node -> NodeRec] /\ Kinds(nd) /\ C \in [Cursor -> CursorRec]
      /\ Tracked(nd, C) /\ Linked(rt, nd)
  BY DEF Sound, Tree
<1>2. im2.root = rt /\ im2.node = md /\ im2.cur = [D EXCEPT ![c] = v] BY DEF Removal
<1>3. /\ G \in SUBSET InUse(nd) /\ t \in InUse(nd) /\ t \notin G /\ g0 \in G
      /\ IsInternal(nd[t]) /\ pi \in 0 .. Count(nd[t]) - 1
  BY DEF Hanging
<1>4. /\ y \in NodeRec /\ Count(y) = Count(nd[t]) - 1 /\ y.parent = nd[t].parent
      /\ \/ t = rt /\ Count(nd[t]) = 1 /\ y = [nd[t] EXCEPT !.type = "L", !.elms = <<>>]
         \/ Count(nd[t]) > 1 /\ y = DropRef(nd[t], pi)
  <2>1. Tree(rt, nd) /\ t \in InUse(nd) /\ IsInternal(nd[t]) /\ pi \in 0 .. Count(nd[t]) - 1
    BY <1>1, <1>3
  <2>2. Count(nd[t]) > 1 \/ t = rt OBVIOUS
  <2>3. y = Reduced(nd[t], pi) OBVIOUS
  <2> HIDE DEF nd, y, rt
  <2>4. ReducedTo(rt, nd, t, pi, y) BY <2>1, <2>2, <2>3, ReducedIs
  <2> QED BY <2>4 DEF ReducedTo
<1> HIDE DEF im2
<1>5. /\ md \in [Node -> NodeRec] /\ md[t] = y /\ \A m \in G : md[m] = Deleted
      /\ \A m \in Node : m \notin G /\ m # t => md[m] = nd[m]
  <2>1. Deleted \in NodeRec
    <3>1. <<>> \in Seq(LeafElm) \union Seq(IntElm) OBVIOUS
    <3> QED BY <3>1 DEF Deleted, NodeRec
  <2>2. t \in Node /\ \A m \in G : m \in Node BY <1>3 DEF InUse
  <2>3. \A m \in Node : nd[m] \in NodeRec BY <1>1
  <2> HIDE DEF nd
  <2>4. \A m \in Node : (IF m \in G THEN Deleted ELSE IF m = t THEN Reduced(nd[m], pi)
                                ELSE nd[m]) \in NodeRec
    BY <1>4, <2>1, <2>3
  <2>5. md \in [Node -> NodeRec] BY <2>4
  <2>6. md[t] = y BY <1>3, <2>2
  <2> HIDE DEF y
  <2>7. \A m \in G : md[m] = Deleted BY <2>2
  <2>8. \A m \in Node : m \notin G /\ m # t => md[m] = nd[m] OBVIOUS
  <2> QED BY <2>5, <2>6, <2>7, <2>8
<1> HIDE DEF md, y
<1>6. Tree(rt, md) /\ InUse(md) = InUse(nd) \ G
  <2>1. Collapses(rt, nd, G, t, pi, md) BY <1>4, <1>5 DEF Collapses
  <2> QED BY <1>1, <2>1, CollapseTree
<1>7. Follows(C, B, nd) /\ \A d \in Cursor : B[d].trk => B[d].node \notin G
  <2>1. pi \in 0 .. Count(nd[t])
    <3>1. Count(nd[t]) \in Int BY <1>1, <1>3, Shape
    <3> QED BY <1>3, <3>1
  <2> QED BY <1>1, <1>3, <2>1, TrackRemovedIs
<1>8. \A m \in InUse(nd) : Count(nd[m]) \in Nat
  <2>1. \A m \in InUse(nd) : m \in Node /\ Count(nd[m]) \in Int /\ Sized(nd[m]) BY <1>1, Shape, LinkedIs
  <2> QED BY <2>1, ElmsAssumption DEF Sized
<1>9. Follows(B, D, md)
  <2>1. Shrinks(nd, md, t, pi, G)
    <3>1. pi < Count(nd[t])
      <4>1. Count(nd[t]) \in Nat BY <1>3, <1>8
      <4> QED BY <1>3, <4>1
    <3>2. \A m \in InUse(nd) : m \notin G =>
             /\ m \in InUse(md) /\ Count(nd[m]) \in Nat
             /\ Count(md[m]) = IF m = t THEN Count(nd[m]) - 1 ELSE Count(nd[m])
      <4>1. \A m \in InUse(nd) : m \in Node BY DEF InUse
      <4> QED BY <1>4, <1>5, <1>6, <1>8, <4>1
    <3> QED BY <3>1, <3>2 DEF Shrinks
  <2>2. B \in [Cursor -> CursorRec] /\ Tracked(nd, B) BY <1>7 DEF Follows
  <2>3. pi \in Nat
    <3>1. Count(nd[t]) \in Int BY <1>1, <1>3, Shape
    <3> QED BY <1>3, <3>1
  <2> HIDE DEF B, nd
  <2> QED BY <1>7, <2>1, <2>2, <2>3, TrackDeletedIs
<1> HIDE DEF B
<1>10. D[c] \in CursorRec /\ ~D[c].trk
  <2>1. D \in [Cursor -> CursorRec] BY <1>9 DEF Follows
  <2>2. Same(C[c], B[c]) /\ Same(B[c], D[c]) BY <1>7, <1>9 DEF Follows
  <2> HIDE DEF D
  <2> QED BY <2>1, <2>2 DEF Same
<1> DEFINE w == D[c]
<1>11. /\ v \in CursorRec /\ v.node = t /\ v.index = pi /\ v.parent = NULL /\ v.pindex = 0 /\ ~v.trk
  <2>1. v = [[w EXCEPT !.node = t, !.index = pi] EXCEPT !.parent = NULL, !.pindex = 0] OBVIOUS
  <2>2. w \in CursorRec /\ ~w.trk BY <1>10
  <2>3. t \in AnyNode /\ NULL \in AnyNode /\ 0 \in Int BY <1>3 DEF AnyNode, InUse
  <2> HIDE DEF w, v
  <2>4. [w EXCEPT !.node = t, !.index = pi] \in CursorRec BY <2>2, <2>3, CursorAt
  <2>5. v \in CursorRec BY <2>1, <2>3, <2>4, CursorAt
  <2>6. /\ v.node = t /\ v.index = pi /\ v.parent = NULL /\ v.pindex = 0 /\ v.trk = w.trk
    BY <2>1, <2>2 DEF CursorRec
  <2> QED BY <2>2, <2>5, <2>6
<1> HIDE DEF v, w
<1>12. /\ im2.cur \in [Cursor -> CursorRec] /\ im2.cur[c] = v
       /\ \A d \in Cursor : d # c => im2.cur[d] = D[d]
  <2>1. D \in [Cursor -> CursorRec] BY <1>9 DEF Follows
  <2> HIDE DEF D
  <2> QED BY <1>2, <1>11, <2>1
<1>13. Tracked(md, im2.cur)
  <2>1. Tracked(md, D) BY <1>9 DEF Follows
  <2>2. ASSUME NEW d \in Cursor PROVE TrackedAt(md, im2.cur[d])
    <3>1. CASE d = c BY <1>11, <1>12, <3>1 DEF TrackedAt
    <3>2. CASE d # c BY <1>12, <2>1, <3>2 DEF Tracked
    <3> QED BY <3>1, <3>2
  <2> QED BY <2>2 DEF Tracked
<1>14. Sound(im2) BY <1>2, <1>6, <1>12, <1>13 DEF Sound
<1>15. ASSUME NEW d \in Cursor, d # c PROVE Same(C[d], im2.cur[d])
  <2>1. Same(C[d], B[d]) /\ Same(B[d], D[d]) BY <1>7, <1>9 DEF Follows
  <2>2. im2.cur[d] = D[d] BY <1>12, <1>15
  <2> QED BY <2>1, <2>2 DEF Same
<1>16. ASSUME NEW m \in Node, nd[m].type # "free"
       PROVE  md[m].type # "free" /\ (m \notin G \union {t} => md[m] = nd[m])
  <2>1. CASE m \in G BY <1>5, <2>1 DEF Deleted
  <2>2. CASE m = t
    <3>1. t \in InUse(md) BY <1>3, <1>6
    <3> QED BY <2>2, <3>1 DEF InUse
  <2>3. CASE m \notin G /\ m # t BY <1>5, <1>16, <2>3
  <2> QED BY <2>1, <2>2, <2>3
<1>17. Advances(img, im2, G \union {t}, c) BY <1>2, <1>14, <1>15, <1>16 DEF Advances
<1>18. Count(md[t]) = Count(nd[t]) - 1 /\ md[t].parent = nd[t].parent BY <1>4, <1>5
<1>19. im2.node = [m \in Node |-> IF m \in G THEN Deleted
                                ELSE IF m = t THEN Reduced(img.node[m], pi)
                                ELSE img.node[m]]
  BY <1>2 DEF md
<1> HIDE DEF nd
<1> QED BY <1>2, <1>6, <1>11, <1>12, <1>17, <1>18, <1>19 DEF RemovalOf, im2, nd

(* Leaves other than the empty one n stay, and no record comes from        *)
(* elsewhere.                                                              *)
KeepsLeaves(nd, md, n) ==
  /\ \A m \in InUse(nd) : ~IsInternal(nd[m]) /\ m # n => m \in InUse(md) /\ md[m] = nd[m]
  /\ \A m \in InUse(md) : ~IsInternal(md[m]) => \/ m \in InUse(nd) /\ md[m] = nd[m]
                                                \/ md[m].elms = <<>>

(* btree_remove as far as the locks allow.                                 *)
RemoveOf(img, c, F, out) ==
  LET cu == img.cur[c]
      v  == out.img.cur[c]
      md == out.img.node
  IN /\ \E W \in SUBSET (Mine(cu) \union F) : Advances(img, out.img, W, c)
     /\ out.img.root = img.root
     /\ ~v.trk /\ v.node \in InUse(md) /\ v.index \in 0 .. Count(md[v.node])
     /\ Mine(v) \union out.held \subseteq Mine(cu) \union F
     /\ out.held \subseteq InUse(img.node) /\ KeepsLeaves(img.node, md, cu.node)
     /\ out.ex \in BOOLEAN
     /\ out.ex => Seated(md, v) /\ out.up = NULL
     /\ ~out.ex => v.parent = NULL /\ out.up = md[v.node].parent /\ v.node \notin out.held

(* A removal that could not get a lock leaves the tree as it is.           *)
LEMMA StuckIs ==
  ASSUME NEW img, Sound(img), NEW c \in Cursor, ~img.cur[c].trk, NEW n, NEW a, NEW G,
         n \in InUse(img.node), a = img.node[n].parent, n # img.root, a \notin G,
         Count(img.node[a]) = 1, NEW im2, im2 = Stuck(img, c, G, n, a)
  PROVE  /\ Advances(img, im2, {}, c) /\ Seated(im2.node, im2.cur[c]) /\ im2.root = img.root
         /\ im2.cur[c].node = n /\ im2.cur[c].parent = a /\ im2.cur[c].index = 0
         /\ im2.node = img.node
<1> DEFINE nd == img.node
           C == img.cur
           B == TrackRemoved(C, G, a, 0)
           w == B[c]
           v == [w EXCEPT !.node = n, !.index = 0, !.parent = a, !.pindex = 0]
<1>1. Tree(img.root, nd) /\ C \in [Cursor -> CursorRec] /\ Tracked(nd, C) /\ nd \in [Node -> NodeRec]
  BY DEF Sound, Tree
<1>2. im2.root = img.root /\ im2.node = nd /\ im2.cur = [B EXCEPT ![c] = v] BY DEF Stuck
<1>3. /\ a \in InUse(nd) /\ IsInternal(nd[a]) /\ a # NULL
      /\ \E i \in 0 .. Count(nd[a]) - 1 : E(nd[a], i).sub = n
  BY <1>1, Up
<1>4. E(nd[a], 0).sub = n /\ 0 \in 0 .. Count(nd[a]) - 1 /\ 0 \in 0 .. Count(nd[a])
  BY <1>3
<1>5. Follows(C, B, nd)
  <2>1. 0 \in Int OBVIOUS
  <2> QED BY <1>1, <1>3, <1>4, <2>1, TrackRemovedIs
<1> HIDE DEF B
<1>6. w \in CursorRec /\ ~w.trk /\ B \in [Cursor -> CursorRec] BY <1>5 DEF Follows, Same
<1>7. /\ v \in CursorRec /\ v.node = n /\ v.index = 0 /\ v.parent = a /\ v.pindex = 0 /\ ~v.trk
  <2>1. v = [[w EXCEPT !.node = n, !.index = 0] EXCEPT !.parent = a, !.pindex = 0] OBVIOUS
  <2>3. n \in AnyNode /\ a \in AnyNode /\ 0 \in Int BY <1>3 DEF AnyNode, InUse
  <2> HIDE DEF w, v
  <2>4. [w EXCEPT !.node = n, !.index = 0] \in CursorRec BY <1>6, <2>3, CursorAt
  <2>5. v \in CursorRec BY <2>1, <2>3, <2>4, CursorAt
  <2>6. /\ v.node = n /\ v.index = 0 /\ v.parent = a /\ v.pindex = 0 /\ v.trk = w.trk
    BY <1>6, <2>1 DEF CursorRec
  <2> QED BY <1>6, <2>5, <2>6
<1> HIDE DEF w, v
<1>8. /\ im2.cur \in [Cursor -> CursorRec] /\ im2.cur[c] = v
      /\ \A d \in Cursor : d # c => im2.cur[d] = B[d]
  BY <1>2, <1>6, <1>7
<1>9. Tracked(nd, im2.cur)
  <2>1. Tracked(nd, B) BY <1>5 DEF Follows
  <2>2. ASSUME NEW d \in Cursor PROVE TrackedAt(nd, im2.cur[d])
    <3>1. CASE d = c BY <1>7, <1>8, <3>1 DEF TrackedAt
    <3>2. CASE d # c BY <1>8, <2>1, <3>2 DEF Tracked
    <3> QED BY <3>1, <3>2
  <2> QED BY <2>2 DEF Tracked
<1>10. Advances(img, im2, {}, c)
  <2>1. Sound(im2) BY <1>1, <1>2, <1>8, <1>9 DEF Sound
  <2>2. \A d \in Cursor : d # c => Same(img.cur[d], im2.cur[d]) BY <1>5, <1>8 DEF Follows
  <2> QED BY <1>2, <2>1, <2>2 DEF Advances
<1>11. Seated(nd, v) BY <1>3, <1>4, <1>7 DEF Seated
<1> QED BY <1>2, <1>7, <1>8, <1>10, <1>11

(* btree_remove in all of its outcomes.                                    *)
LEMMA RemoveNodeIs ==
  ASSUME NEW img, Sound(img), NEW c \in Cursor, Seated(img.node, img.cur[c]),
         ~IsInternal(img.node[img.cur[c].node]), Count(img.node[img.cur[c].node]) = 0,
         img.cur[c].index \in 0 .. Count(img.node[img.cur[c].node]),
         NEW F \in SUBSET Node, NEW out, out = RemoveNode(img, c, F)
  PROVE  RemoveOf(img, c, F, out)
<1> DEFINE nd == img.node
           rt == img.root
           cu == img.cur[c]
           n == cu.node
           ch == Chain(nd, n)
           top == TopLevel(nd, ch)
           t == ch[top]
           bad == {j \in 2 .. top : ch[j] \notin F}
           f == CHOOSE j \in bad : \A l \in bad : j <= l
           G == {ch[j] : j \in 0 .. top - 1}
           pi == ParentIndex(nd, ch[top - 1])
           im2 == Removal(img, c, G, t, pi)
           im3 == Stuck(img, c, {ch[j] : j \in 0 .. f - 2}, ch[f - 2], ch[f - 1])
<1>1. Tree(rt, nd) /\ nd \in [Node -> NodeRec] /\ Kinds(nd) /\ Linked(rt, nd) /\ Tracked(nd, img.cur)
      /\ img.cur \in [Cursor -> CursorRec]
  BY DEF Sound, Tree
<1>2. n \in InUse(nd) /\ ~cu.trk /\ cu.parent = nd[n].parent /\ n \in Node /\ n # NULL
  BY NodeAssumption DEF Seated, InUse
<1>3. out = IF nd[n].parent = NULL
              THEN [img |-> img, ex |-> TRUE, up |-> NULL, held |-> {}]
            ELSE IF bad # {}
              THEN [img |-> im3, ex |-> TRUE, up |-> NULL, held |-> {}]
            ELSE IF Count(nd[t]) = 1 THEN [img |-> im2, ex |-> TRUE, up |-> NULL, held |-> {}]
            ELSE [img |-> im2, ex |-> FALSE, up |-> nd[t].parent,
                  held |-> {ch[j] : j \in 0 .. top - 2}]
  BY DEF RemoveNode
<1> HIDE DEF im2, im3
<1>4. CASE nd[n].parent = NULL
  <2>1. out.img = img /\ out.ex = TRUE /\ out.up = NULL /\ out.held = {} BY <1>3, <1>4
  <2>2. Advances(img, img, {}, c) BY DEF Advances, Same
  <2>3. KeepsLeaves(nd, nd, n) BY DEF KeepsLeaves
  <2> QED BY <1>2, <2>1, <2>2, <2>3 DEF RemoveOf
<1>5. CASE nd[n].parent # NULL
  <2>1. n # rt BY <1>1, <1>2, <1>5, Up
  <2>2. Climb(rt, nd, n, ch, top) BY <1>1, <1>2, <2>1, TopLevelIs
  <2>3. Hanging(nd, G, t, ch[top - 1], pi) BY <1>1, <1>2, <2>1, <2>2, ClimbHangs
  <2> HIDE DEF ch, top
  <2>4. /\ top \in Nat /\ 1 <= top /\ top <= Cardinality(Node) /\ ch[0] = n
        /\ \A j \in 0 .. top : ch[j] \in InUse(nd)
        /\ \A j \in 0 .. top - 1 : ch[j] # rt /\ ch[j + 1] = nd[ch[j]].parent
        /\ \A i, j \in 0 .. top : i < j => ch[i] # ch[j]
        /\ \A j \in 1 .. top : IsInternal(nd[ch[j]]) /\ ch[j - 1] \in Children(nd[ch[j]])
        /\ \A j \in 1 .. top - 1 : Count(nd[ch[j]]) = 1
        /\ Count(nd[ch[top]]) > 1 \/ (ch[top] = rt /\ Count(nd[ch[top]]) = 1)
    BY <2>2 DEF Climb
  <2>5. ch[1] = cu.parent /\ cu.parent # NULL
    <3>1. 0 \in 0 .. top - 1 /\ 0 + 1 = 1 BY <2>4
    <3> QED BY <1>2, <1>5, <2>4, <3>1
  <2>6. n \in Mine(cu) /\ cu.parent \in Mine(cu) BY <1>2, <2>5 DEF Mine
  <2>7. CASE bad # {}
    <3>1. out.img = im3 /\ out.ex = TRUE /\ out.up = NULL /\ out.held = {} BY <1>3, <1>5, <2>7
    <3>2. f \in bad /\ \A l \in bad : f <= l
      <4>1. bad \in SUBSET Nat BY <2>4
      <4>2. \E j \in bad : \A l \in bad : j <= l
        <5> HIDE DEF bad
        <5> QED BY <2>7, <4>1, LeastOf
      <4> HIDE DEF bad
      <4> QED BY <4>2
    <3> HIDE DEF f
    <3>3. f \in Nat /\ 2 <= f /\ f <= top BY <2>4, <3>2
    <3>4. \A j \in 2 .. top : j < f => ch[j] \in F
      <4>1. \A j \in 2 .. top : j \in bad \/ ch[j] \in F OBVIOUS
      <4>2. \A j \in 2 .. top : j < f => ~(f <= j) BY <3>3
      <4> HIDE DEF bad
      <4> QED BY <3>2, <4>1, <4>2
    <3> DEFINE m == ch[f - 2]
               a == ch[f - 1]
               H == {ch[j] : j \in 0 .. f - 2}
    <3>5. /\ m \in InUse(nd) /\ a = nd[m].parent /\ m # rt /\ Count(nd[a]) = 1
      <4>1. f - 2 \in 0 .. top /\ f - 2 \in 0 .. top - 1 /\ f - 1 \in 1 .. top - 1 /\ f - 2 + 1 = f - 1
        BY <2>4, <3>3
      <4>2. ch[f - 2 + 1] = nd[ch[f - 2]].parent /\ ch[f - 2] # rt BY <2>4, <4>1
      <4> QED BY <2>4, <4>1, <4>2
    <3>6. a \notin H
      <4>1. \A j \in 0 .. f - 2 : j \in 0 .. top /\ f - 1 \in 0 .. top /\ j < f - 1 BY <2>4, <3>3
      <4> QED BY <2>4, <4>1
    <3>7. m \in Mine(cu) \union F /\ a \in Mine(cu) \union F
      <4>1. \A j \in 0 .. f - 1 : j = 0 \/ j = 1 \/ (j \in 2 .. top /\ j < f) BY <2>4, <3>3
      <4>2. \A j \in 0 .. f - 1 : ch[j] \in Mine(cu) \union F BY <2>4, <2>5, <2>6, <3>4, <4>1
      <4>3. f - 1 \in 0 .. f - 1 /\ f - 2 \in 0 .. f - 1 BY <3>3
      <4> QED BY <4>2, <4>3
    <3>8. im3 = Stuck(img, c, H, m, a) BY DEF im3
    <3> HIDE DEF m, a, H, bad
    <3>9. /\ Advances(img, im3, {}, c) /\ Seated(im3.node, im3.cur[c]) /\ im3.root = img.root
          /\ im3.cur[c].node = m /\ im3.cur[c].parent = a /\ im3.cur[c].index = 0
          /\ im3.node = img.node
      BY <1>2, <3>5, <3>6, <3>8, StuckIs
    <3> DEFINE v == im3.cur[c]
    <3>10. /\ ~v.trk /\ v.node \in InUse(im3.node) /\ v.index \in 0 .. Count(im3.node[v.node])
      <4>1. Count(nd[m]) \in Nat
        <5>1. Count(nd[m]) \in Int /\ Sized(nd[m]) BY <1>1, <3>5, Shape, LinkedIs
        <5> QED BY <5>1, ElmsAssumption DEF Sized
      <4>2. ~v.trk BY <3>9 DEF Seated
      <4> QED BY <3>5, <3>9, <4>1, <4>2
    <3>11. Mine(v) \subseteq {m, a} BY <3>9 DEF Mine
    <3> HIDE DEF v
    <3>12. Mine(v) \union out.held \subseteq Mine(cu) \union F BY <3>1, <3>7, <3>11
    <3>13. KeepsLeaves(nd, im3.node, n) BY <3>9 DEF KeepsLeaves
    <3> QED BY <3>1, <3>9, <3>10, <3>12, <3>13 DEF RemoveOf, v
  <2>8. CASE bad = {}
    <3>1. \A j \in 2 .. top : ch[j] \in F BY <2>8
    <3>2. \A j \in 0 .. top : ch[j] \in Mine(cu) \union F
      <4>1. \A j \in 0 .. top : j = 0 \/ j = 1 \/ j \in 2 .. top BY <2>4
      <4> QED BY <2>4, <2>5, <2>6, <3>1, <4>1
    <3>3. pi \in Int
      <4>1. t \in InUse(nd) /\ pi \in 0 .. Count(nd[t]) - 1 BY <2>3 DEF Hanging
      <4>2. Count(nd[t]) \in Int BY <1>1, <4>1, Shape
      <4> QED BY <4>1, <4>2
    <3> DEFINE v == im2.cur[c]
               md == im2.node
    <3>4. RemovalOf(img, c, G, t, pi, im2)
      <4>1. Count(nd[t]) > 1 \/ t = rt BY <2>4
      <4> HIDE DEF G, pi
      <4> QED BY <1>2, <2>3, <3>3, <4>1, RemovalIs DEF im2
    <3>5. /\ Advances(img, im2, G \union {t}, c) /\ im2.root = img.root
          /\ InUse(md) = InUse(nd) \ G /\ Count(md[t]) = Count(nd[t]) - 1
          /\ md[t].parent = nd[t].parent
          /\ v.node = t /\ v.index = pi /\ v.parent = NULL /\ v.pindex = 0 /\ ~v.trk
      BY <3>4 DEF RemovalOf
    <3>6. t \in InUse(md) /\ v.index \in 0 .. Count(md[v.node])
      <4>1. t \in InUse(nd) /\ t \notin G /\ pi \in 0 .. Count(nd[t]) - 1 BY <2>3 DEF Hanging
      <4>2. v.index \in 0 .. Count(md[v.node]) BY <3>5, <4>1
      <4> QED BY <3>5, <4>1, <4>2
    <3>7. G \union {t} \subseteq Mine(cu) \union F
      <4>1. top \in 0 .. top /\ \A j \in 0 .. top - 1 : j \in 0 .. top BY <2>4
      <4> QED BY <3>2, <4>1
    <3>8. Mine(v) \subseteq {t} BY <3>5 DEF Mine
    <3>9. t \in Mine(cu) \union F BY <3>7
    <3> DEFINE H == {ch[j] : j \in 0 .. top - 2}
    <3>10. H \subseteq Mine(cu) \union F /\ t \notin H
      <4>1. top \in 0 .. top /\ \A j \in 0 .. top - 2 : j \in 0 .. top /\ j < top BY <2>4
      <4> QED BY <2>4, <3>2, <4>1
    <3>11. out.img = im2
      BY <1>3, <1>5, <2>8
    <3>14. H \subseteq InUse(nd)
      <4>1. \A j \in 0 .. top - 2 : j \in 0 .. top BY <2>4
      <4> QED BY <2>4, <4>1
    <3>15. KeepsLeaves(nd, md, n)
      <4>1. /\ t \in InUse(nd) /\ t \notin G /\ IsInternal(nd[t])
        BY <2>3 DEF Hanging
      <4>2. md = [m \in Node |-> IF m \in G THEN Deleted ELSE IF m = t THEN Reduced(nd[m], pi)
                                 ELSE nd[m]] /\ InUse(md) = InUse(nd) \ G
        BY <3>4 DEF RemovalOf
      <4>3. \A m \in G : m = n \/ IsInternal(nd[m])
        <5>1. \A j \in 0 .. top - 1 : j = 0 \/ j \in 1 .. top BY <2>4
        <5> QED BY <2>4, <5>1
      <4>4. Reduced(nd[t], pi).elms = <<>> \/ IsInternal(Reduced(nd[t], pi))
        <5>1. nd[t] \in NodeRec BY <1>1, <4>1 DEF InUse
        <5> DEFINE y == nd[t]
        <5> HIDE DEF y
        <5>2. DropRef(y, pi).type = y.type BY DEF DropRef
        <5>3. y \in NodeRec BY <5>1 DEF y
        <5>4. [y EXCEPT !.type = "L", !.elms = <<>>].elms = <<>> BY <5>3 DEF NodeRec
        <5>5. Reduced(y, pi).elms = <<>> \/ IsInternal(Reduced(y, pi))
          BY <4>1, <5>2, <5>4 DEF Reduced, IsInternal, y
        <5> QED BY <5>5 DEF y
      <4> HIDE DEF md, G, t, pi
      <4>5. \A m \in InUse(nd) : ~IsInternal(nd[m]) /\ m # n => m \in InUse(md) /\ md[m] = nd[m]
        BY <4>1, <4>2, <4>3 DEF InUse
      <4>6. \A m \in InUse(md) : m \in InUse(nd) /\ m \notin G /\ m \in Node BY <4>2 DEF InUse
      <4>7. \A m \in InUse(md) : ~IsInternal(md[m]) => \/ m \in InUse(nd) /\ md[m] = nd[m]
                                                      \/ md[m].elms = <<>>
        BY <4>2, <4>4, <4>6
      <4> QED BY <4>5, <4>7 DEF KeepsLeaves
    <3> HIDE DEF v, md, G, t, pi, H, bad
    <3>12. CASE Count(nd[t]) = 1
      <4>1. out.img = im2 /\ out.ex = TRUE /\ out.up = NULL /\ out.held = {}
        BY <1>3, <1>5, <2>8, <3>12
      <4>2. t = rt BY <2>4, <3>12 DEF t
      <4>3. md[t].parent = NULL
        <5>1. t \in InUse(nd) BY <1>1, <4>2 DEF Linked
        <5> QED BY <1>1, <3>5, <4>2, <5>1, Up
      <4>4. Seated(md, v) BY <3>5, <3>6, <4>3 DEF Seated
      <4>5. Mine(v) \union out.held \subseteq Mine(cu) \union F BY <3>8, <3>9, <4>1
      <4> QED BY <3>5, <3>6, <3>7, <3>15, <4>1, <4>4, <4>5 DEF RemoveOf, v, md
    <3>13. CASE Count(nd[t]) # 1
      <4>1. out.img = im2 /\ out.ex = FALSE /\ out.up = nd[t].parent /\ out.held = H
        BY <1>3, <1>5, <2>8, <3>13 DEF H
      <4>5. Mine(v) \union out.held \subseteq Mine(cu) \union F BY <3>8, <3>9, <3>10, <4>1
      <4> QED BY <3>5, <3>6, <3>7, <3>10, <3>14, <3>15, <4>1, <4>5 DEF RemoveOf, v, md
    <3> QED BY <3>12, <3>13
  <2> QED BY <2>7, <2>8
<1> QED BY <1>4, <1>5

(* A node is moved, and its tracked cursors with it.                       *)
LEMMA TrackReplacedIs ==
  ASSUME NEW nd, NEW C \in [Cursor -> CursorRec], Tracked(nd, C), NEW n, NEW nn \in Node,
         NEW md, nn \in InUse(md), Count(md[nn]) = Count(nd[n]),
         \A m \in InUse(nd) : m # n => m \in InUse(md) /\ Count(md[m]) = Count(nd[m])
  PROVE  Follows(C, TrackReplaced(C, n, nn), md)
<1> DEFINE D == TrackReplaced(C, n, nn)
<1>1. ASSUME NEW d \in Cursor
      PROVE  /\ D[d] \in CursorRec /\ TrackedAt(md, D[d]) /\ Same(C[d], D[d]) /\ d \in DOMAIN C
  <2> DEFINE u == C[d]
             w == D[d]
  <2>1. d \in DOMAIN C /\ u \in CursorRec /\ TrackedAt(nd, u) BY DEF Tracked
  <2>2. w = IF u.trk /\ u.node = n THEN [u EXCEPT !.node = nn] ELSE u
    BY <2>1 DEF TrackReplaced, On
  <2> HIDE DEF u, w
  <2>3. nn \in AnyNode BY DEF AnyNode
  <2>4. CASE u.trk /\ u.node = n
    <3>1. w = [u EXCEPT !.node = nn] BY <2>2, <2>4
    <3>2. /\ w \in CursorRec /\ w.node = nn /\ w.index = u.index /\ w.trk = u.trk
          /\ w.parent = u.parent
      BY <2>1, <2>3, <3>1 DEF CursorRec
    <3> QED BY <2>1, <2>4, <3>2 DEF TrackedAt, Same, u, w
  <2>5. CASE ~(u.trk /\ u.node = n)
    <3>1. w = u BY <2>2, <2>5
    <3>2. TrackedAt(md, u) BY <2>1, <2>5 DEF TrackedAt
    <3> QED BY <2>1, <3>1, <3>2 DEF Same, u, w
  <2> QED BY <2>4, <2>5
<1>2. D = [d \in Cursor |-> D[d]] BY DEF TrackReplaced
<1> HIDE DEF D
<1> QED BY <1>1, <1>2 DEF Tracked, Follows, D

MoveOf(img, c, nn, im2) ==
  LET cu == img.cur[c]
      x  == img.node[cu.node]
      v  == im2.cur[c]
  IN /\ Advances(img, im2, {cu.node, cu.parent} \union Children(x), c)
     /\ Seated(im2.node, v) /\ v.node = nn /\ v.index = cu.index /\ im2.node[nn] = x
     /\ Mine(v) \subseteq Mine(cu) \union {nn}
     /\ Moves(img.node, cu.node, nn, im2.node)
     /\ Relocates(img.node, cu.node, nn, cu.parent, cu.pindex, im2.node)

(* hammer_reblock_leaf_node and hammer_reblock_int_node: the tree, the     *)
(* root in the volume header and the tracked cursors.                      *)
LEMMA MoveNodeIs ==
  ASSUME NEW img, Sound(img), NEW c \in Cursor, Seated(img.node, img.cur[c]),
         NEW nn \in FreeNodes(img.node), NEW im2, im2 = MoveNode(img, c, nn)
  PROVE  MoveOf(img, c, nn, im2)
<1> DEFINE nd == img.node
           rt == img.root
           cu == img.cur[c]
           n == cu.node
           a == cu.parent
           pi == cu.pindex
           x == nd[n]
           md == Moved(nd, n, nn, a, pi)
           D == TrackReplaced(img.cur, n, nn)
           v == [D[c] EXCEPT !.node = nn]
<1>1. Tree(rt, nd) /\ nd \in [Node -> NodeRec] /\ Kinds(nd) /\ Linked(rt, nd) /\ Tracked(nd, img.cur)
      /\ img.cur \in [Cursor -> CursorRec]
  BY DEF Sound, Tree
<1>2. n \in InUse(nd) /\ ~cu.trk /\ a = nd[n].parent /\ n \in Node /\ n # NULL
  BY NodeAssumption DEF Seated, InUse
<1>3. a # NULL => pi \in 0 .. Count(nd[a]) - 1 /\ E(nd[a], pi).sub = n BY DEF Seated
<1>4. im2.root = (IF a = NULL THEN nn ELSE rt) /\ im2.node = md /\ im2.cur = [D EXCEPT ![c].node = nn]
  BY DEF MoveNode
<1>5. Relocates(nd, n, nn, a, pi, md)
  <2>0. nn \in FreeNodes(nd) OBVIOUS
  <2> HIDE DEF cu, nd, rt, n, a, pi
  <2> QED BY <1>1, <1>2, <1>3, <2>0, MovedIs
<1> HIDE DEF md
<1>6. Moves(nd, n, nn, md)
  <2>0. nn \in FreeNodes(nd) OBVIOUS
  <2> HIDE DEF cu, nd, rt, n, a, pi
  <2> QED BY <1>1, <1>2, <1>3, <1>5, <2>0, RelocatesMoves
<1>7. im2.root = Renamed(rt, n, nn)
  <2>1. a = NULL <=> n = rt BY <1>1, <1>2, Up
  <2> QED BY <1>4, <2>1 DEF Renamed
<1>8. Tree(im2.root, md) BY <1>1, <1>2, <1>6, <1>7, MoveTree
<1>9. /\ md \in [Node -> NodeRec] /\ md[n] = Deleted /\ md[nn] = nd[n]
      /\ \A m \in Children(nd[n]) : md[m] = [nd[m] EXCEPT !.parent = nn]
      /\ a # NULL => md[a] = Redirect(nd[a], pi, nn)
      /\ \A m \in Node : m \notin Children(nd[n]) /\ m \notin {n, nn, a} => md[m] = nd[m]
  BY <1>5 DEF Relocates
<1>10. /\ InUse(md) = (InUse(nd) \ {n}) \union {nn}
       /\ \A b \in InUse(nd) :
            LET y == md[Renamed(b, n, nn)] IN
            y.type = nd[b].type /\ y.parent = Renamed(nd[b].parent, n, nn) /\ Len(y.elms) = Len(nd[b].elms)
            /\ (IsInternal(nd[b]) =>
                  \A i \in 0 .. Count(nd[b]) - 1 : E(y, i).sub = Renamed(E(nd[b], i).sub, n, nn))
  BY <1>6 DEF Moves
<1>11. nn \in Node /\ nn # n /\ nn # NULL /\ nn \notin InUse(nd) /\ nd[nn].type = "free"
  BY <1>2, NodeAssumption DEF FreeNodes, InUse
<1>12. Follows(img.cur, D, md)
  <2>1. \A m \in InUse(nd) : m # n => m \in InUse(md) /\ Count(md[m]) = Count(nd[m])
    BY <1>10, <1>11 DEF Renamed, Count, IsInternal
  <2>2. Count(md[nn]) = Count(nd[n]) BY <1>9
  <2>3. nn \in InUse(md) BY <1>10
  <2> HIDE DEF n, nd
  <2> QED BY <1>1, <1>11, <2>1, <2>2, <2>3, TrackReplacedIs
<1>13. D[c] = cu
  BY <1>1, <1>2 DEF TrackReplaced, On
<1>14. D \in [Cursor -> CursorRec] BY <1>12 DEF Follows
<1> HIDE DEF D
<1>15. /\ v \in CursorRec /\ v.node = nn /\ v.index = cu.index /\ v.parent = a /\ v.pindex = pi
       /\ ~v.trk
  <2>1. v = [cu EXCEPT !.node = nn] BY <1>13
  <2>2. cu \in CursorRec BY <1>1
  <2>3. nn \in AnyNode BY <1>11 DEF AnyNode
  <2> HIDE DEF v, cu
  <2>4. v \in CursorRec /\ v.node = nn /\ v.index = cu.index /\ v.parent = cu.parent
        /\ v.pindex = cu.pindex /\ v.trk = cu.trk
    BY <2>1, <2>2, <2>3 DEF CursorRec
  <2> QED BY <1>2, <2>4
<1>16. /\ im2.cur \in [Cursor -> CursorRec] /\ im2.cur[c] = v
       /\ \A d \in Cursor : d # c => im2.cur[d] = D[d]
  <2>1. im2.cur = [D EXCEPT ![c] = v] BY <1>4
  <2> HIDE DEF v
  <2> QED BY <1>14, <1>15, <2>1
<1> HIDE DEF v
<1>17. Tracked(md, im2.cur)
  <2>1. Tracked(md, D) BY <1>12 DEF Follows
  <2>2. ASSUME NEW d \in Cursor PROVE TrackedAt(md, im2.cur[d])
    <3>1. CASE d = c BY <1>15, <1>16, <3>1 DEF TrackedAt
    <3>2. CASE d # c BY <1>16, <2>1, <3>2 DEF Tracked
    <3> QED BY <3>1, <3>2
  <2> QED BY <2>2 DEF Tracked
<1>18. Sound(im2) BY <1>4, <1>8, <1>16, <1>17 DEF Sound
<1>19. ASSUME NEW m \in Node, nd[m].type # "free"
       PROVE  /\ md[m].type # "free"
              /\ m \notin {n, a} \union Children(x) => md[m] = nd[m]
  <2>1. m # nn BY <1>11, <1>19
  <2>2. CASE m = n BY <1>9, <2>2 DEF Deleted
  <2>3. CASE m # n
    <3>1. CASE m \in InUse(nd)
      <4>1. m \in InUse(md) BY <1>10, <2>3, <3>1
      <4>2. md[m].type # "free" BY <4>1 DEF InUse
      <4> QED BY <1>9, <2>1, <4>2
    <3>2. CASE m \notin InUse(nd)
      <4>1. m \notin Children(x)
        <5>1. ASSUME m \in Children(x) PROVE m \in InUse(nd)
          <6>1. PICK i \in 0 .. Count(x) - 1 : IsInternal(x) /\ E(x, i).sub = m BY <5>1 DEF Children
          <6> QED BY <1>1, <1>2, <6>1, Down
        <5> QED BY <3>2, <5>1
      <4>2. m # a
        <5>1. a # NULL => a \in InUse(nd) BY <1>1, <1>2, Up
        <5>2. m # NULL BY NodeAssumption
        <5> QED BY <3>2, <5>1, <5>2
      <4> QED BY <1>9, <1>19, <2>1, <2>3, <4>1, <4>2
    <3> QED BY <3>1, <3>2
  <2> QED BY <2>2, <2>3
<1>20. Advances(img, im2, {n, a} \union Children(x), c)
  <2>1. \A d \in Cursor : d # c => Same(img.cur[d], im2.cur[d]) BY <1>12, <1>16 DEF Follows
  <2> QED BY <1>4, <1>18, <1>19, <2>1 DEF Advances
<1>21. Seated(md, v)
  <2>1. nn \in InUse(md) /\ md[nn].parent = a BY <1>2, <1>9, <1>10
  <2>2. ASSUME a # NULL PROVE pi \in 0 .. Count(md[a]) - 1 /\ E(md[a], pi).sub = nn
    <3>1. a \in InUse(nd) /\ a # n /\ IsInternal(nd[a])
      <4>1. n # rt BY <1>1, <1>2, <2>2, Up
      <4> QED BY <1>1, <1>2, <4>1, Up
    <3>2. Renamed(a, n, nn) = a /\ Renamed(n, n, nn) = nn BY <3>1 DEF Renamed
    <3>3. md[a].type = nd[a].type /\ Len(md[a].elms) = Len(nd[a].elms)
          /\ \A i \in 0 .. Count(nd[a]) - 1 : E(md[a], i).sub = Renamed(E(nd[a], i).sub, n, nn)
      BY <1>10, <3>1, <3>2
    <3>4. Count(md[a]) = Count(nd[a]) BY <3>3 DEF Count, IsInternal
    <3> QED BY <1>3, <2>2, <3>2, <3>3, <3>4
  <2> QED BY <1>15, <2>1, <2>2 DEF Seated
<1>22. Mine(v) \subseteq Mine(cu) \union {nn} BY <1>15 DEF Mine
<1> QED BY <1>4, <1>5, <1>6, <1>9, <1>15, <1>16, <1>20, <1>21, <1>22 DEF MoveOf
=============================================================================
