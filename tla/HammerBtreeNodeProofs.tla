------------------------ MODULE HammerBtreeNodeProofs ------------------------
(***************************************************************************)
(* What the operators of HammerBtreeNode do to a tree of any size: a       *)
(* split, a new root, an insertion, a deletion, a corrected boundary, the  *)
(* removal of an empty leaf and of the ancestors it was the only child     *)
(* of, and a move keep the tree. What happens to the cursors on the nodes  *)
(* is the subject of HammerBtreeImageProofs.                               *)
(*                                                                         *)
(* A tree (Tree) is Linked, as HammerBtreeNode defines it, and Ranked:     *)
(* there are ranks that grow from parent to child. HangsTree and           *)
(* TreeHangs show that this is the same as being WellFormed, which speaks  *)
(* of chains of parents. Ranks make induction unnecessary where a step     *)
(* changes the tree, as a new rank can be written down.                    *)
(***************************************************************************)
EXTENDS HammerBtree, FiniteSetTheorems, SequenceTheorems, WellFoundedInduction, TLAPS

AnyNode == Node \union {NULL}

(* Parents are nearer to the root: there is no cycle.                      *)
Ranked(rt, nd) ==
  \E h \in [Node -> Nat] : \A n \in InUse(nd) : n # rt => h[nd[n].parent] < h[n]
-----------------------------------------------------------------------------
(* Sequences, keys and natural numbers.                                    *)

(* SubSeq, element by element.                                             *)
LEMMA SubSeqIs ==
  ASSUME NEW S, NEW s \in Seq(S), NEW a \in 1 .. Len(s) + 1, NEW b \in a - 1 .. Len(s)
  PROVE  /\ SubSeq(s, a, b) \in Seq(S) /\ Len(SubSeq(s, a, b)) = b - a + 1
         /\ \A j \in 1 .. b - a + 1 : SubSeq(s, a, b)[j] = s[a + j - 1]
<1>1. CASE a <= b BY <1>1, SubSeqProperties
<1>2. CASE a = b + 1 BY <1>2, SubSeqEmpty, EmptySeq, LenProperties
<1> QED BY <1>1, <1>2

(* A place of the right part of a split node, counted from the left.       *)
LEMMA Shift ==
  ASSUME NEW j \in Int, NEW s \in Nat, NEW c \in Int, NEW m \in Int,
         0 <= j, j <= c - s - 1, c <= m
  PROVE  j \in 0 .. m - s - 1 /\ j + s \in 0 .. c - 1
OBVIOUS

(* InsertAt and RemoveAt, element by element.                              *)
Inserted(w, s, i, e) ==
  /\ Len(w) = Len(s) + 1
  /\ \A j \in 1 .. i - 1 : w[j] = s[j]
  /\ w[i] = e
  /\ \A j \in i .. Len(s) : w[j + 1] = s[j]
Removed(w, s, i) ==
  /\ Len(w) = Len(s) - 1
  /\ \A j \in 1 .. i - 1 : w[j] = s[j]
  /\ \A j \in i .. Len(s) - 1 : w[j] = s[j + 1]

(* What InsertAt gives.                                                    *)
LEMMA InsertAtIs ==
  ASSUME NEW S, NEW s \in Seq(S), NEW i \in 1 .. Len(s) + 1, NEW e \in S
  PROVE  InsertAt(s, i, e) \in Seq(S) /\ Inserted(InsertAt(s, i, e), s, i, e)
<1> DEFINE a == SubSeq(s, 1, i - 1)
           b == SubSeq(s, i, Len(s))
<1>0. Len(s) \in Nat BY LenProperties
<1>1. /\ a \in Seq(S) /\ Len(a) = i - 1 /\ \A j \in 1 .. i - 1 : a[j] = s[j]
  BY <1>0, SubSeqIs
<1>2. /\ b \in Seq(S) /\ Len(b) = Len(s) - i + 1
      /\ \A j \in 1 .. Len(s) - i + 1 : b[j] = s[i + j - 1]
  BY <1>0, SubSeqIs
<1>3. <<e>> \in Seq(S) /\ Len(<<e>>) = 1 /\ <<e>>[1] = e OBVIOUS
<1>4. /\ a \o <<e>> \in Seq(S) /\ Len(a \o <<e>>) = i
      /\ \A j \in 1 .. i : (a \o <<e>>)[j] = IF j < i THEN s[j] ELSE e
  BY <1>0, <1>1, <1>3, ConcatProperties
<1>5. /\ (a \o <<e>>) \o b \in Seq(S) /\ Len((a \o <<e>>) \o b) = Len(s) + 1
      /\ \A j \in 1 .. Len(s) + 1 :
           ((a \o <<e>>) \o b)[j] = IF j <= i THEN (a \o <<e>>)[j] ELSE b[j - i]
  <2> DEFINE c == a \o <<e>>
  <2>1. c \in Seq(S) /\ Len(c) = i BY <1>4
  <2> HIDE DEF c, b
  <2>2. /\ c \o b \in Seq(S) /\ Len(c \o b) = Len(c) + Len(b)
        /\ \A j \in 1 .. Len(c) + Len(b) :
             (c \o b)[j] = IF j <= Len(c) THEN c[j] ELSE b[j - Len(c)]
    BY <1>2, <2>1, ConcatProperties
  <2>3. Len(c) + Len(b) = Len(s) + 1 BY <1>0, <1>2, <2>1
  <2> QED BY <2>1, <2>2, <2>3 DEF c
<1>6. ASSUME NEW j \in 1 .. Len(s) + 1, j > i PROVE b[j - i] = s[j - 1]
  BY <1>0, <1>2, <1>6
<1> HIDE DEF a, b
<1>7. InsertAt(s, i, e) = (a \o <<e>>) \o b BY DEF InsertAt, a, b
<1>8. ASSUME NEW j \in 1 .. Len(s) + 1
      PROVE  ((a \o <<e>>) \o b)[j] = IF j < i THEN s[j] ELSE IF j = i THEN e ELSE s[j - 1]
  BY <1>0, <1>4, <1>5, <1>6
<1> DEFINE w == (a \o <<e>>) \o b
<1> HIDE DEF w
<1>9. \A j \in 1 .. Len(s) + 1 : w[j] = IF j < i THEN s[j] ELSE IF j = i THEN e ELSE s[j - 1]
  BY <1>8 DEF w
<1>10. /\ \A j \in 1 .. i - 1 : w[j] = s[j]
       /\ w[i] = e
  BY <1>0, <1>9
<1>10a. ASSUME NEW j \in i .. Len(s) PROVE w[j + 1] = s[j]
  <2>1. j + 1 \in 1 .. Len(s) + 1 /\ ~(j + 1 < i) /\ j + 1 # i /\ j + 1 - 1 = j BY <1>0
  <2> QED BY <1>9, <2>1
<1>11. w \in Seq(S) /\ Len(w) = Len(s) + 1 /\ w = InsertAt(s, i, e) BY <1>5, <1>7 DEF w
<1> QED BY <1>10, <1>10a, <1>11 DEF Inserted

(* What RemoveAt gives.                                                    *)
LEMMA RemoveAtIs ==
  ASSUME NEW S, NEW s \in Seq(S), NEW i \in 1 .. Len(s)
  PROVE  RemoveAt(s, i) \in Seq(S) /\ Removed(RemoveAt(s, i), s, i)
<1> DEFINE a == SubSeq(s, 1, i - 1)
           b == SubSeq(s, i + 1, Len(s))
<1>0. Len(s) \in Nat BY LenProperties
<1>1. /\ a \in Seq(S) /\ Len(a) = i - 1 /\ \A j \in 1 .. i - 1 : a[j] = s[j]
  BY <1>0, SubSeqIs
<1>2. /\ b \in Seq(S) /\ Len(b) = Len(s) - i
      /\ \A j \in 1 .. Len(s) - i : b[j] = s[i + j]
  BY <1>0, SubSeqIs
<1>3. /\ a \o b \in Seq(S) /\ Len(a \o b) = Len(s) - 1
      /\ \A j \in 1 .. Len(s) - 1 : (a \o b)[j] = IF j < i THEN a[j] ELSE b[j - i + 1]
  <2> HIDE DEF a, b
  <2>1. /\ a \o b \in Seq(S) /\ Len(a \o b) = Len(a) + Len(b)
        /\ \A j \in 1 .. Len(a) + Len(b) :
             (a \o b)[j] = IF j <= Len(a) THEN a[j] ELSE b[j - Len(a)]
    BY <1>1, <1>2, ConcatProperties
  <2>2. Len(a) + Len(b) = Len(s) - 1 BY <1>0, <1>1, <1>2
  <2>3. ASSUME NEW j \in 1 .. Len(s) - 1
        PROVE  (j <= Len(a) <=> j < i) /\ j - Len(a) = j - i + 1
    BY <1>0, <1>1
  <2> QED BY <2>1, <2>2, <2>3
<1>4. ASSUME NEW j \in 1 .. Len(s) - 1, j >= i PROVE b[j - i + 1] = s[j + 1]
  BY <1>0, <1>2, <1>4
<1> HIDE DEF a, b
<1> DEFINE w == a \o b
<1>5. w \in Seq(S) /\ Len(w) = Len(s) - 1 /\ w = RemoveAt(s, i)
  BY <1>3 DEF RemoveAt, a, b
<1>6. \A j \in 1 .. Len(s) - 1 : w[j] = IF j < i THEN a[j] ELSE b[j - i + 1] BY <1>3
<1> HIDE DEF w
<1>7. \A j \in 1 .. i - 1 : w[j] = s[j] BY <1>0, <1>1, <1>6
<1>8. \A j \in i .. Len(s) - 1 : w[j] = s[j + 1] BY <1>0, <1>4, <1>6
<1> QED BY <1>5, <1>7, <1>8 DEF Removed

(* hammer_btree_cmp orders the keys.                                       *)
LEMMA CmpOrder ==
  ASSUME NEW a \in AnyKey, NEW b \in AnyKey, NEW c \in AnyKey
  PROVE  /\ Cmp(a, b) \in {-2, -1, 0, 1, 2}
         /\ Cmp(a, b) = 0 <=> a = b
         /\ Cmp(a, b) < 0 <=> Cmp(b, a) > 0
         /\ Cmp(a, b) <= 0 /\ Cmp(b, c) <= 0 => Cmp(a, c) <= 0
         /\ Cmp(a, b) < 0 /\ Cmp(b, c) <= 0 => Cmp(a, c) < 0
         /\ Cmp(a, b) <= 0 /\ Cmp(b, c) < 0 => Cmp(a, c) < 0
<1> DEFINE Before(x, y) == \/ x.k < y.k
                           \/ x.k = y.k /\ x.t # y.t /\ (y.t = 0 \/ (x.t # 0 /\ x.t < y.t))
<1>1. /\ a.k \in Nat /\ b.k \in Nat /\ c.k \in Nat
      /\ a.t \in Nat /\ b.t \in Nat /\ c.t \in Nat
      /\ a = b <=> a.k = b.k /\ a.t = b.t
  BY NodeAssumption, ProcAssumption DEF AnyKey, Tid
<1>2. ASSUME NEW x \in AnyKey, NEW y \in AnyKey
      PROVE  /\ Cmp(x, y) \in {-2, -1, 0, 1, 2}
             /\ Cmp(x, y) < 0 <=> Before(x, y)
             /\ Cmp(x, y) = 0 <=> x.k = y.k /\ x.t = y.t
             /\ Cmp(x, y) > 0 <=> Before(y, x)
  <2>1. x.k \in Nat /\ y.k \in Nat /\ x.t \in Nat /\ y.t \in Nat
    BY NodeAssumption, ProcAssumption DEF AnyKey, Tid
  <2> QED BY <2>1 DEF Cmp
<1>3. /\ Cmp(a, b) \in {-2, -1, 0, 1, 2} /\ (Cmp(a, b) < 0 <=> Before(a, b))
      /\ (Cmp(a, b) = 0 <=> a = b) /\ (Cmp(a, b) > 0 <=> Before(b, a))
  BY <1>1, <1>2
<1>4. Cmp(b, a) > 0 <=> Before(a, b) BY <1>2
<1>5. /\ Cmp(b, c) \in {-2, -1, 0, 1, 2} /\ (Cmp(b, c) < 0 <=> Before(b, c))
      /\ (Cmp(b, c) = 0 <=> b = c)
  <2>1. b = c <=> b.k = c.k /\ b.t = c.t BY DEF AnyKey
  <2> QED BY <1>2, <2>1
<1>6. Cmp(a, c) \in {-2, -1, 0, 1, 2} /\ (Cmp(a, c) < 0 <=> Before(a, c)) BY <1>2
<1>7. Before(a, b) /\ Before(b, c) => Before(a, c) BY <1>1
<1>8. Cmp(a, b) < 0 /\ Cmp(b, c) < 0 => Cmp(a, c) < 0 BY <1>3, <1>5, <1>6, <1>7
<1>9. Cmp(a, b) <= 0 <=> (Cmp(a, b) < 0 \/ a = b) BY <1>3
<1>10. Cmp(b, c) <= 0 <=> (Cmp(b, c) < 0 \/ b = c) BY <1>5
<1>11. a = c => Cmp(a, c) = 0
  <2>1. a = c <=> a.k = c.k /\ a.t = c.t BY DEF AnyKey
  <2> QED BY <1>2, <2>1
<1> QED BY <1>3, <1>4, <1>6, <1>8, <1>9, <1>10, <1>11

(* The separator lies above the left key and not above the right one.      *)
LEMMA SeparatorBetween ==
  ASSUME NEW a \in AnyKey, NEW b \in AnyKey, Cmp(a, b) < 0
  PROVE  /\ Separator(a, b) \in AnyKey
         /\ Cmp(a, Separator(a, b)) < 0 /\ Cmp(Separator(a, b), b) <= 0
<1>1. a.k \in 0 .. MaxKey /\ b.k \in 0 .. MaxKey /\ a.t \in Tid /\ b.t \in Tid
  BY DEF AnyKey
<1>2. MaxKey \in Nat /\ MaxTid \in Nat BY NodeAssumption, ProcAssumption
<1> DEFINE m == a.k + (b.k - a.k + 1) \div 2
<1>3. a.k <= b.k /\ (a.k = b.k => a.t # b.t /\ (b.t = 0 \/ (a.t # 0 /\ a.t < b.t)))
  BY <1>1, <1>2 DEF Cmp, Tid
<1>4. m \in a.k .. b.k /\ (a.k < b.k => a.k < m) BY <1>1, <1>2, <1>3
<1>5. Separator(a, b) = [k |-> m, t |-> b.t] BY DEF Separator
<1>6. Separator(a, b) \in AnyKey BY <1>1, <1>2, <1>4, <1>5 DEF AnyKey
<1> HIDE DEF m
<1> QED BY <1>1, <1>2, <1>3, <1>4, <1>5, <1>6 DEF Cmp, Tid

(* A nonempty set of natural numbers has a least element.                  *)
LEMMA LeastOf ==
  ASSUME NEW S \in SUBSET Nat, S # {}
  PROVE  \E m \in S : \A n \in S : m <= n
<1> DEFINE R == OpToRel(<, Nat)
<1>1. IsWellFoundedOn(R, Nat) BY NatLessThanWellFounded
<1>2. \A x, y \in Nat : x < y => <<x, y>> \in R BY DEF OpToRel
<1> HIDE DEF R
<1>3. PICK m \in S : \A n \in S : ~(<<n, m>> \in R) BY <1>1, WFMin
<1>4. ASSUME NEW n \in S PROVE m <= n
  <2>1. m \in Nat /\ n \in Nat OBVIOUS
  <2>2. ~(n < m) BY <1>2, <1>3, <2>1
  <2> QED BY <2>1, <2>2
<1> QED BY <1>4

-----------------------------------------------------------------------------
(* Trees.                                                                  *)
Tree(rt, nd) ==
  nd \in [Node -> NodeRec] /\ Kinds(nd) /\ Linked(rt, nd) /\ Ranked(rt, nd)

(* n is an element of its parent, and its elements lead to children that   *)
(* lie within them.                                                        *)
Attached(nd, n) ==
  /\ nd[n].parent \in InUse(nd) /\ IsInternal(nd[nd[n].parent])
  /\ \E i \in 0 .. Count(nd[nd[n].parent]) - 1 : E(nd[nd[n].parent], i).sub = n
BearsAt(nd, n, i) ==
  /\ E(nd[n], i).sub \in InUse(nd) /\ nd[E(nd[n], i).sub].parent = n
  /\ \A j \in 0 .. Count(nd[n]) - 1 : E(nd[n], j).sub = E(nd[n], i).sub => j = i
  /\ Fits(nd[E(nd[n], i).sub], E(nd[n], i).base, E(nd[n], i + 1).base)
Bears(nd, n) == IsInternal(nd[n]) => \A i \in 0 .. Count(nd[n]) - 1 : BearsAt(nd, n, i)
Sized(x) == Count(x) \in IF IsInternal(x) THEN 1 .. INT_ELMS ELSE 0 .. LEAF_ELMS

(* The keys a node is responsible for.                                     *)
Spans(rt, nd, n, lo, hi) ==
  \/ n = rt /\ lo = RootBeg /\ hi = RootEnd
  \/ n # rt /\ \E i \in 0 .. Count(nd[nd[n].parent]) - 1 :
                 /\ E(nd[nd[n].parent], i).sub = n
                 /\ lo = E(nd[nd[n].parent], i).base
                 /\ hi = E(nd[nd[n].parent], i + 1).base

(* What the types say of a node in use.                                    *)
LEMMA Shape ==
  ASSUME NEW nd \in [Node -> NodeRec], Kinds(nd), NEW n \in InUse(nd)
  PROVE  /\ n \in Node /\ n # NULL /\ nd[n] \in NodeRec /\ nd[n].type \in {"I", "L"}
         /\ Len(nd[n].elms) \in Nat /\ Count(nd[n]) \in Int
         /\ IsInternal(nd[n]) =>
              /\ nd[n].elms \in Seq(IntElm) /\ Count(nd[n]) = Len(nd[n].elms) - 1
              /\ \A i \in 1 .. Len(nd[n].elms) : nd[n].elms[i] \in IntElm
         /\ ~IsInternal(nd[n]) =>
              /\ nd[n].elms \in Seq(LeafElm) /\ Count(nd[n]) = Len(nd[n].elms)
              /\ \A i \in 1 .. Len(nd[n].elms) : nd[n].elms[i] \in LeafElm
         /\ \A i \in 1 .. Len(nd[n].elms) : nd[n].elms[i].base \in AnyKey
<1>1. /\ n \in Node /\ n # NULL /\ nd[n] \in NodeRec /\ nd[n].type \in {"I", "L"}
  BY NodeAssumption DEF InUse
<1>2. nd[n].elms \in IF IsInternal(nd[n]) THEN Seq(IntElm) ELSE Seq(LeafElm) BY DEF Kinds
<1>3. Len(nd[n].elms) \in Nat BY <1>2, LenProperties
<1>4. CASE IsInternal(nd[n])
  <2>1. \A i \in 1 .. Len(nd[n].elms) : nd[n].elms[i] \in IntElm BY <1>2, <1>4, ElementOfSeq
  <2>2. \A e \in IntElm : e.base \in AnyKey BY DEF IntElm
  <2> QED BY <1>1, <1>2, <1>3, <1>4, <2>1, <2>2 DEF Count
<1>5. CASE ~IsInternal(nd[n])
  <2>1. \A i \in 1 .. Len(nd[n].elms) : nd[n].elms[i] \in LeafElm BY <1>2, <1>5, ElementOfSeq
  <2>2. \A e \in LeafElm : e.base \in AnyKey
    BY ProcAssumption DEF LeafElm, AnyKey, Tid
  <2> QED BY <1>1, <1>2, <1>3, <1>5, <2>1, <2>2 DEF Count
<1> QED BY <1>4, <1>5

(* The bounds of the whole tree are keys.                                  *)
LEMMA RootKeys == RootBeg \in AnyKey /\ RootEnd \in AnyKey
  BY NodeAssumption, ProcAssumption DEF RootBeg, RootEnd, AnyKey, Tid

(* Linked, one node at a time.                                             *)
LEMMA LinkedIs ==
  ASSUME NEW rt, NEW nd \in [Node -> NodeRec], Kinds(nd)
  PROVE  Linked(rt, nd) <=>
           /\ rt \in InUse(nd) /\ Fits(nd[rt], RootBeg, RootEnd) /\ nd[rt].parent = NULL
           /\ \A n \in InUse(nd) :
                (n # rt => Attached(nd, n)) /\ Sized(nd[n]) /\ Bears(nd, n)
<1>1. ASSUME NEW n \in InUse(nd), nd[n].parent \in InUse(nd)
      PROVE  n \in Children(nd[nd[n].parent]) <=> Attached(nd, n)
  BY <1>1 DEF Children, Attached
<1>2. ASSUME NEW n \in InUse(nd), IsInternal(nd[n])
      PROVE  (\A i \in 0 .. Count(nd[n]) - 1 :
                /\ E(nd[n], i).sub \in InUse(nd) /\ nd[E(nd[n], i).sub].parent = n
                /\ \A j \in 0 .. i - 1 : E(nd[n], j).sub # E(nd[n], i).sub
                /\ Fits(nd[E(nd[n], i).sub], E(nd[n], i).base, E(nd[n], i + 1).base))
              <=> Bears(nd, n)
  <2>1. Count(nd[n]) \in Int BY Shape
  <2> QED BY <1>2, <2>1 DEF Bears, BearsAt
<1>3. NULL \notin InUse(nd) BY Shape
<1> DEFINE Here(n) == /\ (nd[n].parent = NULL) <=> (n = rt)
                      /\ n # rt => nd[n].parent \in InUse(nd)
                                   /\ n \in Children(nd[nd[n].parent])
<1>4. Linked(rt, nd) <=> /\ rt \in InUse(nd) /\ Fits(nd[rt], RootBeg, RootEnd)
                         /\ \A n \in InUse(nd) : Here(n) /\ Sized(nd[n]) /\ Bears(nd, n)
  BY <1>2 DEF Linked, Sized, Bears
<1>5. ASSUME NEW n \in InUse(nd), nd[rt].parent = NULL
      PROVE  Here(n) <=> (n # rt => Attached(nd, n))
  <2>1. Attached(nd, n) => nd[n].parent \in InUse(nd) BY DEF Attached
  <2> QED BY <1>1, <1>3, <1>5, <2>1
<1>6. rt \in InUse(nd) /\ Here(rt) => nd[rt].parent = NULL OBVIOUS
<1> HIDE DEF Here
<1> QED BY <1>4, <1>5, <1>6

(* Down and up the tree.                                                   *)
LEMMA Down ==
  ASSUME NEW rt, NEW nd, Tree(rt, nd), NEW n \in InUse(nd), IsInternal(nd[n]),
         NEW i \in 0 .. Count(nd[n]) - 1
  PROVE  /\ E(nd[n], i).sub \in InUse(nd) /\ nd[E(nd[n], i).sub].parent = n
         /\ E(nd[n], i).sub # rt /\ E(nd[n], i).sub # n
         /\ \A j \in 0 .. Count(nd[n]) - 1 : E(nd[n], j).sub = E(nd[n], i).sub => j = i
         /\ Fits(nd[E(nd[n], i).sub], E(nd[n], i).base, E(nd[n], i + 1).base)
         /\ E(nd[n], i).base \in AnyKey /\ E(nd[n], i + 1).base \in AnyKey
<1>1. /\ nd \in [Node -> NodeRec] /\ Kinds(nd) /\ BearsAt(nd, n, i) /\ nd[rt].parent = NULL
  BY LinkedIs DEF Tree, Bears
<1>2. n # NULL /\ Count(nd[n]) = Len(nd[n].elms) - 1 /\ Len(nd[n].elms) \in Nat BY <1>1, Shape
<1>3. E(nd[n], i).sub # rt BY <1>1, <1>2 DEF BearsAt
<1>4. E(nd[n], i).sub # n
  <2>1. PICK h \in [Node -> Nat] : \A m \in InUse(nd) : m # rt => h[nd[m].parent] < h[m]
    BY DEF Tree, Ranked
  <2>2. SUFFICES ASSUME E(nd[n], i).sub = n PROVE FALSE OBVIOUS
  <2>3. n \in InUse(nd) /\ n # rt /\ nd[n].parent = n BY <1>1, <1>3, <2>2 DEF BearsAt
  <2>4. h[n] < h[n] /\ h[n] \in Nat BY <2>1, <2>3 DEF InUse
  <2> QED BY <2>4
<1>5. E(nd[n], i).base \in AnyKey /\ E(nd[n], i + 1).base \in AnyKey
  <2>1. i + 1 \in 1 .. Len(nd[n].elms) /\ i + 2 \in 1 .. Len(nd[n].elms) BY <1>2
  <2>2. \A l \in 1 .. Len(nd[n].elms) : nd[n].elms[l].base \in AnyKey BY <1>1, Shape
  <2>3. i + 1 + 1 = i + 2 OBVIOUS
  <2> QED BY <2>1, <2>2, <2>3 DEF E
<1> QED BY <1>1, <1>3, <1>4, <1>5 DEF BearsAt

(* A node in use and its parent.                                           *)
LEMMA Up ==
  ASSUME NEW rt, NEW nd, Tree(rt, nd), NEW n \in InUse(nd)
  PROVE  /\ nd[n].parent = NULL <=> n = rt
         /\ n # rt =>
              /\ nd[n].parent \in InUse(nd) /\ IsInternal(nd[nd[n].parent])
              /\ nd[n].parent # n /\ nd[n].parent # NULL
              /\ \E i \in 0 .. Count(nd[nd[n].parent]) - 1 : E(nd[nd[n].parent], i).sub = n
<1>1. /\ nd \in [Node -> NodeRec] /\ Kinds(nd) /\ nd[rt].parent = NULL
      /\ n # rt => Attached(nd, n)
  BY LinkedIs DEF Tree
<1>2. NULL \notin InUse(nd) BY <1>1, Shape
<1>3. n # rt => nd[n].parent # n BY <1>1, Down DEF Attached
<1> QED BY <1>1, <1>2, <1>3 DEF Attached

(* What a node spans, it is responsible for in one place.                  *)
LEMMA SpansIs ==
  ASSUME NEW rt, NEW nd, Tree(rt, nd), NEW n \in InUse(nd), NEW lo, NEW hi,
         Spans(rt, nd, n, lo, hi)
  PROVE  /\ lo \in AnyKey /\ hi \in AnyKey /\ Fits(nd[n], lo, hi)
         /\ \A i \in 0 .. Count(nd[nd[n].parent]) - 1 :
              n # rt /\ E(nd[nd[n].parent], i).sub = n =>
                lo = E(nd[nd[n].parent], i).base /\ hi = E(nd[nd[n].parent], i + 1).base
<1>1. CASE n = rt
  <2>1. Fits(nd[rt], RootBeg, RootEnd) BY DEF Tree, Linked
  <2> QED BY <1>1, <2>1, RootKeys DEF Spans
<1>2. CASE n # rt
  <2>1. nd[n].parent \in InUse(nd) /\ IsInternal(nd[nd[n].parent]) BY <1>2, Up
  <2>2. PICK i \in 0 .. Count(nd[nd[n].parent]) - 1 :
          /\ E(nd[nd[n].parent], i).sub = n
          /\ lo = E(nd[nd[n].parent], i).base /\ hi = E(nd[nd[n].parent], i + 1).base
    BY <1>2 DEF Spans
  <2> QED BY <2>1, <2>2, Down
<1> QED BY <1>1, <1>2

(* A node fits wider bounds.                                               *)
LEMMA Wider ==
  ASSUME NEW x, \A i \in 1 .. Len(x.elms) : x.elms[i].base \in AnyKey,
         NEW lo \in AnyKey, NEW hi \in AnyKey, Fits(x, lo, hi),
         NEW lo2 \in AnyKey, NEW hi2 \in AnyKey, Cmp(lo2, lo) <= 0, Cmp(hi, hi2) <= 0
  PROVE  Fits(x, lo2, hi2)
<1>1. ASSUME NEW i \in 1 .. Len(x.elms)
      PROVE  /\ Cmp(lo2, x.elms[i].base) <= 0
             /\ Cmp(x.elms[i].base, hi2) <= IF IsInternal(x) THEN 0 ELSE -1
  <2>1. Cmp(lo2, x.elms[i].base) <= 0 BY CmpOrder DEF Fits
  <2>2. Cmp(x.elms[i].base, hi2) \in {-2, -1, 0, 1, 2} BY CmpOrder
  <2>3. CASE IsInternal(x)
    <3>1. Cmp(x.elms[i].base, hi) <= 0 BY <2>3 DEF Fits
    <3> QED BY <2>1, <2>3, <3>1, CmpOrder
  <2>4. CASE ~IsInternal(x)
    <3>0. Cmp(x.elms[i].base, hi) \in {-2, -1, 0, 1, 2} BY CmpOrder
    <3>1. Cmp(x.elms[i].base, hi) < 0 BY <2>4, <3>0 DEF Fits
    <3>2. Cmp(x.elms[i].base, hi2) < 0 BY <3>1, CmpOrder
    <3> QED BY <2>1, <2>2, <2>4, <3>2
  <2> QED BY <2>3, <2>4
<1> QED BY <1>1 DEF Fits

(* A tree stays one when one of its nodes changes in place: a leaf within  *)
(* its bounds, an internal node with the same children, further apart.     *)
LEMMA OneNode ==
  ASSUME NEW rt, NEW nd, Tree(rt, nd), NEW n \in InUse(nd), NEW x \in NodeRec,
         x.type = nd[n].type, x.parent = nd[n].parent,
         IsInternal(x) => x.elms \in Seq(IntElm),
         ~IsInternal(x) => x.elms \in Seq(LeafElm) /\ Len(x.elms) <= LEAF_ELMS,
         \A lo, hi : Spans(rt, nd, n, lo, hi) => Fits(x, lo, hi),
         IsInternal(x) =>
           /\ Len(x.elms) = Len(nd[n].elms)
           /\ \A i \in 0 .. Count(nd[n]) - 1 :
                /\ E(x, i).sub = E(nd[n], i).sub
                /\ Cmp(E(x, i).base, E(nd[n], i).base) <= 0
                /\ Cmp(E(nd[n], i + 1).base, E(x, i + 1).base) <= 0
  PROVE  /\ Tree(rt, [nd EXCEPT ![n] = x]) /\ InUse([nd EXCEPT ![n] = x]) = InUse(nd)
<1> DEFINE md == [nd EXCEPT ![n] = x]
<1>0. nd \in [Node -> NodeRec] /\ Kinds(nd) /\ Linked(rt, nd) /\ Ranked(rt, nd) /\ n \in Node
  BY DEF Tree, InUse
<1>1. /\ md \in [Node -> NodeRec] /\ md[n] = x /\ \A m \in Node : m # n => md[m] = nd[m]
      /\ \A m \in Node : md[m].type = nd[m].type /\ md[m].parent = nd[m].parent
  BY <1>0
<1> HIDE DEF md
<1>2. InUse(md) = InUse(nd) BY <1>1 DEF InUse
<1>3. Kinds(md) BY <1>0, <1>1, <1>2 DEF Kinds, IsInternal, InUse
<1>4. Count(md[n]) = Count(nd[n]) \/ ~IsInternal(x) BY <1>1 DEF Count, IsInternal
<1>5. \A m \in InUse(md) : IsInternal(md[m]) <=> IsInternal(nd[m])
  BY <1>1, <1>2 DEF IsInternal, InUse
<1>6. \A m \in InUse(nd) : m \in Node BY DEF InUse
<1>7. ASSUME NEW m \in InUse(md), IsInternal(md[m])
      PROVE  /\ Count(md[m]) = Count(nd[m])
             /\ \A i \in 0 .. Count(md[m]) - 1 : E(md[m], i).sub = E(nd[m], i).sub
  <2>1. CASE m = n BY <1>1, <1>4, <1>5, <1>7, <2>1
  <2>2. CASE m # n BY <1>1, <1>2, <1>6, <2>2
  <2> QED BY <2>1, <2>2
<1>8. ASSUME NEW m \in InUse(md) PROVE /\ m # rt => Attached(md, m)
                                       /\ Sized(md[m]) /\ Bears(md, m)
  <2>0. m \in InUse(nd) /\ m \in Node BY <1>2, <1>6
  <2>1. m # rt => Attached(md, m)
    <3> SUFFICES ASSUME m # rt PROVE Attached(md, m) OBVIOUS
    <3>1. Attached(nd, m) BY <1>0, <2>0, LinkedIs
    <3>2. md[m].parent = nd[m].parent BY <1>1, <2>0
    <3>3. nd[m].parent \in InUse(md) /\ IsInternal(md[nd[m].parent])
      BY <1>2, <1>5, <3>1 DEF Attached
    <3> QED BY <1>7, <3>1, <3>2, <3>3 DEF Attached
  <2>2. Sized(md[m])
    <3>1. Sized(nd[m]) BY <1>0, <2>0, LinkedIs
    <3>2. CASE m # n BY <1>1, <2>0, <3>1, <3>2
    <3>3. CASE IsInternal(md[m]) BY <1>5, <1>7, <3>1, <3>3 DEF Sized
    <3>4. CASE m = n /\ ~IsInternal(md[m])
      <4>1. Len(x.elms) \in Nat /\ Len(x.elms) <= LEAF_ELMS BY <1>1, <3>4, LenProperties
      <4> QED BY <1>1, <3>4, <4>1, ElmsAssumption DEF Sized, Count
    <3> QED BY <3>2, <3>3, <3>4
  <2>3. ASSUME IsInternal(md[m]), NEW i \in 0 .. Count(md[m]) - 1 PROVE BearsAt(md, m, i)
    <3>1. IsInternal(nd[m]) /\ i \in 0 .. Count(nd[m]) - 1 /\ Count(md[m]) = Count(nd[m])
      BY <1>5, <1>7, <2>3
    <3> DEFINE c == E(nd[m], i).sub
    <3>2. /\ c \in InUse(nd) /\ nd[c].parent = m /\ c # rt /\ c # m
          /\ \A j \in 0 .. Count(nd[m]) - 1 : E(nd[m], j).sub = c => j = i
          /\ Fits(nd[c], E(nd[m], i).base, E(nd[m], i + 1).base)
          /\ E(nd[m], i).base \in AnyKey /\ E(nd[m], i + 1).base \in AnyKey
      BY <2>0, <3>1, Down
    <3> HIDE DEF c
    <3>3. E(md[m], i).sub = c BY <1>7, <2>3 DEF c
    <3>4. Fits(md[c], E(nd[m], i).base, E(nd[m], i + 1).base)
      <4>1. CASE c # n BY <1>1, <1>6, <3>2, <4>1
      <4>2. CASE c = n
        <5>1. Spans(rt, nd, n, E(nd[m], i).base, E(nd[m], i + 1).base)
          BY <3>1, <3>2, <4>2 DEF Spans, c
        <5> QED BY <1>1, <4>2, <5>1
      <4> QED BY <4>1, <4>2
    <3>5. Fits(md[c], E(md[m], i).base, E(md[m], i + 1).base)
      <4>1. CASE m # n BY <1>1, <2>0, <3>4, <4>1
      <4>2. CASE m = n
        <5>1. \A l \in 1 .. Len(md[c].elms) : md[c].elms[l].base \in AnyKey
          BY <1>1, <1>2, <1>3, <3>2, Shape
        <5>2. E(md[m], i).base \in AnyKey /\ E(md[m], i + 1).base \in AnyKey
          <6>1. \A l \in 1 .. Len(md[m].elms) : md[m].elms[l].base \in AnyKey
            BY <1>1, <1>3, Shape
          <6>2. Count(md[m]) = Len(md[m].elms) - 1 /\ Len(md[m].elms) \in Nat
            BY <1>1, <1>3, <2>3, Shape
          <6>3. i + 1 \in 1 .. Len(md[m].elms) /\ i + 1 + 1 \in 1 .. Len(md[m].elms) BY <6>2
          <6> QED BY <6>1, <6>3 DEF E
        <5>3. /\ Cmp(E(md[m], i).base, E(nd[m], i).base) <= 0
              /\ Cmp(E(nd[m], i + 1).base, E(md[m], i + 1).base) <= 0
          BY <1>1, <2>3, <3>1, <4>2
        <5> QED BY <3>2, <3>4, <5>1, <5>2, <5>3, Wider
      <4> QED BY <4>1, <4>2
    <3>6. c \in InUse(md) /\ md[c].parent = m BY <1>1, <1>2, <1>6, <3>2
    <3>7. \A j \in 0 .. Count(md[m]) - 1 : E(md[m], j).sub = c => j = i
      BY <1>7, <2>3, <3>1, <3>2
    <3> QED BY <3>3, <3>5, <3>6, <3>7 DEF BearsAt
  <2> QED BY <2>1, <2>2, <2>3 DEF Bears
<1>9. rt \in InUse(md) /\ Fits(md[rt], RootBeg, RootEnd) /\ md[rt].parent = NULL
  <2>1. rt \in InUse(nd) /\ nd[rt].parent = NULL /\ Fits(nd[rt], RootBeg, RootEnd)
    BY <1>0, LinkedIs
  <2>2. CASE rt = n BY <1>1, <1>2, <2>1, <2>2 DEF Spans
  <2>3. CASE rt # n BY <1>1, <1>2, <1>6, <2>1, <2>3
  <2> QED BY <2>2, <2>3
<1>10. Linked(rt, md) BY <1>1, <1>3, <1>8, <1>9, LinkedIs
<1>11. Ranked(rt, md) BY <1>0, <1>1, <1>2, <1>6 DEF Ranked
<1> QED BY <1>1, <1>2, <1>3, <1>10, <1>11 DEF Tree, md

(* A new root above the old one.                                           *)
LEMMA NewRootTree ==
  ASSUME NEW rt, NEW nd, Tree(rt, nd), NEW r \in FreeNodes(nd), NEW md \in [Node -> NodeRec],
         md[r] = NewRoot(rt, nd[rt]), md[rt] = [nd[rt] EXCEPT !.parent = r],
         \A m \in Node : m \notin {r, rt} => md[m] = nd[m]
  PROVE  Tree(r, md) /\ InUse(md) = InUse(nd) \union {r} /\ r # rt
<1>0. /\ nd \in [Node -> NodeRec] /\ Kinds(nd) /\ Linked(rt, nd) /\ Ranked(rt, nd)
      /\ r \in Node /\ nd[r].type = "free" /\ r # NULL
  BY NodeAssumption DEF Tree, FreeNodes
<1>1. rt \in InUse(nd) /\ Fits(nd[rt], RootBeg, RootEnd) /\ nd[rt].parent = NULL
  BY <1>0, LinkedIs
<1>2. rt \in Node /\ nd[rt] \in NodeRec /\ r # rt /\ r \notin InUse(nd)
  BY <1>0, <1>1 DEF InUse
<1>3. /\ md[r].type = "I" /\ md[r].parent = NULL /\ Len(md[r].elms) = 2 /\ IsInternal(md[r])
      /\ md[r].elms = <<[base |-> RootBeg, sub |-> rt, mtid |-> 0],
                        [base |-> RootEnd, sub |-> NULL, mtid |-> 0]>>
      /\ E(md[r], 0).sub = rt /\ E(md[r], 0).base = RootBeg /\ E(md[r], 1).base = RootEnd
      /\ Count(md[r]) = 1
  BY DEF NewRoot, IsInternal, Count, E
<1>4. /\ md[rt].type = nd[rt].type /\ md[rt].elms = nd[rt].elms /\ md[rt].parent = r
  BY <1>2 DEF NodeRec
<1>5. /\ InUse(md) = InUse(nd) \union {r}
      /\ \A m \in InUse(nd) : m \in Node /\ m # r /\ md[m].type = nd[m].type /\ md[m].elms = nd[m].elms
      /\ \A m \in InUse(nd) : m # rt => md[m] = nd[m]
  <2>1. ASSUME NEW m \in InUse(nd)
        PROVE  /\ m \in Node /\ m # r /\ (m # rt => md[m] = nd[m])
               /\ md[m].type = nd[m].type /\ md[m].elms = nd[m].elms
    <3>1. m \in Node /\ m # r BY <1>2 DEF InUse
    <3> QED BY <1>4, <3>1
  <2>2. ASSUME NEW m \in Node PROVE m \in InUse(md) <=> m \in InUse(nd) \/ m = r
    <3>1. CASE m = r BY <1>3, <3>1 DEF InUse
    <3>2. CASE m # r
      <4>1. md[m].type = nd[m].type BY <1>4, <3>2
      <4> QED BY <3>2, <4>1 DEF InUse
    <3> QED BY <3>1, <3>2
  <2> QED BY <1>0, <2>1, <2>2 DEF InUse
<1>6. \A m \in InUse(nd) : /\ IsInternal(md[m]) <=> IsInternal(nd[m])
                           /\ Count(md[m]) = Count(nd[m])
                           /\ \A i : E(md[m], i) = E(nd[m], i)
                           /\ \A lo, hi : Fits(md[m], lo, hi) <=> Fits(nd[m], lo, hi)
  BY <1>5 DEF IsInternal, Count, E, Fits
<1>7. Kinds(md)
  <2>1. ASSUME NEW m \in InUse(nd)
        PROVE  md[m].elms \in IF IsInternal(md[m]) THEN Seq(IntElm) ELSE Seq(LeafElm)
    BY <1>0, <1>5, <1>6 DEF Kinds
  <2>2. [base |-> RootBeg, sub |-> rt, mtid |-> 0] \in IntElm
    BY <1>2, RootKeys DEF IntElm
  <2>3. [base |-> RootEnd, sub |-> NULL, mtid |-> 0] \in IntElm
    BY RootKeys DEF IntElm
  <2>4. md[r].elms \in Seq(IntElm) BY <1>3, <2>2, <2>3
  <2> QED BY <1>3, <1>5, <2>1, <2>4 DEF Kinds
<1>8. Fits(md[r], RootBeg, RootEnd)
  <2>0. Cmp(RootBeg, RootEnd) < 0 /\ Cmp(RootBeg, RootBeg) = 0 /\ Cmp(RootEnd, RootEnd) = 0
    BY NodeAssumption DEF Cmp, RootBeg, RootEnd
  <2>1. \A i \in 1 .. 2 : md[r].elms[i].base = IF i = 1 THEN RootBeg ELSE RootEnd
    BY <1>3
  <2>2. Cmp(RootBeg, RootEnd) <= 0 BY <2>0, RootKeys, CmpOrder
  <2> QED BY <1>3, <2>0, <2>1, <2>2 DEF Fits
<1>9. ASSUME NEW m \in InUse(md) PROVE /\ m # r => Attached(md, m)
                                       /\ Sized(md[m]) /\ Bears(md, m)
  <2>1. CASE m = r
    <3>1. Sized(md[r]) BY <1>3, ElmsAssumption DEF Sized
    <3>2. BearsAt(md, r, 0)
      <4>1. \A j \in 0 .. Count(md[r]) - 1 : j = 0 BY <1>3
      <4>2. rt \in InUse(md) /\ Fits(md[rt], RootBeg, RootEnd) /\ md[rt].parent = r
        BY <1>1, <1>4, <1>5, <1>6
      <4>3. 0 + 1 = 1 OBVIOUS
      <4> QED BY <1>3, <4>1, <4>2, <4>3 DEF BearsAt
    <3>3. \A i \in 0 .. Count(md[r]) - 1 : i = 0 BY <1>3
    <3> QED BY <2>1, <3>1, <3>2, <3>3 DEF Bears
  <2>2. CASE m # r
    <3>0. m \in InUse(nd) BY <1>5, <2>2
    <3>1. Sized(md[m]) /\ Bears(nd, m) /\ (m # rt => Attached(nd, m))
      <4>1. Sized(nd[m]) /\ Bears(nd, m) /\ (m # rt => Attached(nd, m)) BY <1>0, <3>0, LinkedIs
      <4> QED BY <1>6, <3>0, <4>1 DEF Sized
    <3>2. Attached(md, m)
      <4>1. CASE m = rt
        <5>1. r \in InUse(md) /\ IsInternal(md[r]) /\ 0 \in 0 .. Count(md[r]) - 1
          BY <1>3, <1>5
        <5> QED BY <1>3, <1>4, <4>1, <5>1 DEF Attached
      <4>2. CASE m # rt
        <5>1. Attached(nd, m) /\ md[m] = nd[m] BY <1>5, <3>0, <3>1, <4>2
        <5> QED BY <1>5, <1>6, <5>1 DEF Attached
      <4> QED BY <4>1, <4>2
    <3>3. ASSUME IsInternal(md[m]), NEW i \in 0 .. Count(md[m]) - 1 PROVE BearsAt(md, m, i)
      <4>1. IsInternal(nd[m]) /\ i \in 0 .. Count(nd[m]) - 1 BY <1>6, <3>0, <3>3
      <4>2. BearsAt(nd, m, i) /\ E(nd[m], i).sub # rt BY <3>0, <3>1, <4>1, Down DEF Bears
      <4> QED BY <1>5, <1>6, <3>0, <4>2 DEF BearsAt
    <3> QED BY <3>1, <3>2, <3>3 DEF Bears
  <2> QED BY <2>1, <2>2
<1>10. Linked(r, md) BY <1>3, <1>5, <1>7, <1>8, <1>9, LinkedIs
<1>11. Ranked(r, md)
  <2>1. PICK h \in [Node -> Nat] : \A m \in InUse(nd) : m # rt => h[nd[m].parent] < h[m]
    BY <1>0 DEF Ranked
  <2> DEFINE g == [m \in Node |-> IF m = r THEN 0 ELSE h[m] + 1]
  <2>2. g \in [Node -> Nat] OBVIOUS
  <2>3. ASSUME NEW m \in InUse(md), m # r PROVE g[md[m].parent] < g[m]
    <3>1. m \in InUse(nd) /\ m \in Node BY <1>5, <2>3
    <3>2. CASE m = rt
      <4>1. md[m].parent = r /\ g[r] = 0 /\ g[m] = h[m] + 1 BY <1>0, <1>4, <2>3, <3>1, <3>2
      <4>2. h[m] \in Nat BY <3>1
      <4> HIDE DEF g
      <4> QED BY <4>1, <4>2
    <3>3. CASE m # rt
      <4>1. md[m].parent = nd[m].parent /\ nd[m].parent \in InUse(nd) BY <1>5, <3>1, <3>3, Up
      <4>2. nd[m].parent \in Node /\ nd[m].parent # r BY <1>5, <4>1
      <4> QED BY <2>1, <2>3, <3>1, <3>3, <4>1, <4>2
    <3> QED BY <3>2, <3>3
  <2> HIDE DEF g
  <2> QED BY <2>2, <2>3 DEF Ranked
<1> QED BY <1>2, <1>5, <1>7, <1>10, <1>11 DEF Tree

(* The two halves of a node, element by element, and the key between.      *)
Halved(x, s, l, r) ==
  /\ l \in NodeRec /\ r \in NodeRec /\ l.type = x.type /\ r.type = x.type
  /\ l.parent = x.parent /\ r.parent = x.parent
  /\ IsInternal(x) => Len(l.elms) = s + 1
  /\ ~IsInternal(x) => Len(l.elms) = s
  /\ Len(r.elms) = Len(x.elms) - s
  /\ l.elms \in IF IsInternal(x) THEN Seq(IntElm) ELSE Seq(LeafElm)
  /\ r.elms \in IF IsInternal(x) THEN Seq(IntElm) ELSE Seq(LeafElm)
  /\ Count(l) = s /\ Count(r) = Count(x) - s
  /\ \A i \in 0 .. s - 1 : E(l, i) = E(x, i)
  /\ IsInternal(x) => E(l, s).base = E(x, s).base
  /\ \A i \in 0 .. Len(x.elms) - s - 1 : E(r, i) = E(x, i + s)

(* The two parts of btree_split_internal and btree_split_leaf, element by  *)
(* element.                                                                *)
LEMMA PartsAre ==
  ASSUME NEW nd \in [Node -> NodeRec], Kinds(nd), NEW n \in InUse(nd),
         NEW s \in 1 .. Count(nd[n]) - 1, NEW x, x = nd[n]
  PROVE  Halved(x, s, LeftPart(x, s), RightPart(x, s))
<1> DEFINE l == LeftPart(x, s)
           r == RightPart(x, s)
<1>1. /\ x \in NodeRec /\ Len(x.elms) \in Nat /\ x.type \in {"I", "L"} BY Shape
<1>2. /\ l.elms = LeftHalf(x, s) /\ r.elms = SubSeq(x.elms, s + 1, Len(x.elms))
      /\ l.type = x.type /\ r.type = x.type /\ l.parent = x.parent /\ r.parent = x.parent
      /\ l.mtid = x.mtid /\ r.mtid = x.mtid
  BY <1>1 DEF LeftPart, RightPart, NodeRec
<1>2a. ASSUME NEW es, es \in Seq(LeafElm) \union Seq(IntElm)
       PROVE  [x EXCEPT !.elms = es] \in NodeRec
  BY <1>1, <1>2a DEF NodeRec
<1>3. CASE IsInternal(x)
  <2>1. x.elms \in Seq(IntElm) /\ Count(x) = Len(x.elms) - 1 BY <1>3, Shape
  <2>2. s \in 1 .. Len(x.elms) - 2 /\ s + 1 \in 1 .. Len(x.elms) BY <1>1, <2>1
  <2> DEFINE a == SubSeq(x.elms, 1, s)
             e == [E(x, s) EXCEPT !.sub = NULL]
  <2>3. a \in Seq(IntElm) /\ Len(a) = s /\ \A j \in 1 .. s : a[j] = x.elms[j]
    <3>1. 1 \in 1 .. Len(x.elms) + 1 /\ s \in 1 - 1 .. Len(x.elms) BY <1>1, <2>2
    <3>2. s - 1 + 1 = s /\ \A j \in 1 .. s : 1 + j - 1 = j BY <2>2
    <3> QED BY <2>1, <3>1, <3>2, SubSeqIs
  <2>4. e \in IntElm /\ e.base = E(x, s).base
    <3>1. E(x, s) \in IntElm BY <1>3, <2>2, Shape DEF E
    <3> QED BY <3>1 DEF IntElm
  <2>5. /\ r.elms \in Seq(IntElm) /\ Len(r.elms) = Len(x.elms) - s
        /\ \A j \in 1 .. Len(x.elms) - s : r.elms[j] = x.elms[s + j]
    <3>1. s + 1 \in 1 .. Len(x.elms) + 1 /\ Len(x.elms) \in s + 1 - 1 .. Len(x.elms)
      BY <1>1, <2>2
    <3>2. Len(x.elms) - (s + 1) + 1 = Len(x.elms) - s BY <1>1
    <3>3. \A j \in 1 .. Len(x.elms) - s : s + 1 + j - 1 = s + j BY <1>1
    <3> HIDE DEF r
    <3> QED BY <1>2, <2>1, <3>1, <3>2, <3>3, SubSeqIs
  <2> HIDE DEF a, e
  <2>6. /\ Append(a, e) \in Seq(IntElm) /\ Len(Append(a, e)) = s + 1
        /\ \A j \in 1 .. s : Append(a, e)[j] = x.elms[j]
        /\ Append(a, e)[s + 1] = e
    BY <2>2, <2>3, <2>4, AppendProperties
  <2>7. l.elms = Append(a, e) BY <1>2, <1>3 DEF LeftHalf, a, e
  <2>8. Count(l) = s /\ Count(r) = Count(x) - s
    <3>1. IsInternal(l) /\ IsInternal(r) BY <1>2, <1>3 DEF IsInternal
    <3> HIDE DEF l, r
    <3> QED BY <1>1, <2>1, <2>2, <2>5, <2>6, <2>7, <3>1 DEF Count
  <2>9. /\ \A i \in 0 .. s - 1 : E(l, i) = E(x, i)
        /\ E(l, s).base = E(x, s).base
        /\ \A i \in 0 .. Len(x.elms) - s - 1 : E(r, i) = E(x, i + s)
    <3> HIDE DEF l, r
    <3>1. \A i \in 0 .. s - 1 : i + 1 \in 1 .. s BY <2>2
    <3>2. \A i \in 0 .. Len(x.elms) - s - 1 :
            i + 1 \in 1 .. Len(x.elms) - s /\ s + (i + 1) = i + s + 1
      BY <1>1, <2>2
    <3> QED BY <2>4, <2>5, <2>6, <2>7, <3>1, <3>2 DEF E
  <2>10. l \in NodeRec /\ r \in NodeRec
    <3>1. l = [x EXCEPT !.elms = Append(a, e)] BY <1>3 DEF LeftPart, LeftHalf, a, e
    <3>2. r = [x EXCEPT !.elms = SubSeq(x.elms, s + 1, Len(x.elms))] BY DEF RightPart
    <3> HIDE DEF l, r
    <3> QED BY <1>2, <1>2a, <2>5, <2>6, <3>1, <3>2
  <2> QED BY <1>2, <1>3, <2>5, <2>6, <2>7, <2>8, <2>9, <2>10 DEF Halved
<1>4. CASE ~IsInternal(x)
  <2>1. x.elms \in Seq(LeafElm) /\ Count(x) = Len(x.elms) BY <1>4, Shape
  <2>2. s \in 1 .. Len(x.elms) - 1 BY <1>1, <2>1
  <2>3. l.elms \in Seq(LeafElm) /\ Len(l.elms) = s /\ \A j \in 1 .. s : l.elms[j] = x.elms[j]
    <3>1. 1 \in 1 .. Len(x.elms) + 1 /\ s \in 1 - 1 .. Len(x.elms) BY <1>1, <2>2
    <3>2. s - 1 + 1 = s /\ \A j \in 1 .. s : 1 + j - 1 = j BY <2>2
    <3>3. l.elms = SubSeq(x.elms, 1, s) BY <1>2, <1>4 DEF LeftHalf
    <3> HIDE DEF l
    <3> QED BY <2>1, <3>1, <3>2, <3>3, SubSeqIs
  <2>5. /\ r.elms \in Seq(LeafElm) /\ Len(r.elms) = Len(x.elms) - s
        /\ \A j \in 1 .. Len(x.elms) - s : r.elms[j] = x.elms[s + j]
    <3>1. s + 1 \in 1 .. Len(x.elms) + 1 /\ Len(x.elms) \in s + 1 - 1 .. Len(x.elms)
      BY <1>1, <2>2
    <3>2. Len(x.elms) - (s + 1) + 1 = Len(x.elms) - s BY <1>1
    <3>3. \A j \in 1 .. Len(x.elms) - s : s + 1 + j - 1 = s + j BY <1>1
    <3> HIDE DEF r
    <3> QED BY <1>2, <2>1, <3>1, <3>2, <3>3, SubSeqIs
  <2>8. Count(l) = s /\ Count(r) = Count(x) - s
    <3>1. ~IsInternal(l) /\ ~IsInternal(r) BY <1>2, <1>4 DEF IsInternal
    <3> HIDE DEF l, r
    <3> QED BY <1>1, <2>1, <2>2, <2>5, <2>3, <3>1 DEF Count
  <2>9. /\ \A i \in 0 .. s - 1 : E(l, i) = E(x, i)
        /\ \A i \in 0 .. Len(x.elms) - s - 1 : E(r, i) = E(x, i + s)
    <3> HIDE DEF l, r
    <3>1. \A i \in 0 .. s - 1 : i + 1 \in 1 .. s BY <2>2
    <3>2. \A i \in 0 .. Len(x.elms) - s - 1 :
            i + 1 \in 1 .. Len(x.elms) - s /\ s + (i + 1) = i + s + 1
      BY <1>1, <2>2
    <3> QED BY <2>3, <2>5, <3>1, <3>2 DEF E
  <2>10. l \in NodeRec /\ r \in NodeRec
    <3>1. l = [x EXCEPT !.elms = l.elms] /\ r = [x EXCEPT !.elms = r.elms]
      BY <1>2 DEF LeftPart, RightPart
    <3> HIDE DEF l, r
    <3> QED BY <1>2a, <2>3, <2>5, <3>1
  <2> QED BY <1>2, <1>4, <2>3, <2>5, <2>8, <2>9, <2>10 DEF Halved
<1> QED BY <1>3, <1>4

(* The separator lies strictly between the bounds of the node, and each    *)
(* part of a split lies within the bounds it gets.                         *)
LEMMA PartsFit ==
  ASSUME NEW nd \in [Node -> NodeRec], Kinds(nd), NEW n \in InUse(nd),
         NEW s \in 1 .. Count(nd[n]) - 1, NEW x, x = nd[n],
         NEW lo \in AnyKey, NEW hi \in AnyKey, Fits(x, lo, hi)
  PROVE  /\ SplitKey(x, s) \in AnyKey
         /\ Cmp(lo, SplitKey(x, s)) < 0 /\ Cmp(SplitKey(x, s), hi) < 0
         /\ Fits(LeftPart(x, s), lo, SplitKey(x, s))
         /\ Fits(RightPart(x, s), SplitKey(x, s), hi)
         /\ ~IsInternal(x) => /\ Cmp(E(x, s - 1).base, SplitKey(x, s)) < 0
                              /\ Cmp(SplitKey(x, s), E(x, s).base) <= 0
<1> DEFINE l == LeftPart(x, s)
           r == RightPart(x, s)
           k == SplitKey(x, s)
           B(i) == x.elms[i].base
<1>0. /\ Len(x.elms) \in Nat /\ \A i \in 1 .. Len(x.elms) : B(i) \in AnyKey BY Shape
<1>1. Count(x) = IF IsInternal(x) THEN Len(x.elms) - 1 ELSE Len(x.elms) BY DEF Count
<1>2. s \in 1 .. Len(x.elms) - 1 /\ (IsInternal(x) => s + 1 \in 1 .. Len(x.elms) - 1)
  BY <1>0, <1>1
<1>3. /\ \A i \in 1 .. Len(x.elms) : /\ Cmp(lo, B(i)) <= 0
                                     /\ Cmp(B(i), hi) <= IF IsInternal(x) THEN 0 ELSE -1
      /\ \A i, j \in 1 .. Len(x.elms) : i < j => Cmp(B(i), B(j)) < 0
  BY DEF Fits
<1>4. E(x, s).base = B(s + 1) /\ E(x, s - 1).base = B(s) BY <1>2 DEF E
<1>5. /\ k \in AnyKey /\ Cmp(B(s), k) < 0 /\ Cmp(k, B(s + 1)) <= 0
  <2>1. CASE IsInternal(x)
    <3>1. k = B(s + 1) BY <1>4, <2>1 DEF SplitKey
    <3> QED BY <1>0, <1>2, <1>3, <3>1, CmpOrder
  <2>2. CASE ~IsInternal(x)
    <3>1. k = Separator(B(s), B(s + 1)) BY <1>4, <2>2 DEF SplitKey
    <3>2. B(s) \in AnyKey /\ B(s + 1) \in AnyKey /\ Cmp(B(s), B(s + 1)) < 0 BY <1>0, <1>2, <1>3
    <3> HIDE DEF k, B
    <3> QED BY <3>1, <3>2, SeparatorBetween
  <2> QED BY <2>1, <2>2
<1>6. IsInternal(x) => k = B(s + 1) BY <1>4 DEF SplitKey
<1> HIDE DEF k
<1>7. Cmp(lo, k) < 0
  <2>1. B(s) \in AnyKey /\ Cmp(lo, B(s)) <= 0 BY <1>0, <1>2, <1>3
  <2> HIDE DEF B
  <2> QED BY <1>5, <2>1, CmpOrder
<1>8. Cmp(k, hi) < 0
  <2>1. CASE IsInternal(x)
    <3>1. s + 1 \in 1 .. Len(x.elms) /\ Len(x.elms) \in 1 .. Len(x.elms) /\ s + 1 < Len(x.elms)
      BY <1>0, <1>2, <2>1
    <3>2. Cmp(k, B(Len(x.elms))) < 0 /\ Cmp(B(Len(x.elms)), hi) <= 0
      BY <1>3, <1>6, <2>1, <3>1
    <3>3. B(Len(x.elms)) \in AnyKey BY <1>0, <3>1
    <3> HIDE DEF B
    <3> QED BY <1>5, <3>2, <3>3, CmpOrder
  <2>2. CASE ~IsInternal(x)
    <3>1. B(s + 1) \in AnyKey /\ Cmp(B(s + 1), hi) <= -1 BY <1>0, <1>2, <1>3, <2>2
    <3> HIDE DEF B
    <3>2. Cmp(B(s + 1), hi) < 0 BY <3>1, CmpOrder
    <3> QED BY <1>5, <3>1, <3>2, CmpOrder
  <2> QED BY <2>1, <2>2
<1>9. /\ l.type = x.type /\ r.type = x.type
      /\ (IsInternal(x) => Len(l.elms) = s + 1) /\ (~IsInternal(x) => Len(l.elms) = s)
      /\ Len(r.elms) = Len(x.elms) - s
      /\ \A i \in 0 .. s - 1 : E(l, i) = E(x, i)
      /\ IsInternal(x) => E(l, s).base = E(x, s).base
      /\ \A i \in 0 .. Len(x.elms) - s - 1 : E(r, i) = E(x, i + s)
  <2>1. Halved(x, s, l, r) BY PartsAre
  <2> HIDE DEF l, r, B
  <2> QED BY <2>1 DEF Halved
<1> HIDE DEF l, r
<1>9a. Len(l.elms) \in Nat /\ Len(r.elms) \in Nat BY <1>0, <1>2, <1>9
<1>10. \A i \in 1 .. Len(l.elms) : i \in 1 .. Len(x.elms) /\ l.elms[i].base = B(i)
  <2> SUFFICES ASSUME NEW i \in 1 .. Len(l.elms)
               PROVE  i \in 1 .. Len(x.elms) /\ l.elms[i].base = B(i) OBVIOUS
  <2>1. CASE i <= s
    <3>0. s \in Nat /\ Len(x.elms) \in Nat /\ Len(l.elms) \in Nat BY <1>0, <1>2, <1>9a
    <3>1. i - 1 \in 0 .. s - 1 /\ i - 1 + 1 = i BY <2>1, <3>0
    <3>2. E(l, i - 1) = l.elms[i] /\ E(x, i - 1) = x.elms[i] BY <3>1 DEF E
    <3>3. E(l, i - 1) = E(x, i - 1) BY <1>9, <3>1
    <3>4. i \in 1 .. Len(x.elms) BY <1>2, <2>1, <3>0
    <3> QED BY <3>2, <3>3, <3>4
  <2>2. CASE i > s
    <3>1. i = s + 1 /\ IsInternal(x) BY <1>0, <1>2, <1>9, <1>9a, <2>2
    <3> QED BY <1>0, <1>2, <1>9, <1>9a, <3>1 DEF E
  <2> QED BY <1>2, <2>1, <2>2
<1>11. \A i \in 1 .. Len(r.elms) : i + s \in 1 .. Len(x.elms) /\ r.elms[i].base = B(i + s)
  <2> SUFFICES ASSUME NEW i \in 1 .. Len(r.elms)
               PROVE  i + s \in 1 .. Len(x.elms) /\ r.elms[i].base = B(i + s) OBVIOUS
  <2>a. Len(r.elms) \in Nat /\ Len(x.elms) \in Nat /\ s \in Nat /\ Len(r.elms) = Len(x.elms) - s
     BY <1>0, <1>2, <1>9, <1>9a
  <2>b. i \in Nat /\ i >= 1 /\ i <= Len(r.elms) BY <2>a
  <2>c. i - 1 \in 0 .. Len(x.elms) - s - 1 BY <2>a, <2>b
  <2>d. i - 1 + 1 = i BY <2>a, <2>b
  <2>e. i - 1 + s + 1 = i + s BY <2>a, <2>b
  <2>f. E(r, i - 1) = r.elms[i] /\ E(x, i - 1 + s) = x.elms[i + s] BY <2>d, <2>e DEF E
  <2>g. E(r, i - 1) = E(x, i - 1 + s) BY <1>9, <2>c
  <2>h. i + s \in 1 .. Len(x.elms) BY <2>a, <2>b
  <2> QED BY <2>f, <2>g, <2>h
<1>12. (IsInternal(l) <=> IsInternal(x)) /\ (IsInternal(r) <=> IsInternal(x))
  BY <1>9, <1>9a DEF IsInternal
<1>13. Fits(l, lo, k)
  <2>1. ASSUME NEW i \in 1 .. Len(l.elms)
        PROVE  /\ Cmp(lo, l.elms[i].base) <= 0
               /\ Cmp(l.elms[i].base, k) <= IF IsInternal(l) THEN 0 ELSE -1
    <3>1. i \in 1 .. Len(x.elms) /\ l.elms[i].base = B(i) /\ B(i) \in AnyKey BY <1>0, <1>10
    <3>2. CASE i <= s
      <4>1. i = s \/ Cmp(B(i), B(s)) < 0 BY <1>0, <1>2, <1>3, <3>1, <3>2
      <4>2. B(s) \in AnyKey BY <1>0, <1>2
      <4>3. B(i) = B(s) \/ Cmp(B(i), B(s)) < 0 BY <4>1
      <4>4. Cmp(B(i), k) \in {-2, -1, 0, 1, 2} BY <1>5, <3>1, CmpOrder
      <4>5. Cmp(B(i), k) < 0
        <5> HIDE DEF B
        <5>1. CASE B(i) = B(s) BY <1>5, <5>1
        <5>2. CASE Cmp(B(i), B(s)) < 0
          <6>1. Cmp(B(s), k) <= 0 BY <1>5, <4>2, CmpOrder
          <6> QED BY <1>5, <3>1, <4>2, <5>2, <6>1, CmpOrder
        <5> QED BY <4>3, <5>1, <5>2
      <4> QED BY <1>3, <3>1, <4>4, <4>5
    <3>3. CASE i > s
      <4>1. i = s + 1 /\ IsInternal(x) BY <1>2, <1>9, <1>9a, <3>1, <3>3
      <4>2. Cmp(B(i), k) = 0 BY <1>5, <1>6, <4>1, <3>1, CmpOrder
      <4> QED BY <1>3, <1>12, <3>1, <4>1, <4>2
    <3> QED BY <1>2, <3>1, <3>2, <3>3
  <2>2. ASSUME NEW i \in 1 .. Len(l.elms), NEW j \in 1 .. Len(l.elms), i < j
        PROVE  Cmp(l.elms[i].base, l.elms[j].base) < 0
    BY <1>3, <1>10, <2>2
  <2> QED BY <2>1, <2>2 DEF Fits
<1>14. Fits(r, k, hi)
  <2>1. ASSUME NEW i \in 1 .. Len(r.elms)
        PROVE  /\ Cmp(k, r.elms[i].base) <= 0
               /\ Cmp(r.elms[i].base, hi) <= IF IsInternal(r) THEN 0 ELSE -1
    <3>1. /\ i + s \in 1 .. Len(x.elms) /\ r.elms[i].base = B(i + s) /\ B(i + s) \in AnyKey
          /\ B(s + 1) \in AnyKey
      BY <1>0, <1>2, <1>11
    <3>0. i \in Nat /\ i >= 1 /\ s \in Nat /\ Len(x.elms) \in Nat BY <1>0, <1>2, <1>9a
    <3>2. i = 1 \/ Cmp(B(s + 1), B(i + s)) < 0
      <4>1. s + 1 \in 1 .. Len(x.elms) BY <1>2, <3>0
      <4>2. i # 1 => s + 1 < i + s BY <3>0
      <4> QED BY <1>3, <3>1, <4>1, <4>2
    <3>3. B(s + 1) = B(i + s) \/ Cmp(B(s + 1), B(i + s)) < 0 BY <1>2, <3>2
    <3>4. Cmp(k, B(i + s)) <= 0
      <4> HIDE DEF B
      <4>1. Cmp(B(s + 1), B(i + s)) < 0 => Cmp(B(s + 1), B(i + s)) <= 0 BY <3>1, CmpOrder
      <4> QED BY <1>5, <3>1, <3>3, <4>1, CmpOrder
    <3> QED BY <1>3, <1>12, <3>1, <3>4
  <2>2. ASSUME NEW i \in 1 .. Len(r.elms), NEW j \in 1 .. Len(r.elms), i < j
        PROVE  Cmp(r.elms[i].base, r.elms[j].base) < 0
    BY <1>0, <1>2, <1>3, <1>9, <1>9a, <1>11, <2>2
  <2> QED BY <2>1, <2>2 DEF Fits
<1> QED BY <1>4, <1>5, <1>7, <1>8, <1>13, <1>14 DEF k, l, r

(* The parent with the new half behind the old node.                       *)
Extended(y, pi, e, z) ==
  /\ z \in NodeRec /\ z.type = "I" /\ z.parent = y.parent /\ IsInternal(z)
  /\ z.elms \in Seq(IntElm) /\ Count(z) = Count(y) + 1 /\ Len(z.elms) = Len(y.elms) + 1
  /\ \A i \in 0 .. pi : E(z, i) = E(y, i)
  /\ E(z, pi + 1) = e
  /\ \A i \in pi + 2 .. Count(z) : E(z, i) = E(y, i - 1)
  /\ \A lo, hi \in AnyKey : Fits(y, lo, hi) => Fits(z, lo, hi)

(* The parent of a split node stays sorted and within its bounds when the  *)
(* separator is put in.                                                    *)
LEMMA SiblingFits ==
  ASSUME NEW nd \in [Node -> NodeRec], Kinds(nd), NEW a \in InUse(nd), IsInternal(nd[a]),
         NEW pi \in 0 .. Count(nd[a]) - 1, NEW e \in IntElm,
         Cmp(E(nd[a], pi).base, e.base) < 0, Cmp(e.base, E(nd[a], pi + 1).base) < 0,
         NEW y, y = nd[a]
  PROVE  Extended(y, pi, e, WithSibling(y, pi, e))
<1> DEFINE z == WithSibling(y, pi, e)
           B(i) == y.elms[i].base
<1>0. /\ y \in NodeRec /\ Len(y.elms) \in Nat /\ \A i \in 1 .. Len(y.elms) : B(i) \in AnyKey
      /\ y.elms \in Seq(IntElm) /\ Count(y) = Len(y.elms) - 1 /\ y.type = "I"
  BY Shape DEF IsInternal
<1>1. pi \in Nat /\ pi + 2 \in 1 .. Len(y.elms) /\ pi + 1 \in 1 .. Len(y.elms) BY <1>0
<1>2. /\ z.elms = InsertAt(y.elms, pi + 2, e) /\ z.type = "I" /\ z.parent = y.parent
      /\ z.mtid = y.mtid /\ IsInternal(z)
  BY <1>0 DEF WithSibling, NodeRec, IsInternal
<1>3. /\ z.elms \in Seq(IntElm) /\ Len(z.elms) = Len(y.elms) + 1
      /\ \A j \in 1 .. Len(y.elms) + 1 :
           z.elms[j] = IF j < pi + 2 THEN y.elms[j] ELSE IF j = pi + 2 THEN e ELSE y.elms[j - 1]
  <2> DEFINE q == pi + 2
  <2>1. q \in 1 .. Len(y.elms) + 1 BY <1>0, <1>1
  <2> HIDE DEF z, q
  <2>2. z.elms = InsertAt(y.elms, q, e) BY <1>2 DEF q
  <2>3. /\ z.elms \in Seq(IntElm) /\ Len(z.elms) = Len(y.elms) + 1
        /\ \A j \in 1 .. q - 1 : z.elms[j] = y.elms[j]
        /\ z.elms[q] = e
        /\ \A j \in q .. Len(y.elms) : z.elms[j + 1] = y.elms[j]
    <3>0. q \in Nat /\ Len(y.elms) \in Nat BY <1>0, <2>1
    <3>1. y.elms \in Seq(IntElm) BY <1>0
    <3>2. z.elms \in Seq(IntElm) /\ Inserted(z.elms, y.elms, q, e)
      BY <2>1, <2>2, <3>1, InsertAtIs
    <3> QED BY <3>2 DEF Inserted
  <2>4. ASSUME NEW j \in 1 .. Len(y.elms) + 1
        PROVE  z.elms[j] = IF j < q THEN y.elms[j] ELSE IF j = q THEN e ELSE y.elms[j - 1]
    <3>1. q \in Nat /\ Len(y.elms) \in Nat /\ j \in Nat BY <1>0, <2>1
    <3>2. CASE j > q
      <4>1. j - 1 \in q .. Len(y.elms) /\ j - 1 + 1 = j BY <3>1, <3>2
      <4>2. z.elms[j - 1 + 1] = y.elms[j - 1] BY <2>3, <4>1
      <4> QED BY <3>1, <3>2, <4>1, <4>2
    <3>3. CASE j < q BY <2>3, <3>1, <3>3
    <3>4. CASE j = q BY <2>3, <3>1, <3>4
    <3> QED BY <3>1, <3>2, <3>3, <3>4
  <2> QED BY <2>3, <2>4 DEF q
<1>4. z \in NodeRec
  <2>1. z = [y EXCEPT !.elms = z.elms] BY <1>2 DEF WithSibling
  <2>2. \A es \in Seq(IntElm) : [y EXCEPT !.elms = es] \in NodeRec BY <1>0 DEF NodeRec
  <2> HIDE DEF z
  <2> QED BY <1>3, <2>1, <2>2
<1> HIDE DEF z
<1>5. Count(z) = Count(y) + 1 BY <1>0, <1>2, <1>3 DEF Count
<1>6. /\ \A i \in 0 .. pi : E(z, i) = E(y, i)
      /\ E(z, pi + 1) = e
      /\ \A i \in pi + 2 .. Count(z) : E(z, i) = E(y, i - 1)
  <2>1. \A i \in 0 .. pi : i + 1 \in 1 .. Len(y.elms) + 1 /\ i + 1 < pi + 2 BY <1>0, <1>1
  <2>2. \A i \in pi + 2 .. Count(z) :
          i + 1 \in 1 .. Len(y.elms) + 1 /\ i + 1 > pi + 2 /\ i + 1 - 1 = i - 1 + 1
    BY <1>0, <1>1, <1>5
  <2>3. pi + 1 + 1 = pi + 2 /\ pi + 2 \in 1 .. Len(y.elms) + 1 BY <1>0, <1>1
  <2>4. ASSUME NEW i \in pi + 2 .. Count(z) PROVE E(z, i) = E(y, i - 1)
    <3>1. i + 1 \in 1 .. Len(y.elms) + 1 /\ i + 1 > pi + 2 /\ i + 1 - 1 = i - 1 + 1 BY <2>2
    <3>2. ~(i + 1 < pi + 2) /\ i + 1 # pi + 2 BY <1>0, <1>5, <3>1
    <3> QED BY <1>3, <3>1, <3>2 DEF E
  <2> QED BY <1>3, <2>1, <2>3, <2>4 DEF E
<1>7. ASSUME NEW lo \in AnyKey, NEW hi \in AnyKey, Fits(y, lo, hi) PROVE Fits(z, lo, hi)
  <2> DEFINE k == e.base
             F(i) == IF i < pi + 2 THEN B(i) ELSE IF i = pi + 2 THEN k ELSE B(i - 1)
  <2>0. /\ \A i \in 1 .. Len(y.elms) : Cmp(lo, B(i)) <= 0 /\ Cmp(B(i), hi) <= 0
        /\ \A i, j \in 1 .. Len(y.elms) : i < j => Cmp(B(i), B(j)) < 0
    BY <1>0, <1>7 DEF Fits, IsInternal
  <2>1. k \in AnyKey /\ Cmp(B(pi + 1), k) < 0 /\ Cmp(k, B(pi + 2)) < 0
    <3>1. pi + 1 + 1 = pi + 2 OBVIOUS
    <3> QED BY <3>1 DEF E, IntElm
  <2>2. \A i \in 1 .. Len(z.elms) : z.elms[i].base = F(i) BY <1>3
  <2> HIDE DEF k
  <2>3. ASSUME NEW i \in 1 .. Len(z.elms)
        PROVE  F(i) \in AnyKey /\ Cmp(lo, F(i)) <= 0 /\ Cmp(F(i), hi) <= 0
    <3>1. CASE i < pi + 2
      <4>1. i \in 1 .. Len(y.elms) BY <1>0, <1>1, <3>1
      <4> QED BY <1>0, <2>0, <3>1, <4>1
    <3>2. CASE i > pi + 2
      <4>1. i - 1 \in 1 .. Len(y.elms) /\ ~(i < pi + 2) /\ i # pi + 2 BY <1>0, <1>1, <1>3, <3>2
      <4> QED BY <1>0, <2>0, <4>1
    <3>3. CASE i = pi + 2
      <4>1. F(i) = k BY <3>3
      <4>2. /\ B(pi + 1) \in AnyKey /\ B(pi + 2) \in AnyKey
            /\ Cmp(lo, B(pi + 1)) <= 0 /\ Cmp(B(pi + 2), hi) <= 0
        BY <1>0, <1>1, <2>0
      <4> HIDE DEF B, F
      <4>3. Cmp(B(pi + 1), k) <= 0 /\ Cmp(k, B(pi + 2)) <= 0 BY <2>1, <4>2, CmpOrder
      <4>4. Cmp(lo, k) <= 0 BY <2>1, <4>2, <4>3, CmpOrder
      <4>5. Cmp(k, hi) <= 0 BY <2>1, <4>2, <4>3, CmpOrder
      <4> QED BY <2>1, <4>1, <4>4, <4>5
    <3> QED BY <1>1, <3>1, <3>2, <3>3
  <2>4. ASSUME NEW i \in 1 .. Len(z.elms), NEW j \in 1 .. Len(z.elms), i < j
        PROVE  Cmp(F(i), F(j)) < 0
    <3>0. i \in 1 .. Len(y.elms) + 1 /\ j \in 1 .. Len(y.elms) + 1 BY <1>3
    <3>1. CASE i # pi + 2 /\ j # pi + 2
      <4>1. PICK u \in Int : u = IF i < pi + 2 THEN i ELSE i - 1 BY <1>0, <3>0
      <4>2. PICK v \in Int : v = IF j < pi + 2 THEN j ELSE j - 1 BY <1>0, <3>0
      <4>a. /\ i \in Nat /\ j \in Nat /\ pi \in Nat /\ Len(y.elms) \in Nat
            /\ i >= 1 /\ j <= Len(y.elms) + 1 /\ i <= Len(y.elms) + 1 /\ pi + 2 <= Len(y.elms)
        BY <1>0, <1>1, <3>0
      <4>3. u \in 1 .. Len(y.elms) /\ v \in 1 .. Len(y.elms) /\ u < v
        BY <2>4, <3>1, <4>1, <4>2, <4>a
      <4>4. F(i) = B(u) /\ F(j) = B(v) BY <3>1, <4>1, <4>2
      <4> HIDE DEF F
      <4> QED BY <2>0, <4>3, <4>4
    <3>2. CASE i = pi + 2
      <4>1. j > pi + 2 /\ F(i) = k /\ F(j) = B(j - 1) BY <1>1, <1>0, <2>4, <3>2
      <4>2. j - 1 \in 1 .. Len(y.elms) /\ j - 1 >= pi + 2 BY <1>0, <1>1, <1>3, <4>1
      <4>3. j - 1 = pi + 2 \/ Cmp(B(pi + 2), B(j - 1)) < 0
        <5>1. pi + 2 \in 1 .. Len(y.elms) /\ j - 1 \in Int /\ pi \in Int BY <1>0, <1>1, <4>2
        <5>2. j - 1 = pi + 2 \/ pi + 2 < j - 1 BY <4>2, <5>1
        <5> QED BY <2>0, <4>2, <5>1, <5>2
      <4>4. B(j - 1) = B(pi + 2) \/ Cmp(B(pi + 2), B(j - 1)) < 0 BY <4>3
      <4>5. B(pi + 2) \in AnyKey /\ B(j - 1) \in AnyKey BY <1>0, <1>1, <4>2
      <4> HIDE DEF B, F
      <4>6. Cmp(k, B(pi + 2)) <= 0 BY <2>1, <4>5, CmpOrder
      <4> QED BY <2>1, <4>1, <4>4, <4>5, <4>6, CmpOrder
    <3>3. CASE j = pi + 2
      <4>1. i < pi + 2 /\ F(j) = k /\ F(i) = B(i) BY <2>4, <3>3
      <4>2. i \in 1 .. Len(y.elms) /\ i <= pi + 1 BY <1>0, <1>1, <4>1
      <4>3. i = pi + 1 \/ Cmp(B(i), B(pi + 1)) < 0 BY <1>0, <1>1, <2>0, <4>2
      <4>4. B(i) = B(pi + 1) \/ Cmp(B(i), B(pi + 1)) < 0 BY <4>3
      <4>5. B(pi + 1) \in AnyKey /\ B(i) \in AnyKey BY <1>0, <1>1, <4>2
      <4> HIDE DEF B, F
      <4>6. Cmp(B(pi + 1), k) <= 0 BY <2>1, <4>5, CmpOrder
      <4> QED BY <2>1, <4>1, <4>4, <4>5, <4>6, CmpOrder
    <3> QED BY <3>1, <3>2, <3>3
  <2> HIDE DEF F, B
  <2> QED BY <1>2, <2>2, <2>3, <2>4 DEF Fits
<1> QED BY <1>2, <1>3, <1>4, <1>5, <1>6, <1>7 DEF z, Extended

(* A node n below a is split: md is the tree with the two halves.          *)
Splits(nd, n, nn, s, pi, md) ==
  LET x == nd[n]
      a == x.parent
      e == [base |-> SplitKey(x, s), sub |-> nn, mtid |-> x.mtid]
      K == Children(RightPart(x, s))
  IN /\ md \in [Node -> NodeRec]
     /\ md[n] = LeftPart(x, s) /\ md[nn] = RightPart(x, s)
     /\ md[a] = WithSibling(nd[a], pi, e)
     /\ \A m \in K : md[m] = [nd[m] EXCEPT !.parent = nn]
     /\ \A m \in Node : m \notin K /\ m \notin {n, nn, a} => md[m] = nd[m]

(* Nobody is the parent of its parent.                                     *)
LEMMA Elder ==
  ASSUME NEW rt, NEW nd, Tree(rt, nd), NEW n \in InUse(nd), n # rt,
         NEW c \in InUse(nd), nd[c].parent = n
  PROVE  c # nd[n].parent /\ c # n /\ c # rt
<1>1. PICK h \in [Node -> Nat] : \A m \in InUse(nd) : m # rt => h[nd[m].parent] < h[m]
  BY DEF Tree, Ranked
<1>2. n # NULL BY Shape DEF Tree
<1>3. c # rt BY <1>2, Up
<1>4. nd[n].parent \in InUse(nd) BY Up
<1>5. n \in Node /\ c \in Node /\ nd[n].parent \in Node BY <1>4 DEF InUse
<1>6. h[n] \in Nat /\ h[c] \in Nat /\ h[nd[n].parent] \in Nat BY <1>5
<1>7. h[n] < h[c] /\ h[nd[n].parent] < h[n] BY <1>1, <1>3
<1> QED BY <1>3, <1>6, <1>7

(* A split below a parent that has room keeps the tree.                    *)
LEMMA SplitTree ==
  ASSUME NEW rt, NEW nd, Tree(rt, nd), NEW n \in InUse(nd), n # rt,
         NEW nn \in FreeNodes(nd), NEW s \in 1 .. Count(nd[n]) - 1,
         NEW pi \in 0 .. Count(nd[nd[n].parent]) - 1, E(nd[nd[n].parent], pi).sub = n,
         Count(nd[nd[n].parent]) < INT_ELMS, NEW md, Splits(nd, n, nn, s, pi, md)
  PROVE  Tree(rt, md) /\ InUse(md) = InUse(nd) \union {nn}
<1> DEFINE x == nd[n]
           a == x.parent
           k == SplitKey(x, s)
           e == [base |-> k, sub |-> nn, mtid |-> x.mtid]
           l == LeftPart(x, s)
           r == RightPart(x, s)
           z == WithSibling(nd[a], pi, e)
           K == Children(r)
<1>0. /\ nd \in [Node -> NodeRec] /\ Kinds(nd) /\ Linked(rt, nd) /\ Ranked(rt, nd)
      /\ nn \in Node /\ nd[nn].type = "free" /\ nn # NULL /\ nn \notin InUse(nd)
  BY NodeAssumption DEF Tree, FreeNodes, InUse
<1>1. a \in InUse(nd) /\ IsInternal(nd[a]) /\ a # n /\ a # NULL BY Up
<1>2. /\ x \in NodeRec /\ Len(x.elms) \in Nat /\ Count(x) \in Int /\ x.mtid \in Nat
      /\ IsInternal(x) => Count(x) = Len(x.elms) - 1
      /\ ~IsInternal(x) => Count(x) = Len(x.elms)
  <2>1. x \in NodeRec BY <1>0, Shape
  <2> QED BY <1>0, <2>1, Shape DEF NodeRec
<1>2a. s \in Nat /\ 1 <= s /\ s < Count(x) BY <1>2
<1>2b. pi \in Nat /\ Count(nd[a]) \in Nat /\ pi < Count(nd[a])
  BY <1>0, <1>1, Shape
<1>3. Halved(x, s, l, r) BY <1>0, PartsAre
<1>4. /\ Fits(x, E(nd[a], pi).base, E(nd[a], pi + 1).base)
      /\ E(nd[a], pi).base \in AnyKey /\ E(nd[a], pi + 1).base \in AnyKey
      /\ \A j \in 0 .. Count(nd[a]) - 1 : E(nd[a], j).sub = n => j = pi
  BY <1>1, Down
<1>5. /\ k \in AnyKey /\ Cmp(E(nd[a], pi).base, k) < 0 /\ Cmp(k, E(nd[a], pi + 1).base) < 0
      /\ Fits(l, E(nd[a], pi).base, k) /\ Fits(r, k, E(nd[a], pi + 1).base)
  BY <1>0, <1>4, PartsFit
<1>6. Extended(nd[a], pi, e, z) /\ e.sub = nn /\ e.base = k
  <2>1. e \in IntElm /\ e.base = k /\ e.sub = nn BY <1>0, <1>2, <1>5 DEF IntElm
  <2> HIDE DEF e
  <2> QED BY <1>0, <1>1, <1>5, <2>1, SiblingFits
<1>7. /\ md \in [Node -> NodeRec] /\ md[n] = l /\ md[nn] = r /\ md[a] = z
      /\ \A m \in K : md[m] = [nd[m] EXCEPT !.parent = nn]
      /\ \A m \in Node : m \notin K /\ m \notin {n, nn, a} => md[m] = nd[m]
  BY DEF Splits
<1> HIDE DEF l, r, z, k, e
<1>8. \A m : m \in K <=> IsInternal(x) /\ \E i \in s .. Count(x) - 1 : E(x, i).sub = m
  <2>1. (IsInternal(r) <=> IsInternal(x)) /\ Count(r) = Count(x) - s
    BY <1>3 DEF Halved, IsInternal
  <2>2. ASSUME NEW m, m \in K PROVE IsInternal(x) /\ \E i \in s .. Count(x) - 1 : E(x, i).sub = m
    <3>1. IsInternal(x) BY <2>1, <2>2 DEF Children
    <3>2. PICK j \in 0 .. Count(x) - s - 1 : m = E(r, j).sub BY <2>1, <2>2, <3>1 DEF Children
    <3>3. j \in 0 .. Len(x.elms) - s - 1 /\ j + s \in s .. Count(x) - 1 BY <1>2, <1>2a, <3>1
    <3>4. E(r, j) = E(x, j + s) BY <1>3, <3>3 DEF Halved
    <3> QED BY <3>1, <3>2, <3>3, <3>4
  <2>3. ASSUME NEW m, IsInternal(x), NEW i \in s .. Count(x) - 1, E(x, i).sub = m PROVE m \in K
    <3>1. i - s \in 0 .. Len(x.elms) - s - 1 /\ i - s + s = i /\ i - s \in 0 .. Count(x) - s - 1
      BY <1>2, <1>2a, <2>3
    <3>2. E(r, i - s) = E(x, i) BY <1>3, <3>1 DEF Halved
    <3> QED BY <2>1, <2>3, <3>1, <3>2 DEF Children
  <2> QED BY <2>2, <2>3
<1>9. ASSUME NEW i \in 0 .. Count(x) - 1, IsInternal(x)
      PROVE  LET c == E(x, i).sub IN
             /\ c \in InUse(nd) /\ nd[c].parent = n /\ c # n /\ c # a /\ c # nn /\ c # rt
             /\ (c \in K <=> i >= s)
             /\ \A j \in 0 .. Count(x) - 1 : E(x, j).sub = c => j = i
             /\ Fits(nd[c], E(x, i).base, E(x, i + 1).base)
  <2> DEFINE c == E(x, i).sub
  <2>1. /\ c \in InUse(nd) /\ nd[c].parent = n
        /\ \A j \in 0 .. Count(x) - 1 : E(x, j).sub = c => j = i
        /\ Fits(nd[c], E(x, i).base, E(x, i + 1).base)
    BY <1>9, Down
  <2>2. c # a /\ c # n /\ c # rt BY <2>1, Elder
  <2>3. c \in K <=> i >= s
    <3>1. i \in Int /\ s .. Count(x) - 1 \subseteq 0 .. Count(x) - 1 BY <1>2, <1>2a
    <3>2. c \in K => i >= s BY <1>2, <1>2a, <1>8, <2>1, <3>1
    <3>3. i >= s => i \in s .. Count(x) - 1 BY <1>2, <1>2a, <3>1
    <3> QED BY <1>8, <1>9, <3>2, <3>3
  <2> QED BY <1>0, <2>1, <2>2, <2>3
<1>10. \A m \in K : m \in InUse(nd) /\ nd[m].parent = n /\ m \notin {n, a, nn, rt}
  <2>1. s .. Count(x) - 1 \subseteq 0 .. Count(x) - 1 BY <1>2, <1>2a
  <2> QED BY <1>8, <1>9, <2>1
<1> HIDE DEF K, a
<1>11. ASSUME NEW m \in InUse(nd)
       PROVE  /\ m \in Node /\ md[m].type = nd[m].type
              /\ m \notin K => md[m].parent = nd[m].parent
              /\ m \in K => md[m].parent = nn
              /\ m \notin {n, a} => md[m].elms = nd[m].elms
  <2>0. m \in Node /\ nd[m] \in NodeRec /\ m # nn BY <1>0 DEF InUse
  <2>1. CASE m \in K
    <3>1. md[m] = [nd[m] EXCEPT !.parent = nn] BY <1>7, <2>1
    <3> QED BY <1>10, <2>0, <2>1, <3>1 DEF NodeRec
  <2>2. CASE m = n
    <3>1. l.type = x.type /\ l.parent = x.parent BY <1>3 DEF Halved
    <3> QED BY <1>7, <1>10, <2>0, <2>2, <3>1
  <2>3. CASE m = a
    <3>1. z.type = nd[a].type /\ z.parent = nd[a].parent BY <1>1, <1>6 DEF Extended, IsInternal
    <3> QED BY <1>7, <1>10, <2>0, <2>3, <3>1
  <2>4. CASE m \notin K /\ m \notin {n, a} BY <1>7, <2>0, <2>4
  <2> QED BY <2>1, <2>2, <2>3, <2>4
<1>12. /\ md[nn].type = x.type /\ md[nn].parent = a BY <1>3, <1>7 DEF Halved, a
<1>13. InUse(md) = InUse(nd) \union {nn}
  <2>1. nn \in InUse(md) BY <1>0, <1>12 DEF InUse
  <2>2. ASSUME NEW m \in Node, m # nn PROVE m \in InUse(md) <=> m \in InUse(nd)
    <3>1. CASE m \in InUse(nd) BY <1>11, <3>1 DEF InUse
    <3>2. CASE m \notin InUse(nd)
      <4>1. md[m] = nd[m] BY <1>1, <1>7, <1>10, <2>2, <3>2
      <4> QED BY <3>2, <4>1 DEF InUse
    <3> QED BY <3>1, <3>2
  <2> QED BY <1>0, <2>1, <2>2 DEF InUse
<1>14. ASSUME NEW m \in InUse(nd), m \notin {n, a}
       PROVE  /\ IsInternal(md[m]) <=> IsInternal(nd[m])
              /\ Count(md[m]) = Count(nd[m])
              /\ \A i : E(md[m], i) = E(nd[m], i)
              /\ \A lo, hi : Fits(md[m], lo, hi) <=> Fits(nd[m], lo, hi)
  <2>1. md[m].type = nd[m].type /\ md[m].elms = nd[m].elms BY <1>11, <1>14
  <2> QED BY <2>1 DEF IsInternal, Count, E, Fits
<1>15. /\ IsInternal(md[n]) <=> IsInternal(x)
       /\ IsInternal(md[nn]) <=> IsInternal(x)
       /\ IsInternal(md[a])
  BY <1>3, <1>6, <1>7 DEF Halved, Extended, IsInternal
<1>16. Kinds(md)
  <2>1. ASSUME NEW m \in InUse(nd)
        PROVE  md[m].elms \in IF IsInternal(md[m]) THEN Seq(IntElm) ELSE Seq(LeafElm)
    <3>1. CASE m = n BY <1>3, <1>7, <1>15, <3>1 DEF Halved
    <3>2. CASE m = a BY <1>6, <1>7, <1>15, <3>2 DEF Extended
    <3>3. CASE m \notin {n, a} BY <1>0, <1>11, <1>14, <3>3 DEF Kinds
    <3> QED BY <3>1, <3>2, <3>3
  <2>2. md[nn].elms \in IF IsInternal(md[nn]) THEN Seq(IntElm) ELSE Seq(LeafElm)
    BY <1>3, <1>7, <1>15 DEF Halved
  <2> QED BY <1>13, <2>1, <2>2 DEF Kinds
<1>17. /\ Count(md[n]) = s /\ Count(md[nn]) = Count(x) - s /\ Count(md[a]) = Count(nd[a]) + 1
       /\ \A i \in 0 .. s - 1 : E(md[n], i) = E(x, i)
       /\ IsInternal(x) => E(md[n], s).base = E(x, s).base
       /\ \A i \in 0 .. Len(x.elms) - s - 1 : E(md[nn], i) = E(x, i + s)
       /\ \A i \in 0 .. pi : E(md[a], i) = E(nd[a], i)
       /\ E(md[a], pi + 1).sub = nn /\ E(md[a], pi + 1).base = k
       /\ \A i \in pi + 2 .. Count(md[a]) : E(md[a], i) = E(nd[a], i - 1)
  BY <1>3, <1>6, <1>7 DEF Halved, Extended
<1>18. ASSUME NEW m \in InUse(md) PROVE m # rt => Attached(md, m)
  <2> SUFFICES ASSUME m # rt PROVE Attached(md, m) OBVIOUS
  <2>1. CASE m = nn
    <3>1. pi + 1 \in 0 .. Count(md[a]) - 1 BY <1>2b, <1>17
    <3> QED BY <1>1, <1>12, <1>13, <1>15, <1>17, <2>1, <3>1 DEF Attached
  <2>2. CASE m = n
    <3>1. pi \in 0 .. Count(md[a]) - 1 /\ pi \in 0 .. pi BY <1>2b, <1>17
    <3>2. E(md[a], pi).sub = n BY <1>17, <3>1 DEF a
    <3>3. md[n].parent = a BY <1>10, <1>11 DEF a
    <3> QED BY <1>1, <1>13, <1>15, <2>2, <3>1, <3>2, <3>3 DEF Attached
  <2>3. CASE m \in K
    <3>1. PICK i \in s .. Count(x) - 1 : IsInternal(x) /\ E(x, i).sub = m BY <1>8, <2>3
    <3>2. /\ i - s \in 0 .. Len(x.elms) - s - 1 /\ i - s + s = i
          /\ i - s \in 0 .. Count(md[nn]) - 1
      <4>1. i \in Int /\ s <= i /\ i <= Count(x) - 1 BY <1>2, <1>2a
      <4> QED BY <1>2, <1>2a, <1>17, <3>1, <4>1
    <3>3. E(md[nn], i - s).sub = m BY <1>17, <3>1, <3>2
    <3>4. md[m].parent = nn BY <1>10, <1>11, <2>3
    <3> QED BY <1>13, <1>15, <3>1, <3>2, <3>3, <3>4 DEF Attached
  <2>4. CASE m \in InUse(nd) /\ m # n /\ m \notin K
    <3> DEFINE b == nd[m].parent
    <3>1. md[m].parent = b BY <1>11, <2>4
    <3>2. b \in InUse(nd) /\ IsInternal(nd[b]) BY <2>4, Up
    <3>3. PICK i \in 0 .. Count(nd[b]) - 1 : E(nd[b], i).sub = m BY <2>4, Up
    <3>4. b \in InUse(md) /\ IsInternal(md[b]) BY <1>13, <1>14, <1>15, <3>2
    <3>5. i \in Int /\ 0 <= i /\ i <= Count(nd[b]) - 1 /\ Count(nd[b]) \in Int
      <4>1. Count(nd[b]) \in Int BY <1>0, <3>2, Shape
      <4> QED BY <4>1
    <3> HIDE DEF b
    <3>6. \E j \in 0 .. Count(md[b]) - 1 : E(md[b], j).sub = m
      <4>1. CASE b = n
        <5>1. i < s
          <6>1. ~(i >= s)
            <7>1. IsInternal(x) /\ i \in 0 .. Count(x) - 1 BY <3>2, <3>3, <4>1
            <7> QED BY <1>9, <2>4, <3>3, <4>1, <7>1
          <6> QED BY <1>2a, <3>5, <6>1
        <5>2. i \in 0 .. s - 1 BY <1>2a, <3>5, <5>1
        <5> QED BY <1>17, <3>3, <4>1, <5>2
      <4>2. CASE b = a
        <5>1. CASE i <= pi
          <6>1. i \in 0 .. pi /\ i \in 0 .. Count(md[a]) - 1 BY <1>2b, <1>17, <3>5, <4>2, <5>1
          <6> QED BY <1>17, <3>3, <4>2, <6>1
        <5>2. CASE i > pi
          <6>1. /\ i + 1 \in pi + 2 .. Count(md[a]) /\ i + 1 \in 0 .. Count(md[a]) - 1
                /\ i + 1 - 1 = i
            BY <1>2b, <1>17, <3>5, <4>2, <5>2
          <6> QED BY <1>17, <3>3, <4>2, <6>1
        <5> QED BY <1>2b, <3>5, <5>1, <5>2
      <4>3. CASE b \notin {n, a} BY <1>14, <3>2, <3>3, <4>3
      <4> QED BY <4>1, <4>2, <4>3
    <3> QED BY <3>1, <3>4, <3>6 DEF Attached
  <2> QED BY <1>13, <2>1, <2>2, <2>3, <2>4
<1>19. ASSUME NEW m \in InUse(md) PROVE Sized(md[m])
  <2>1. \A b \in InUse(nd) : Sized(nd[b]) BY <1>0, LinkedIs
  <2>2. CASE m = n
    <3>1. Sized(x) BY <2>1
    <3> QED BY <1>2, <1>2a, <1>15, <1>17, <2>2, <3>1, ElmsAssumption DEF Sized
  <2>3. CASE m = nn
    <3>1. Sized(x) BY <2>1
    <3> QED BY <1>2, <1>2a, <1>15, <1>17, <2>3, <3>1, ElmsAssumption DEF Sized
  <2>4. CASE m = a
    <3>1. INT_ELMS \in Int BY ElmsAssumption
    <3>2. Count(md[a]) \in 1 .. INT_ELMS BY <1>2b, <1>17, <3>1 DEF a
    <3> QED BY <1>15, <2>4, <3>2 DEF Sized
  <2>5. CASE m \in InUse(nd) /\ m \notin {n, a}
    <3>1. Sized(nd[m]) BY <2>1, <2>5
    <3> QED BY <1>14, <2>5, <3>1 DEF Sized
  <2> QED BY <1>13, <2>2, <2>3, <2>4, <2>5
<1>20. Bears(md, n)
  <2> SUFFICES ASSUME IsInternal(md[n]), NEW i \in 0 .. Count(md[n]) - 1 PROVE BearsAt(md, n, i)
    BY DEF Bears
  <2>1. IsInternal(x) BY <1>15
  <2>2. i \in Nat /\ i < s /\ i \in 0 .. s - 1 /\ i \in 0 .. Count(x) - 1 BY <1>2, <1>2a, <1>17
  <2> DEFINE c == E(x, i).sub
  <2>3. /\ c \in InUse(nd) /\ nd[c].parent = n /\ c # n /\ c # a /\ c \notin K
        /\ \A j \in 0 .. Count(x) - 1 : E(x, j).sub = c => j = i
        /\ Fits(nd[c], E(x, i).base, E(x, i + 1).base)
    <3>1. ~(i >= s) BY <1>2a, <2>2
    <3> QED BY <1>9, <2>1, <2>2, <3>1
  <2>4. E(md[n], i) = E(x, i) BY <1>17, <2>2
  <2>5. E(md[n], i + 1).base = E(x, i + 1).base
    <3>1. CASE i + 1 = s BY <1>17, <2>1, <3>1
    <3>2. CASE i + 1 # s
      <4>1. i + 1 \in 0 .. s - 1 BY <1>2a, <2>2, <3>2
      <4> QED BY <1>17, <4>1
    <3> QED BY <3>1, <3>2
  <2>6. \A j \in 0 .. Count(md[n]) - 1 : j \in 0 .. Count(x) - 1 /\ E(md[n], j) = E(x, j)
    <3>1. \A j \in 0 .. s - 1 : j \in 0 .. Count(x) - 1 BY <1>2, <1>2a
    <3> QED BY <1>17, <3>1
  <2> HIDE DEF c
  <2>7. c \in InUse(md) /\ md[c].parent = n /\ Fits(md[c], E(x, i).base, E(x, i + 1).base)
    BY <1>11, <1>13, <1>14, <2>3
  <2>8. E(md[n], i).sub = c BY <2>4 DEF c
  <2> QED BY <2>3, <2>4, <2>5, <2>6, <2>7, <2>8 DEF BearsAt
<1>21. Bears(md, nn)
  <2> SUFFICES ASSUME IsInternal(md[nn]), NEW i \in 0 .. Count(md[nn]) - 1
               PROVE  BearsAt(md, nn, i)
    BY DEF Bears
  <2>1. IsInternal(x) /\ Count(x) = Len(x.elms) - 1 BY <1>2, <1>15
  <2>2. /\ i \in Nat /\ i + s \in 0 .. Count(x) - 1 /\ i + s >= s
        /\ i \in 0 .. Len(x.elms) - s - 1 /\ i + 1 \in 0 .. Len(x.elms) - s - 1
        /\ i + 1 + s = i + s + 1
    <3>1. i \in Int /\ 0 <= i /\ i <= Count(x) - s - 1 BY <1>2, <1>2a, <1>17
    <3> QED BY <1>2, <1>2a, <2>1, <3>1
  <2> DEFINE c == E(x, i + s).sub
  <2>3. /\ c \in InUse(nd) /\ c \in K /\ c # n /\ c # a
        /\ \A j \in 0 .. Count(x) - 1 : E(x, j).sub = c => j = i + s
        /\ Fits(nd[c], E(x, i + s).base, E(x, i + s + 1).base)
    BY <1>9, <2>1, <2>2
  <2>4. E(md[nn], i) = E(x, i + s) /\ E(md[nn], i + 1) = E(x, i + s + 1)
    BY <1>17, <2>2
  <2> HIDE DEF c
  <2>5. c \in InUse(md) /\ md[c].parent = nn /\ Fits(md[c], E(x, i + s).base, E(x, i + s + 1).base)
    BY <1>11, <1>13, <1>14, <2>3
  <2>6. E(md[nn], i).sub = c BY <2>4 DEF c
  <2>7. ASSUME NEW j \in 0 .. Count(md[nn]) - 1, E(md[nn], j).sub = c PROVE j = i
    <3>1. j \in Int /\ 0 <= j /\ j <= Count(x) - s - 1 BY <1>2, <1>2a, <1>17
    <3>0. Count(x) \in Int /\ Len(x.elms) \in Int /\ Count(x) <= Len(x.elms)
      BY <1>2, <2>1
    <3>2. j \in 0 .. Len(x.elms) - s - 1 /\ j + s \in 0 .. Count(x) - 1
      BY <1>2a, <3>0, <3>1, Shift
    <3>3. E(x, j + s).sub = c BY <1>17, <2>7, <3>2
    <3>4. j + s = i + s BY <2>3, <3>2, <3>3
    <3> QED BY <1>2a, <2>2, <3>1, <3>4
  <2> QED BY <2>4, <2>5, <2>6, <2>7 DEF BearsAt
<1>22. Bears(md, a)
  <2> SUFFICES ASSUME NEW i \in 0 .. Count(md[a]) - 1 PROVE BearsAt(md, a, i)
    BY DEF Bears
  <2>0. /\ i \in Nat /\ i <= Count(nd[a]) /\ Count(md[a]) = Count(nd[a]) + 1
    BY <1>2b, <1>17
  (* A child that is not the split node is where it was.                   *)
  <2>1. ASSUME NEW j \in 0 .. Count(nd[a]) - 1, j # pi
        PROVE  LET c == E(nd[a], j).sub IN
               /\ c \in InUse(md) /\ md[c].parent = a /\ c # n /\ c # nn
               /\ \A j2 \in 0 .. Count(nd[a]) - 1 : E(nd[a], j2).sub = c => j2 = j
               /\ Fits(md[c], E(nd[a], j).base, E(nd[a], j + 1).base)
    <3> DEFINE c == E(nd[a], j).sub
    <3>1. /\ c \in InUse(nd) /\ nd[c].parent = a /\ c # a
          /\ \A j2 \in 0 .. Count(nd[a]) - 1 : E(nd[a], j2).sub = c => j2 = j
          /\ Fits(nd[c], E(nd[a], j).base, E(nd[a], j + 1).base)
      BY <1>1, Down
    <3>2. pi \in 0 .. Count(nd[a]) - 1 /\ E(nd[a], pi).sub = n BY DEF a
    <3>3. c # n BY <1>4, <2>1 DEF a
    <3>4. c \notin K /\ c # nn BY <1>0, <1>1, <1>10, <3>1
    <3> HIDE DEF c
    <3>5. c \in InUse(md) /\ md[c].parent = a BY <1>11, <1>13, <3>1, <3>4
    <3>6. Fits(md[c], E(nd[a], j).base, E(nd[a], j + 1).base) BY <1>14, <3>1, <3>3
    <3> QED BY <3>1, <3>3, <3>4, <3>5, <3>6 DEF c
  <2>2. ASSUME NEW j \in 0 .. Count(md[a]) - 1
        PROVE  /\ j \in Nat
               /\ j <= pi => E(md[a], j) = E(nd[a], j) /\ j \in 0 .. Count(nd[a]) - 1
               /\ j = pi + 1 => E(md[a], j).sub = nn /\ E(md[a], j).base = k
               /\ j > pi + 1 => /\ E(md[a], j) = E(nd[a], j - 1)
                                /\ j - 1 \in 0 .. Count(nd[a]) - 1 /\ j - 1 # pi
    <3>0. j \in Nat /\ j <= Count(nd[a]) BY <1>2b, <1>17
    <3>1. j <= pi => E(md[a], j) = E(nd[a], j) /\ j \in 0 .. Count(nd[a]) - 1
      <4>1. j <= pi => j \in 0 .. pi /\ j \in 0 .. Count(nd[a]) - 1 BY <1>2b, <3>0
      <4> QED BY <1>17, <4>1
    <3>2. j > pi + 1 => /\ E(md[a], j) = E(nd[a], j - 1)
                        /\ j - 1 \in 0 .. Count(nd[a]) - 1 /\ j - 1 # pi
      <4>1. j > pi + 1 => /\ j \in pi + 2 .. Count(md[a])
                          /\ j - 1 \in 0 .. Count(nd[a]) - 1 /\ j - 1 # pi
        BY <1>2b, <1>17, <3>0
      <4> QED BY <1>17, <4>1
    <3> QED BY <1>17, <3>0, <3>1, <3>2
  <2>3. CASE i < pi
    <3>1. i \in 0 .. Count(nd[a]) - 1 /\ i # pi /\ i <= pi /\ i + 1 \in 0 .. pi
      BY <1>2b, <2>0, <2>3
    <3>2. E(md[a], i) = E(nd[a], i) /\ E(md[a], i + 1) = E(nd[a], i + 1)
      BY <1>17, <2>2, <3>1
    <3>3. ASSUME NEW j \in 0 .. Count(md[a]) - 1, E(md[a], j).sub = E(nd[a], i).sub
          PROVE  j = i
      <4>1. j \in Nat BY <2>2
      <4>2. j # pi + 1 BY <2>1, <2>2, <3>1, <3>3
      <4>3. j <= pi => j = i BY <2>1, <2>2, <3>1, <3>3
      <4>4. j > pi + 1 => j - 1 = i BY <2>1, <2>2, <3>1, <3>3
      <4> QED BY <1>2b, <2>0, <2>3, <4>1, <4>2, <4>3, <4>4
    <3> QED BY <2>1, <3>1, <3>2, <3>3 DEF BearsAt
  <2>4. CASE i = pi
    <3>1. E(md[a], i) = E(nd[a], pi) /\ E(md[a], i + 1).base = k
      BY <1>17, <2>2, <2>4, <1>2b
    <3>2. E(nd[a], pi).sub = n BY DEF a
    <3>3. n \in InUse(md) /\ md[n].parent = a /\ Fits(md[n], E(nd[a], pi).base, k)
      BY <1>5, <1>7, <1>10, <1>11, <1>13 DEF a
    <3>4. ASSUME NEW j \in 0 .. Count(md[a]) - 1, E(md[a], j).sub = n PROVE j = i
      <4>1. j \in Nat BY <2>2
      <4>2. j # pi + 1 BY <1>0, <2>2, <3>4
      <4>3. j <= pi => j = pi BY <1>4, <2>2, <3>4 DEF a
      <4>4. ~(j > pi + 1) BY <1>4, <2>2, <3>4 DEF a
      <4> QED BY <1>2b, <2>4, <4>1, <4>2, <4>3, <4>4
    <3> QED BY <3>1, <3>2, <3>3, <3>4 DEF BearsAt
  <2>5. CASE i = pi + 1
    <3>1. /\ E(md[a], i).sub = nn /\ E(md[a], i).base = k
          /\ E(md[a], i + 1) = E(nd[a], pi + 1)
      <4>1. i + 1 \in pi + 2 .. Count(md[a]) /\ i + 1 - 1 = pi + 1 BY <1>2b, <2>0, <2>5
      <4> QED BY <1>17, <2>5, <4>1
    <3>2. nn \in InUse(md) /\ md[nn].parent = a /\ Fits(md[nn], k, E(nd[a], pi + 1).base)
      BY <1>5, <1>7, <1>12, <1>13 DEF a
    <3>3. ASSUME NEW j \in 0 .. Count(md[a]) - 1, E(md[a], j).sub = nn PROVE j = i
      <4>1. j \in Nat BY <2>2
      <4>2. ~(j > pi + 1) BY <2>1, <2>2, <3>3
      <4>3. ~(j <= pi)
        <5>1. j = pi => E(md[a], j).sub = n BY <1>2b, <2>2 DEF a
        <5> QED BY <1>0, <2>1, <2>2, <3>3, <5>1
      <4> QED BY <1>2b, <2>5, <4>1, <4>2, <4>3
    <3> QED BY <3>1, <3>2, <3>3 DEF BearsAt
  <2>6. CASE i > pi + 1
    <3>1. i - 1 \in 0 .. Count(nd[a]) - 1 /\ i - 1 # pi /\ i - 1 + 1 = i BY <2>0, <2>2, <2>6
    <3>2. E(md[a], i) = E(nd[a], i - 1) /\ E(md[a], i + 1) = E(nd[a], i)
      <4>1. i + 1 \in pi + 2 .. Count(md[a]) /\ i + 1 - 1 = i BY <1>2b, <2>0, <2>6
      <4> QED BY <1>17, <2>2, <2>6, <4>1
    <3>3. ASSUME NEW j \in 0 .. Count(md[a]) - 1, E(md[a], j).sub = E(nd[a], i - 1).sub
          PROVE  j = i
      <4>1. j \in Nat BY <2>2
      <4>2. j # pi + 1 BY <2>1, <2>2, <3>1, <3>3
      <4>3. j <= pi => j = i - 1 BY <2>1, <2>2, <3>1, <3>3
      <4>4. j > pi + 1 => j - 1 = i - 1 BY <2>1, <2>2, <3>1, <3>3
      <4> QED BY <1>2b, <2>0, <2>6, <4>1, <4>2, <4>3, <4>4
    <3> QED BY <2>1, <3>1, <3>2, <3>3 DEF BearsAt
  <2> QED BY <1>2b, <2>0, <2>3, <2>4, <2>5, <2>6
<1>23. ASSUME NEW b \in InUse(nd), b \notin {n, a} PROVE Bears(md, b)
  <2> SUFFICES ASSUME IsInternal(md[b]), NEW i \in 0 .. Count(md[b]) - 1 PROVE BearsAt(md, b, i)
    BY DEF Bears
  <2>1. IsInternal(nd[b]) /\ i \in 0 .. Count(nd[b]) - 1 /\ Count(md[b]) = Count(nd[b])
    BY <1>14, <1>23
  <2> DEFINE c == E(nd[b], i).sub
  <2>2. /\ c \in InUse(nd) /\ nd[c].parent = b
        /\ \A j \in 0 .. Count(nd[b]) - 1 : E(nd[b], j).sub = c => j = i
        /\ Fits(nd[c], E(nd[b], i).base, E(nd[b], i + 1).base)
        /\ E(nd[b], i).base \in AnyKey /\ E(nd[b], i + 1).base \in AnyKey
    BY <2>1, Down
  <2>3. c # n /\ c \notin K BY <1>10, <1>23, <2>2 DEF a
  <2>4. \A j : E(md[b], j) = E(nd[b], j) BY <1>14, <1>23
  <2> HIDE DEF c
  <2>5. Fits(md[c], E(nd[b], i).base, E(nd[b], i + 1).base)
    <3>1. CASE c = a BY <1>6, <1>7, <2>2, <3>1 DEF Extended
    <3>2. CASE c # a BY <1>14, <2>2, <2>3, <3>2
    <3> QED BY <3>1, <3>2
  <2>6. c \in InUse(md) /\ md[c].parent = b BY <1>11, <1>13, <2>2, <2>3
  <2>7. E(md[b], i).sub = c BY <2>4 DEF c
  <2> QED BY <2>1, <2>2, <2>4, <2>5, <2>6, <2>7 DEF BearsAt
<1>24. rt \in InUse(md) /\ Fits(md[rt], RootBeg, RootEnd) /\ md[rt].parent = NULL
  <2>1. rt \in InUse(nd) /\ Fits(nd[rt], RootBeg, RootEnd) /\ nd[rt].parent = NULL
    BY <1>0, LinkedIs
  <2>2. rt \in InUse(md) /\ md[rt].parent = NULL BY <1>10, <1>11, <1>13, <2>1
  <2>3. Fits(md[rt], RootBeg, RootEnd)
    <3>1. CASE rt = a BY <1>6, <1>7, <2>1, <3>1, RootKeys DEF Extended
    <3>2. CASE rt # a BY <1>14, <2>1, <3>2
    <3> QED BY <3>1, <3>2
  <2> QED BY <2>2, <2>3
<1>25. Linked(rt, md)
  BY <1>7, <1>13, <1>16, <1>18, <1>19, <1>20, <1>21, <1>22, <1>23, <1>24, LinkedIs
<1>26. Ranked(rt, md)
  <2>1. PICK h \in [Node -> Nat] : \A m \in InUse(nd) : m # rt => h[nd[m].parent] < h[m]
    BY <1>0 DEF Ranked
  <2> DEFINE g == [h EXCEPT ![nn] = h[n]]
  <2>2. /\ g \in [Node -> Nat] /\ g[nn] = h[n] /\ \A m \in Node : m # nn => g[m] = h[m]
    BY <1>0 DEF InUse
  <2> HIDE DEF g
  <2>3. ASSUME NEW m \in InUse(md), m # rt PROVE g[md[m].parent] < g[m]
    <3>1. CASE m = nn
      <4>1. md[m].parent = a /\ a \in Node /\ a # nn BY <1>0, <1>1, <1>12, <3>1 DEF InUse
      <4>2. h[a] < h[n] BY <2>1 DEF a
      <4> QED BY <2>2, <3>1, <4>1, <4>2
    <3>2. CASE m \in K
      <4>1. md[m].parent = nn /\ m \in Node /\ m # nn BY <1>10, <1>11, <3>2
      <4>2. h[n] < h[m] BY <1>10, <2>1, <2>3, <3>2
      <4> QED BY <2>2, <4>1, <4>2
    <3>3. CASE m # nn /\ m \notin K
      <4>1. m \in InUse(nd) BY <1>13, <3>3
      <4>2. md[m].parent = nd[m].parent /\ nd[m].parent \in InUse(nd) /\ m \in Node
        BY <1>11, <2>3, <3>3, <4>1, Up
      <4>3. nd[m].parent \in Node /\ nd[m].parent # nn BY <1>0, <4>2 DEF InUse
      <4>4. h[nd[m].parent] < h[m] BY <2>1, <2>3, <4>1
      <4> QED BY <2>2, <3>3, <4>2, <4>3, <4>4
    <3> QED BY <3>1, <3>2, <3>3
  <2> QED BY <2>2, <2>3 DEF Ranked
<1> QED BY <1>7, <1>13, <1>16, <1>25, <1>26 DEF Tree

(* A reference is taken out of an internal node.                           *)
Dropped(y, pi, z) ==
  /\ z \in NodeRec /\ z.type = "I" /\ z.parent = y.parent /\ IsInternal(z)
  /\ z.elms \in Seq(IntElm) /\ Count(z) = Count(y) - 1
  /\ \A i \in 0 .. pi - 1 : E(z, i).base = E(y, i).base /\ E(z, i).sub = E(y, i).sub
  /\ \A i \in pi .. Count(z) : E(z, i).base = E(y, i + 1).base /\ E(z, i).sub = E(y, i + 1).sub
  /\ \A lo, hi \in AnyKey : Fits(y, lo, hi) => Fits(z, lo, hi)

(* What is left of an internal node that loses the element of a removed    *)
(* child.                                                                  *)
LEMMA DropIs ==
  ASSUME NEW nd \in [Node -> NodeRec], Kinds(nd), NEW t \in InUse(nd), IsInternal(nd[t]),
         NEW pi \in 0 .. Count(nd[t]) - 1, Count(nd[t]) > 1, NEW y, y = nd[t]
  PROVE  Dropped(y, pi, DropRef(y, pi))
<1> DEFINE heir == IF pi > 0 THEN pi - 1 ELSE 1
           m == Later(E(y, heir).mtid, E(y, pi).mtid)
           s == [y.elms EXCEPT ![heir + 1].mtid = m]
           z == DropRef(y, pi)
<1>0. /\ y \in NodeRec /\ Len(y.elms) \in Nat /\ y.elms \in Seq(IntElm)
      /\ Count(y) = Len(y.elms) - 1 /\ y.type = "I"
      /\ \A i \in 1 .. Len(y.elms) : y.elms[i] \in IntElm
  BY Shape DEF IsInternal
<1>1. pi \in Nat /\ pi + 1 < Len(y.elms) /\ Len(y.elms) > 2 BY <1>0
<1>2. heir \in Nat /\ heir + 1 \in 1 .. Len(y.elms) BY <1>0, <1>1
<1>3. m \in Nat
  <2>1. E(y, heir) \in IntElm BY <1>0, <1>2 DEF E
  <2>2. pi + 1 \in 1 .. Len(y.elms) BY <1>0, <1>1
  <2>3. E(y, pi) \in IntElm BY <1>0, <2>2 DEF E
  <2> HIDE DEF heir
  <2>4. E(y, heir).mtid \in Nat /\ E(y, pi).mtid \in Nat BY <2>1, <2>3 DEF IntElm
  <2> QED BY <2>4 DEF Later
<1> HIDE DEF heir, m
<1>4. /\ s \in Seq(IntElm) /\ Len(s) = Len(y.elms)
      /\ \A i \in 1 .. Len(y.elms) : s[i].base = y.elms[i].base /\ s[i].sub = y.elms[i].sub
  <2>1. [y.elms[heir + 1] EXCEPT !.mtid = m] \in IntElm BY <1>0, <1>2, <1>3 DEF IntElm
  <2>2. s = [y.elms EXCEPT ![heir + 1] = [y.elms[heir + 1] EXCEPT !.mtid = m]] OBVIOUS
  <2>3. /\ s \in Seq(IntElm) /\ Len(s) = Len(y.elms)
        /\ \A i \in 1 .. Len(y.elms) :
             s[i] = IF i = heir + 1 THEN [y.elms[heir + 1] EXCEPT !.mtid = m] ELSE y.elms[i]
    BY <1>0, <1>2, <2>1, <2>2, ExceptSeq
  <2>4. /\ [y.elms[heir + 1] EXCEPT !.mtid = m].base = y.elms[heir + 1].base
        /\ [y.elms[heir + 1] EXCEPT !.mtid = m].sub = y.elms[heir + 1].sub
    BY <1>0, <1>2 DEF IntElm
  <2> HIDE DEF s
  <2> QED BY <2>3, <2>4
<1> HIDE DEF s
<1>5. RemoveAt(s, pi + 1) \in Seq(IntElm) /\ Removed(RemoveAt(s, pi + 1), s, pi + 1)
  <2>1. pi + 1 \in 1 .. Len(s) BY <1>0, <1>1, <1>4
  <2> QED BY <1>4, <2>1, RemoveAtIs
<1>6. z = [y EXCEPT !.elms = RemoveAt(s, pi + 1)] BY DEF DropRef, s, m, heir
<1>7. /\ z \in NodeRec /\ z.type = "I" /\ z.parent = y.parent /\ z.elms = RemoveAt(s, pi + 1)
  BY <1>0, <1>5, <1>6 DEF NodeRec
<1> HIDE DEF z
<1>8. z.elms \in Seq(IntElm) /\ Removed(z.elms, s, pi + 1) BY <1>5, <1>7
<1>9. /\ Len(z.elms) = Len(y.elms) - 1 /\ IsInternal(z)
      /\ \A j \in 1 .. pi : z.elms[j] = s[j]
      /\ \A j \in pi + 1 .. Len(y.elms) - 1 : z.elms[j] = s[j + 1]
  <2>1. pi + 1 - 1 = pi BY <1>1
  <2> QED BY <1>4, <1>7, <1>8, <2>1 DEF Removed, IsInternal
<1>10. Count(z) = Count(y) - 1 BY <1>0, <1>9 DEF Count
<1>11. ASSUME NEW j \in 1 .. Len(y.elms) - 1
       PROVE  /\ j <= pi => /\ z.elms[j].base = y.elms[j].base /\ z.elms[j].sub = y.elms[j].sub
              /\ j > pi  => /\ z.elms[j].base = y.elms[j + 1].base
                            /\ z.elms[j].sub = y.elms[j + 1].sub
  <2>0. j \in Nat BY <1>0
  <2>1. CASE j <= pi
    <3>1. j \in 1 .. pi /\ j \in 1 .. Len(y.elms) BY <1>0, <1>1, <2>1
    <3>2. z.elms[j] = s[j] BY <1>9, <3>1
    <3> QED BY <1>1, <1>4, <2>0, <2>1, <3>1, <3>2
  <2>2. CASE j > pi
    <3>1. j \in pi + 1 .. Len(y.elms) - 1 /\ j + 1 \in 1 .. Len(y.elms) BY <1>0, <1>1, <2>2
    <3>2. z.elms[j] = s[j + 1] BY <1>9, <3>1
    <3> QED BY <1>1, <1>4, <2>0, <2>2, <3>1, <3>2
  <2> QED BY <1>1, <2>0, <2>1, <2>2
<1>12. ASSUME NEW i \in 0 .. pi - 1
       PROVE  E(z, i).base = E(y, i).base /\ E(z, i).sub = E(y, i).sub
  <2>1. i + 1 \in 1 .. Len(y.elms) - 1 /\ i + 1 <= pi BY <1>0, <1>1
  <2> QED BY <1>11, <2>1 DEF E
<1>13. ASSUME NEW i \in pi .. Count(z)
       PROVE  E(z, i).base = E(y, i + 1).base /\ E(z, i).sub = E(y, i + 1).sub
  <2>1. i + 1 \in 1 .. Len(y.elms) - 1 /\ i + 1 > pi BY <1>0, <1>1, <1>10
  <2> QED BY <1>11, <2>1 DEF E
<1>14. ASSUME NEW lo \in AnyKey, NEW hi \in AnyKey, Fits(y, lo, hi) PROVE Fits(z, lo, hi)
  <2>0. IsInternal(y) BY <1>0 DEF IsInternal
  <2>1. ASSUME NEW i \in 1 .. Len(z.elms)
        PROVE  \E u \in 1 .. Len(y.elms) : /\ z.elms[i].base = y.elms[u].base
                                           /\ u = IF i <= pi THEN i ELSE i + 1
    <3>1. i \in Nat /\ i \in 1 .. Len(y.elms) - 1 BY <1>0, <1>9
    <3>2. CASE i <= pi
      <4>1. i \in 1 .. Len(y.elms) BY <1>0, <3>1
      <4> QED BY <1>11, <3>1, <3>2, <4>1
    <3>3. CASE i > pi
      <4>1. i + 1 \in 1 .. Len(y.elms) /\ ~(i <= pi) BY <1>0, <1>1, <3>1, <3>3
      <4> QED BY <1>11, <3>1, <3>3, <4>1
    <3> QED BY <1>1, <3>1, <3>2, <3>3
  <2>2. ASSUME NEW i \in 1 .. Len(z.elms)
        PROVE  Cmp(lo, z.elms[i].base) <= 0 /\ Cmp(z.elms[i].base, hi) <= 0
    BY <1>14, <2>0, <2>1 DEF Fits
  <2>3. ASSUME NEW i \in 1 .. Len(z.elms), NEW j \in 1 .. Len(z.elms), i < j
        PROVE  Cmp(z.elms[i].base, z.elms[j].base) < 0
    <3>1. PICK u \in 1 .. Len(y.elms) : /\ z.elms[i].base = y.elms[u].base
                                        /\ u = IF i <= pi THEN i ELSE i + 1
      BY <2>1
    <3>2. PICK v \in 1 .. Len(y.elms) : /\ z.elms[j].base = y.elms[v].base
                                        /\ v = IF j <= pi THEN j ELSE j + 1
      BY <2>1
    <3>3. i \in Nat /\ j \in Nat BY <1>0, <1>9
    <3>4. u < v BY <1>1, <2>3, <3>1, <3>2, <3>3
    <3> QED BY <1>14, <3>1, <3>2, <3>4 DEF Fits
  <2> QED BY <1>9, <2>2, <2>3 DEF Fits
<1> QED BY <1>7, <1>8, <1>9, <1>10, <1>12, <1>13, <1>14 DEF Dropped, z

(* The nodes G hang from t by its child g0, and go.                        *)
Hanging(nd, G, t, g0, pi) ==
  /\ G \in SUBSET InUse(nd) /\ t \in InUse(nd) /\ t \notin G /\ g0 \in G
  /\ IsInternal(nd[t]) /\ pi \in 0 .. Count(nd[t]) - 1 /\ E(nd[t], pi).sub = g0
  /\ \A g \in G : Children(nd[g]) \subseteq G /\ nd[g].parent \in IF g = g0 THEN {t} ELSE G
Collapses(rt, nd, G, t, pi, md) ==
  /\ md \in [Node -> NodeRec]
  /\ \A m \in G : md[m] = Deleted
  /\ \/ t = rt /\ Count(nd[t]) = 1 /\ md[t] = [nd[t] EXCEPT !.type = "L", !.elms = <<>>]
     \/ Count(nd[t]) > 1 /\ md[t] = DropRef(nd[t], pi)
  /\ \A m \in Node : m \notin G /\ m # t => md[m] = nd[m]

(* Taking a chain of nodes that hang from t out of the tree keeps the      *)
(* tree.                                                                   *)
LEMMA CollapseTree ==
  ASSUME NEW rt, NEW nd, Tree(rt, nd), NEW G, NEW t, NEW g0, NEW pi,
         Hanging(nd, G, t, g0, pi), NEW md, Collapses(rt, nd, G, t, pi, md)
  PROVE  Tree(rt, md) /\ InUse(md) = InUse(nd) \ G
<1>0. /\ nd \in [Node -> NodeRec] /\ Kinds(nd) /\ Linked(rt, nd) /\ Ranked(rt, nd)
      /\ G \in SUBSET InUse(nd) /\ t \in InUse(nd) /\ t \notin G /\ g0 \in G
      /\ IsInternal(nd[t]) /\ pi \in 0 .. Count(nd[t]) - 1 /\ E(nd[t], pi).sub = g0
      /\ \A g \in G : Children(nd[g]) \subseteq G /\ nd[g].parent \in IF g = g0 THEN {t} ELSE G
      /\ md \in [Node -> NodeRec]
  BY DEF Tree, Hanging, Collapses
<1>1. /\ \A m \in InUse(nd) : m \in Node /\ m # NULL BY <1>0, Shape
<1>2. /\ \A m \in G : md[m] = Deleted
      /\ \A m \in Node : m \notin G /\ m # t => md[m] = nd[m]
  BY DEF Collapses
<1>3. t \in Node /\ nd[t] \in NodeRec /\ nd[t].type = "I" /\ Count(nd[t]) \in Int /\ pi \in Nat
      /\ pi < Count(nd[t])
  <2>1. Count(nd[t]) \in Int BY <1>0, Shape
  <2> QED BY <1>0, <1>1, <2>1 DEF IsInternal
<1>4. rt \notin G
  <2>1. nd[rt].parent = NULL BY <1>0, LinkedIs
  <2> QED BY <1>0, <1>1, <2>1
<1>5. /\ md[t].type \in {"I", "L"} /\ md[t].parent = nd[t].parent
      /\ ~IsInternal(md[t]) => t = rt /\ Count(nd[t]) = 1 /\ md[t].elms = <<>>
      /\ IsInternal(md[t]) => Dropped(nd[t], pi, md[t])
  <2>1. CASE Count(nd[t]) > 1 /\ md[t] = DropRef(nd[t], pi)
    <3>1. Dropped(nd[t], pi, md[t]) BY <1>0, <2>1, DropIs
    <3> QED BY <3>1 DEF Dropped
  <2>2. CASE t = rt /\ Count(nd[t]) = 1 /\ md[t] = [nd[t] EXCEPT !.type = "L", !.elms = <<>>]
    <3>1. md[t].type = "L" /\ md[t].elms = <<>> /\ md[t].parent = nd[t].parent
      BY <1>3, <2>2 DEF NodeRec
    <3> QED BY <2>2, <3>1 DEF IsInternal
  <2> QED BY <2>1, <2>2 DEF Collapses
<1>6. InUse(md) = InUse(nd) \ G
  <2>1. ASSUME NEW m \in Node PROVE m \in InUse(md) <=> m \in InUse(nd) /\ m \notin G
    <3>1. CASE m \in G BY <1>2, <3>1 DEF InUse, Deleted
    <3>2. CASE m = t BY <1>0, <1>5, <3>2 DEF InUse
    <3>3. CASE m \notin G /\ m # t BY <1>2, <3>3 DEF InUse
    <3> QED BY <3>1, <3>2, <3>3
  <2> QED BY <2>1 DEF InUse
<1>7. Kinds(md)
  <2>1. ASSUME NEW m \in InUse(md)
        PROVE  md[m].elms \in IF IsInternal(md[m]) THEN Seq(IntElm) ELSE Seq(LeafElm)
    <3>1. CASE m = t
      <4>1. <<>> \in Seq(LeafElm) BY EmptySeq
      <4> QED BY <1>5, <3>1, <4>1 DEF Dropped
    <3>2. CASE m # t
      <4>1. md[m] = nd[m] /\ m \in InUse(nd) BY <1>1, <1>2, <1>6, <3>2
      <4> QED BY <1>0, <4>1 DEF Kinds
    <3> QED BY <3>1, <3>2
  <2> QED BY <2>1 DEF Kinds
<1>8. ASSUME NEW b \in InUse(md), b # t, IsInternal(nd[b]), NEW i \in 0 .. Count(nd[b]) - 1
      PROVE  E(nd[b], i).sub \notin G
  <2>1. b \in InUse(nd) /\ b \notin G BY <1>6
  <2>2. nd[E(nd[b], i).sub].parent = b BY <1>8, <2>1, Down
  <2> QED BY <1>0, <1>8, <2>1, <2>2
<1>9. ASSUME NEW i \in 0 .. Count(nd[t]) - 1
      PROVE  E(nd[t], i).sub \in G <=> i = pi
  <2>1. nd[E(nd[t], i).sub].parent = t BY <1>0, Down
  <2>2. E(nd[t], i).sub \in G => E(nd[t], i).sub = g0 BY <1>0, <2>1
  <2>3. E(nd[t], i).sub = g0 => i = pi BY <1>0, Down
  <2> QED BY <1>0, <2>2, <2>3
<1>10. ASSUME NEW m \in InUse(md) PROVE m # rt => Attached(md, m)
  <2> SUFFICES ASSUME m # rt PROVE Attached(md, m) OBVIOUS
  <2> DEFINE b == nd[m].parent
  <2>1. m \in InUse(nd) /\ m \notin G /\ m \in Node BY <1>1, <1>6
  <2>2. b \in InUse(nd) /\ IsInternal(nd[b]) /\ b # m BY <2>1, Up
  <2>3. PICK i \in 0 .. Count(nd[b]) - 1 : E(nd[b], i).sub = m BY <2>1, Up
  <2>4. b \notin G
    <3>1. m \in Children(nd[b]) BY <2>2, <2>3 DEF Children
    <3> QED BY <1>0, <2>1, <3>1
  <2>5. md[m].parent = b /\ b \in InUse(md) BY <1>2, <1>5, <1>6, <2>1, <2>2, <2>4
  <2> HIDE DEF b
  <2>6. CASE b # t
    <3>1. md[b] = nd[b] BY <1>1, <1>2, <2>2, <2>4, <2>6
    <3> QED BY <2>2, <2>3, <2>5, <3>1 DEF Attached
  <2>7. CASE b = t
    <3>1. i # pi BY <1>9, <2>1, <2>3, <2>7
    <3>2. i \in Nat /\ i < Count(nd[t]) BY <1>3, <2>3, <2>7
    <3>3. IsInternal(md[t]) BY <1>3, <1>5, <3>1, <3>2
    <3>4. Dropped(nd[t], pi, md[t]) BY <1>5, <3>3
    <3>5. CASE i < pi
      <4>1. i \in 0 .. pi - 1 /\ i \in 0 .. Count(md[t]) - 1 BY <1>3, <3>2, <3>4, <3>5 DEF Dropped
      <4> QED BY <2>3, <2>5, <2>7, <3>3, <3>4, <4>1 DEF Dropped, Attached
    <3>6. CASE i > pi
      <4>0. Count(md[t]) = Count(nd[t]) - 1 BY <3>4 DEF Dropped
      <4>1. i - 1 \in pi .. Count(md[t]) /\ i - 1 \in 0 .. Count(md[t]) - 1 /\ i - 1 + 1 = i
        BY <1>3, <3>2, <3>6, <4>0
      <4>2. E(md[t], i - 1).sub = m BY <2>3, <2>7, <3>4, <4>1 DEF Dropped
      <4> QED BY <2>5, <2>7, <3>3, <4>1, <4>2 DEF Attached
    <3> QED BY <1>3, <3>1, <3>2, <3>5, <3>6
  <2> QED BY <2>6, <2>7
<1>11. ASSUME NEW m \in InUse(md) PROVE Sized(md[m])
  <2>1. m \in InUse(nd) /\ m \notin G /\ m \in Node BY <1>1, <1>6
  <2>2. Sized(nd[m]) BY <1>0, <2>1, LinkedIs
  <2>3. CASE m # t BY <1>2, <2>1, <2>2, <2>3
  <2>4. CASE m = t /\ IsInternal(md[t])
    <3>1. Count(md[t]) = Count(nd[t]) - 1 BY <1>5, <2>4 DEF Dropped
    <3>2. Count(nd[t]) > 1
      <4>1. CASE Count(nd[t]) > 1 BY <4>1
      <4>2. CASE md[t] = [nd[t] EXCEPT !.type = "L", !.elms = <<>>]
        BY <1>3, <2>4, <4>2 DEF IsInternal, NodeRec
      <4> QED BY <4>1, <4>2 DEF Collapses
    <3>3. Count(nd[t]) \in 1 .. INT_ELMS /\ INT_ELMS \in Int
      BY <1>0, <2>2, <2>4, ElmsAssumption DEF Sized
    <3>4. Count(md[t]) \in 1 .. INT_ELMS BY <1>3, <3>1, <3>2, <3>3
    <3> QED BY <2>4, <3>4 DEF Sized
  <2>5. CASE m = t /\ ~IsInternal(md[t])
    <3>1. Len(md[t].elms) = 0 BY <1>5, <2>5, EmptySeq
    <3> QED BY <2>5, <3>1, ElmsAssumption DEF Sized, Count
  <2> QED BY <2>3, <2>4, <2>5
<1>12. ASSUME NEW c \in InUse(md), NEW lo \in AnyKey, NEW hi \in AnyKey, Fits(nd[c], lo, hi)
       PROVE  Fits(md[c], lo, hi)
  <2>1. CASE c # t
    <3>1. md[c] = nd[c] BY <1>1, <1>2, <1>6, <2>1
    <3> QED BY <1>12, <3>1
  <2>2. CASE c = t /\ IsInternal(md[t]) BY <1>5, <1>12, <2>2 DEF Dropped
  <2>3. CASE c = t /\ ~IsInternal(md[t])
    <3>1. Len(md[t].elms) = 0 BY <1>5, <2>3, EmptySeq
    <3>2. 1 .. Len(md[t].elms) = {} BY <3>1
    <3> QED BY <2>3, <3>2 DEF Fits
  <2> QED BY <2>1, <2>2, <2>3
<1>13. ASSUME NEW b \in InUse(md), b # t PROVE Bears(md, b)
  <2> SUFFICES ASSUME IsInternal(md[b]), NEW i \in 0 .. Count(md[b]) - 1 PROVE BearsAt(md, b, i)
    BY DEF Bears
  <2>1. b \in InUse(nd) /\ b \notin G /\ md[b] = nd[b] BY <1>1, <1>2, <1>6, <1>13
  <2> DEFINE c == E(nd[b], i).sub
  <2>2. /\ c \in InUse(nd) /\ nd[c].parent = b
        /\ \A j \in 0 .. Count(nd[b]) - 1 : E(nd[b], j).sub = c => j = i
        /\ Fits(nd[c], E(nd[b], i).base, E(nd[b], i + 1).base)
        /\ E(nd[b], i).base \in AnyKey /\ E(nd[b], i + 1).base \in AnyKey
    BY <2>1, Down
  <2>3. c \notin G BY <1>8, <1>13, <2>1
  <2> HIDE DEF c
  <2>4. c \in InUse(md) /\ md[c].parent = b BY <1>1, <1>2, <1>5, <1>6, <2>2, <2>3
  <2>5. Fits(md[c], E(nd[b], i).base, E(nd[b], i + 1).base) BY <1>12, <2>2, <2>4
  <2>6. E(md[b], i).sub = c BY <2>1 DEF c
  <2> QED BY <2>1, <2>2, <2>4, <2>5, <2>6 DEF BearsAt
<1>14. Bears(md, t)
  <2> SUFFICES ASSUME IsInternal(md[t]), NEW i \in 0 .. Count(md[t]) - 1 PROVE BearsAt(md, t, i)
    BY DEF Bears
  <2>0. Dropped(nd[t], pi, md[t]) BY <1>5
  <2>1. Count(md[t]) = Count(nd[t]) - 1 BY <2>0 DEF Dropped
  <2>2. i \in Nat /\ i < Count(nd[t]) - 1 BY <1>3, <2>1
  (* The child at an element of the new node, and where it was.            *)
  <2>3. ASSUME NEW j \in 0 .. Count(md[t]) - 1
        PROVE  \E u \in 0 .. Count(nd[t]) - 1 :
                 /\ u = IF j < pi THEN j ELSE j + 1
                 /\ E(md[t], j).sub = E(nd[t], u).sub /\ E(md[t], j).base = E(nd[t], u).base
                 /\ u # pi
    <3>1. j \in Nat /\ j < Count(nd[t]) - 1 BY <1>3, <2>1
    <3>2. CASE j < pi
      <4>1. j \in 0 .. pi - 1 /\ j \in 0 .. Count(nd[t]) - 1 /\ j # pi BY <1>3, <3>1, <3>2
      <4> QED BY <2>0, <3>2, <4>1 DEF Dropped
    <3>3. CASE ~(j < pi)
      <4>1. j \in pi .. Count(md[t]) /\ j + 1 \in 0 .. Count(nd[t]) - 1 /\ j + 1 # pi
        BY <1>3, <2>1, <3>1, <3>3
      <4> QED BY <2>0, <3>3, <4>1 DEF Dropped
    <3> QED BY <3>2, <3>3
  <2>4. PICK u \in 0 .. Count(nd[t]) - 1 :
                 /\ u = IF i < pi THEN i ELSE i + 1
                 /\ E(md[t], i).sub = E(nd[t], u).sub /\ E(md[t], i).base = E(nd[t], u).base
                 /\ u # pi
    BY <2>3
  <2> DEFINE c == E(nd[t], u).sub
  <2>5. /\ c \in InUse(nd) /\ nd[c].parent = t /\ c # t
        /\ \A j \in 0 .. Count(nd[t]) - 1 : E(nd[t], j).sub = c => j = u
        /\ Fits(nd[c], E(nd[t], u).base, E(nd[t], u + 1).base)
        /\ E(nd[t], u).base \in AnyKey /\ E(nd[t], u + 1).base \in AnyKey
    BY <1>0, Down
  <2>6. c \notin G BY <1>9, <2>4
  <2> HIDE DEF c
  <2>7. c \in InUse(md) /\ md[c] = nd[c] BY <1>1, <1>2, <1>6, <2>5, <2>6
  <2>8. ASSUME NEW j \in 0 .. Count(md[t]) - 1, E(md[t], j).sub = c PROVE j = i
    <3>1. PICK v \in 0 .. Count(nd[t]) - 1 :
            v = (IF j < pi THEN j ELSE j + 1) /\ E(md[t], j).sub = E(nd[t], v).sub
      BY <2>3
    <3>2. v = u BY <2>5, <2>8, <3>1
    <3>3. j \in Nat BY <1>3, <2>1
    <3> QED BY <1>3, <2>2, <2>4, <3>1, <3>2, <3>3
  <2>9. Fits(md[c], E(md[t], i).base, E(md[t], i + 1).base)
    <3>1. CASE i >= pi
      <4>1. i + 1 \in pi .. Count(md[t]) /\ u = i + 1 BY <1>3, <2>1, <2>2, <2>4, <3>1
      <4>2. E(md[t], i + 1).base = E(nd[t], u + 1).base BY <2>0, <4>1 DEF Dropped
      <4> QED BY <2>4, <2>5, <2>7, <4>2
    <3>2. CASE i + 1 < pi
      <4>1. i + 1 \in 0 .. pi - 1 /\ u = i BY <1>3, <2>2, <2>4, <3>2
      <4>2. E(md[t], i + 1).base = E(nd[t], u + 1).base BY <2>0, <4>1 DEF Dropped
      <4> QED BY <2>4, <2>5, <2>7, <4>2
    <3>3. CASE i + 1 = pi
      <4>1. i + 1 \in pi .. Count(md[t]) /\ u = i BY <1>3, <2>1, <2>2, <2>4, <3>3
      <4>2. E(md[t], i + 1).base = E(nd[t], pi + 1).base /\ E(nd[t], u + 1) = E(nd[t], pi)
        BY <2>0, <3>3, <4>1 DEF Dropped
      <4>3. Cmp(E(nd[t], pi).base, E(nd[t], pi + 1).base) <= 0 /\ E(nd[t], pi + 1).base \in AnyKey
        <5>1. /\ Len(nd[t].elms) \in Nat /\ Count(nd[t]) = Len(nd[t].elms) - 1
              /\ \A j \in 1 .. Len(nd[t].elms) : nd[t].elms[j].base \in AnyKey
          BY <1>0, Shape
        <5>2. pi + 1 \in 1 .. Len(nd[t].elms) /\ pi + 1 + 1 \in 1 .. Len(nd[t].elms)
              /\ pi + 1 < pi + 1 + 1
          BY <1>3, <5>1
        <5>3. \A v, w \in 1 .. Len(nd[t].elms) : v < w =>
                 Cmp(nd[t].elms[v].base, nd[t].elms[w].base) < 0
          <6>1. CASE t = rt BY <1>0, <6>1, LinkedIs DEF Fits
          <6>2. CASE t # rt
            <7>1. \E lo, hi : Fits(nd[t], lo, hi)
              <8>1. nd[t].parent \in InUse(nd) /\ IsInternal(nd[nd[t].parent]) BY <1>0, <6>2, Up
              <8>2. PICK j \in 0 .. Count(nd[nd[t].parent]) - 1 : E(nd[nd[t].parent], j).sub = t
                BY <1>0, <6>2, Up
              <8> QED BY <8>1, <8>2, Down
            <7> QED BY <7>1 DEF Fits
          <6> QED BY <6>1, <6>2
        <5>4. Cmp(nd[t].elms[pi + 1].base, nd[t].elms[pi + 1 + 1].base) < 0
          BY <5>2, <5>3
        <5>5. nd[t].elms[pi + 1].base \in AnyKey /\ nd[t].elms[pi + 1 + 1].base \in AnyKey
          BY <5>1, <5>2
        <5>6. Cmp(nd[t].elms[pi + 1].base, nd[t].elms[pi + 1 + 1].base) <= 0
          BY <5>4, <5>5, CmpOrder
        <5> QED BY <5>5, <5>6 DEF E
      <4>4. \A j \in 1 .. Len(nd[c].elms) : nd[c].elms[j].base \in AnyKey BY <1>0, <2>5, Shape
      <4>5. Cmp(E(nd[t], u).base, E(nd[t], u).base) <= 0 BY <2>5, CmpOrder
      <4>6. Fits(nd[c], E(nd[t], u).base, E(nd[t], pi + 1).base)
        BY <2>5, <4>2, <4>3, <4>4, <4>5, Wider
      <4> QED BY <2>4, <2>7, <4>2, <4>6
    <3> QED BY <1>3, <2>2, <3>1, <3>2, <3>3
  <2>10. E(md[t], i).sub = c BY <2>4 DEF c
  <2> QED BY <2>5, <2>7, <2>8, <2>9, <2>10 DEF BearsAt
<1>15. rt \in InUse(md) /\ Fits(md[rt], RootBeg, RootEnd) /\ md[rt].parent = NULL
  <2>1. rt \in InUse(nd) /\ Fits(nd[rt], RootBeg, RootEnd) /\ nd[rt].parent = NULL
    BY <1>0, LinkedIs
  <2> QED BY <1>1, <1>2, <1>4, <1>5, <1>6, <1>12, <2>1, RootKeys
<1>16. Linked(rt, md)
  BY <1>0, <1>7, <1>10, <1>11, <1>13, <1>14, <1>15, LinkedIs
<1>17. Ranked(rt, md)
  <2>1. \A m \in InUse(md) : m \in InUse(nd) /\ md[m].parent = nd[m].parent
    BY <1>1, <1>2, <1>5, <1>6
  <2> QED BY <1>0, <2>1 DEF Ranked
<1> QED BY <1>0, <1>6, <1>7, <1>16, <1>17 DEF Tree

(* A node's new name.                                                      *)
Renamed(m, n, nn) == IF m = n THEN nn ELSE m
Moves(nd, n, nn, md) ==
  /\ md \in [Node -> NodeRec] /\ Kinds(md) /\ InUse(md) = (InUse(nd) \ {n}) \union {nn}
  /\ \A b \in InUse(nd) :
       LET y == md[Renamed(b, n, nn)] IN
       /\ y.type = nd[b].type /\ y.parent = Renamed(nd[b].parent, n, nn)
       /\ Len(y.elms) = Len(nd[b].elms)
       /\ \A i \in 1 .. Len(nd[b].elms) : y.elms[i].base = nd[b].elms[i].base
       /\ IsInternal(nd[b]) =>
            \A i \in 0 .. Count(nd[b]) - 1 : E(y, i).sub = Renamed(E(nd[b], i).sub, n, nn)

(* A node that is moved to a free offset keeps the tree.                   *)
LEMMA MoveTree ==
  ASSUME NEW rt, NEW nd, Tree(rt, nd), NEW n \in InUse(nd), NEW nn \in FreeNodes(nd),
         NEW md, Moves(nd, n, nn, md)
  PROVE  Tree(Renamed(rt, n, nn), md)
<1> DEFINE F(m) == Renamed(m, n, nn)
<1>0. /\ nd \in [Node -> NodeRec] /\ Kinds(nd) /\ Linked(rt, nd) /\ Ranked(rt, nd)
      /\ nn \in Node /\ nn \notin InUse(nd) /\ nn # NULL /\ n # NULL
      /\ \A m \in InUse(nd) : m \in Node /\ m # NULL
      /\ md \in [Node -> NodeRec] /\ Kinds(md) /\ InUse(md) = (InUse(nd) \ {n}) \union {nn}
  BY NodeAssumption DEF Tree, FreeNodes, InUse, Moves
<1>1. /\ \A m \in InUse(nd) : F(m) \in InUse(md) /\ F(m) # NULL
      /\ \A m \in InUse(md) : \E b \in InUse(nd) : m = F(b)
      /\ \A b, c \in InUse(nd) : F(b) = F(c) => b = c
      /\ F(NULL) = NULL
  BY <1>0 DEF Renamed
<1>2. ASSUME NEW b \in InUse(nd)
      PROVE  /\ md[F(b)].type = nd[b].type /\ md[F(b)].parent = F(nd[b].parent)
             /\ Len(md[F(b)].elms) = Len(nd[b].elms)
             /\ \A i \in 1 .. Len(nd[b].elms) : md[F(b)].elms[i].base = nd[b].elms[i].base
             /\ IsInternal(nd[b]) =>
                  \A i \in 0 .. Count(nd[b]) - 1 : E(md[F(b)], i).sub = F(E(nd[b], i).sub)
  BY DEF Moves
<1> HIDE DEF F
<1>3. ASSUME NEW b \in InUse(nd)
      PROVE  /\ IsInternal(md[F(b)]) <=> IsInternal(nd[b])
             /\ Count(md[F(b)]) = Count(nd[b])
             /\ \A lo, hi : Fits(nd[b], lo, hi) => Fits(md[F(b)], lo, hi)
  BY <1>2 DEF IsInternal, Count, Fits
<1>4. ASSUME NEW m \in InUse(md), NEW b \in InUse(nd), m = F(b)
      PROVE  (m # F(rt) => Attached(md, m)) /\ Sized(md[m]) /\ Bears(md, m)
  <2>1. m # F(rt) => Attached(md, m)
    <3> SUFFICES ASSUME b # rt PROVE Attached(md, m) BY <1>4
    <3> DEFINE a == nd[b].parent
    <3>1. a \in InUse(nd) /\ IsInternal(nd[a]) BY Up
    <3>2. PICK i \in 0 .. Count(nd[a]) - 1 : E(nd[a], i).sub = b BY Up
    <3> HIDE DEF a
    <3>3. md[m].parent = F(a) BY <1>2, <1>4 DEF a
    <3>4. F(a) \in InUse(md) /\ IsInternal(md[F(a)]) BY <1>1, <1>3, <3>1
    <3>5. i \in 0 .. Count(md[F(a)]) - 1 /\ E(md[F(a)], i).sub = m
      BY <1>2, <1>3, <1>4, <3>1, <3>2
    <3> QED BY <3>3, <3>4, <3>5 DEF Attached
  <2>2. Sized(md[m])
    <3>1. Sized(nd[b]) BY <1>0, LinkedIs
    <3> QED BY <1>3, <1>4, <3>1 DEF Sized
  <2>3. ASSUME IsInternal(md[m]), NEW i \in 0 .. Count(md[m]) - 1 PROVE BearsAt(md, m, i)
    <3>1. IsInternal(nd[b]) /\ i \in 0 .. Count(nd[b]) - 1 /\ Count(md[m]) = Count(nd[b])
      BY <1>3, <1>4, <2>3
    <3> DEFINE c == E(nd[b], i).sub
    <3>2. /\ c \in InUse(nd) /\ nd[c].parent = b
          /\ \A j \in 0 .. Count(nd[b]) - 1 : E(nd[b], j).sub = c => j = i
          /\ Fits(nd[c], E(nd[b], i).base, E(nd[b], i + 1).base)
      BY <3>1, Down
    <3>3. \A j \in 0 .. Count(nd[b]) - 1 : E(nd[b], j).sub \in InUse(nd) BY <3>1, Down
    <3>4. E(md[m], i).sub = F(c) BY <1>2, <1>4, <3>1
    <3> HIDE DEF c
    <3>5. F(c) \in InUse(md) /\ md[F(c)].parent = m BY <1>1, <1>2, <1>4, <3>2
    <3>6. \A j \in 0 .. Count(md[m]) - 1 : E(md[m], j).sub = F(c) => j = i
      BY <1>1, <1>2, <1>4, <3>1, <3>2, <3>3
    <3>7. E(md[m], i).base = E(nd[b], i).base /\ E(md[m], i + 1).base = E(nd[b], i + 1).base
      <4>1. Len(nd[b].elms) \in Nat /\ Count(nd[b]) = Len(nd[b].elms) - 1 BY <1>0, <3>1, Shape
      <4>2. i + 1 \in 1 .. Len(nd[b].elms) /\ i + 1 + 1 \in 1 .. Len(nd[b].elms) BY <3>1, <4>1
      <4> QED BY <1>2, <1>4, <4>2 DEF E
    <3> QED BY <1>3, <3>2, <3>4, <3>5, <3>6, <3>7 DEF BearsAt
  <2> QED BY <2>1, <2>2, <2>3 DEF Bears
<1>5. F(rt) \in InUse(md) /\ Fits(md[F(rt)], RootBeg, RootEnd) /\ md[F(rt)].parent = NULL
  <2>1. rt \in InUse(nd) /\ Fits(nd[rt], RootBeg, RootEnd) /\ nd[rt].parent = NULL
    BY <1>0, LinkedIs
  <2> QED BY <1>1, <1>2, <1>3, <2>1
<1>6. Linked(F(rt), md) BY <1>0, <1>1, <1>4, <1>5, LinkedIs
<1>7. Ranked(F(rt), md)
  <2>1. PICK h \in [Node -> Nat] : \A m \in InUse(nd) : m # rt => h[nd[m].parent] < h[m]
    BY <1>0 DEF Ranked
  <2> DEFINE g == [m \in Node |-> IF m = nn THEN h[n] ELSE h[m]]
  <2>2. g \in [Node -> Nat] BY <1>0
  <2>3. \A b \in InUse(nd) : g[F(b)] = h[b] BY <1>0 DEF F, Renamed
  <2> HIDE DEF g
  <2>4. ASSUME NEW m \in InUse(md), m # F(rt) PROVE g[md[m].parent] < g[m]
    <3>1. PICK b \in InUse(nd) : m = F(b) BY <1>1
    <3>2. b # rt BY <2>4, <3>1
    <3>3. nd[b].parent \in InUse(nd) /\ md[m].parent = F(nd[b].parent) BY <1>2, <3>1, <3>2, Up
    <3> QED BY <2>1, <2>3, <3>1, <3>2, <3>3
  <2> QED BY <2>2, <2>4 DEF Ranked
<1> QED BY <1>0, <1>6, <1>7 DEF F, Tree
-----------------------------------------------------------------------------
(* The chain of a node's ancestors.                                        *)
LEMMA ChainIs ==
  ASSUME NEW nd \in [Node -> NodeRec], NEW n \in Node
  PROVE  /\ Cardinality(Node) \in Nat
         /\ Chain(nd, n) \in [0 .. Cardinality(Node) -> AnyNode] /\ Chain(nd, n)[0] = n
         /\ \A j \in 1 .. Cardinality(Node) : Chain(nd, n)[j] = Parent(nd, Chain(nd, n)[j - 1])
<1> DEFINE M == Cardinality(Node)
           Up2(f, k) == \A j \in 0 .. k : f[j] = IF j = 0 THEN n ELSE Parent(nd, f[j - 1])
<1>1. M \in Nat BY NodeAssumption, FS_CardinalityType
<1> HIDE DEF M
<1>2. \A m \in AnyNode : Parent(nd, m) \in AnyNode BY DEF Parent, AnyNode, NodeRec
<1>3. \E f \in [0 .. M -> AnyNode] : Up2(f, M)
  <2> DEFINE Bad == {k \in Nat : ~(\E f \in [0 .. k -> AnyNode] : Up2(f, k))}
  <2>1. SUFFICES ASSUME Bad # {} PROVE FALSE BY <1>1
  <2>2. Bad \in SUBSET Nat OBVIOUS
  <2>3. PICK k \in Bad : \A l \in Bad : k <= l BY <2>1, <2>2, LeastOf
  <2>4. k \in Nat OBVIOUS
  <2>5. k # 0
    <3>1. SUFFICES \E f \in [0 .. 0 -> AnyNode] : Up2(f, 0) OBVIOUS
    <3> DEFINE f == [j \in 0 .. 0 |-> n]
    <3>2. f \in [0 .. 0 -> AnyNode] /\ Up2(f, 0) BY DEF AnyNode
    <3> QED BY <3>2
  <2>6. k - 1 \in Nat /\ k - 1 \notin Bad BY <2>3, <2>4, <2>5
  <2>7. PICK f \in [0 .. k - 1 -> AnyNode] : Up2(f, k - 1) BY <2>6
  <2> DEFINE g == [j \in 0 .. k |-> IF j = k THEN Parent(nd, f[k - 1]) ELSE f[j]]
  <2>8. g \in [0 .. k -> AnyNode]
    <3>1. k - 1 \in 0 .. k - 1 BY <2>6
    <3>2. Parent(nd, f[k - 1]) \in AnyNode BY <1>2, <3>1
    <3>3. \A j \in 0 .. k : j # k => j \in 0 .. k - 1 BY <2>4
    <3> QED BY <3>2, <3>3
  <2>9. Up2(g, k)
    <3> SUFFICES ASSUME NEW j \in 0 .. k
                 PROVE  g[j] = IF j = 0 THEN n ELSE Parent(nd, g[j - 1])
      OBVIOUS
    <3>1. CASE j = k
      <4>1. k - 1 \in 0 .. k /\ k - 1 # k /\ k \in 0 .. k BY <2>6
      <4>2. g[k] = Parent(nd, f[k - 1]) /\ g[k - 1] = f[k - 1] BY <4>1
      <4> QED BY <2>5, <3>1, <4>2
    <3>2. CASE j # k /\ j # 0
      <4>1. j \in 0 .. k - 1 /\ j - 1 \in 0 .. k /\ j - 1 # k BY <2>4, <3>2
      <4>2. f[j] = Parent(nd, f[j - 1]) BY <2>7, <3>2, <4>1
      <4> QED BY <3>2, <4>1, <4>2
    <3>3. CASE j = 0
      <4>1. 0 \in 0 .. k - 1 BY <2>6
      <4>2. f[0] = n BY <2>7, <4>1
      <4> QED BY <2>5, <3>3, <4>2
    <3> QED BY <3>1, <3>2, <3>3
  <2> HIDE DEF g, Up2
  <2> QED BY <2>4, <2>8, <2>9
<1>4. PICK f \in [0 .. M -> AnyNode] : Up2(f, M) BY <1>3
<1> DEFINE Is(g) == g = [j \in 0 .. M |-> IF j = 0 THEN n ELSE Parent(nd, g[j - 1])]
<1>5. Is(f) BY <1>4
<1>6. Chain(nd, n) = CHOOSE g : Is(g) BY DEF Chain, M
<1> HIDE DEF Is
<1>7. Is(Chain(nd, n)) BY <1>5, <1>6
<1> DEFINE ch == Chain(nd, n)
<1>8. ch = [j \in 0 .. M |-> IF j = 0 THEN n ELSE Parent(nd, ch[j - 1])] BY <1>7 DEF Is
<1> HIDE DEF ch
<1>9. ch[0] = n /\ \A j \in 1 .. M : ch[j] = Parent(nd, ch[j - 1])
  <2>1. 0 \in 0 .. M /\ \A j \in 1 .. M : j \in 0 .. M /\ j # 0 BY <1>1
  <2> QED BY <1>8, <2>1
<1>10. \A j \in 0 .. M : ch[j] \in AnyNode
  <2> DEFINE Bad == {j \in 0 .. M : ch[j] \notin AnyNode}
  <2>1. SUFFICES ASSUME Bad # {} PROVE FALSE OBVIOUS
  <2>2. Bad \in SUBSET Nat BY <1>1
  <2>3. PICK k \in Bad : \A l \in Bad : k <= l BY <2>1, <2>2, LeastOf
  <2>4. k \in Nat /\ k <= M /\ k # 0 BY <1>1, <1>9 DEF AnyNode
  <2>5. k - 1 \in 0 .. M /\ k - 1 \notin Bad /\ k \in 1 .. M BY <1>1, <2>3, <2>4
  <2>6. ch[k - 1] \in AnyNode BY <2>5
  <2> QED BY <1>2, <1>9, <2>5, <2>6
<1>11. ch \in [0 .. M -> AnyNode] BY <1>8, <1>10
<1> QED BY <1>1, <1>9, <1>11 DEF ch, M

(* It ends at the root, and comes by no node twice.                        *)
Leads(rt, nd, ch, d) ==
  /\ d \in 0 .. Cardinality(Node) /\ ch[d] = rt
  /\ \A j \in 0 .. d : ch[j] \in InUse(nd)
  /\ \A j \in 0 .. d : j # d => ch[j] # rt /\ ch[j + 1] = nd[ch[j]].parent
  /\ \A i, j \in 0 .. d : i < j => ch[i] # ch[j]

(* The ancestors of a node end at the root.                                *)
LEMMA ChainLeads ==
  ASSUME NEW rt, NEW nd, Tree(rt, nd), NEW n \in InUse(nd)
  PROVE  \E d : Leads(rt, nd, Chain(nd, n), d)
<1> DEFINE ch == Chain(nd, n)
           M == Cardinality(Node)
<1>0. /\ nd \in [Node -> NodeRec] /\ n \in Node
      /\ \A m \in InUse(nd) : m \in Node /\ m # NULL /\ (m # rt => nd[m].parent \in InUse(nd))
  <2>1. nd \in [Node -> NodeRec] /\ Kinds(nd) BY DEF Tree
  <2> QED BY <2>1, Shape, Up
<1>1. /\ M \in Nat /\ ch \in [0 .. M -> AnyNode] /\ ch[0] = n
      /\ \A j \in 1 .. M : ch[j] = Parent(nd, ch[j - 1])
  BY <1>0, ChainIs
<1>2. PICK h \in [Node -> Nat] : \A m \in InUse(nd) : m # rt => h[nd[m].parent] < h[m]
  BY DEF Tree, Ranked
<1> HIDE DEF ch, M
<1>3. ASSUME NEW j \in 0 .. M, j # M, ch[j] \in InUse(nd), ch[j] # rt
      PROVE  ch[j + 1] = nd[ch[j]].parent /\ ch[j + 1] \in InUse(nd) /\ h[ch[j + 1]] < h[ch[j]]
  <2>1. j + 1 \in 1 .. M /\ j + 1 - 1 = j BY <1>1, <1>3
  <2>2. ch[j + 1] = nd[ch[j]].parent BY <1>0, <1>1, <1>3, <2>1 DEF Parent
  <2> QED BY <1>0, <1>2, <1>3, <2>2
<1>4. ASSUME NEW k \in 0 .. M, \A j \in 0 .. k : j # k => ch[j] # rt
      PROVE  \A j \in 0 .. k : ch[j] \in InUse(nd)
  <2> DEFINE Bad == {j \in 0 .. k : ch[j] \notin InUse(nd)}
  <2>1. SUFFICES ASSUME Bad # {} PROVE FALSE OBVIOUS
  <2>0. k \in Nat /\ k <= M BY <1>1
  <2>2. Bad \in SUBSET Nat BY <2>0
  <2>3. PICK j \in Bad : \A l \in Bad : j <= l BY <2>1, <2>2, LeastOf
  <2>4. j \in Nat /\ j <= k /\ j # 0 BY <1>1, <2>0
  <2>5. j - 1 \in 0 .. k /\ j - 1 # k /\ j - 1 \notin Bad /\ j - 1 \in 0 .. M /\ j - 1 # M /\ j - 1 + 1 = j
    BY <1>1, <2>0, <2>3, <2>4
  <2>6. ch[j - 1] \in InUse(nd) /\ ch[j - 1] # rt BY <1>4, <2>5
  <2>7. ch[j - 1 + 1] \in InUse(nd) BY <1>3, <2>5, <2>6
  <2> QED BY <2>5, <2>7
<1>5. ASSUME NEW k \in 0 .. M, \A j \in 0 .. k : j # k => ch[j] # rt,
             NEW i \in 0 .. k
      PROVE  \A j \in 0 .. k : i < j => h[ch[j]] < h[ch[i]]
  <2> DEFINE Bad == {j \in 0 .. k : i < j /\ ~(h[ch[j]] < h[ch[i]])}
  <2>1. SUFFICES ASSUME Bad # {} PROVE FALSE OBVIOUS
  <2>0. k \in Nat /\ k <= M /\ i \in Nat /\ i <= k BY <1>1
  <2>2. Bad \in SUBSET Nat BY <2>0
  <2>3. PICK j \in Bad : \A l \in Bad : j <= l BY <2>1, <2>2, LeastOf
  <2>4. j \in Nat /\ j <= k /\ i < j /\ ~(h[ch[j]] < h[ch[i]]) BY <2>0
  <2>5. j - 1 \in 0 .. k /\ j - 1 # k /\ j - 1 \notin Bad /\ j - 1 \in 0 .. M /\ j - 1 # M /\ j - 1 + 1 = j
    BY <1>1, <2>0, <2>3, <2>4
  <2>6. ch[j - 1] \in InUse(nd) /\ ch[i] \in InUse(nd) /\ ch[j] \in InUse(nd) /\ ch[j - 1] # rt
    BY <1>4, <1>5, <2>5
  <2>7. h[ch[j]] < h[ch[j - 1]] BY <1>3, <2>5, <2>6
  <2>8. h[ch[j]] \in Nat /\ h[ch[j - 1]] \in Nat /\ h[ch[i]] \in Nat BY <1>0, <2>6
  <2>9. i = j - 1 \/ h[ch[j - 1]] < h[ch[i]] BY <2>0, <2>4, <2>5
  <2> QED BY <2>4, <2>7, <2>8, <2>9
<1>6. \E j \in 0 .. M : ch[j] = rt
  <2> SUFFICES ASSUME \A j \in 0 .. M : ch[j] # rt PROVE FALSE OBVIOUS
  <2>0. M \in 0 .. M BY <1>1
  <2>1. \A j \in 0 .. M : ch[j] \in InUse(nd) BY <1>4, <2>0
  <2>2. ch \in [0 .. M -> Node] BY <1>0, <1>1, <2>1
  <2>3. IsFiniteSet(0 .. M) /\ Cardinality(0 .. M) = M + 1 BY <1>1, FS_Interval
  <2>4. PICK i, j \in 0 .. M : i # j /\ ch[i] = ch[j]
    <3>1. Cardinality(Node) < Cardinality(0 .. M) BY <1>1, <2>3 DEF M
    <3>2. IsFiniteSet(Node) /\ IsFiniteSet(0 .. M) BY <2>3, NodeAssumption
    <3> HIDE DEF M
    <3> QED BY <2>2, <3>1, <3>2, FS_PigeonHole
  <2>5. /\ i < j => h[ch[j]] < h[ch[i]]
        /\ j < i => h[ch[i]] < h[ch[j]]
    BY <1>5, <2>0
  <2>6. h[ch[i]] \in Nat /\ h[ch[i]] = h[ch[j]] /\ i \in Nat /\ j \in Nat
    BY <1>0, <1>1, <2>1, <2>4
  <2> QED BY <2>4, <2>5, <2>6
<1>7. PICK d \in 0 .. M : ch[d] = rt /\ \A j \in 0 .. M : ch[j] = rt => d <= j
  <2> DEFINE S == {j \in 0 .. M : ch[j] = rt}
  <2>1. S \in SUBSET Nat /\ S # {} BY <1>1, <1>6
  <2> QED BY <2>1, LeastOf
<1>8. d \in Nat /\ d <= M BY <1>1
<1>9. \A j \in 0 .. d : j \in 0 .. M /\ (j # d => ch[j] # rt /\ j # M) BY <1>1, <1>7, <1>8
<1>10. \A j \in 0 .. d : ch[j] \in InUse(nd) BY <1>4, <1>9
<1>11. \A j \in 0 .. d : j # d => ch[j + 1] = nd[ch[j]].parent BY <1>3, <1>9, <1>10
<1>12. \A i, j \in 0 .. d : i < j => h[ch[j]] < h[ch[i]] BY <1>5, <1>9
<1>13. \A i \in 0 .. d : h[ch[i]] \in Nat BY <1>0, <1>10
<1>14. \A i, j \in 0 .. d : i < j => ch[i] # ch[j] BY <1>12, <1>13
<1> QED BY <1>7, <1>9, <1>10, <1>11, <1>14 DEF Leads, ch, M

(* So a tree is well formed, and a well formed one is a tree.              *)
LEMMA TreeHangs ==
  ASSUME NEW rt, NEW nd, Tree(rt, nd)
  PROVE  WellFormed(rt, nd)
<1>1. ASSUME NEW n \in InUse(nd) PROVE Hangs(rt, nd, n)
  BY ChainLeads DEF Leads, Hangs
<1> QED BY <1>1 DEF Tree, WellFormed

(* A well-formed tree has no cycle: the ranks are the distances from the   *)
(* root.                                                                   *)
LEMMA HangsTree ==
  ASSUME NEW rt, NEW nd \in [Node -> NodeRec], Kinds(nd), WellFormed(rt, nd)
  PROVE  Tree(rt, nd)
<1> DEFINE M == Cardinality(Node)
<1>1. Linked(rt, nd) /\ \A n \in InUse(nd) : \E j \in 0 .. M : Chain(nd, n)[j] = rt
  BY DEF WellFormed, Hangs
<1>2. ASSUME NEW n \in InUse(nd), n # rt
      PROVE  n \in Node /\ n # NULL /\ nd[n].parent \in InUse(nd)
  BY <1>1, <1>2, Shape, LinkedIs DEF Attached
<1>3. M \in Nat BY NodeAssumption, FS_CardinalityType
<1> HIDE DEF M
<1> DEFINE h == [n \in Node |-> CHOOSE j \in 0 .. M :
                    Chain(nd, n)[j] = rt /\ \A i \in 0 .. M : Chain(nd, n)[i] = rt => j <= i]
           Is(n, j) == /\ j \in 0 .. M /\ Chain(nd, n)[j] = rt
                       /\ \A i \in 0 .. M : Chain(nd, n)[i] = rt => j <= i
<1>4. ASSUME NEW n \in InUse(nd) PROVE Is(n, h[n])
  <2> DEFINE S == {j \in 0 .. M : Chain(nd, n)[j] = rt}
  <2>1. S \in SUBSET Nat /\ S # {} BY <1>1, <1>3 DEF M
  <2>2. \E j : Is(n, j) BY <2>1, LeastOf
  <2>3. n \in Node BY DEF InUse
  <2> QED BY <2>2, <2>3
<1> HIDE DEF h
<1> DEFINE g == [n \in Node |-> IF n \in InUse(nd) THEN h[n] ELSE 0]
<1>5. g \in [Node -> Nat] BY <1>3, <1>4
<1>6. ASSUME NEW n \in InUse(nd), n # rt PROVE g[nd[n].parent] < g[n]
  <2> DEFINE a == nd[n].parent
             k == h[n]
  <2>1. n \in Node /\ n # NULL /\ a \in InUse(nd) /\ a \in Node BY <1>2, <1>6 DEF InUse
  <2>2. Is(n, k) /\ Is(a, h[a]) BY <1>4, <2>1
  <2>3. /\ Chain(nd, n)[0] = n /\ \A j \in 1 .. M : Chain(nd, n)[j] = Parent(nd, Chain(nd, n)[j - 1])
        /\ Chain(nd, a)[0] = a /\ \A j \in 1 .. M : Chain(nd, a)[j] = Parent(nd, Chain(nd, a)[j - 1])
    BY <2>1, ChainIs DEF M
  <2> HIDE DEF k, a
  <2>4. k \in Nat /\ k <= M /\ k # 0 BY <1>3, <1>6, <2>2, <2>3
  <2>5. \A j \in 0 .. M : j # M => Chain(nd, n)[j + 1] = Chain(nd, a)[j]
    <3> DEFINE Bad == {j \in 0 .. M : j # M /\ Chain(nd, n)[j + 1] # Chain(nd, a)[j]}
    <3>1. SUFFICES ASSUME Bad # {} PROVE FALSE OBVIOUS
    <3>2. Bad \in SUBSET Nat BY <1>3
    <3>3. PICK j \in Bad : \A l \in Bad : j <= l BY <3>1, <3>2, LeastOf
    <3>4. j \in Nat /\ j < M /\ Chain(nd, n)[j + 1] # Chain(nd, a)[j] BY <1>3
    <3>5. Chain(nd, n)[j + 1] = Parent(nd, Chain(nd, n)[j])
      <4>1. j + 1 \in 1 .. M /\ j + 1 - 1 = j BY <1>3, <3>4
      <4> QED BY <2>3, <4>1
    <3>6. j # 0 BY <2>1, <2>3, <3>4, <3>5 DEF Parent, a
    <3>7. j - 1 \in 0 .. M /\ j - 1 # M /\ j - 1 \notin Bad /\ j - 1 + 1 = j /\ j \in 1 .. M
      BY <1>3, <3>3, <3>4, <3>6
    <3>8. Chain(nd, n)[j] = Chain(nd, a)[j - 1] BY <3>7
    <3>9. Chain(nd, a)[j] = Parent(nd, Chain(nd, a)[j - 1]) BY <2>3, <3>7
    <3> QED BY <3>4, <3>5, <3>8, <3>9
  <2>6. k - 1 \in 0 .. M /\ k - 1 # M /\ k - 1 + 1 = k BY <1>3, <2>4
  <2>7. Chain(nd, a)[k - 1] = rt BY <2>2, <2>5, <2>6
  <2>8. h[a] <= k - 1 /\ h[a] \in Nat BY <1>3, <2>2, <2>6, <2>7
  <2>9. h[a] < k BY <2>4, <2>8
  <2> QED BY <2>1, <2>9 DEF a, k
<1> HIDE DEF g
<1>7. Ranked(rt, nd) BY <1>5, <1>6 DEF Ranked
<1> QED BY <1>1, <1>7 DEF Tree

(* The ancestors of n that go with it, if n goes.                          *)
Climb(rt, nd, n, ch, top) ==
  /\ top \in Nat /\ 1 <= top /\ top <= Cardinality(Node) /\ ch[0] = n
  /\ \A j \in 0 .. top : ch[j] \in InUse(nd)
  /\ \A j \in 0 .. top - 1 : ch[j] # rt /\ ch[j + 1] = nd[ch[j]].parent
  /\ \A i, j \in 0 .. top : i < j => ch[i] # ch[j]
  /\ \A j \in 1 .. top : IsInternal(nd[ch[j]]) /\ ch[j - 1] \in Children(nd[ch[j]])
  /\ \A j \in 1 .. top - 1 : Count(nd[ch[j]]) = 1
  /\ Count(nd[ch[top]]) > 1 \/ (ch[top] = rt /\ Count(nd[ch[top]]) = 1)

(* btree_remove's climb ends, at an ancestor that keeps a child or at the  *)
(* root.                                                                   *)
LEMMA TopLevelIs ==
  ASSUME NEW rt, NEW nd, Tree(rt, nd), NEW n \in InUse(nd), n # rt
  PROVE  Climb(rt, nd, n, Chain(nd, n), TopLevel(nd, Chain(nd, n)))
<1> DEFINE ch == Chain(nd, n)
           M == Cardinality(Node)
           Top(m) == /\ ch[m] # NULL /\ (Count(nd[ch[m]]) > 1 \/ nd[ch[m]].parent = NULL)
                     /\ \A j \in 1 .. m - 1 : Count(nd[ch[j]]) = 1
<1>0. /\ nd \in [Node -> NodeRec] /\ Kinds(nd) /\ nd[rt].parent = NULL
      /\ \A m \in InUse(nd) : m \in Node /\ m # NULL /\ (nd[m].parent = NULL <=> m = rt)
  BY Shape, Up, LinkedIs DEF Tree
<1>1. /\ M \in Nat /\ ch \in [0 .. M -> AnyNode] /\ ch[0] = n
      /\ \A j \in 1 .. M : ch[j] = Parent(nd, ch[j - 1])
  <2>1. n \in Node BY <1>0
  <2> QED BY <1>0, <2>1, ChainIs
<1>2. PICK d : Leads(rt, nd, ch, d) BY ChainLeads
<1>3. TopLevel(nd, ch) = CHOOSE m \in 1 .. M : Top(m) BY DEF TopLevel, M
<1> HIDE DEF ch, M
<1>4. /\ d \in Nat /\ d <= M /\ d # 0 /\ ch[d] = rt
      /\ \A j \in 0 .. d : ch[j] \in InUse(nd)
      /\ \A j \in 0 .. d : j # d => ch[j] # rt /\ ch[j + 1] = nd[ch[j]].parent
      /\ \A i, j \in 0 .. d : i < j => ch[i] # ch[j]
  BY <1>1, <1>2 DEF Leads, M
<1>5. ASSUME NEW j \in 1 .. d
      PROVE  /\ IsInternal(nd[ch[j]]) /\ ch[j - 1] \in Children(nd[ch[j]])
             /\ Count(nd[ch[j]]) \in Int /\ Count(nd[ch[j]]) >= 1
  <2>1. j - 1 \in 0 .. d /\ j - 1 # d /\ j - 1 + 1 = j /\ j \in 0 .. d BY <1>4
  <2>2. ch[j - 1] \in InUse(nd) /\ ch[j - 1] # rt /\ ch[j] = nd[ch[j - 1]].parent BY <1>4, <2>1
  <2>3. /\ IsInternal(nd[ch[j]])
        /\ \E i \in 0 .. Count(nd[ch[j]]) - 1 : E(nd[ch[j]], i).sub = ch[j - 1]
    BY <2>2, Up
  <2>4. Count(nd[ch[j]]) \in Int BY <1>0, <1>4, <2>1, Shape
  <2> QED BY <2>3, <2>4 DEF Children
<1>6. \E m \in 1 .. M : Top(m)
  <2> DEFINE S == {j \in 1 .. d : Count(nd[ch[j]]) > 1 \/ nd[ch[j]].parent = NULL}
  <2>1. d \in S BY <1>0, <1>4
  <2>2. S \in SUBSET Nat BY <1>4
  <2>3. PICK m \in S : \A l \in S : m <= l BY <2>1, <2>2, LeastOf
  <2>4. m \in Nat /\ m >= 1 /\ m <= d /\ m \in 0 .. d BY <1>4
  <2>5. ASSUME NEW j \in 1 .. m - 1 PROVE Count(nd[ch[j]]) = 1
    <3>1. j \in 1 .. d /\ j \notin S BY <1>4, <2>3, <2>4
    <3> QED BY <1>5, <3>1
  <2>6. ch[m] # NULL BY <1>0, <1>4, <2>4
  <2> QED BY <1>1, <1>4, <2>4, <2>5, <2>6
<1> DEFINE top == TopLevel(nd, ch)
<1>7. top \in 1 .. M /\ Top(top) BY <1>3, <1>6
<1> HIDE DEF top
<1>8. top \in Nat /\ 1 <= top /\ top <= M BY <1>1, <1>7
<1>9. top <= d
  <2> SUFFICES ASSUME top > d PROVE FALSE BY <1>4, <1>8
  <2>1. \A j \in Nat : d < j /\ j <= top => ch[j] = NULL
    <3> DEFINE Bad == {j \in d + 1 .. top : ch[j] # NULL}
    <3>1. SUFFICES ASSUME Bad # {} PROVE FALSE BY <1>4, <1>8
    <3>2. Bad \in SUBSET Nat BY <1>4
    <3>3. PICK j \in Bad : \A l \in Bad : j <= l BY <3>1, <3>2, LeastOf
    <3>4. j \in Nat /\ d + 1 <= j /\ j <= top /\ ch[j] # NULL /\ j \in 1 .. M BY <1>1, <1>4, <1>8
    <3>5. ch[j] = Parent(nd, ch[j - 1]) BY <1>1, <3>4
    <3>6. CASE j = d + 1
      <4>1. ch[j - 1] = rt BY <1>4, <3>6
      <4> QED BY <1>0, <3>4, <3>5, <4>1 DEF Parent
    <3>7. CASE j # d + 1
      <4>1. j - 1 \in d + 1 .. top /\ j - 1 \notin Bad BY <1>4, <1>8, <3>3, <3>4, <3>7
      <4>2. ch[j - 1] = NULL BY <4>1
      <4> QED BY <3>4, <3>5, <4>2 DEF Parent
    <3> QED BY <3>6, <3>7
  <2>2. ch[top] = NULL BY <1>8, <2>1
  <2> QED BY <1>7, <2>2
<1>10. \A j \in 0 .. top : j \in 0 .. d BY <1>4, <1>8, <1>9
<1>11. \A j \in 0 .. top - 1 : j \in 0 .. d /\ j # d BY <1>4, <1>8, <1>9
<1>12. \A j \in 1 .. top : j \in 1 .. d BY <1>4, <1>8, <1>9
<1>13. Count(nd[ch[top]]) > 1 \/ (ch[top] = rt /\ Count(nd[ch[top]]) = 1)
  <2>1. top \in 1 .. top /\ top \in 0 .. top BY <1>8
  <2>2. Count(nd[ch[top]]) \in Int /\ Count(nd[ch[top]]) >= 1 BY <1>5, <1>12, <2>1
  <2>3. ch[top] \in InUse(nd) BY <1>4, <1>10, <2>1
  <2> QED BY <1>0, <1>7, <2>2, <2>3
<1>14. \A j \in 0 .. top : ch[j] \in InUse(nd) BY <1>4, <1>10
<1>15. \A j \in 0 .. top - 1 : ch[j] # rt /\ ch[j + 1] = nd[ch[j]].parent BY <1>4, <1>11
<1>16. \A i, j \in 0 .. top : i < j => ch[i] # ch[j] BY <1>4, <1>10
<1>17. \A j \in 1 .. top : IsInternal(nd[ch[j]]) /\ ch[j - 1] \in Children(nd[ch[j]])
  BY <1>5, <1>12
<1> QED BY <1>1, <1>7, <1>8, <1>13, <1>14, <1>15, <1>16, <1>17 DEF Climb, ch, top, M

(* The index of a child in its parent.                                     *)
LEMMA ParentIndexIs ==
  ASSUME NEW rt, NEW nd, Tree(rt, nd), NEW n \in InUse(nd), n # rt
  PROVE  /\ ParentIndex(nd, n) \in 0 .. Count(nd[nd[n].parent]) - 1
         /\ E(nd[nd[n].parent], ParentIndex(nd, n)).sub = n
         /\ \A i \in 0 .. Count(nd[nd[n].parent]) - 1 :
              E(nd[nd[n].parent], i).sub = n => i = ParentIndex(nd, n)
<1>1. /\ nd[n].parent \in InUse(nd) /\ IsInternal(nd[nd[n].parent])
      /\ \E i \in 0 .. Count(nd[nd[n].parent]) - 1 : E(nd[nd[n].parent], i).sub = n
  BY Up
<1>2. /\ ParentIndex(nd, n) \in 0 .. Count(nd[nd[n].parent]) - 1
      /\ E(nd[nd[n].parent], ParentIndex(nd, n)).sub = n
  BY <1>1 DEF ParentIndex
<1> QED BY <1>1, <1>2, Down

(* What btree_remove takes out hangs from where its climb ended.           *)
LEMMA ClimbHangs ==
  ASSUME NEW rt, NEW nd, Tree(rt, nd), NEW n \in InUse(nd), n # rt, ~IsInternal(nd[n]),
         NEW ch, NEW top, Climb(rt, nd, n, ch, top)
  PROVE  Hanging(nd, {ch[j] : j \in 0 .. top - 1}, ch[top], ch[top - 1],
                 ParentIndex(nd, ch[top - 1]))
<1> DEFINE G == {ch[j] : j \in 0 .. top - 1}
           t == ch[top]
           g0 == ch[top - 1]
<1>0. /\ top \in Nat /\ 1 <= top /\ ch[0] = n
      /\ \A j \in 0 .. top : ch[j] \in InUse(nd)
      /\ \A j \in 0 .. top - 1 : ch[j] # rt /\ ch[j + 1] = nd[ch[j]].parent
      /\ \A i, j \in 0 .. top : i < j => ch[i] # ch[j]
      /\ \A j \in 1 .. top : IsInternal(nd[ch[j]]) /\ ch[j - 1] \in Children(nd[ch[j]])
      /\ \A j \in 1 .. top - 1 : Count(nd[ch[j]]) = 1
  BY DEF Climb
<1>1. top \in 0 .. top /\ top \in 1 .. top /\ top - 1 \in 0 .. top - 1 /\ top - 1 + 1 = top BY <1>0
<1>2. \A j \in 0 .. top - 1 : j \in 0 .. top /\ j < top BY <1>0
<1>3. G \in SUBSET InUse(nd) /\ t \in InUse(nd) /\ g0 \in G BY <1>0, <1>1, <1>2
<1>4. t \notin G BY <1>0, <1>1, <1>2
<1>5. IsInternal(nd[t]) /\ nd[g0].parent = t /\ g0 # rt BY <1>0, <1>1
<1>6. /\ ParentIndex(nd, g0) \in 0 .. Count(nd[t]) - 1
      /\ E(nd[t], ParentIndex(nd, g0)).sub = g0
  BY <1>3, <1>5, ParentIndexIs
<1>7. ASSUME NEW j \in 0 .. top - 1
      PROVE  Children(nd[ch[j]]) \subseteq G /\ nd[ch[j]].parent \in IF ch[j] = g0 THEN {t} ELSE G
  <2>1. CASE j = 0 /\ j # top - 1
    <3>1. Children(nd[ch[j]]) = {} BY <1>0, <2>1 DEF Children
    <3>2. j + 1 \in 0 .. top - 1 /\ nd[ch[j]].parent = ch[j + 1] BY <1>0, <1>7, <2>1
    <3>3. ch[j] # g0 BY <1>0, <1>1, <1>2, <1>7, <2>1
    <3> QED BY <3>1, <3>2, <3>3
  <2>2. CASE j # 0
    <3>1. j \in Nat /\ j \in 1 .. top /\ j \in 1 .. top - 1 /\ j - 1 \in 0 .. top - 1
      BY <1>0, <2>2
    <3>2. /\ IsInternal(nd[ch[j]]) /\ ch[j - 1] \in Children(nd[ch[j]])
          /\ Count(nd[ch[j]]) = 1
      BY <1>0, <3>1
    <3>3. Children(nd[ch[j]]) = {E(nd[ch[j]], 0).sub} BY <3>2 DEF Children
    <3>4. Children(nd[ch[j]]) \subseteq G BY <3>1, <3>2, <3>3
    <3>5. CASE j = top - 1 BY <1>5, <3>4, <3>5
    <3>6. CASE j # top - 1
      <4>1. j + 1 \in 0 .. top - 1 /\ nd[ch[j]].parent = ch[j + 1] BY <1>0, <3>1, <3>6
      <4>2. ch[j] # g0 BY <1>0, <1>1, <1>2, <3>1, <3>6
      <4> QED BY <3>4, <4>1, <4>2
    <3> QED BY <3>5, <3>6
  <2>3. CASE j = 0 /\ j = top - 1
    <3>1. Children(nd[ch[j]]) = {} BY <1>0, <2>3 DEF Children
    <3> QED BY <1>5, <2>3, <3>1
  <2> QED BY <2>1, <2>2, <2>3
<1> QED BY <1>3, <1>4, <1>5, <1>6, <1>7 DEF Hanging
-----------------------------------------------------------------------------
(* The operations make these changes.                                      *)
LEMMA HalvesSplit ==
  ASSUME NEW rt, NEW nd, Tree(rt, nd), NEW n \in InUse(nd), n # rt,
         NEW nn \in FreeNodes(nd), NEW s \in 1 .. Count(nd[n]) - 1,
         NEW pi \in 0 .. Count(nd[nd[n].parent]) - 1, E(nd[nd[n].parent], pi).sub = n
  PROVE  /\ Splits(nd, n, nn, s, pi, Halves(nd, n, nn, s, pi))
         /\ \A m \in Children(RightPart(nd[n], s)) : m \in Children(nd[n])
         /\ Halved(nd[n], s, LeftPart(nd[n], s), RightPart(nd[n], s))
         /\ Extended(nd[nd[n].parent], pi,
                     [base |-> SplitKey(nd[n], s), sub |-> nn, mtid |-> nd[n].mtid],
                     WithSibling(nd[nd[n].parent], pi,
                     [base |-> SplitKey(nd[n], s), sub |-> nn, mtid |-> nd[n].mtid]))
<1> DEFINE x == nd[n]
           a == x.parent
           k == SplitKey(x, s)
           e == [base |-> k, sub |-> nn, mtid |-> x.mtid]
           l == LeftPart(x, s)
           r == RightPart(x, s)
           z == WithSibling(nd[a], pi, e)
           K == Children(r)
           md == Halves(nd, n, nn, s, pi)
<1>0. /\ nd \in [Node -> NodeRec] /\ Kinds(nd)
      /\ n \in Node /\ nn \in Node /\ nn # NULL /\ nn \notin InUse(nd)
  BY NodeAssumption DEF Tree, FreeNodes, InUse
<1>1. a \in InUse(nd) /\ IsInternal(nd[a]) /\ a # n /\ a \in Node BY Up DEF InUse
<1>2. /\ x \in NodeRec /\ Len(x.elms) \in Nat /\ Count(x) \in Int /\ x.mtid \in Nat
      /\ IsInternal(x) => Count(x) = Len(x.elms) - 1
      /\ ~IsInternal(x) => Count(x) = Len(x.elms)
  <2>1. x \in NodeRec BY <1>0
  <2> QED BY <1>0, <2>1, Shape DEF NodeRec
<1>2a. s \in Nat /\ 1 <= s /\ s < Count(x) BY <1>2
<1>3. Halved(x, s, l, r) BY <1>0, PartsAre
<1>4. /\ Fits(x, E(nd[a], pi).base, E(nd[a], pi + 1).base)
      /\ E(nd[a], pi).base \in AnyKey /\ E(nd[a], pi + 1).base \in AnyKey
  BY <1>1, Down
<1>5. /\ k \in AnyKey /\ Cmp(E(nd[a], pi).base, k) < 0 /\ Cmp(k, E(nd[a], pi + 1).base) < 0
  BY <1>0, <1>4, PartsFit
<1>6. Extended(nd[a], pi, e, z)
  <2>1. e \in IntElm /\ e.base = k BY <1>0, <1>2, <1>5 DEF IntElm
  <2> HIDE DEF e
  <2> QED BY <1>0, <1>1, <1>5, <2>1, SiblingFits
<1>7. ASSUME NEW m \in K
      PROVE  /\ m \in Children(x)
             /\ m \in Node /\ m \in InUse(nd) /\ nd[m].parent = n /\ m \notin {n, nn, a}
  <2>1. (IsInternal(r) <=> IsInternal(x)) /\ Count(r) = Count(x) - s
    BY <1>3 DEF Halved, IsInternal
  <2>2. IsInternal(x) BY <2>1 DEF Children
  <2>3. PICK j \in 0 .. Count(x) - s - 1 : m = E(r, j).sub BY <2>1, <2>2 DEF Children
  <2>4. j \in 0 .. Len(x.elms) - s - 1 /\ j + s \in 0 .. Count(x) - 1 BY <1>2, <1>2a, <2>2
  <2>5. E(r, j) = E(x, j + s) BY <1>3, <2>4 DEF Halved
  <2>6. m \in InUse(nd) /\ nd[m].parent = n BY <2>2, <2>3, <2>4, <2>5, Down
  <2>7. m # n /\ m # a BY <2>6, Elder
  <2>8. m \in Children(x) BY <2>2, <2>3, <2>4, <2>5 DEF Children
  <2> QED BY <1>0, <2>6, <2>7, <2>8 DEF InUse
<1> DEFINE nd1 == [nd EXCEPT ![n] = l, ![nn] = r, ![a] = WithSibling(@, pi, e)]
<1>8. md = IF IsInternal(x) THEN SetParents(nd1, nn) ELSE nd1
  BY DEF Halves
<1>9. /\ nd1[n] = l /\ nd1[nn] = r /\ nd1[a] = z
      /\ \A m \in Node : m \notin {n, nn, a} => nd1[m] = nd[m]
      /\ nd1 = [m \in Node |-> nd1[m]]
  <2>1. nn # n /\ nn # a BY <1>0, <1>1
  <2> HIDE DEF a, e, l, r
  <2> QED BY <1>0, <1>1, <2>1
<1>10. Children(nd1[nn]) = K BY <1>9
<1>11. /\ md[n] = l /\ md[nn] = r /\ md[a] = z
       /\ \A m \in K : md[m] = [nd[m] EXCEPT !.parent = nn]
       /\ \A m \in Node : m \notin K /\ m \notin {n, nn, a} => md[m] = nd[m]
       /\ md = [m \in Node |-> md[m]]
  <2>0. IsInternal(r) <=> IsInternal(x) BY <1>3 DEF Halved, IsInternal
  <2> HIDE DEF nd1, K, l, r, z, md, a
  <2>1. CASE IsInternal(x)
    <3>1. md = [m \in Node |-> IF m \in K THEN [nd1[m] EXCEPT !.parent = nn] ELSE nd1[m]]
      BY <1>8, <1>10, <2>1 DEF SetParents
    <3>2. n \notin K /\ nn \notin K /\ a \notin K /\ \A m \in K : m \in Node /\ nd1[m] = nd[m]
      BY <1>7, <1>9
    <3> QED BY <1>0, <1>1, <1>9, <3>1, <3>2
  <2>2. CASE ~IsInternal(x)
    <3>1. K = {} BY <2>0, <2>2 DEF Children, K
    <3> QED BY <1>8, <1>9, <2>2, <3>1
  <2> QED BY <2>1, <2>2
<1>12. md \in [Node -> NodeRec]
  <2>1. l \in NodeRec /\ r \in NodeRec /\ z \in NodeRec BY <1>3, <1>6 DEF Halved, Extended
  <2>2. \A m \in Node : [nd[m] EXCEPT !.parent = nn] \in NodeRec BY <1>0 DEF NodeRec
  <2> HIDE DEF K, l, r, z, md, a
  <2>3. \A m \in Node : md[m] \in NodeRec BY <1>0, <1>11, <2>1, <2>2
  <2> QED BY <1>11, <2>3
<1> QED BY <1>3, <1>6, <1>7, <1>11, <1>12 DEF Splits
(* A node is moved: its parent and its children follow.                    *)
Relocates(nd, n, nn, par, pi, md) ==
  /\ md \in [Node -> NodeRec] /\ md[n] = Deleted /\ md[nn] = nd[n]
  /\ \A m \in Children(nd[n]) : md[m] = [nd[m] EXCEPT !.parent = nn]
  /\ par # NULL => md[par] = Redirect(nd[par], pi, nn)
  /\ \A m \in Node : m \notin Children(nd[n]) /\ m \notin {n, nn, par} => md[m] = nd[m]

(* What redirecting the parent of a moved node leaves as it was.           *)
LEMMA RedirectIs ==
  ASSUME NEW y \in NodeRec, y.elms \in Seq(IntElm), NEW pi \in 0 .. Len(y.elms) - 1, NEW nn \in Node
  PROVE  /\ Redirect(y, pi, nn) \in NodeRec /\ Redirect(y, pi, nn).elms \in Seq(IntElm)
         /\ Redirect(y, pi, nn).type = y.type /\ Redirect(y, pi, nn).parent = y.parent
         /\ Len(Redirect(y, pi, nn).elms) = Len(y.elms)
         /\ \A i \in 1 .. Len(y.elms) :
              /\ Redirect(y, pi, nn).elms[i].base = y.elms[i].base
              /\ Redirect(y, pi, nn).elms[i].sub = IF i = pi + 1 THEN nn ELSE y.elms[i].sub
<1> DEFINE e == [y.elms[pi + 1] EXCEPT !.sub = nn]
           w == [y.elms EXCEPT ![pi + 1] = e]
<1>1. Redirect(y, pi, nn) = [y EXCEPT !.elms = w] BY DEF Redirect
<1>2. Len(y.elms) \in Nat /\ pi + 1 \in 1 .. Len(y.elms) /\ y.elms[pi + 1] \in IntElm OBVIOUS
<1>3. e \in IntElm /\ e.base = y.elms[pi + 1].base /\ e.sub = nn BY <1>2 DEF IntElm
<1> HIDE DEF e
<1>4. /\ w \in Seq(IntElm) /\ Len(w) = Len(y.elms)
      /\ \A i \in 1 .. Len(y.elms) : w[i] = IF i = pi + 1 THEN e ELSE y.elms[i]
  BY <1>2, <1>3, ExceptSeq
<1> HIDE DEF w
<1>5. /\ [y EXCEPT !.elms = w] \in NodeRec /\ [y EXCEPT !.elms = w].elms = w
      /\ [y EXCEPT !.elms = w].type = y.type /\ [y EXCEPT !.elms = w].parent = y.parent
  BY <1>4 DEF NodeRec
<1> QED BY <1>1, <1>3, <1>4, <1>5

(* What moving a node does to each node.                                   *)
LEMMA MovedIs ==
  ASSUME NEW rt, NEW nd, Tree(rt, nd), NEW n \in InUse(nd), NEW nn \in FreeNodes(nd),
         NEW par, par = nd[n].parent, NEW pi,
         par # NULL => pi \in 0 .. Count(nd[par]) - 1 /\ E(nd[par], pi).sub = n
  PROVE  Relocates(nd, n, nn, par, pi, Moved(nd, n, nn, par, pi))
<1> DEFINE x == nd[n]
           K == Children(x)
           md == Moved(nd, n, nn, par, pi)
           z == Redirect(nd[par], pi, nn)
           nd1 == [nd EXCEPT ![nn] = nd[n], ![n] = Deleted]
           nd2 == IF par = NULL THEN nd1 ELSE [nd1 EXCEPT ![par] = Redirect(@, pi, nn)]
<1>0. /\ nd \in [Node -> NodeRec] /\ Kinds(nd) /\ x \in NodeRec
      /\ n \in Node /\ nn \in Node /\ nn # NULL /\ nn \notin InUse(nd) /\ nn # n
  BY NodeAssumption DEF Tree, FreeNodes, InUse
<1>1. par # NULL => /\ par \in InUse(nd) /\ IsInternal(nd[par]) /\ par # n /\ par \in Node
                    /\ par # nn /\ n # rt
  BY <1>0, Up DEF InUse
<1>2. par # NULL => z \in NodeRec
  <2>1. SUFFICES ASSUME par # NULL PROVE z \in NodeRec OBVIOUS
  <2>2. /\ nd[par] \in NodeRec /\ nd[par].elms \in Seq(IntElm) /\ Len(nd[par].elms) \in Nat
        /\ Count(nd[par]) = Len(nd[par].elms) - 1
    BY <1>0, <1>1, <2>1, Shape
  <2>3. pi \in 0 .. Len(nd[par].elms) - 1 BY <2>1, <2>2
  <2> QED BY <1>0, <2>2, <2>3, RedirectIs
<1>3. ASSUME NEW m \in K
      PROVE  m \in Node /\ m \in InUse(nd) /\ nd[m].parent = n /\ m \notin {n, nn, par}
  <2>1. IsInternal(x) BY DEF Children
  <2>2. PICK i \in 0 .. Count(x) - 1 : m = E(x, i).sub BY <2>1 DEF Children
  <2>3. m \in InUse(nd) /\ nd[m].parent = n /\ m # n /\ m # rt BY <2>1, <2>2, Down
  <2>4. m # par
    <3>1. CASE n = rt
      <4>1. par = NULL /\ m \in Node BY <1>1, <2>3, <3>1 DEF InUse
      <4> QED BY <4>1, NodeAssumption
    <3>2. CASE n # rt BY <2>3, <3>2, Elder
    <3> QED BY <3>1, <3>2
  <2> QED BY <1>0, <2>3, <2>4 DEF InUse
<1>4. /\ nd2[nn] = x /\ nd2[n] = Deleted /\ (par # NULL => nd2[par] = z)
      /\ \A m \in Node : m \notin {n, nn, par} => nd2[m] = nd[m]
      /\ nd2 = [m \in Node |-> nd2[m]]
  <2>1. CASE par = NULL BY <1>0, <2>1
  <2>2. CASE par # NULL BY <1>0, <1>1, <2>2
  <2> QED BY <2>1, <2>2
<1>5. md = IF IsInternal(x) THEN SetParents(nd2, nn) ELSE nd2 BY DEF Moved
<1>6. Children(nd2[nn]) = K BY <1>4
<1>7. /\ md[n] = Deleted /\ md[nn] = x /\ (par # NULL => md[par] = z)
      /\ \A m \in K : md[m] = [nd[m] EXCEPT !.parent = nn]
      /\ \A m \in Node : m \notin K /\ m \notin {n, nn, par} => md[m] = nd[m]
      /\ md = [m \in Node |-> md[m]]
  <2> HIDE DEF nd2, nd1, K, z, md
  <2>1. CASE IsInternal(x)
    <3>1. md = [m \in Node |-> IF m \in K THEN [nd2[m] EXCEPT !.parent = nn] ELSE nd2[m]]
      BY <1>5, <1>6, <2>1 DEF SetParents
    <3>2. n \notin K /\ nn \notin K /\ par \notin K /\ \A m \in K : m \in Node /\ nd2[m] = nd[m]
      BY <1>3, <1>4
    <3> QED BY <1>0, <1>1, <1>4, <3>1, <3>2
  <2>2. CASE ~IsInternal(x)
    <3>1. K = {} BY <2>2 DEF Children, K
    <3> QED BY <1>4, <1>5, <2>2, <3>1
  <2> QED BY <2>1, <2>2
<1>8. md \in [Node -> NodeRec]
  <2>1. Deleted \in NodeRec
    <3>1. <<>> \in Seq(IntElm) OBVIOUS
    <3> QED BY <3>1 DEF NodeRec, Deleted
  <2>2. \A m \in K : [nd[m] EXCEPT !.parent = nn] \in NodeRec BY <1>0, <1>3 DEF NodeRec
  <2> HIDE DEF K, z, md, x
  <2>3. ASSUME NEW m \in Node PROVE md[m] \in NodeRec
    <3>1. CASE m \in K
      <4>1. md[m] = [nd[m] EXCEPT !.parent = nn] BY <1>7, <3>1
      <4> QED BY <2>2, <3>1, <4>1
    <3>2. CASE m \notin K /\ m \notin {n, nn, par}
      <4>1. md[m] = nd[m] /\ nd[m] \in NodeRec BY <1>0, <1>7, <3>2
      <4> QED BY <4>1
    <3>3. CASE m = n \/ m = nn BY <1>0, <1>7, <2>1, <3>3
    <3>4. CASE m = par BY <1>2, <1>7, <3>4, NodeAssumption
    <3> QED BY <3>1, <3>2, <3>3, <3>4
  <2> QED BY <1>7, <2>3
<1> HIDE DEF md
<1> QED BY <1>7, <1>8 DEF Relocates, md
(* Moving a node renames it, in its parent and in its children too.        *)
LEMMA RelocatesMoves ==
  ASSUME NEW rt, NEW nd, Tree(rt, nd), NEW n \in InUse(nd), NEW nn \in FreeNodes(nd),
         NEW par, par = nd[n].parent, NEW pi,
         par # NULL => pi \in 0 .. Count(nd[par]) - 1 /\ E(nd[par], pi).sub = n,
         NEW md, Relocates(nd, n, nn, par, pi, md)
  PROVE  Moves(nd, n, nn, md)
<1> DEFINE K == Children(nd[n])
           z == Redirect(nd[par], pi, nn)
<1>0. /\ nd \in [Node -> NodeRec] /\ Kinds(nd) /\ nd[n] \in NodeRec
      /\ n \in Node /\ nn \in Node /\ nn # NULL /\ nn \notin InUse(nd) /\ nn # n
  BY NodeAssumption DEF Tree, FreeNodes, InUse
<1>1. par # NULL => /\ par \in InUse(nd) /\ IsInternal(nd[par]) /\ par # n /\ par \in Node
                    /\ par # nn /\ n # rt
  BY <1>0, Up DEF InUse
<1>2. /\ md \in [Node -> NodeRec] /\ md[n] = Deleted /\ md[nn] = nd[n]
      /\ \A m \in K : md[m] = [nd[m] EXCEPT !.parent = nn]
      /\ par # NULL => md[par] = z
      /\ \A m \in Node : m \notin K /\ m \notin {n, nn, par} => md[m] = nd[m]
  BY DEF Relocates
<1>3. par # NULL => /\ z.type = nd[par].type /\ z.parent = nd[par].parent
                    /\ z.elms \in Seq(IntElm) /\ Len(z.elms) = Len(nd[par].elms)
                    /\ \A i \in 1 .. Len(nd[par].elms) :
                         /\ z.elms[i].base = nd[par].elms[i].base
                         /\ z.elms[i].sub = IF i = pi + 1 THEN nn ELSE nd[par].elms[i].sub
  <2>1. SUFFICES ASSUME par # NULL
                 PROVE  /\ z.type = nd[par].type /\ z.parent = nd[par].parent
                    /\ z.elms \in Seq(IntElm) /\ Len(z.elms) = Len(nd[par].elms)
                    /\ \A i \in 1 .. Len(nd[par].elms) :
                         /\ z.elms[i].base = nd[par].elms[i].base
                         /\ z.elms[i].sub = IF i = pi + 1 THEN nn ELSE nd[par].elms[i].sub
    OBVIOUS
  <2>2. /\ nd[par] \in NodeRec /\ nd[par].elms \in Seq(IntElm) /\ Len(nd[par].elms) \in Nat
        /\ Count(nd[par]) = Len(nd[par].elms) - 1
    BY <1>0, <1>1, <2>1, Shape
  <2>3. pi \in 0 .. Len(nd[par].elms) - 1 BY <2>1, <2>2
  <2>4. nd[par] \in NodeRec BY <2>2
  <2> HIDE DEF z
  <2>5. /\ Redirect(nd[par], pi, nn).type = nd[par].type
        /\ Redirect(nd[par], pi, nn).parent = nd[par].parent
        /\ Redirect(nd[par], pi, nn).elms \in Seq(IntElm)
        /\ Len(Redirect(nd[par], pi, nn).elms) = Len(nd[par].elms)
        /\ \A i \in 1 .. Len(nd[par].elms) :
              /\ Redirect(nd[par], pi, nn).elms[i].base = nd[par].elms[i].base
              /\ Redirect(nd[par], pi, nn).elms[i].sub = IF i = pi + 1 THEN nn ELSE nd[par].elms[i].sub
    BY <1>0, <2>2, <2>3, RedirectIs
  <2> QED BY <2>5 DEF z
<1> HIDE DEF z
<1>4. ASSUME NEW m \in K
      PROVE  /\ m \in Node /\ m \in InUse(nd) /\ nd[m].parent = n /\ m \notin {n, nn, par}
             /\ m # rt /\ IsInternal(nd[n])
  <2>1. IsInternal(nd[n]) BY DEF Children
  <2>2. PICK i \in 0 .. Count(nd[n]) - 1 : m = E(nd[n], i).sub BY <2>1 DEF Children
  <2>3. m \in InUse(nd) /\ nd[m].parent = n /\ m # n /\ m # rt BY <2>1, <2>2, Down
  <2>4. m # par
    <3>1. CASE n = rt
      <4>1. par = NULL /\ m \in Node BY <1>1, <2>3, <3>1 DEF InUse
      <4> QED BY <4>1, NodeAssumption
    <3>2. CASE n # rt BY <2>3, <3>2, Elder
    <3> QED BY <3>1, <3>2
  <2> QED BY <1>0, <2>1, <2>3, <2>4 DEF InUse
<1>5. ASSUME NEW b \in InUse(nd)
      PROVE  /\ b \in Node /\ b # nn /\ b # NULL
             /\ nd[b].parent = n => b \in K
             /\ b # par /\ IsInternal(nd[b]) => \A i \in 0 .. Count(nd[b]) - 1 : E(nd[b], i).sub # n
  <2>1. b \in Node /\ b # nn /\ b # NULL BY <1>0, NodeAssumption DEF InUse
  <2>2. ASSUME nd[b].parent = n PROVE b \in K
    <3>1. n # NULL BY <1>0, NodeAssumption
    <3>2. b # rt BY <2>2, <3>1, Up
    <3>3. IsInternal(nd[n]) /\ \E i \in 0 .. Count(nd[n]) - 1 : E(nd[n], i).sub = b
      BY <2>2, <3>2, Up
    <3> QED BY <3>3 DEF Children
  <2>3. ASSUME b # par, IsInternal(nd[b]), NEW i \in 0 .. Count(nd[b]) - 1 PROVE E(nd[b], i).sub # n
    BY <2>3, Down
  <2> QED BY <2>1, <2>2, <2>3
<1>6. ASSUME NEW b \in InUse(nd)
      PROVE  LET y == md[Renamed(b, n, nn)] IN
       /\ y.type = nd[b].type /\ y.parent = Renamed(nd[b].parent, n, nn)
       /\ Len(y.elms) = Len(nd[b].elms)
       /\ \A i \in 1 .. Len(nd[b].elms) : y.elms[i].base = nd[b].elms[i].base
       /\ IsInternal(nd[b]) =>
            \A i \in 0 .. Count(nd[b]) - 1 : E(y, i).sub = Renamed(E(nd[b], i).sub, n, nn)
       /\ y.elms \in IF IsInternal(nd[b]) THEN Seq(IntElm) ELSE Seq(LeafElm)
  <2> DEFINE y == md[Renamed(b, n, nn)]
  <2>0. /\ nd[b] \in NodeRec /\ Len(nd[b].elms) \in Nat
        /\ IsInternal(nd[b]) => Count(nd[b]) = Len(nd[b].elms) - 1 /\ nd[b].elms \in Seq(IntElm)
        /\ ~IsInternal(nd[b]) => nd[b].elms \in Seq(LeafElm)
    BY <1>0, Shape
  <2>1. CASE b = n
    <3>1. y = nd[n] BY <1>2, <2>1 DEF Renamed
    <3>2. b # par BY <1>0, <1>1, <2>1, NodeAssumption
    <3>3. Renamed(nd[b].parent, n, nn) = nd[b].parent BY <2>1, <3>2 DEF Renamed
    <3>4. IsInternal(nd[b]) => \A i \in 0 .. Count(nd[b]) - 1 : Renamed(E(nd[b], i).sub, n, nn) = E(nd[b], i).sub
      BY <1>5, <3>2 DEF Renamed
    <3> QED BY <2>0, <2>1, <3>1, <3>3, <3>4
  <2>2. CASE b \in K
    <3>1. b # n /\ b # par /\ nd[b].parent = n BY <1>4, <2>2
    <3>2. y = [nd[b] EXCEPT !.parent = nn] BY <1>2, <2>2, <3>1 DEF Renamed
    <3>3. y.type = nd[b].type /\ y.parent = nn /\ y.elms = nd[b].elms BY <2>0, <3>2 DEF NodeRec
    <3>4. Renamed(nd[b].parent, n, nn) = nn BY <3>1 DEF Renamed
    <3>5. IsInternal(nd[b]) => \A i \in 0 .. Count(nd[b]) - 1 : Renamed(E(nd[b], i).sub, n, nn) = E(nd[b], i).sub
      BY <1>5, <3>1 DEF Renamed
    <3> HIDE DEF y
    <3>6. \A i : E(y, i) = E(nd[b], i) BY <3>3 DEF E
    <3>7. y.elms \in IF IsInternal(nd[b]) THEN Seq(IntElm) ELSE Seq(LeafElm) BY <2>0, <3>3
    <3> QED BY <3>3, <3>4, <3>5, <3>6, <3>7 DEF y
  <2>3. CASE b = par
    <3>0. par # NULL /\ par # n /\ IsInternal(nd[b]) /\ n # rt BY <1>1, <1>5, <2>3
    <3>1. y = z BY <1>2, <2>3, <3>0 DEF Renamed
    <3>2. nd[b].parent # n BY <1>4, <1>5, <2>3
    <3>3. Renamed(nd[b].parent, n, nn) = nd[b].parent BY <3>2 DEF Renamed
    <3>4. ASSUME NEW i \in 0 .. Count(nd[b]) - 1
          PROVE  E(y, i).sub = Renamed(E(nd[b], i).sub, n, nn)
      <4>1. i + 1 \in 1 .. Len(nd[b].elms) /\ i \in Int BY <2>0, <3>0
      <4>2. E(y, i).sub = IF i + 1 = pi + 1 THEN nn ELSE E(nd[b], i).sub
        BY <1>3, <2>3, <3>0, <3>1, <4>1 DEF E
      <4>3. pi \in 0 .. Count(nd[b]) - 1 /\ E(nd[b], pi).sub = n BY <2>3, <3>0
      <4>4. E(nd[b], i).sub = n <=> i = pi BY <3>0, <4>3, Down
      <4>5. pi \in Int /\ (i + 1 = pi + 1 <=> i = pi) BY <4>1, <4>3
      <4> QED BY <4>2, <4>4, <4>5 DEF Renamed
    <3>5. /\ z.type = nd[b].type /\ z.parent = nd[b].parent
          /\ Len(z.elms) = Len(nd[b].elms) /\ z.elms \in Seq(IntElm)
          /\ \A i \in 1 .. Len(nd[b].elms) : z.elms[i].base = nd[b].elms[i].base
      BY <1>3, <2>3, <3>0
    <3> QED BY <3>0, <3>1, <3>3, <3>4, <3>5
  <2>4. CASE b # n /\ b \notin K /\ b # par
    <3>1. y = nd[b] BY <1>2, <1>5, <2>4 DEF Renamed
    <3>2. nd[b].parent # n BY <1>5, <2>4
    <3>3. Renamed(nd[b].parent, n, nn) = nd[b].parent BY <3>2 DEF Renamed
    <3>5. IsInternal(nd[b]) => \A i \in 0 .. Count(nd[b]) - 1 : Renamed(E(nd[b], i).sub, n, nn) = E(nd[b], i).sub
      BY <1>5, <2>4 DEF Renamed
    <3> QED BY <2>0, <3>1, <3>3, <3>5
  <2> QED BY <2>1, <2>2, <2>3, <2>4
<1>7. InUse(md) = (InUse(nd) \ {n}) \union {nn}
  <2>1. \A b \in InUse(nd) : Renamed(b, n, nn) \in Node /\ md[Renamed(b, n, nn)].type \in {"I", "L"}
    BY <1>0, <1>5, <1>6 DEF Renamed, InUse
  <2>2. nn \in InUse(md) BY <1>0, <1>2 DEF InUse
  <2>3. n \notin InUse(md) BY <1>2 DEF InUse, Deleted
  <2>4. \A b \in InUse(nd) : b # n => b \in InUse(md) BY <2>1 DEF Renamed, InUse
  <2>5. ASSUME NEW b \in InUse(md), b # nn PROVE b \in InUse(nd) /\ b # n
    <3>1. b # n /\ b \in Node BY <2>3, <2>5 DEF InUse
    <3>2. b \in K \/ b = par \/ (b \notin K /\ b \notin {n, nn, par}) BY <2>5, <3>1
    <3>3. b = par => b \in InUse(nd) BY <1>1, <3>1, NodeAssumption
    <3>4. b \notin K /\ b \notin {n, nn, par} => md[b] = nd[b] BY <1>2, <3>1
    <3>5. b \notin K /\ b \notin {n, nn, par} => b \in InUse(nd) BY <2>5, <3>4 DEF InUse
    <3> QED BY <1>4, <3>1, <3>2, <3>3, <3>5
  <2> QED BY <2>2, <2>3, <2>4, <2>5
<1>8. Kinds(md)
  <2>1. ASSUME NEW m \in InUse(md)
        PROVE  md[m].elms \in IF IsInternal(md[m]) THEN Seq(IntElm) ELSE Seq(LeafElm)
    <3>1. PICK b \in InUse(nd) : m = Renamed(b, n, nn) BY <1>7 DEF Renamed
    <3>2. IsInternal(md[m]) <=> IsInternal(nd[b]) BY <1>6, <3>1 DEF IsInternal
    <3>3. md[m].elms \in IF IsInternal(nd[b]) THEN Seq(IntElm) ELSE Seq(LeafElm) BY <1>6, <3>1
    <3> QED BY <3>2, <3>3
  <2> QED BY <2>1 DEF Kinds
<1> QED BY <1>2, <1>6, <1>7, <1>8 DEF Moves
=============================================================================
