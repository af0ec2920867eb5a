------------------------ MODULE HammerBlockmapProofs ------------------------
(***************************************************************************)
(* Proofs about HammerBlockmap, for any big-blocks, units, zones, records  *)
(* and width of the flush cycle numbers: the layers are exact, reserved    *)
(* space is nobody else's, the delay list is never missed, buffers are     *)
(* deleted of free big-blocks only, and no cell is written again while a   *)
(* crash could bring its old contents back.                                *)
(*                                                                         *)
(* None of these is inductive alone.  A reservation's references account   *)
(* for its records, its place on the delay list and the deletion of its    *)
(* buffers (Refs); it covers what layer2 has allocated (Covers); a cell    *)
(* that a crash would bring back, but layer2 no longer covers, lies in a   *)
(* delayed big-block whose release is as many finalizations away as it     *)
(* takes for the boundaries to pass (Shadow).                              *)
(***************************************************************************)
EXTENDS HammerBlockmap, FiniteSetTheorems, SequenceTheorems, TLAPS

Seqno    == 0 .. SeqSpan - 1
AnyZone  == Zone \union {NoZone}
Layer2   == [zone : AnyZone, append_off : Nat, bytes_free : Int]
Resv     == [zone : AnyZone, refs : Nat, append_off : Nat, l2free : BOOLEAN,
             delayed : BOOLEAN, flush_group : Seqno,
             deleting : {"no", "record", "flusher"}]
Record   == [state : {"none", "reserved", "committed"},
             cell : Cell \union {NoCell}, zone : AnyZone]
Boundary == [l2 : [Block -> Layer2], blocksFree : Int, live : SUBSET Cell]

TypeOK ==
  /\ l2 \in [Block -> Layer2] /\ blocksFree \in Int /\ live \in SUBSET Cell
  /\ res \in [Block -> Resv] /\ delay \in Seq(Block) /\ rec \in [Rec -> Record]
  /\ act \in Seqno /\ next = Inc(act)
  /\ cyc \in {"idle", "group", "none", "release", "deleting"}
  /\ dirty \in BOOLEAN /\ undoFlag \in BOOLEAN
  /\ snapC \in Boundary /\ snapD \in Boundary
  /\ \A r \in Rec : rec[r].state # "none" => rec[r].cell \in Cell /\ rec[r].zone \in Zone

(* The records that hold a reference to the reservation of b.              *)
Holders(b) == {r \in Rec : rec[r].state # "none" /\ blk(rec[r].cell) = b}
One(x)     == IF x THEN 1 ELSE 0
Refs ==
  \A b \in Block : res[b].refs = Cardinality(Holders(b)) + One(res[b].delayed)
                                   + One(res[b].deleting # "no")

(* A reservation and the big-block under it.                               *)
Covers ==
  \A b \in Block : Exists(b) =>
    /\ l2[b].zone \in {NoZone, res[b].zone}
    /\ l2[b].append_off =< res[b].append_off
    /\ res[b].l2free => l2[b].zone = NoZone
    /\ res[b].deleting # "no" =>
         l2[b].zone = NoZone /\ res[b].append_off >= Units /\ res[b].refs = 1

(* A reserved cell and its reservation.                                    *)
Owned ==
  \A r \in Rec : rec[r].state = "reserved" =>
    LET b == blk(rec[r].cell)
    IN /\ rec[r].cell \notin live
       /\ \A q \in Rec \ {r} : rec[q].state = "reserved" => rec[q].cell # rec[r].cell
       /\ res[b].zone = rec[r].zone
       /\ off(rec[r].cell) < res[b].append_off

(* The finalizations to come before the big-block leaves the delay list.   *)
Ahead(b) == Due(b) + One(cyc \in {"group", "none"})

(* Layer2 no longer covers cell p.                                         *)
Bare(p) == off(p) >= l2[blk(p)].append_off

Shadow ==
  /\ \A p \in snapC.live : Bare(p) =>
       res[blk(p)].delayed /\ Ahead(blk(p)) >= 2 /\ dirty
  /\ \A p \in snapD.live : Bare(p) =>
       res[blk(p)].delayed /\ Ahead(blk(p)) >= 1 /\ haswork
  /\ \A p \in snapC.live \union snapD.live : Bare(p) =>
       res[blk(p)].zone = NoZone \/ off(p) < res[blk(p)].append_off

(* The flusher deletes the buffers of one big-block at a time, and waits.  *)
Deleter ==
  \A b \in Block : res[b].deleting = "flusher" =>
    cyc = "deleting" /\ \A c \in Block \ {b} : res[c].deleting # "flusher"

Core ==
  /\ TypeOK /\ LayersExact /\ Refs /\ Covers /\ Owned /\ DelayNeverMissed
  /\ Shadow /\ Deleter

(* The hammer_blockmap_alloc that sleeps: what it read of layer2 still     *)
(* holds.  Of the reservation only the zone does: its append_off may have  *)
(* gone up to the maximum, and it may be gone.                             *)
Pending ==
  /\ alloc \in [zone : AnyZone, cell : Cell \union {NoCell}]
  /\ ~ unlocked =>
       LET b == blk(alloc.cell)
       IN /\ alloc.zone \in Zone /\ alloc.cell \in Cell
          /\ l2[b].zone \in {NoZone, alloc.zone} /\ Bare(alloc.cell)
          /\ Exists(b) => res[b].zone = alloc.zone

IInv == Core /\ Pending
-----------------------------------------------------------------------------
(* Cycle numbers.                                                          *)

(* The next cycle number, which may wrap around.                           *)
LEMMA IncSeqno ==
  ASSUME NEW n \in Seqno
  PROVE  Inc(n) \in Seqno /\ Inc(n) = IF n + 1 = SeqSpan THEN 0 ELSE n + 1
BY BlockmapAssumption DEF Inc, Seqno

(* How many cycles g is ahead of a.                                        *)
LEMMA Distance ==
  ASSUME NEW g \in Seqno, NEW a \in Seqno
  PROVE  (g - a) % SeqSpan = IF g >= a THEN g - a ELSE g - a + SeqSpan
BY BlockmapAssumption DEF Seqno

(* hammer_reserve_setdelay() takes the cycle after the next one.           *)
LEMMA TwoAhead ==
  ASSUME NEW a \in Seqno
  PROVE  (Inc(Inc(a)) - a) % SeqSpan = 2
<1>1. Inc(a) \in Seqno /\ Inc(a) = IF a + 1 = SeqSpan THEN 0 ELSE a + 1
  BY IncSeqno
<1>2. /\ Inc(Inc(a)) \in Seqno
      /\ Inc(Inc(a)) = IF Inc(a) + 1 = SeqSpan THEN 0 ELSE Inc(a) + 1
  BY <1>1, IncSeqno
<1>3. (Inc(Inc(a)) - a) % SeqSpan =
         IF Inc(Inc(a)) >= a THEN Inc(Inc(a)) - a ELSE Inc(Inc(a)) - a + SeqSpan
  BY <1>2, Distance
<1> QED
  BY <1>1, <1>2, <1>3, BlockmapAssumption DEF Seqno

(* A cycle begins: what lies ahead comes one closer.                       *)
LEMMA OneCloser ==
  ASSUME NEW g \in Seqno, NEW a \in Seqno, (g - a) % SeqSpan # 0
  PROVE  (g - Inc(a)) % SeqSpan = ((g - a) % SeqSpan) - 1
<1>1. Inc(a) \in Seqno /\ Inc(a) = IF a + 1 = SeqSpan THEN 0 ELSE a + 1
  BY IncSeqno
<1>2. (g - Inc(a)) % SeqSpan =
         IF g >= Inc(a) THEN g - Inc(a) ELSE g - Inc(a) + SeqSpan
  BY <1>1, Distance
<1>3. (g - a) % SeqSpan = IF g >= a THEN g - a ELSE g - a + SeqSpan
  BY Distance
<1> QED
  BY <1>1, <1>2, <1>3, BlockmapAssumption DEF Seqno

LEMMA DueZero ==
  ASSUME NEW g \in Seqno, NEW a \in Seqno
  PROVE  /\ (g - a) % SeqSpan \in Nat
         /\ (g - a) % SeqSpan = 0 <=> g = a
BY Distance, BlockmapAssumption DEF Seqno

-----------------------------------------------------------------------------
(* The delay list: TAILQ_REMOVE and TAILQ_INSERT_TAIL.                     *)

(* An element is removed: the others keep their order.                     *)
LEMMA RemoveOne ==
  ASSUME NEW s \in Seq(Block), IsInjective(s), NEW b
  PROVE  /\ RemoveFirst(s, b) \in Seq(Block)
         /\ ToSet(RemoveFirst(s, b)) = ToSet(s) \ {b}
         /\ \A i, j \in 1 .. Len(RemoveFirst(s, b)) : i < j =>
              \E m, n \in 1 .. Len(s) :
                /\ m < n /\ RemoveFirst(s, b)[i] = s[m]
                /\ RemoveFirst(s, b)[j] = s[n]
<1>1. CASE \E i \in 1 .. Len(s) : s[i] = b
  <2>1. PICK k \in 1 .. Len(s) : s[k] = b
    BY <1>1
  <2>2. \A i \in 1 .. Len(s) : s[i] = b => i = k
    BY <2>1 DEF IsInjective
  <2>3. {i \in 1 .. Len(s) : s[i] = b} = {k}
    BY <2>1, <2>2
  <2>4. Min({k}) = k
    BY DEF Min
  <2>5. SelectInSeq(s, LAMBDA v : v = b) = k
    BY <2>3, <2>4 DEF SelectInSeq
  <2> DEFINE t == RemoveAt(s, k)
  <2>6. RemoveFirst(s, b) = t
    BY <1>1, <2>5 DEF RemoveFirst
  <2>7. /\ t \in Seq(Block) /\ Len(t) = Len(s) - 1
        /\ \A i \in 1 .. Len(t) : t[i] = IF i < k THEN s[i] ELSE s[i + 1]
    <3> DEFINE u == SubSeq(s, 1, k - 1)
               v == SubSeq(s, k + 1, Len(s))
    <3>1. /\ \A i \in 1 .. k - 1 : s[i] \in Block
          /\ \A i \in k + 1 .. Len(s) : s[i] \in Block
      OBVIOUS
    <3>2. /\ u \in Seq(Block) /\ Len(u) = k - 1
          /\ \A i \in 1 .. k - 1 : u[i] = s[i]
      <4>1. /\ u \in Seq(Block)
            /\ Len(u) = IF 1 <= k - 1 THEN (k - 1) - 1 + 1 ELSE 0
            /\ \A i \in 1 .. (k - 1) - 1 + 1 : u[i] = s[1 + i - 1]
        BY <3>1, SubSeqProperties
      <4> QED
        BY <4>1
    <3>3. /\ v \in Seq(Block) /\ Len(v) = Len(s) - k
          /\ \A i \in 1 .. Len(s) - k : v[i] = s[k + i]
      <4>1. /\ v \in Seq(Block)
            /\ Len(v) = IF k + 1 <= Len(s) THEN Len(s) - (k + 1) + 1 ELSE 0
            /\ \A i \in 1 .. Len(s) - (k + 1) + 1 : v[i] = s[(k + 1) + i - 1]
        BY <3>1, SubSeqProperties
      <4> QED
        BY <4>1
    <3>4. t = u \o v
      BY DEF RemoveAt
    <3> HIDE DEF u, v, t
    <3>5. /\ t \in Seq(Block) /\ Len(t) = Len(u) + Len(v)
          /\ \A i \in 1 .. Len(u) + Len(v) :
               t[i] = IF i <= Len(u) THEN u[i] ELSE v[i - Len(u)]
      BY <3>2, <3>3, <3>4, ConcatProperties
    <3>6. Len(t) = Len(s) - 1
      BY <3>2, <3>3, <3>5
    <3>7. ASSUME NEW i \in 1 .. Len(t)
          PROVE  t[i] = IF i < k THEN s[i] ELSE s[i + 1]
      <4>1. CASE i < k
        BY <3>2, <3>3, <3>5, <4>1
      <4>2. CASE i >= k
        <5>1. i - (k - 1) \in 1 .. Len(s) - k /\ k + (i - (k - 1)) = i + 1
          BY <3>6, <4>2
        <5>2. t[i] = v[i - (k - 1)]
          BY <3>2, <3>3, <3>5, <4>2
        <5>3. v[i - (k - 1)] = s[k + (i - (k - 1))]
          BY <3>3, <5>1
        <5> QED
          BY <4>2, <5>1, <5>2, <5>3
      <4> QED
        BY <4>1, <4>2
    <3> QED
      BY <3>5, <3>6, <3>7
  <2> HIDE DEF t
  <2>8. ToSet(t) = ToSet(s) \ {b}
    <3>1. \A i \in 1 .. Len(t) : t[i] \in ToSet(s) \ {b}
      BY <2>2, <2>7 DEF ToSet
    <3>2. ASSUME NEW i \in 1 .. Len(s), s[i] # b PROVE s[i] \in ToSet(t)
      <4>1. CASE i < k
        BY <2>7, <4>1 DEF ToSet
      <4>2. CASE i > k
        <5>1. i - 1 \in 1 .. Len(t) /\ t[i - 1] = s[i]
          BY <2>7, <4>2
        <5> QED
          BY <2>7, <5>1 DEF ToSet
      <4> QED
        BY <2>1, <3>2, <4>1, <4>2
    <3> QED
      BY <2>7, <3>1, <3>2 DEF ToSet
  <2>9. ASSUME NEW i \in 1 .. Len(t), NEW j \in 1 .. Len(t), i < j
        PROVE  \E m, n \in 1 .. Len(s) : m < n /\ t[i] = s[m] /\ t[j] = s[n]
    <3> DEFINE m == IF i < k THEN i ELSE i + 1
               n == IF j < k THEN j ELSE j + 1
    <3>1. /\ m \in 1 .. Len(s) /\ n \in 1 .. Len(s) /\ m < n
          /\ t[i] = s[m] /\ t[j] = s[n]
      BY <2>7, <2>9
    <3> QED
      BY <3>1
  <2> QED
    BY <2>6, <2>7, <2>8, <2>9
<1>2. CASE ~ \E i \in 1 .. Len(s) : s[i] = b
  <2>1. RemoveFirst(s, b) = s
    BY <1>2 DEF RemoveFirst
  <2>2. b \notin ToSet(s)
    BY <1>2 DEF ToSet
  <2> QED
    BY <2>1, <2>2
<1> QED
  BY <1>1, <1>2

(* hammer_reserve_setdelay(): b goes, or moves, to the end of the list.    *)
LEMMA ToTail ==
  ASSUME delay \in Seq(Block), IsInjective(delay), NEW b \in Block
  PROVE  /\ to_tail(b) \in Seq(Block) /\ IsInjective(to_tail(b))
         /\ ToSet(to_tail(b)) = ToSet(delay) \union {b}
         /\ \A i, j \in 1 .. Len(to_tail(b)) : i < j =>
              /\ to_tail(b)[i] # b
              /\ \/ to_tail(b)[j] = b
                 \/ \E m, n \in 1 .. Len(delay) :
                      m < n /\ to_tail(b)[i] = delay[m] /\ to_tail(b)[j] = delay[n]
<1> DEFINE s == RemoveFirst(delay, b)
           t == Append(s, b)
<1>1. /\ s \in Seq(Block) /\ ToSet(s) = ToSet(delay) \ {b}
      /\ \A i, j \in 1 .. Len(s) : i < j =>
           \E m, n \in 1 .. Len(delay) :
             m < n /\ s[i] = delay[m] /\ s[j] = delay[n]
  BY RemoveOne
<1>2. to_tail(b) = t
  BY DEF to_tail
<1> HIDE DEF s
<1>3. /\ t \in Seq(Block) /\ Len(t) = Len(s) + 1 /\ t[Len(s) + 1] = b
      /\ \A i \in 1 .. Len(s) : t[i] = s[i]
  BY <1>1
<1> HIDE DEF t
<1>a. /\ DOMAIN t = 1 .. Len(t) /\ DOMAIN delay = 1 .. Len(delay)
      /\ ToSet(t) = {t[i] : i \in 1 .. Len(t)}
      /\ ToSet(s) = {s[i] : i \in 1 .. Len(s)} /\ Len(s) \in Nat
  <2>1. DOMAIN t = 1 .. Len(t) /\ DOMAIN delay = 1 .. Len(delay)
    BY <1>3
  <2>2. DOMAIN s = 1 .. Len(s) /\ Len(s) \in Nat
    BY <1>1
  <2> QED
    BY <2>1, <2>2, Zenon DEF ToSet
<1>4. \A i \in 1 .. Len(s) : t[i] # b
  BY <1>1, <1>3, <1>a
<1>5. ToSet(t) = ToSet(delay) \union {b}
  <2>1. 1 .. Len(t) = (1 .. Len(s)) \union {Len(s) + 1}
    BY <1>3, <1>a
  <2>2. ToSet(t) = ToSet(s) \union {b}
    BY <1>3, <1>a, <2>1
  <2> QED
    BY <1>1, <2>2
<1>6. \A i, j \in 1 .. Len(t) : i < j =>
        /\ t[i] # b
        /\ \/ t[j] = b
           \/ \E m, n \in 1 .. Len(delay) :
                m < n /\ t[i] = delay[m] /\ t[j] = delay[n]
  <2> SUFFICES ASSUME NEW i \in 1 .. Len(t), NEW j \in 1 .. Len(t), i < j
               PROVE  /\ t[i] # b
                      /\ \/ t[j] = b
                         \/ \E m, n \in 1 .. Len(delay) :
                              m < n /\ t[i] = delay[m] /\ t[j] = delay[n]
    OBVIOUS
  <2>1. i \in 1 .. Len(s) /\ Len(s) \in Nat
    BY <1>1, <1>3
  <2>2. CASE j = Len(s) + 1
    BY <1>3, <1>4, <2>1, <2>2
  <2>3. CASE j # Len(s) + 1
    <3>1. j \in 1 .. Len(s)
      BY <1>3, <2>1, <2>3
    <3> QED
      BY <1>1, <1>3, <1>4, <2>1, <3>1
  <2> QED
    BY <2>2, <2>3
<1>7. \A i, j \in 1 .. Len(t) : i < j => t[i] # t[j]
  BY <1>6 DEF IsInjective
<1>8. IsInjective(t)
  BY <1>3, <1>7 DEF IsInjective
<1> QED
  BY <1>2, <1>3, <1>5, <1>6, <1>8

-----------------------------------------------------------------------------
(* Counting cells and free big-blocks.                                     *)

LEMMA CellParts ==
  /\ \A p \in Cell : blk(p) \in Block /\ off(p) \in 0 .. Units - 1
  /\ \A p, q \in Cell : blk(p) = blk(q) /\ off(p) = off(q) => p = q
BY DEF Cell, blk, off

LEMMA CellsFinite ==
  ASSUME NEW S \in SUBSET Cell
  PROVE  IsFiniteSet(S) /\ Cardinality(S) \in Nat
<1>1. IsFiniteSet(Cell)
  <2>1. IsFiniteSet(0 .. Units - 1)
    BY FS_Interval, BlockmapAssumption
  <2> QED
    BY <2>1, FS_Product, BlockmapAssumption DEF Cell
<1> QED
  BY <1>1, FS_Subset, FS_CardinalityType

LEMMA BlocksFinite ==
  ASSUME NEW S \in SUBSET Block
  PROVE  IsFiniteSet(S) /\ Cardinality(S) \in Nat
BY FS_Subset, FS_CardinalityType, BlockmapAssumption

Used(v, b)  == {p \in v : blk(p) = b}
FreeSet(l)  == {b \in Block : l[b].zone = NoZone}

(* Exact, of the parts of a boundary.                                      *)
ExactOf(l, f, v) ==
  /\ f = Cardinality(FreeSet(l))
  /\ \A b \in Block :
       /\ l[b].bytes_free = Units - Cardinality(Used(v, b))
       /\ l[b].zone = NoZone <=> Used(v, b) = {}
       /\ \A p \in Used(v, b) : off(p) < l[b].append_off
       /\ Used(v, b) = {} => l[b].append_off = 0

LEMMA ExactParts ==
  ASSUME NEW s
  PROVE  Exact(s) <=> ExactOf(s.l2, s.blocksFree, s.live)
BY DEF Exact, ExactOf, Used, FreeSet

(* A cell more: hammer_blockmap_alloc() and hammer_blockmap_finalize().    *)
LEMMA TakeExact ==
  ASSUME NEW l \in [Block -> Layer2], NEW m \in [Block -> Layer2],
         NEW f \in Int, NEW v \in SUBSET Cell, ExactOf(l, f, v),
         NEW z \in Zone, NEW p \in Cell, p \notin v,
         l[blk(p)].zone \in {NoZone, z},
         \A b \in Block \ {blk(p)} : m[b] = l[b],
         m[blk(p)].zone = z, m[blk(p)].bytes_free = l[blk(p)].bytes_free - 1,
         m[blk(p)].append_off >= l[blk(p)].append_off,
         m[blk(p)].append_off > off(p)
  PROVE  ExactOf(m, IF l[blk(p)].zone = NoZone THEN f - 1 ELSE f, v \union {p})
<1> DEFINE b == blk(p)
           w == v \union {p}
<1>0. b \in Block /\ NoZone # z /\ off(p) \in Int
  BY CellParts, BlockmapAssumption
<1>1. \A c \in Block \ {b} : Used(w, c) = Used(v, c)
  BY DEF Used
<1>2. Used(w, b) = Used(v, b) \union {p} /\ p \notin Used(v, b)
  BY DEF Used
<1>3. Cardinality(Used(w, b)) = Cardinality(Used(v, b)) + 1 /\ Cardinality(Used(v, b)) \in Nat
  <2>1. IsFiniteSet(Used(v, b)) /\ Cardinality(Used(v, b)) \in Nat
    BY CellsFinite DEF Used
  <2> QED
    BY <1>2, <2>1, FS_AddElement
<1>4. Cardinality(FreeSet(m)) = IF l[b].zone = NoZone THEN f - 1 ELSE f
  <2>1. FreeSet(m) = FreeSet(l) \ {b}
    BY <1>0 DEF FreeSet
  <2>2. b \in FreeSet(l) <=> l[b].zone = NoZone
    BY <1>0 DEF FreeSet
  <2>3. IsFiniteSet(FreeSet(l)) /\ f = Cardinality(FreeSet(l))
    BY BlocksFinite DEF FreeSet, ExactOf
  <2>4. Cardinality(FreeSet(l) \ {b}) =
          IF b \in FreeSet(l) THEN Cardinality(FreeSet(l)) - 1
                               ELSE Cardinality(FreeSet(l))
    BY <2>3, FS_RemoveElement
  <2> QED
    BY <2>1, <2>2, <2>3, <2>4
<1>5. ASSUME NEW c \in Block
      PROVE  /\ m[c].bytes_free = Units - Cardinality(Used(w, c))
             /\ m[c].zone = NoZone <=> Used(w, c) = {}
             /\ \A q \in Used(w, c) : off(q) < m[c].append_off
             /\ Used(w, c) = {} => m[c].append_off = 0
  <2>1. CASE c # b
    BY <1>1, <2>1 DEF ExactOf
  <2>2. CASE c = b
    <3>1. m[b].bytes_free = Units - Cardinality(Used(w, b))
      BY <1>0, <1>3, BlockmapAssumption DEF ExactOf
    <3>2. m[b].zone # NoZone /\ Used(w, b) # {}
      BY <1>0, <1>2
    <3>3. ASSUME NEW q \in Used(w, b) PROVE off(q) < m[b].append_off
      <4>1. CASE q = p
        BY <4>1, <1>0
      <4>2. CASE q \in Used(v, b)
        <5>1. off(q) < l[b].append_off
          BY <1>0, <4>2 DEF ExactOf
        <5>2. off(q) \in Int
          BY <4>2, CellParts, BlockmapAssumption DEF Used
        <5> QED
          BY <1>0, <5>1, <5>2 DEF Layer2
      <4> QED
        BY <1>2, <4>1, <4>2
    <3> QED
      BY <2>2, <3>1, <3>2, <3>3
  <2> QED
    BY <2>1, <2>2
<1> QED
  BY <1>4, <1>5 DEF ExactOf

(* A cell less: hammer_blockmap_free().                                    *)
LEMMA FreeExact ==
  ASSUME NEW l \in [Block -> Layer2], NEW m \in [Block -> Layer2],
         NEW f \in Int, NEW g \in Int, NEW v \in SUBSET Cell, ExactOf(l, f, v),
         NEW p \in v,
         \A b \in Block \ {blk(p)} : m[b] = l[b],
         IF l[blk(p)].bytes_free + 1 = Units
           THEN m[blk(p)] = Free2 /\ g = f + 1
           ELSE m[blk(p)] = [l[blk(p)] EXCEPT !.bytes_free = @ + 1] /\ g = f
  PROVE  ExactOf(m, g, v \ {p})
<1> DEFINE b == blk(p)
           w == v \ {p}
<1>0. b \in Block /\ Units \in Nat
  BY CellParts, BlockmapAssumption
<1>1. \A c \in Block \ {b} : Used(w, c) = Used(v, c)
  BY DEF Used
<1>2. Used(w, b) = Used(v, b) \ {p} /\ p \in Used(v, b)
  BY DEF Used
<1>3. /\ Cardinality(Used(w, b)) = Cardinality(Used(v, b)) - 1
      /\ Cardinality(Used(v, b)) \in Nat /\ Cardinality(Used(w, b)) \in Nat
      /\ Cardinality(Used(w, b)) = 0 <=> Used(w, b) = {}
  <2>1. IsFiniteSet(Used(v, b)) /\ Cardinality(Used(v, b)) \in Nat
    BY CellsFinite DEF Used
  <2>2. IsFiniteSet(Used(w, b)) /\ Cardinality(Used(w, b)) \in Nat
    BY CellsFinite DEF Used
  <2>3. Cardinality(Used(v, b) \ {p}) = Cardinality(Used(v, b)) - 1
    BY <1>2, <2>1, FS_RemoveElement
  <2>4. Cardinality(Used(w, b)) = 0 <=> Used(w, b) = {}
    BY <2>2, FS_EmptySet
  <2> QED
    BY <1>2, <2>1, <2>2, <2>3, <2>4
<1>4. /\ l[b].bytes_free = Units - Cardinality(Used(v, b))
      /\ l[b].zone # NoZone
      /\ \A q \in Used(v, b) : off(q) < l[b].append_off
  BY <1>0, <1>2 DEF ExactOf
<1>5. l[b].bytes_free + 1 = Units <=> Used(w, b) = {}
  <2>1. l[b].bytes_free + 1 = Units <=> Cardinality(Used(v, b)) = 1
    BY <1>0, <1>3, <1>4
  <2>2. Cardinality(Used(v, b)) = 1 <=> Cardinality(Used(w, b)) = 0
    BY <1>3
  <2> QED
    BY <1>3, <2>1, <2>2, Zenon
<1>6. CASE Used(w, b) = {}
  <2>1. m[b] = Free2 /\ g = f + 1
    BY <1>5, <1>6
  <2>2. g = Cardinality(FreeSet(m))
    <3>1. FreeSet(m) = FreeSet(l) \union {b} /\ b \notin FreeSet(l)
      BY <1>0, <1>4, <2>1 DEF FreeSet, Free2
    <3>2. IsFiniteSet(FreeSet(l)) /\ f = Cardinality(FreeSet(l))
      BY BlocksFinite DEF FreeSet, ExactOf
    <3> QED
      BY <2>1, <3>1, <3>2, FS_AddElement
  <2>3. /\ m[b].bytes_free = Units - Cardinality(Used(w, b))
        /\ m[b].zone = NoZone /\ m[b].append_off = 0
    <3>1. Cardinality(Used(w, b)) = 0
      BY <1>3, <1>6, Zenon
    <3> QED
      BY <1>0, <2>1, <3>1 DEF Free2
  <2> QED
    BY <1>1, <1>6, <2>2, <2>3 DEF ExactOf
<1>7. CASE Used(w, b) # {}
  <2>1. /\ m[b] = [l[b] EXCEPT !.bytes_free = @ + 1] /\ g = f
        /\ l[b] \in Layer2
    BY <1>0, <1>5, <1>7
  <2>2. /\ m[b].zone = l[b].zone /\ m[b].append_off = l[b].append_off
        /\ m[b].bytes_free = l[b].bytes_free + 1
    BY <2>1 DEF Layer2
  <2>3. g = Cardinality(FreeSet(m))
    <3>1. FreeSet(m) = FreeSet(l)
      BY <1>0, <2>2 DEF FreeSet
    <3> QED
      BY <2>1, <3>1 DEF ExactOf
  <2>4. m[b].bytes_free = Units - Cardinality(Used(w, b))
    BY <1>0, <1>3, <1>4, <2>2
  <2> QED
    BY <1>1, <1>2, <1>4, <1>7, <2>2, <2>3, <2>4 DEF ExactOf
<1> QED
  BY <1>6, <1>7

LEMMA ExactSnap ==
  ASSUME NEW l, NEW f, NEW v
  PROVE  Exact([l2 |-> l, blocksFree |-> f, live |-> v]) <=> ExactOf(l, f, v)
BY ExactParts

-----------------------------------------------------------------------------
(* What the invariant says of single cells, records and reservations.      *)

(* A cell that the B-Tree refers to lies below append_off.                 *)
LEMMA LiveBelow ==
  ASSUME TypeOK, LayersExact
  PROVE  /\ \A p \in live : ~ Bare(p)
         /\ \A b \in Block : /\ l2[b].zone = NoZone => l2[b].append_off = 0
                             /\ l2[b].bytes_free = Units => l2[b].zone = NoZone
         /\ \A p \in live : l2[blk(p)].zone # NoZone
<1>1. ExactOf(l2, blocksFree, live)
  BY ExactSnap DEF LayersExact, Snap
<1>2. ASSUME NEW p \in live
      PROVE  p \in Used(live, blk(p)) /\ blk(p) \in Block /\ off(p) \in Int
             /\ l2[blk(p)].append_off \in Int
  BY CellParts, BlockmapAssumption DEF Used, TypeOK, Layer2
<1>3. \A p \in live : ~ Bare(p)
  BY <1>1, <1>2 DEF ExactOf, Bare
<1>4. \A p \in live : l2[blk(p)].zone # NoZone
  BY <1>1, <1>2 DEF ExactOf
<1>5. ASSUME NEW b \in Block, l2[b].bytes_free = Units
      PROVE  l2[b].zone = NoZone
  <2>1. IsFiniteSet(Used(live, b)) /\ Cardinality(Used(live, b)) \in Nat
    BY CellsFinite DEF Used, TypeOK
  <2>2. Cardinality(Used(live, b)) = 0
    BY <1>1, <1>5, <2>1, BlockmapAssumption DEF ExactOf
  <2>3. Used(live, b) = {}
    BY <2>1, <2>2, FS_EmptySet
  <2> QED
    BY <1>1, <2>3 DEF ExactOf
<1> QED
  BY <1>1, <1>3, <1>4, <1>5 DEF ExactOf

(* The records that share a reservation are counted.                       *)
LEMMA HoldersCount ==
  ASSUME NEW b
  PROVE  /\ IsFiniteSet(Holders(b)) /\ Cardinality(Holders(b)) \in Nat
         /\ Cardinality(Holders(b)) = 0 <=> Holders(b) = {}
<1>1. IsFiniteSet(Holders(b)) /\ Cardinality(Holders(b)) \in Nat
  BY FS_Subset, FS_CardinalityType, BlockmapAssumption DEF Holders
<1>2. Cardinality(Holders(b)) = 0 <=> Holders(b) = {}
  BY <1>1, FS_EmptySet
<1> QED
  BY <1>1, <1>2

LEMMA RecordExists ==
  ASSUME TypeOK, Refs, NEW r \in Rec, rec[r].state # "none"
  PROVE  /\ rec[r].cell \in Cell /\ rec[r].zone \in Zone
         /\ blk(rec[r].cell) \in Block /\ Exists(blk(rec[r].cell))
         /\ r \in Holders(blk(rec[r].cell))
         /\ Cardinality(Holders(blk(rec[r].cell))) \in Nat \ {0}
<1>1. rec[r].cell \in Cell /\ rec[r].zone \in Zone /\ blk(rec[r].cell) \in Block
  BY CellParts DEF TypeOK
<1>2. r \in Holders(blk(rec[r].cell))
  BY DEF Holders
<1>3. Cardinality(Holders(blk(rec[r].cell))) \in Nat \ {0}
  BY <1>2, HoldersCount
<1> QED
  BY <1>1, <1>2, <1>3 DEF Refs, One, Exists

(* Without a reference there is nothing on the delay list or deleted.      *)
LEMMA NothingHeld ==
  ASSUME TypeOK, Refs, NEW b \in Block, ~ Exists(b)
  PROVE  /\ res[b].refs = 0 /\ res[b].delayed = FALSE /\ res[b].deleting = "no"
         /\ Holders(b) = {} /\ Cardinality(Holders(b)) = 0
<1>1. /\ res[b].refs \in Nat /\ res[b].delayed \in BOOLEAN
      /\ res[b].deleting \in {"no", "record", "flusher"}
  BY DEF TypeOK, Resv
<1>2. /\ Cardinality(Holders(b)) \in Nat
      /\ Cardinality(Holders(b)) = 0 <=> Holders(b) = {}
  BY HoldersCount
<1>3. res[b].refs = Cardinality(Holders(b)) + One(res[b].delayed) + One(res[b].deleting # "no")
  BY DEF Refs
<1> QED
  BY <1>1, <1>2, <1>3 DEF Exists, One

-----------------------------------------------------------------------------
(* The fields of a reservation after an assignment to some of them.        *)
Fields(e, z, n, a, f, d, g, w) ==
  /\ e.zone = z /\ e.refs = n /\ e.append_off = a /\ e.l2free = f
  /\ e.delayed = d /\ e.flush_group = g /\ e.deleting = w

LEMMA UpdatedFields ==
  ASSUME NEW x \in Resv, NEW n, NEW m, NEW g, NEW w
  PROVE  /\ Fields([x EXCEPT !.append_off = n, !.l2free = FALSE],
                   x.zone, x.refs, n, FALSE, x.delayed, x.flush_group, x.deleting)
         /\ Fields([x EXCEPT !.refs = m, !.append_off = n],
                   x.zone, m, n, x.l2free, x.delayed, x.flush_group, x.deleting)
         /\ Fields([x EXCEPT !.append_off = n, !.l2free = FALSE, !.deleting = w],
                   x.zone, x.refs, n, FALSE, x.delayed, x.flush_group, w)
         /\ Fields([x EXCEPT !.refs = m, !.delayed = TRUE, !.flush_group = g],
                   x.zone, m, x.append_off, x.l2free, TRUE, g, x.deleting)
         /\ Fields([x EXCEPT !.refs = m],
                   x.zone, m, x.append_off, x.l2free, x.delayed, x.flush_group, x.deleting)
         /\ Fields([x EXCEPT !.delayed = FALSE],
                   x.zone, x.refs, x.append_off, x.l2free, FALSE, x.flush_group, x.deleting)
BY DEF Resv, Fields

LEMMA UpdatedResv ==
  ASSUME NEW x \in Resv, NEW n \in Nat, NEW m \in Nat, NEW g \in Seqno,
         NEW w \in {"no", "record", "flusher"}
  PROVE  /\ [x EXCEPT !.append_off = n, !.l2free = FALSE] \in Resv
         /\ [x EXCEPT !.refs = m, !.append_off = n] \in Resv
         /\ [x EXCEPT !.append_off = n, !.l2free = FALSE, !.deleting = w] \in Resv
         /\ [x EXCEPT !.refs = m, !.delayed = TRUE, !.flush_group = g] \in Resv
         /\ [x EXCEPT !.refs = m] \in Resv
         /\ [x EXCEPT !.delayed = FALSE] \in Resv
BY DEF Resv

LEMMA NewResv ==
  ASSUME NEW z \in AnyZone, NEW n \in Nat, NEW f \in BOOLEAN
  PROVE  /\ NoRes \in Resv /\ Fields(NoRes, NoZone, 0, 0, FALSE, FALSE, 0, "no")
         /\ [NoRes EXCEPT !.l2free = TRUE] \in Resv
         /\ Fields([NoRes EXCEPT !.l2free = TRUE], NoZone, 0, 0, TRUE, FALSE, 0, "no")
         /\ [NoRes EXCEPT !.refs = 1, !.zone = z, !.append_off = n, !.l2free = f] \in Resv
         /\ Fields([NoRes EXCEPT !.refs = 1, !.zone = z, !.append_off = n, !.l2free = f],
                   z, 1, n, f, FALSE, 0, "no")
<1>1. NoRes \in Resv /\ Fields(NoRes, NoZone, 0, 0, FALSE, FALSE, 0, "no")
  BY BlockmapAssumption DEF NoRes, Fields, Resv, AnyZone, Seqno
<1>2. /\ [NoRes EXCEPT !.l2free = TRUE] \in Resv
      /\ Fields([NoRes EXCEPT !.l2free = TRUE], NoZone, 0, 0, TRUE, FALSE, 0, "no")
  BY <1>1 DEF Fields, Resv
<1>3. /\ [NoRes EXCEPT !.refs = 1, !.zone = z, !.append_off = n, !.l2free = f] \in Resv
      /\ Fields([NoRes EXCEPT !.refs = 1, !.zone = z, !.append_off = n, !.l2free = f],
                z, 1, n, f, FALSE, 0, "no")
  BY <1>1 DEF Fields, Resv
<1> QED
  BY <1>1, <1>2, <1>3

-----------------------------------------------------------------------------
(* What stays true of the parts that a step does not touch.                *)

LEMMA DelayFrame ==
  ASSUME TypeOK, DelayNeverMissed, delay' = delay, act' = act,
         cyc' = "idle" => cyc = "idle",
         \A b \in Block : /\ res'[b].delayed = res[b].delayed
                          /\ res[b].delayed => res'[b].flush_group = res[b].flush_group
  PROVE  DelayNeverMissed'
<1>1. {b \in Block : res'[b].delayed} = {b \in Block : res[b].delayed}
  OBVIOUS
<1>2. \A i \in DOMAIN delay : Due(delay[i])' = Due(delay[i])
  <2> SUFFICES ASSUME NEW i \in DOMAIN delay
               PROVE  Due(delay[i])' = Due(delay[i])
    OBVIOUS
  <2>1. delay[i] \in ToSet(delay)
    BY DEF ToSet
  <2>2. delay[i] \in Block /\ res[delay[i]].delayed
    BY <2>1 DEF DelayNeverMissed
  <2> QED
    BY <2>2 DEF Due
<1> QED
  BY <1>1, <1>2 DEF DelayNeverMissed

(* Cells that a crash would bring back stay covered, or delayed.           *)
LEMMA ShadowFrame ==
  ASSUME TypeOK, Shadow, snapC' = snapC, snapD' = snapD,
         \A p \in Cell : Bare(p)' => Bare(p),
         dirty => dirty', haswork => haswork',
         \A b \in Block : res[b].delayed =>
           /\ res'[b].delayed /\ Ahead(b)' = Ahead(b)
           /\ res[b].zone = NoZone \/ res'[b].append_off >= res[b].append_off
           /\ res'[b].zone = res[b].zone,
         res' \in [Block -> Resv]
  PROVE  Shadow'
<1>1. \A p \in snapC.live \union snapD.live : p \in Cell /\ blk(p) \in Block /\ off(p) \in Int
  BY CellParts, BlockmapAssumption DEF TypeOK, Boundary
<1>2. \A p \in snapC.live : Bare(p)' => res'[blk(p)].delayed /\ Ahead(blk(p))' >= 2 /\ dirty'
  BY <1>1 DEF Shadow
<1>3. \A p \in snapD.live : Bare(p)' => res'[blk(p)].delayed /\ Ahead(blk(p))' >= 1 /\ haswork'
  BY <1>1 DEF Shadow
<1>4. ASSUME NEW p \in snapC.live \union snapD.live, Bare(p)'
      PROVE  res'[blk(p)].zone = NoZone \/ off(p) < res'[blk(p)].append_off
  <2>1. Bare(p) /\ blk(p) \in Block /\ off(p) \in Int
    BY <1>1, <1>4
  <2>2. /\ res[blk(p)].delayed
        /\ res[blk(p)].zone = NoZone \/ off(p) < res[blk(p)].append_off
    BY <2>1 DEF Shadow
  <2>3. res[blk(p)].append_off \in Nat /\ res'[blk(p)].append_off \in Nat
    BY <2>1 DEF TypeOK, Resv
  <2> QED
    BY <2>1, <2>2, <2>3
<1> QED
  BY <1>2, <1>3, <1>4 DEF Shadow

(* Take() of a cell that nothing refers to.                                *)
LEMMA TakeEffect ==
  ASSUME TypeOK, LayersExact, NEW z \in Zone, NEW p \in Cell, p \notin live,
         l2[blk(p)].zone \in {NoZone, z}, Take(z, p),
         snapC' = snapC, snapD' = snapD
  PROVE  /\ l2' \in [Block -> Layer2] /\ blocksFree' \in Int
         /\ live' = live \union {p} /\ live' \in SUBSET Cell /\ dirty' = TRUE
         /\ \A b \in Block \ {blk(p)} : l2'[b] = l2[b]
         /\ l2'[blk(p)].zone = z
         /\ l2'[blk(p)].append_off =
              IF l2[blk(p)].append_off > off(p) THEN l2[blk(p)].append_off ELSE off(p) + 1
         /\ \A q \in Cell : Bare(q)' => Bare(q)
         /\ LayersExact'
<1> DEFINE b == blk(p)
<1>1. b \in Block /\ off(p) \in Nat
  BY CellParts, BlockmapAssumption
<1>2. /\ l2[b].append_off \in Nat /\ l2[b].bytes_free \in Int
      /\ \A c \in Block : l2[c].append_off \in Nat
  BY <1>1 DEF TypeOK, Layer2
<1>3. /\ l2' = [l2 EXCEPT ![b] =
                 [zone |-> z, bytes_free |-> l2[b].bytes_free - 1,
                  append_off |-> IF l2[b].append_off > off(p) THEN l2[b].append_off
                                                             ELSE off(p) + 1]]
      /\ blocksFree' = IF l2[b].zone = NoZone THEN blocksFree - 1 ELSE blocksFree
      /\ live' = live \union {p} /\ dirty' = TRUE
  BY DEF Take
<1>4. l2' \in [Block -> Layer2]
  BY <1>1, <1>2, <1>3 DEF TypeOK, Layer2, AnyZone
<1>5. /\ \A c \in Block \ {b} : l2'[c] = l2[c]
      /\ l2'[b].zone = z /\ l2'[b].bytes_free = l2[b].bytes_free - 1
      /\ l2'[b].append_off =
           IF l2[b].append_off > off(p) THEN l2[b].append_off ELSE off(p) + 1
  BY <1>1, <1>3 DEF TypeOK
<1>6. blocksFree' \in Int /\ live' \in SUBSET Cell
  BY <1>3 DEF TypeOK
<1>7. ASSUME NEW q \in Cell, Bare(q)' PROVE Bare(q)
  <2>1. blk(q) \in Block /\ off(q) \in Nat
    BY CellParts, BlockmapAssumption
  <2>2. off(q) >= l2'[blk(q)].append_off
    BY <1>7 DEF Bare
  <2> QED
    BY <1>1, <1>2, <1>5, <2>1, <2>2 DEF Bare
<1>8. ExactOf(l2, blocksFree, live)
  BY ExactSnap DEF LayersExact, Snap
<1>9. l2'[b].append_off >= l2[b].append_off /\ l2'[b].append_off > off(p)
  BY <1>1, <1>2, <1>5
<1>10. ExactOf(l2', IF l2[b].zone = NoZone THEN blocksFree - 1 ELSE blocksFree,
               live \union {p})
  BY <1>4, <1>5, <1>8, <1>9, TakeExact DEF TypeOK
<1>11. LayersExact'
  BY <1>3, <1>10, ExactSnap DEF LayersExact, Snap
<1> QED
  BY <1>3, <1>4, <1>5, <1>6, <1>7, <1>11

-----------------------------------------------------------------------------
(* The steps of the back end and of the front end.                         *)

(* A suitable cell is neither in use nor reserved, nor in a big-block      *)
(* whose buffers are being deleted.                                        *)
LEMMA FitFree ==
  ASSUME Core, NEW z \in Zone, NEW p \in Cell, fit(z, p)
  PROVE  /\ p \notin live
         /\ \A r \in Rec : rec[r].state = "reserved" => rec[r].cell # p
         /\ Exists(blk(p)) => res[blk(p)].deleting = "no"
<1>1. blk(p) \in Block /\ off(p) \in 0 .. Units - 1 /\ Units \in Nat
  BY CellParts, BlockmapAssumption
<1>2. p \notin live
  BY LiveBelow DEF Core, Bare, fit
<1>3. /\ res[blk(p)].append_off \in Nat
      /\ Exists(blk(p)) => off(p) >= res[blk(p)].append_off
  BY <1>1 DEF Core, TypeOK, Resv, fit
<1>4. ASSUME NEW r \in Rec, rec[r].state = "reserved", rec[r].cell = p
      PROVE  FALSE
  <2>1. Exists(blk(p))
    BY <1>4, RecordExists DEF Core
  <2>2. off(p) < res[blk(p)].append_off
    BY <1>4 DEF Core, Owned
  <2> QED
    BY <1>1, <1>3, <2>1, <2>2
<1>5. ASSUME Exists(blk(p)), res[blk(p)].deleting # "no" PROVE FALSE
  <2>1. res[blk(p)].append_off >= Units
    BY <1>1, <1>5 DEF Core, Covers
  <2> QED
    BY <1>1, <1>3, <1>5, <2>1
<1> QED
  BY <1>2, <1>4, <1>5

LEMMA AllocStep ==
  ASSUME Core, AllocTake, NEW z \in Zone, NEW p \in Cell, z = alloc.zone,
         p = alloc.cell, fit(z, p)
  PROVE  Core'
<1> DEFINE b == blk(p)
<1> USE DEF Core
<1>1. /\ fit(z, p) /\ Take(z, p) /\ delay' = delay /\ rec' = rec
      /\ act' = act /\ next' = next /\ cyc' = cyc /\ undoFlag' = undoFlag
      /\ snapC' = snapC /\ snapD' = snapD
      /\ res' = IF Exists(b) THEN [res EXCEPT ![b].append_off = off(p) + 1,
                                              ![b].l2free = FALSE] ELSE res
  BY DEF AllocTake, seqs
<1>2. /\ b \in Block /\ off(p) \in 0 .. Units - 1 /\ Units \in Nat /\ z # NoZone
      /\ l2[b].append_off \in Nat /\ res[b].append_off \in Nat
      /\ \A c \in Block : res[c].append_off \in Nat
  BY CellParts, BlockmapAssumption DEF TypeOK, Layer2, Resv
<1>3. /\ p \notin live /\ \A r \in Rec : rec[r].state = "reserved" => rec[r].cell # p
      /\ Exists(b) => res[b].deleting = "no"
  BY <1>1, FitFree
<1>4. /\ l2[b].zone \in {NoZone, z} /\ off(p) >= l2[b].append_off
      /\ Exists(b) => res[b].zone = z /\ off(p) >= res[b].append_off
  BY <1>1 DEF fit
<1>5. /\ l2' \in [Block -> Layer2] /\ blocksFree' \in Int
      /\ live' = live \union {p} /\ live' \in SUBSET Cell /\ dirty' = TRUE
      /\ \A c \in Block \ {b} : l2'[c] = l2[c]
      /\ l2'[b].zone = z
      /\ l2'[b].append_off = off(p) + 1
      /\ \A q \in Cell : Bare(q)' => Bare(q)
      /\ LayersExact'
  <2>1. /\ l2' \in [Block -> Layer2] /\ blocksFree' \in Int
        /\ live' = live \union {p} /\ live' \in SUBSET Cell /\ dirty' = TRUE
        /\ \A c \in Block \ {b} : l2'[c] = l2[c]
        /\ l2'[b].zone = z
        /\ l2'[b].append_off = IF l2[b].append_off > off(p) THEN l2[b].append_off
                                                           ELSE off(p) + 1
        /\ \A q \in Cell : Bare(q)' => Bare(q)
        /\ LayersExact'
    BY <1>1, <1>3, <1>4, TakeEffect
  <2> QED
    BY <1>2, <1>4, <2>1
<1>6. /\ res' \in [Block -> Resv]
      /\ \A c \in Block :
           /\ res'[c].zone = res[c].zone /\ res'[c].refs = res[c].refs
           /\ res'[c].delayed = res[c].delayed /\ res'[c].flush_group = res[c].flush_group
           /\ res'[c].deleting = res[c].deleting
           /\ c # b \/ ~ Exists(b) => res'[c] = res[c]
           /\ Exists(b) => res'[b].append_off = off(p) + 1 /\ res'[b].l2free = FALSE
           /\ res'[c].append_off >= res[c].append_off
  <2>1. CASE ~ Exists(b)
    BY <1>1, <1>2, <2>1 DEF TypeOK
  <2>2. CASE Exists(b)
    <3> DEFINE e == [res[b] EXCEPT !.append_off = off(p) + 1, !.l2free = FALSE]
    <3>1. res' = [res EXCEPT ![b] = e]
      BY <1>1, <1>2, <2>2 DEF TypeOK
    <3>2. /\ e \in Resv
          /\ e.zone = res[b].zone /\ e.refs = res[b].refs /\ e.delayed = res[b].delayed
          /\ e.flush_group = res[b].flush_group /\ e.deleting = res[b].deleting
          /\ e.append_off = off(p) + 1 /\ e.l2free = FALSE
      <4>1. res[b] \in Resv
        BY <1>2 DEF TypeOK
      <4>2. Fields(e, res[b].zone, res[b].refs, off(p) + 1, FALSE, res[b].delayed,
                   res[b].flush_group, res[b].deleting)
        BY <4>1, UpdatedFields
      <4>3. e \in Resv
        <5>1. off(p) + 1 \in Nat
          BY <1>2
        <5> HIDE DEF b
        <5> QED
          BY <4>1, <5>1 DEF Resv
      <4> HIDE DEF e
      <4> QED
        BY <4>2, <4>3 DEF Fields
    <3> HIDE DEF e
    <3>3. off(p) + 1 >= res[b].append_off
      BY <1>2, <1>4, <2>2
    <3> QED
      BY <1>2, <2>2, <3>1, <3>2, <3>3 DEF TypeOK
  <2> QED
    BY <2>1, <2>2
<1>7. TypeOK'
  BY <1>1, <1>5, <1>6 DEF TypeOK
<1>8. Refs'
  BY <1>1, <1>6 DEF Refs, Holders
<1>9. Covers'
  BY <1>2, <1>3, <1>4, <1>5, <1>6 DEF Covers, Exists
<1>10. Owned'
  <2>1. ASSUME NEW r \in Rec, rec[r].state = "reserved"
        PROVE  /\ rec[r].cell \notin live'
               /\ res'[blk(rec[r].cell)].zone = rec[r].zone
               /\ off(rec[r].cell) < res'[blk(rec[r].cell)].append_off
    <3>1. blk(rec[r].cell) \in Block /\ off(rec[r].cell) \in Nat
      BY <2>1, RecordExists, CellParts, BlockmapAssumption
    <3>2. /\ rec[r].cell \notin live
          /\ res[blk(rec[r].cell)].zone = rec[r].zone
          /\ off(rec[r].cell) < res[blk(rec[r].cell)].append_off
      BY <2>1 DEF Owned
    <3>3. /\ res[blk(rec[r].cell)].append_off \in Nat
          /\ res'[blk(rec[r].cell)].append_off \in Nat
      BY <1>6, <3>1 DEF TypeOK, Resv
    <3> QED
      BY <1>3, <1>5, <1>6, <2>1, <3>1, <3>2, <3>3
  <2> QED
    BY <1>1, <2>1 DEF Owned
<1>11. DelayNeverMissed'
  BY <1>1, <1>6, DelayFrame
<1>12. Shadow'
  <2>1. \A c \in Block : Ahead(c)' = Ahead(c)
    BY <1>1, <1>6 DEF Ahead, Due
  <2>2. haswork'
    BY <1>5 DEF haswork
  <2> QED
    BY <1>1, <1>5, <1>6, <2>1, <2>2, ShadowFrame
<1>13. Deleter'
  BY <1>1, <1>6 DEF Deleter
<1> QED
  BY <1>5, <1>7, <1>8, <1>9, <1>10, <1>11, <1>12, <1>13

LEMMA FinalizeStep ==
  ASSUME Core, NEW r \in Rec, Finalize(r)
  PROVE  Core'
<1> DEFINE p == rec[r].cell
           z == rec[r].zone
           b == blk(p)
<1> USE DEF Core
<1>1. /\ rec[r].state = "reserved" /\ Take(z, p) /\ delay' = delay
      /\ act' = act /\ next' = next /\ cyc' = cyc /\ undoFlag' = undoFlag
      /\ snapC' = snapC /\ snapD' = snapD
      /\ res' = [res EXCEPT ![b].l2free = FALSE]
      /\ rec' = [rec EXCEPT ![r].state = "committed"]
  BY DEF Finalize, seqs
<1>2. /\ p \in Cell /\ z \in Zone /\ b \in Block /\ Exists(b)
      /\ Cardinality(Holders(b)) \in Nat \ {0}
  BY <1>1, RecordExists
<1>3. /\ off(p) \in 0 .. Units - 1 /\ Units \in Nat /\ z # NoZone
      /\ l2[b].append_off \in Nat /\ res[b].append_off \in Nat
  BY <1>2, CellParts, BlockmapAssumption DEF TypeOK, Layer2, Resv
<1>4. /\ p \notin live /\ res[b].zone = z /\ off(p) < res[b].append_off
      /\ \A q \in Rec \ {r} : rec[q].state = "reserved" => rec[q].cell # p
  BY <1>1 DEF Owned
<1>5. /\ l2[b].zone \in {NoZone, z} /\ l2[b].append_off =< res[b].append_off
      /\ res[b].deleting = "no"
  <2>1. /\ l2[b].zone \in {NoZone, res[b].zone} /\ l2[b].append_off =< res[b].append_off
        /\ res[b].deleting # "no" => res[b].refs = 1
    BY <1>2 DEF Covers
  <2>2. res[b].deleting = "no"
    BY <1>2, <2>1 DEF Refs, One
  <2> QED
    BY <1>4, <2>1, <2>2
<1> HIDE DEF p, z, b
<1>6. /\ l2' \in [Block -> Layer2] /\ blocksFree' \in Int
      /\ live' = live \union {p} /\ live' \in SUBSET Cell /\ dirty' = TRUE
      /\ \A c \in Block \ {b} : l2'[c] = l2[c]
      /\ l2'[b].zone = z
      /\ l2'[b].append_off = IF l2[b].append_off > off(p) THEN l2[b].append_off
                                                         ELSE off(p) + 1
      /\ \A q \in Cell : Bare(q)' => Bare(q)
      /\ LayersExact'
  BY <1>1, <1>2, <1>4, <1>5, TakeEffect DEF b
<1>7. /\ res' \in [Block -> Resv]
      /\ \A c \in Block :
           /\ res'[c].zone = res[c].zone /\ res'[c].refs = res[c].refs
           /\ res'[c].append_off = res[c].append_off
           /\ res'[c].delayed = res[c].delayed /\ res'[c].flush_group = res[c].flush_group
           /\ res'[c].deleting = res[c].deleting
           /\ c # b => res'[c].l2free = res[c].l2free
      /\ res'[b].l2free = FALSE
  BY <1>1, <1>2 DEF TypeOK, Resv
<1>8. /\ rec' \in [Rec -> Record] /\ rec'[r].state = "committed"
      /\ \A q \in Rec : /\ rec'[q].cell = rec[q].cell /\ rec'[q].zone = rec[q].zone
                        /\ q # r => rec'[q].state = rec[q].state
  BY <1>1 DEF TypeOK, Record
<1>9. TypeOK'
  BY <1>1, <1>6, <1>7, <1>8, <1>2 DEF TypeOK, p, z
<1>10. Refs'
  <2>1. \A c : Holders(c)' = Holders(c)
    BY <1>1, <1>8 DEF Holders
  <2> QED
    BY <1>7, <2>1 DEF Refs
<1>11. Covers'
  <2>1. ASSUME NEW c \in Block, c # b, Exists(c)'
        PROVE  /\ l2'[c].zone \in {NoZone, res'[c].zone}
               /\ l2'[c].append_off =< res'[c].append_off
               /\ res'[c].l2free => l2'[c].zone = NoZone
               /\ res'[c].deleting # "no" =>
                    l2'[c].zone = NoZone /\ res'[c].append_off >= Units /\ res'[c].refs = 1
    <3>1. Exists(c)
      BY <1>7, <2>1 DEF Exists
    <3> QED
      BY <1>6, <1>7, <2>1, <3>1 DEF Covers
  <2>2. /\ l2'[b].zone = res'[b].zone /\ l2'[b].append_off =< res'[b].append_off
        /\ res'[b].l2free = FALSE /\ res'[b].deleting = "no"
    BY <1>2, <1>3, <1>4, <1>5, <1>6, <1>7
  <2> QED
    BY <2>1, <2>2 DEF Covers
<1>12. Owned'
  <2>1. ASSUME NEW q \in Rec, rec'[q].state = "reserved"
        PROVE  /\ q # r /\ rec[q].state = "reserved" /\ rec[q].cell # p
               /\ blk(rec[q].cell) \in Block
    <3>1. q # r /\ rec[q].state = "reserved"
      BY <1>8, <2>1
    <3> QED
      BY <1>4, <3>1, RecordExists
  <2> QED
    BY <1>6, <1>7, <1>8, <2>1 DEF Owned
<1>13. DelayNeverMissed'
  BY <1>1, <1>7, DelayFrame
<1>14. Shadow'
  <2>1. \A c \in Block : Ahead(c)' = Ahead(c) /\ res[c].append_off \in Nat
    BY <1>1, <1>7 DEF Ahead, Due, TypeOK, Resv
  <2>2. haswork'
    BY <1>6 DEF haswork
  <2> QED
    BY <1>1, <1>6, <1>7, <2>1, <2>2, ShadowFrame
<1>15. Deleter'
  BY <1>1, <1>7 DEF Deleter
<1> QED
  BY <1>6, <1>9, <1>10, <1>11, <1>12, <1>13, <1>14, <1>15

LEMMA ReserveStep ==
  ASSUME Core, NEW r \in Rec, NEW z \in Zone, NEW p \in Cell, Reserve(r, z, p)
  PROVE  Core'
<1> DEFINE b == blk(p)
           f == l2[b].bytes_free = Units
           new == [NoRes EXCEPT !.refs = 1, !.zone = z, !.append_off = off(p) + 1,
                                !.l2free = f]
           old == [res[b] EXCEPT !.refs = res[b].refs + 1, !.append_off = off(p) + 1]
           e == IF Exists(b) THEN old ELSE new
<1> USE DEF Core
<1>1. /\ rec[r].state = "none" /\ fit(z, p) /\ delay' = delay
      /\ l2' = l2 /\ blocksFree' = blocksFree /\ live' = live
      /\ act' = act /\ next' = next /\ cyc' = cyc
      /\ dirty' = dirty /\ undoFlag' = undoFlag /\ snapC' = snapC /\ snapD' = snapD
      /\ rec' = [rec EXCEPT ![r] = [state |-> "reserved", cell |-> p, zone |-> z]]
      /\ res' = [res EXCEPT ![b] = e]
  <2>1. res' = [res EXCEPT ![b] = e]
    BY DEF Reserve
  <2> QED
    BY <2>1 DEF Reserve, seqs, meta, fifo
<1>2. /\ b \in Block /\ off(p) \in 0 .. Units - 1 /\ Units \in Nat /\ z # NoZone
      /\ l2[b].append_off \in Nat /\ res[b] \in Resv /\ z \in AnyZone /\ f \in BOOLEAN
  BY CellParts, BlockmapAssumption DEF TypeOK, Layer2, AnyZone
<1>3. /\ p \notin live /\ \A q \in Rec : rec[q].state = "reserved" => rec[q].cell # p
      /\ Exists(b) => res[b].deleting = "no"
  BY <1>1, FitFree
<1>4. /\ l2[b].zone \in {NoZone, z} /\ off(p) >= l2[b].append_off
      /\ Exists(b) => res[b].zone = z /\ off(p) >= res[b].append_off
      /\ f => l2[b].zone = NoZone
  BY <1>1, <1>2, LiveBelow DEF fit
<1> HIDE DEF f
<1>5. /\ e \in Resv /\ e.zone = z /\ e.refs = res[b].refs + 1
      /\ e.append_off = off(p) + 1
      /\ e.l2free => l2[b].zone = NoZone
      /\ e.delayed = res[b].delayed /\ e.deleting = res[b].deleting
      /\ res[b].delayed => e.flush_group = res[b].flush_group
      /\ e.deleting = "no"
  <2>1. CASE Exists(b)
    <3>1. /\ old \in Resv
          /\ Fields(old, res[b].zone, res[b].refs + 1, off(p) + 1, res[b].l2free,
                    res[b].delayed, res[b].flush_group, res[b].deleting)
      <4>1. res[b].refs + 1 \in Nat /\ off(p) + 1 \in Nat
        BY <1>2 DEF Resv
      <4>2. old \in Resv
        <5> HIDE DEF b
        <5> QED
          BY <1>2, <4>1 DEF Resv
      <4>3. Fields(old, res[b].zone, res[b].refs + 1, off(p) + 1, res[b].l2free,
                    res[b].delayed, res[b].flush_group, res[b].deleting)
        BY <1>2, UpdatedFields
      <4> QED
        BY <4>2, <4>3
    <3>2. res[b].l2free => l2[b].zone = NoZone
      BY <1>2, <2>1 DEF Covers
    <3> HIDE DEF old
    <3> QED
      BY <1>3, <1>4, <2>1, <3>1, <3>2 DEF Fields
  <2>2. CASE ~ Exists(b)
    <3>1. new \in Resv /\ Fields(new, z, 1, off(p) + 1, f, FALSE, 0, "no")
      <4>1. off(p) + 1 \in Nat
        BY <1>2
      <4> HIDE DEF b
      <4> QED
        BY <1>2, <4>1, NewResv
    <3>2. res[b].refs = 0 /\ res[b].delayed = FALSE /\ res[b].deleting = "no"
      BY <1>2, <2>2, NothingHeld
    <3> HIDE DEF new, old
    <3>3. e = new
      BY <2>2
    <3>4. new.l2free => l2[b].zone = NoZone
      BY <1>4, <3>1, Zenon DEF Fields
    <3>5. /\ new.zone = z /\ new.refs = 1 /\ new.append_off = off(p) + 1
          /\ new.delayed = FALSE /\ new.deleting = "no" /\ new \in Resv
      BY <3>1, Zenon DEF Fields
    <3> HIDE DEF e
    <3>6. e.refs = res[b].refs + 1
      BY <3>2, <3>3, <3>5
    <3> QED
      BY <3>2, <3>3, <3>4, <3>5, <3>6, Zenon
  <2> QED
    BY <2>1, <2>2
<1> HIDE DEF b, e, f
<1>6. /\ res' \in [Block -> Resv] /\ res'[b] = e
      /\ \A c \in Block \ {b} : res'[c] = res[c]
  BY <1>1, <1>2, <1>5 DEF TypeOK
<1>7. /\ rec' \in [Rec -> Record]
      /\ rec'[r].state = "reserved" /\ rec'[r].cell = p /\ rec'[r].zone = z
      /\ \A q \in Rec \ {r} : rec'[q] = rec[q]
  BY <1>1, <1>2 DEF TypeOK, Record
<1>8. TypeOK'
  BY <1>1, <1>6, <1>7 DEF TypeOK
<1>9. LayersExact'
  BY <1>1 DEF LayersExact, Snap
<1>10. Refs'
  <2>1. /\ Holders(b)' = Holders(b) \union {r} /\ r \notin Holders(b)
        /\ \A c \in Block \ {b} : Holders(c)' = Holders(c)
    BY <1>1, <1>7 DEF Holders, b
  <2>2. Cardinality(Holders(b) \union {r}) = Cardinality(Holders(b)) + 1
        /\ Cardinality(Holders(b)) \in Nat
    BY <2>1, HoldersCount, FS_AddElement
  <2>3. res'[b].refs = Cardinality(Holders(b)') + One(res'[b].delayed)
                         + One(res'[b].deleting # "no")
    <3>1. res[b].refs = Cardinality(Holders(b)) + One(res[b].delayed)
                          + One(res[b].deleting # "no")
      BY <1>2 DEF Refs
    <3>2. One(res[b].delayed) \in Nat /\ One(res[b].deleting # "no") \in Nat
      BY DEF One
    <3>3. res'[b].refs = res[b].refs + 1 /\ res'[b].delayed = res[b].delayed
          /\ res'[b].deleting = res[b].deleting
      BY <1>5, <1>6
    <3> QED
      BY <2>1, <2>2, <3>1, <3>2, <3>3
  <2> QED
    BY <1>6, <2>1, <2>3 DEF Refs
<1>11. Covers'
  <2>1. /\ l2[b].append_off =< res'[b].append_off
        /\ l2[b].zone \in {NoZone, res'[b].zone}
        /\ res'[b].l2free => l2[b].zone = NoZone
        /\ res'[b].deleting = "no"
    BY <1>2, <1>4, <1>5, <1>6
  <2> QED
    BY <1>1, <1>6, <2>1 DEF Covers, Exists
<1>12. Owned'
  <2>1. ASSUME NEW q \in Rec \ {r}, rec[q].state = "reserved"
        PROVE  /\ rec[q].cell \notin live /\ rec[q].cell # p
               /\ res'[blk(rec[q].cell)].zone = rec[q].zone
               /\ off(rec[q].cell) < res'[blk(rec[q].cell)].append_off
    <3>1. /\ blk(rec[q].cell) \in Block /\ Exists(blk(rec[q].cell))
          /\ off(rec[q].cell) \in Nat
      BY <2>1, RecordExists, CellParts, BlockmapAssumption
    <3>2. /\ rec[q].cell \notin live
          /\ res[blk(rec[q].cell)].zone = rec[q].zone
          /\ off(rec[q].cell) < res[blk(rec[q].cell)].append_off
      BY <2>1 DEF Owned
    <3>3. CASE blk(rec[q].cell) # b
      BY <1>3, <1>6, <2>1, <3>1, <3>2, <3>3
    <3>4. CASE blk(rec[q].cell) = b
      <4>1. res[b].append_off \in Nat
        BY <1>2 DEF Resv
      <4> QED
        BY <1>2, <1>3, <1>4, <1>5, <1>6, <2>1, <3>1, <3>2, <3>4, <4>1
    <3> QED
      BY <3>3, <3>4
  <2>2. off(p) < res'[b].append_off /\ res'[b].zone = z
    BY <1>2, <1>5, <1>6
  <2> QED
    BY <1>1, <1>3, <1>7, <2>1, <2>2 DEF Owned, b
<1>13. DelayNeverMissed'
  BY <1>1, <1>5, <1>6, DelayFrame
<1>14. Shadow'
  <2>1. \A c \in Block : res[c].delayed => Ahead(c)' = Ahead(c)
    BY <1>1, <1>5, <1>6 DEF Ahead, Due
  <2>2. \A q \in Cell : Bare(q)' = Bare(q)
    BY <1>1 DEF Bare
  <2>3. haswork' = haswork
    BY <1>1 DEF haswork
  <2>4. ASSUME NEW c \in Block, res[c].delayed
        PROVE  /\ res'[c].delayed /\ Ahead(c)' = Ahead(c)
               /\ res[c].zone = NoZone \/ res'[c].append_off >= res[c].append_off
               /\ res'[c].zone = res[c].zone
    <3>1. res[c].append_off \in Nat /\ res'[c].append_off \in Nat
      BY <1>6 DEF TypeOK, Resv
    <3>2. CASE c # b
      BY <1>6, <2>1, <2>4, <3>1, <3>2
    <3>3. CASE c = b
      <4>1. Exists(b)
        BY <2>4, <3>3, NothingHeld
      <4> QED
        BY <1>2, <1>4, <1>5, <1>6, <2>1, <2>4, <3>1, <3>3, <4>1
    <3> QED
      BY <3>2, <3>3
  <2> QED
    BY <1>1, <1>6, <2>2, <2>3, <2>4, ShadowFrame
<1>15. Deleter'
  BY <1>1, <1>5, <1>6 DEF Deleter
<1> QED
  BY <1>8, <1>9, <1>10, <1>11, <1>12, <1>13, <1>14, <1>15

(* A reservation loses a reference.                                        *)
LEMMA Unref ==
  ASSUME NEW x \in Resv, x.refs # 0
  PROVE  /\ unref(x) \in Resv
         /\ x.refs = 1 => Fields(unref(x), NoZone, 0, 0, FALSE, FALSE, 0, "no")
         /\ x.refs # 1 => Fields(unref(x), x.zone, x.refs - 1, x.append_off, x.l2free,
                                 x.delayed, x.flush_group, x.deleting)
<1>1. CASE x.refs = 1
  <2>1. NoRes \in Resv /\ Fields(NoRes, NoZone, 0, 0, FALSE, FALSE, 0, "no")
    BY BlockmapAssumption DEF NoRes, Fields, Resv, AnyZone, Seqno
  <2> QED
    BY <1>1, <2>1 DEF unref
<1>2. CASE x.refs # 1
  <2>1. unref(x) = [x EXCEPT !.refs = x.refs - 1]
    BY <1>2 DEF unref
  <2>2. x.refs - 1 \in Nat
    BY <1>2 DEF Resv
  <2>3. /\ [x EXCEPT !.refs = x.refs - 1] \in Resv
        /\ Fields([x EXCEPT !.refs = x.refs - 1], x.zone, x.refs - 1, x.append_off,
                  x.l2free, x.delayed, x.flush_group, x.deleting)
    BY <2>2 DEF Resv, Fields
  <2> QED
    BY <1>2, <2>1, <2>3
<1> QED
  BY <1>1, <1>2

(* hammer_blockmap_reserve_complete().                                     *)
LEMMA CompleteEffect ==
  ASSUME NEW R \in [Block -> Resv], NEW b \in Block, R[b].refs # 0,
         NEW who \in {"record", "flusher"}
  PROVE  LET S == reserve_complete(R, b, who)
         IN /\ S \in [Block -> Resv] /\ \A c \in Block \ {b} : S[c] = R[c]
            /\ R[b].refs = 1 /\ R[b].l2free =>
                 Fields(S[b], R[b].zone, 1, Units, FALSE, R[b].delayed,
                        R[b].flush_group, who)
            /\ R[b].refs = 1 /\ ~ R[b].l2free =>
                 Fields(S[b], NoZone, 0, 0, FALSE, FALSE, 0, "no")
            /\ R[b].refs # 1 =>
                 Fields(S[b], R[b].zone, R[b].refs - 1, R[b].append_off, R[b].l2free,
                        R[b].delayed, R[b].flush_group, R[b].deleting)
<1> DEFINE x == R[b]
           y == [x EXCEPT !.append_off = Units, !.l2free = FALSE, !.deleting = who]
<1>1. x \in Resv /\ Units \in Nat
  BY BlockmapAssumption
<1>2. CASE x.refs = 1 /\ x.l2free
  <2>1. reserve_complete(R, b, who) = [R EXCEPT ![b] = y]
    BY <1>2 DEF reserve_complete
  <2>2. /\ y \in Resv
        /\ Fields(y, x.zone, x.refs, Units, FALSE, x.delayed, x.flush_group, who)
    <3> HIDE DEF x
    <3> QED
      BY <1>1 DEF Resv, Fields
  <2> HIDE DEF y
  <2> QED
    BY <1>2, <2>1, <2>2
<1>3. CASE ~ (x.refs = 1 /\ x.l2free)
  <2>1. reserve_complete(R, b, who) = [R EXCEPT ![b] = unref(x)]
    BY <1>3 DEF reserve_complete
  <2>2. /\ unref(x) \in Resv
        /\ x.refs = 1 => Fields(unref(x), NoZone, 0, 0, FALSE, FALSE, 0, "no")
        /\ x.refs # 1 => Fields(unref(x), x.zone, x.refs - 1, x.append_off, x.l2free,
                                x.delayed, x.flush_group, x.deleting)
    BY <1>1, Unref
  <2> QED
    BY <1>3, <2>1, <2>2
<1> QED
  BY <1>2, <1>3

(* The record holds one of the references that are counted.                *)
LEMMA ReleaseStep ==
  ASSUME Core, NEW r \in Rec, Release(r)
  PROVE  Core'
<1> USE DEF Core
<1>0. PICK b \in Block : b = blk(rec[r].cell)
  BY RecordExists DEF Release
<1>1. /\ rec[r].state # "none" /\ delay' = delay
      /\ l2' = l2 /\ blocksFree' = blocksFree /\ live' = live
      /\ act' = act /\ next' = next /\ cyc' = cyc
      /\ dirty' = dirty /\ undoFlag' = undoFlag /\ snapC' = snapC /\ snapD' = snapD
      /\ rec' = [rec EXCEPT ![r] = NoRec]
      /\ res' = reserve_complete(res, b, "record")
  BY <1>0 DEF Release, seqs, meta, fifo
<1>2. /\ b \in Block /\ r \in Holders(b) /\ Cardinality(Holders(b)) \in Nat \ {0}
      /\ IsFiniteSet(Holders(b)) /\ Exists(b)
  BY <1>0, <1>1, RecordExists, HoldersCount
<1>3. /\ rec' \in [Rec -> Record] /\ rec'[r].state = "none"
      /\ \A q \in Rec \ {r} : rec'[q] = rec[q]
  BY <1>1 DEF TypeOK, Record, NoRec, AnyZone
<1>4. /\ Holders(b)' = Holders(b) \ {r}
      /\ \A c \in Block \ {b} : Holders(c)' = Holders(c)
      /\ Cardinality(Holders(b) \ {r}) = Cardinality(Holders(b)) - 1
  <2>1. Holders(b)' = Holders(b) \ {r}
    BY <1>3 DEF Holders
  <2>2. \A c \in Block \ {b} : Holders(c)' = Holders(c)
    BY <1>0, <1>1, <1>3 DEF Holders
  <2>3. Cardinality(Holders(b) \ {r}) = Cardinality(Holders(b)) - 1
    BY <1>2, FS_RemoveElement
  <2> QED
    BY <2>1, <2>2, <2>3
<1>5. /\ res[b] \in Resv /\ res[b].refs \in Nat \ {0} /\ res[b].delayed \in BOOLEAN
      /\ res[b].append_off \in Nat
      /\ res[b].deleting \in {"no", "record", "flusher"}
      /\ res[b].refs = Cardinality(Holders(b)) + One(res[b].delayed)
                         + One(res[b].deleting # "no")
      /\ Units \in Nat
  BY <1>2, BlockmapAssumption DEF TypeOK, Resv, Exists, Refs
<1>6. res[b].refs = 1 => /\ Cardinality(Holders(b)) = 1 /\ Holders(b) = {r}
                         /\ res[b].delayed = FALSE /\ res[b].deleting = "no"
  <2>1. ASSUME res[b].refs = 1
        PROVE  /\ Cardinality(Holders(b)) = 1
               /\ res[b].delayed = FALSE /\ res[b].deleting = "no"
    BY <1>2, <1>5, <2>1 DEF One
  <2>2. ASSUME res[b].refs = 1 PROVE Holders(b) = {r}
    <3>1. PICK x : Holders(b) = {x}
      BY <1>2, <2>1, <2>2, FS_Singleton
    <3> QED
      BY <1>2, <3>1
  <2> QED
    BY <2>1, <2>2
<1>7. /\ res' \in [Block -> Resv] /\ \A c \in Block \ {b} : res'[c] = res[c]
      /\ res[b].refs = 1 /\ res[b].l2free =>
           Fields(res'[b], res[b].zone, 1, Units, FALSE, res[b].delayed,
                  res[b].flush_group, "record")
      /\ res[b].refs = 1 /\ ~ res[b].l2free =>
           Fields(res'[b], NoZone, 0, 0, FALSE, FALSE, 0, "no")
      /\ res[b].refs # 1 =>
           Fields(res'[b], res[b].zone, res[b].refs - 1, res[b].append_off, res[b].l2free,
                  res[b].delayed, res[b].flush_group, res[b].deleting)
  BY <1>1, <1>2, <1>5, CompleteEffect DEF TypeOK
<1>8. /\ res'[b].delayed = res[b].delayed
      /\ res[b].delayed => /\ res'[b].flush_group = res[b].flush_group
                           /\ res'[b].zone = res[b].zone
                           /\ res'[b].append_off = res[b].append_off
      /\ res'[b].deleting # "flusher" \/ res'[b].deleting = res[b].deleting
  <2>1. CASE res[b].refs = 1
    BY <1>6, <1>7, <2>1 DEF Fields
  <2>2. CASE res[b].refs # 1
    BY <1>7, <2>2 DEF Fields
  <2> QED
    BY <2>1, <2>2
<1>9. TypeOK'
  BY <1>1, <1>3, <1>7 DEF TypeOK
<1>10. LayersExact'
  BY <1>1 DEF LayersExact, Snap
<1>11. Refs'
  <2>1. res'[b].refs = Cardinality(Holders(b)') + One(res'[b].delayed)
                         + One(res'[b].deleting # "no")
    <3>1. CASE res[b].refs = 1 /\ res[b].l2free
      BY <1>2, <1>4, <1>5, <1>6, <1>7, <3>1 DEF Fields, One
    <3>2. CASE res[b].refs = 1 /\ ~ res[b].l2free
      BY <1>2, <1>4, <1>5, <1>6, <1>7, <3>2 DEF Fields, One
    <3>3. CASE res[b].refs # 1
      BY <1>2, <1>4, <1>5, <1>7, <3>3 DEF Fields, One
    <3> QED
      BY <3>1, <3>2, <3>3
  <2> QED
    BY <1>4, <1>7, <2>1 DEF Refs
<1>12. Covers'
  <2>1. ASSUME res'[b].refs > 0
        PROVE  /\ l2[b].zone \in {NoZone, res'[b].zone}
               /\ l2[b].append_off =< res'[b].append_off
               /\ res'[b].l2free => l2[b].zone = NoZone
               /\ res'[b].deleting # "no" =>
                    l2[b].zone = NoZone /\ res'[b].append_off >= Units /\ res'[b].refs = 1
    <3>1. /\ l2[b].zone \in {NoZone, res[b].zone}
          /\ l2[b].append_off =< res[b].append_off
          /\ res[b].l2free => l2[b].zone = NoZone
          /\ res[b].deleting # "no" => res[b].refs = 1
      BY <1>2 DEF Covers
    <3>2. CASE res[b].refs = 1 /\ res[b].l2free
      <4>1. l2[b].append_off = 0
        BY <1>2, <3>1, <3>2, LiveBelow
      <4> QED
        BY <1>5, <1>7, <3>1, <3>2, <4>1 DEF Fields
    <3>3. CASE res[b].refs = 1 /\ ~ res[b].l2free
      BY <1>7, <2>1, <3>3 DEF Fields
    <3>4. CASE res[b].refs # 1
      BY <1>7, <3>1, <3>4 DEF Fields
    <3> QED
      BY <3>2, <3>3, <3>4
  <2> QED
    BY <1>1, <1>7, <2>1 DEF Covers, Exists
<1>13. Owned'
  <2>1. ASSUME NEW q \in Rec \ {r}, rec[q].state = "reserved"
        PROVE  /\ res'[blk(rec[q].cell)].zone = rec[q].zone
               /\ off(rec[q].cell) < res'[blk(rec[q].cell)].append_off
    <3>1. blk(rec[q].cell) \in Block /\ q \in Holders(blk(rec[q].cell))
      BY <2>1, RecordExists
    <3>2. CASE blk(rec[q].cell) # b
      BY <1>7, <2>1, <3>1, <3>2 DEF Owned
    <3>3. CASE blk(rec[q].cell) = b
      <4>1. res[b].refs # 1
        BY <1>6, <2>1, <3>1, <3>3
      <4> QED
        BY <1>7, <2>1, <3>3, <4>1 DEF Owned, Fields
    <3> QED
      BY <3>2, <3>3
  <2> QED
    BY <1>1, <1>3, <2>1 DEF Owned
<1>14. DelayNeverMissed'
  BY <1>1, <1>7, <1>8, DelayFrame
<1>15. Shadow'
  <2>1. \A q \in Cell : Bare(q)' = Bare(q)
    BY <1>1 DEF Bare
  <2>2. haswork' = haswork
    BY <1>1 DEF haswork
  <2>3. ASSUME NEW c \in Block, res[c].delayed
        PROVE  /\ res'[c].delayed /\ Ahead(c)' = Ahead(c)
               /\ res[c].zone = NoZone \/ res'[c].append_off >= res[c].append_off
               /\ res'[c].zone = res[c].zone
    <3>1. res[c].append_off \in Nat
      BY DEF TypeOK, Resv
    <3> QED
      BY <1>1, <1>7, <1>8, <2>3, <3>1 DEF Ahead, Due
  <2> QED
    BY <1>1, <1>7, <2>1, <2>2, <2>3, ShadowFrame
<1>16. Deleter'
  BY <1>1, <1>7, <1>8 DEF Deleter
<1> QED
  BY <1>9, <1>10, <1>11, <1>12, <1>13, <1>14, <1>15, <1>16

(* hammer_del_buffers() returns: the reservation had no other reference.   *)
LEMMA BuffersDeletedStep ==
  ASSUME Core, NEW b \in Block, BuffersDeleted(b)
  PROVE  Core'
<1> DEFINE x == [res[b] EXCEPT !.deleting = "no"]
<1> USE DEF Core
<1>1. /\ res[b].deleting # "no" /\ delay' = delay /\ rec' = rec
      /\ l2' = l2 /\ blocksFree' = blocksFree /\ live' = live
      /\ act' = act /\ next' = next
      /\ dirty' = dirty /\ undoFlag' = undoFlag /\ snapC' = snapC /\ snapD' = snapD
      /\ res' = [res EXCEPT ![b] = unref(x)]
      /\ cyc' = IF res[b].deleting = "flusher" THEN "release" ELSE cyc
  BY DEF BuffersDeleted, meta, fifo
<1>2. /\ res[b].refs = 1 /\ Holders(b) = {} /\ res[b].delayed = FALSE
      /\ Cardinality(Holders(b)) = 0
  <2>1. /\ Cardinality(Holders(b)) \in Nat
        /\ Cardinality(Holders(b)) = 0 <=> Holders(b) = {}
    BY HoldersCount
  <2>2. /\ res[b].refs = Cardinality(Holders(b)) + One(res[b].delayed)
                          + One(res[b].deleting # "no")
        /\ res[b].delayed \in BOOLEAN
    BY DEF Refs, TypeOK, Resv
  <2>3. Exists(b)
    BY <1>1, <2>1, <2>2 DEF Exists, One
  <2>4. res[b].refs = 1
    BY <1>1, <2>3 DEF Covers
  <2> QED
    BY <1>1, <2>1, <2>2, <2>4 DEF One
<1>3. x \in Resv /\ x.refs = 1
  <2>1. res[b] \in Resv
    BY DEF TypeOK
  <2> QED
    BY <1>2, <2>1 DEF Resv
<1> HIDE DEF x
<1>4. /\ unref(x) \in Resv
      /\ Fields(unref(x), NoZone, 0, 0, FALSE, FALSE, 0, "no")
  <2>1. x.refs # 0
    BY <1>3
  <2>2. x \in Resv /\ (x.refs = 1) = TRUE
    BY <1>3
  <2> QED
    BY <2>1, <2>2, Unref
<1>5. /\ res' \in [Block -> Resv] /\ res'[b] = unref(x)
      /\ \A c \in Block \ {b} : res'[c] = res[c]
  BY <1>1, <1>4 DEF TypeOK
<1>6. /\ res'[b].refs = 0 /\ res'[b].delayed = FALSE /\ res'[b].deleting = "no"
  BY <1>4, <1>5 DEF Fields
<1>7. TypeOK'
  BY <1>1, <1>5 DEF TypeOK
<1>8. LayersExact'
  BY <1>1 DEF LayersExact, Snap
<1>9. Refs'
  <2>1. \A c : Holders(c)' = Holders(c)
    BY <1>1 DEF Holders
  <2>2. res'[b].refs = Cardinality(Holders(b)') + One(res'[b].delayed)
                         + One(res'[b].deleting # "no")
    BY <1>2, <1>6, <2>1 DEF One
  <2> QED
    BY <1>5, <2>1, <2>2 DEF Refs
<1>10. Covers'
  BY <1>1, <1>5, <1>6 DEF Covers, Exists
<1>11. Owned'
  <2>1. \A q \in Rec : rec[q].state = "reserved" => blk(rec[q].cell) \in Block \ {b}
    BY <1>2, RecordExists
  <2> QED
    BY <1>1, <1>5, <2>1 DEF Owned
<1>12. DelayNeverMissed'
  BY <1>1, <1>2, <1>5, <1>6, DelayFrame
<1>13. Shadow'
  <2>1. \A q \in Cell : Bare(q)' = Bare(q)
    BY <1>1 DEF Bare
  <2>2. haswork' = haswork
    BY <1>1 DEF haswork
  <2>3. cyc' \in {"group", "none"} <=> cyc \in {"group", "none"}
    BY <1>1 DEF Deleter
  <2>4. ASSUME NEW c \in Block, res[c].delayed
        PROVE  /\ res'[c].delayed /\ Ahead(c)' = Ahead(c)
               /\ res[c].zone = NoZone \/ res'[c].append_off >= res[c].append_off
               /\ res'[c].zone = res[c].zone
    <3>1. res[c].append_off \in Nat /\ res'[c] = res[c]
      BY <1>2, <1>5, <2>4 DEF TypeOK, Resv
    <3>2. One(cyc' \in {"group", "none"}) = One(cyc \in {"group", "none"})
      BY <2>3 DEF One
    <3> QED
      BY <1>1, <2>4, <3>1, <3>2 DEF Ahead, Due
  <2> QED
    BY <1>1, <1>5, <2>1, <2>2, <2>4, ShadowFrame
<1>14. Deleter'
  <2>1. CASE res[b].deleting = "flusher"
    <3>1. \A c \in Block : res'[c].deleting # "flusher"
      BY <1>5, <1>6, <2>1 DEF Deleter
    <3> QED
      BY <3>1 DEF Deleter
  <2>2. CASE res[b].deleting # "flusher"
    BY <1>1, <1>5, <1>6, <2>2 DEF Deleter
  <2> QED
    BY <2>1, <2>2
<1> QED
  BY <1>7, <1>8, <1>9, <1>10, <1>11, <1>12, <1>13, <1>14

(* hammer_reserve_setdelay().                                              *)
LEMMA DelayedEffect ==
  ASSUME TypeOK, Refs, NEW b \in Block, res' = delayed(b)
  PROVE  /\ res' \in [Block -> Resv] /\ \A c \in Block \ {b} : res'[c] = res[c]
         /\ res'[b].zone = IF Exists(b) THEN res[b].zone ELSE NoZone
         /\ res'[b].refs = IF res[b].delayed THEN res[b].refs ELSE res[b].refs + 1
         /\ res'[b].append_off = IF Exists(b) THEN res[b].append_off ELSE 0
         /\ res'[b].delayed = TRUE /\ res'[b].flush_group = Inc(Inc(act))
         /\ res'[b].deleting = res[b].deleting
<1> DEFINE u == [NoRes EXCEPT !.l2free = TRUE]
           e == IF Exists(b) THEN res[b] ELSE u
           n == IF e.delayed THEN e.refs ELSE e.refs + 1
           d == [e EXCEPT !.refs = n, !.delayed = TRUE, !.flush_group = flush_group]
<1>1. res' = [res EXCEPT ![b] = d]
  BY DEF delayed
<1>2. /\ e \in Resv
      /\ e.zone = IF Exists(b) THEN res[b].zone ELSE NoZone
      /\ e.append_off = IF Exists(b) THEN res[b].append_off ELSE 0
      /\ e.refs = res[b].refs /\ e.delayed = res[b].delayed
      /\ e.deleting = res[b].deleting
  <2>1. CASE Exists(b)
    BY <2>1 DEF TypeOK
  <2>2. CASE ~ Exists(b)
    <3>1. u \in Resv /\ Fields(u, NoZone, 0, 0, TRUE, FALSE, 0, "no")
      BY NewResv DEF AnyZone
    <3>2. res[b].refs = 0 /\ res[b].delayed = FALSE /\ res[b].deleting = "no"
      BY <2>2, NothingHeld
    <3> HIDE DEF u
    <3>3. e = u
      BY <2>2
    <3> HIDE DEF e
    <3> QED
      BY <2>2, <3>1, <3>2, <3>3 DEF Fields
  <2> QED
    BY <2>1, <2>2
<1>3. flush_group = Inc(Inc(act)) /\ flush_group \in Seqno
  BY IncSeqno DEF flush_group, TypeOK, Inc
<1> HIDE DEF e
<1>4. n \in Nat /\ n = IF res[b].delayed THEN res[b].refs ELSE res[b].refs + 1
  BY <1>2 DEF Resv
<1> HIDE DEF n
<1>5. /\ d \in Resv
      /\ Fields(d, e.zone, n, e.append_off, e.l2free, TRUE, flush_group, e.deleting)
  BY <1>2, <1>3, <1>4 DEF Resv, Fields
<1> HIDE DEF d
<1>6. res' \in [Block -> Resv] /\ res'[b] = d /\ \A c \in Block \ {b} : res'[c] = res[c]
  BY <1>1, <1>5 DEF TypeOK
<1> QED
  BY <1>2, <1>3, <1>4, <1>5, <1>6 DEF Fields

(* A big-block goes to the end of the delay list, two cycles ahead.        *)
LEMMA SetDelay ==
  ASSUME TypeOK, Refs, DelayNeverMissed, NEW b \in Block, res' = delayed(b),
         delay' = to_tail(b), act' = act, cyc' = cyc
  PROVE  DelayNeverMissed' /\ Due(b)' = 2
<1> DEFINE D(c) == (res'[c].flush_group - act') % SeqSpan
<1>1. /\ \A c \in Block \ {b} : res'[c] = res[c]
      /\ res'[b].delayed = TRUE /\ res'[b].flush_group = Inc(Inc(act))
  BY DelayedEffect
<1>2. D(b) = 2
  BY <1>1, TwoAhead DEF TypeOK
<1>3. \A c \in Block \ {b} : D(c) = Due(c)
  BY <1>1 DEF Due
<1>a. \A c : Due(c)' = D(c)
  BY DEF Due
<1> HIDE DEF D
<1>4. /\ delay' \in Seq(Block) /\ IsInjective(delay')
      /\ ToSet(delay') = ToSet(delay) \union {b}
      /\ \A i, j \in 1 .. Len(delay') : i < j =>
           /\ delay'[i] # b
           /\ \/ delay'[j] = b
              \/ \E m, n \in 1 .. Len(delay) :
                   m < n /\ delay'[i] = delay[m] /\ delay'[j] = delay[n]
  BY ToTail DEF TypeOK, DelayNeverMissed
<1>5. DOMAIN delay = 1 .. Len(delay) /\ DOMAIN delay' = 1 .. Len(delay')
  BY <1>4 DEF TypeOK
<1>6. {c \in Block : res'[c].delayed} = ToSet(delay')
  <2>1. {c \in Block : res[c].delayed} = ToSet(delay)
    BY DEF DelayNeverMissed
  <2>2. {c \in Block : res'[c].delayed} = {c \in Block : res[c].delayed} \union {b}
    BY <1>1
  <2> QED
    BY <1>4, <2>1, <2>2
<1>7. ASSUME NEW i \in 1 .. Len(delay'), delay'[i] # b
      PROVE  \E m \in 1 .. Len(delay) : delay'[i] = delay[m]
  <2>1. delay'[i] \in ToSet(delay')
    BY <1>5 DEF ToSet
  <2>2. delay'[i] \in ToSet(delay)
    BY <1>4, <1>7, <2>1
  <2> QED
    BY <1>5, <2>2 DEF ToSet
<1>8. ASSUME NEW m \in 1 .. Len(delay)
      PROVE  /\ delay[m] \in Block /\ Due(delay[m]) \in 0 .. 2
             /\ Due(delay[m]) = 0 => cyc # "idle"
  BY <1>5 DEF TypeOK, DelayNeverMissed
<1>9. ASSUME NEW i \in 1 .. Len(delay')
      PROVE  /\ D(delay'[i]) \in 0 .. 2
             /\ D(delay'[i]) = 0 => cyc' # "idle"
  <2>1. CASE delay'[i] = b
    BY <1>2, <2>1
  <2>2. CASE delay'[i] # b
    <3>1. PICK m \in 1 .. Len(delay) : delay'[i] = delay[m]
      BY <1>7, <2>2
    <3>2. D(delay[m]) = Due(delay[m])
      BY <1>3, <1>8, <2>2, <3>1
    <3> QED
      BY <1>8, <3>1, <3>2
  <2> QED
    BY <2>1, <2>2
<1>10. ASSUME NEW i \in 1 .. Len(delay'), NEW j \in 1 .. Len(delay'), i < j
       PROVE  D(delay'[i]) =< D(delay'[j])
  <2>1. delay'[i] # b
    BY <1>4, <1>10
  <2>2. CASE delay'[j] = b
    BY <1>2, <1>9, <2>2
  <2>3. CASE delay'[j] # b
    <3>1. PICK m \in 1 .. Len(delay), n \in 1 .. Len(delay) :
            m < n /\ delay'[i] = delay[m] /\ delay'[j] = delay[n]
      BY <1>4, <1>10, <2>3
    <3>2. Due(delay[m]) =< Due(delay[n])
      BY <1>5, <3>1 DEF DelayNeverMissed
    <3> QED
      BY <1>3, <1>8, <2>1, <2>3, <3>1, <3>2
  <2> QED
    BY <2>2, <2>3
<1>11. DelayNeverMissed'
  <2>1. \A i \in DOMAIN delay' : /\ Due(delay[i])' \in 0 .. 2
                                 /\ Due(delay[i])' = 0 => cyc' # "idle"
    BY <1>5, <1>9 DEF D, Due
  <2>2. \A i, j \in DOMAIN delay' : i < j => Due(delay[i])' =< Due(delay[j])'
    BY <1>5, <1>10 DEF D, Due
  <2> QED
    BY <1>4, <1>6, <2>1, <2>2 DEF DelayNeverMissed
<1> QED
  BY <1>2, <1>11, <1>a

(* hammer_blockmap_free(): only the last cell resets its big-block.        *)
LEMMA FreeStep ==
  ASSUME Core, NEW p \in Cell, Free(p)
  PROVE  Core'
<1> DEFINE b == blk(p)
           whole == l2[b].bytes_free + 1 = Units
<1> USE DEF Core
<1>1. /\ p \in live /\ live' = live \ {p} /\ dirty' = TRUE /\ rec' = rec
      /\ act' = act /\ next' = next /\ cyc' = cyc /\ undoFlag' = undoFlag
      /\ snapC' = snapC /\ snapD' = snapD
      /\ whole => /\ l2' = [l2 EXCEPT ![b] = Free2] /\ blocksFree' = blocksFree + 1
                  /\ res' = delayed(b) /\ delay' = to_tail(b)
      /\ ~ whole => /\ l2' = [l2 EXCEPT ![b].bytes_free = l2[b].bytes_free + 1]
                    /\ blocksFree' = blocksFree /\ res' = res /\ delay' = delay
  BY DEF Free, seqs
<1>2. /\ b \in Block /\ l2[b] \in Layer2 /\ Units \in Nat
      /\ l2[b].append_off \in Nat /\ l2[b].bytes_free \in Int
  BY CellParts, BlockmapAssumption DEF TypeOK, Layer2
<1>3. l2[b].zone # NoZone /\ l2[b].append_off > off(p)
  <2>1. off(p) \in Int
    BY CellParts, BlockmapAssumption
  <2> QED
    BY <1>1, <1>2, <2>1, LiveBelow DEF Bare
<1>4. res[b].deleting = "no"
  <2>1. CASE Exists(b)
    BY <1>2, <1>3, <2>1 DEF Covers
  <2>2. CASE ~ Exists(b)
    BY <1>2, <2>2, NothingHeld
  <2> QED
    BY <2>1, <2>2
<1> DEFINE fewer == [l2[b] EXCEPT !.bytes_free = l2[b].bytes_free + 1]
           m == IF whole THEN Free2 ELSE fewer
<1>5. /\ fewer \in Layer2 /\ fewer.zone = l2[b].zone /\ fewer.append_off = l2[b].append_off
      /\ Free2 \in Layer2 /\ Free2.zone = NoZone /\ Free2.append_off = 0
  <2>1. /\ fewer \in Layer2 /\ fewer.zone = l2[b].zone /\ fewer.append_off = l2[b].append_off
    BY <1>2 DEF Layer2
  <2>2. Free2 \in Layer2 /\ Free2.zone = NoZone /\ Free2.append_off = 0
    BY <1>2 DEF Free2, Layer2, AnyZone
  <2> QED
    BY <2>1, <2>2
<1>6. l2' = [l2 EXCEPT ![b] = m]
  <2>1. CASE whole
    BY <1>1, <2>1
  <2>2. CASE ~ whole
    BY <1>1, <1>2, <2>2 DEF TypeOK
  <2> QED
    BY <2>1, <2>2
<1>7. /\ m \in Layer2
      /\ whole => m = Free2 /\ m.zone = NoZone /\ m.append_off = 0
      /\ ~ whole => m = fewer /\ m.zone = l2[b].zone /\ m.append_off = l2[b].append_off
  <2> HIDE DEF fewer, whole
  <2> QED
    BY <1>5
<1> HIDE DEF m
<1>8. /\ l2' \in [Block -> Layer2] /\ l2'[b] = m
      /\ \A c \in Block \ {b} : l2'[c] = l2[c]
  BY <1>2, <1>6, <1>7 DEF TypeOK
<1>9. LayersExact'
  <2>1. ExactOf(l2, blocksFree, live)
    BY ExactSnap DEF LayersExact, Snap
  <2>2. IF whole THEN l2'[b] = Free2 /\ blocksFree' = blocksFree + 1
                 ELSE l2'[b] = fewer /\ blocksFree' = blocksFree
    <3> HIDE DEF fewer, whole
    <3> QED
      BY <1>1, <1>7, <1>8
  <2>3. blocksFree \in Int /\ blocksFree' \in Int /\ live \in SUBSET Cell
        /\ l2 \in [Block -> Layer2]
    BY <2>2 DEF TypeOK
  <2>4. ExactOf(l2', blocksFree', live \ {p})
    BY <1>1, <1>8, <2>1, <2>2, <2>3, FreeExact
  <2> QED
    BY <1>1, <2>4, ExactSnap DEF LayersExact, Snap
<1> HIDE DEF fewer, whole
<1>10. whole =>
        /\ res' \in [Block -> Resv] /\ \A c \in Block \ {b} : res'[c] = res[c]
        /\ res'[b].zone = IF Exists(b) THEN res[b].zone ELSE NoZone
        /\ res'[b].refs = IF res[b].delayed THEN res[b].refs ELSE res[b].refs + 1
        /\ res'[b].append_off = IF Exists(b) THEN res[b].append_off ELSE 0
        /\ res'[b].delayed = TRUE /\ res'[b].flush_group = Inc(Inc(act))
        /\ res'[b].deleting = "no"
  BY <1>1, <1>2, <1>4, DelayedEffect
<1>11. whole => DelayNeverMissed' /\ Due(b)' = 2
  BY <1>1, <1>2, SetDelay
<1>12. DelayNeverMissed'
  <2>1. CASE ~ whole
    BY <1>1, <2>1, DelayFrame
  <2> QED
    BY <1>11, <2>1
<1>13. TypeOK'
  <2>1. res' \in [Block -> Resv]
    BY <1>1, <1>10 DEF TypeOK
  <2>2. delay' \in Seq(Block)
    BY <1>1, <1>2, ToTail DEF TypeOK, DelayNeverMissed
  <2>3. blocksFree' \in Int
    BY <1>1 DEF TypeOK
  <2> QED
    BY <1>1, <1>8, <2>1, <2>2, <2>3 DEF TypeOK
<1>14. Refs'
  <2>1. \A c : Holders(c)' = Holders(c)
    BY <1>1 DEF Holders
  <2>2. CASE ~ whole
    BY <1>1, <2>1, <2>2 DEF Refs
  <2>3. CASE whole
    <3>1. /\ res[b].refs = Cardinality(Holders(b)) + One(res[b].delayed)
                             + One(res[b].deleting # "no")
          /\ res[b].delayed \in BOOLEAN
      BY <1>2 DEF Refs, TypeOK, Resv
    <3>2. Cardinality(Holders(b)) \in Nat
      BY HoldersCount
    <3>3. res'[b].refs = Cardinality(Holders(b)') + One(res'[b].delayed)
                           + One(res'[b].deleting # "no")
      BY <1>4, <1>10, <2>1, <2>3, <3>1, <3>2 DEF One
    <3> QED
      BY <1>10, <2>1, <2>3, <3>3 DEF Refs
  <2> QED
    BY <2>2, <2>3
<1>15. Covers'
  <2>1. CASE ~ whole
    <3>1. \A c \in Block : l2'[c].zone = l2[c].zone /\ l2'[c].append_off = l2[c].append_off
      BY <1>2, <1>7, <1>8, <2>1
    <3> QED
      BY <1>1, <2>1, <3>1 DEF Covers, Exists
  <2>2. CASE whole
    <3>1. l2'[b].zone = NoZone /\ l2'[b].append_off = 0
      BY <1>7, <1>8, <2>2
    <3>2. res'[b].append_off \in Nat /\ res'[b].deleting = "no"
      BY <1>2, <1>10, <2>2 DEF Resv
    <3> QED
      BY <1>8, <1>10, <2>2, <3>1, <3>2 DEF Covers, Exists
  <2> QED
    BY <2>1, <2>2
<1>16. Owned'
  <2>1. ASSUME NEW q \in Rec, rec[q].state = "reserved"
        PROVE  /\ res'[blk(rec[q].cell)].zone = res[blk(rec[q].cell)].zone
               /\ res'[blk(rec[q].cell)].append_off = res[blk(rec[q].cell)].append_off
    <3>1. blk(rec[q].cell) \in Block /\ Exists(blk(rec[q].cell))
      BY <2>1, RecordExists
    <3> QED
      BY <1>1, <1>10, <3>1
  <2> QED
    BY <1>1, <2>1 DEF Owned
<1>17. Deleter'
  BY <1>1, <1>4, <1>10 DEF Deleter
<1>18. Shadow'
  <2>1. haswork'
    BY <1>1 DEF haswork
  <2>2. CASE ~ whole
    <3>1. \A q \in Cell : Bare(q)' => Bare(q)
      BY <1>2, <1>7, <1>8, <2>2, CellParts DEF Bare
    <3>2. \A c \in Block : Ahead(c)' = Ahead(c) /\ res[c].append_off \in Nat
      BY <1>1, <2>2 DEF Ahead, Due, TypeOK, Resv
    <3> QED
      BY <1>1, <1>13, <2>1, <2>2, <3>1, <3>2, ShadowFrame DEF TypeOK
  <2>3. CASE whole
    <3>1. ASSUME NEW q \in snapC.live \union snapD.live, Bare(q)', blk(q) # b
          PROVE  /\ blk(q) \in Block /\ Bare(q) /\ res'[blk(q)] = res[blk(q)]
                 /\ Ahead(blk(q))' = Ahead(blk(q))
      <4>1. blk(q) \in Block
        BY CellParts DEF TypeOK, Boundary
      <4>2. l2'[blk(q)] = l2[blk(q)] /\ res'[blk(q)] = res[blk(q)]
        BY <1>8, <1>10, <2>3, <3>1, <4>1
      <4> QED
        BY <1>1, <3>1, <4>1, <4>2 DEF Bare, Ahead, Due
    <3>2. res'[b].delayed /\ Ahead(b)' >= 2
      BY <1>10, <1>11, <2>3 DEF Ahead, One
    <3>3. ASSUME NEW q \in snapC.live \union snapD.live, blk(q) = b
          PROVE  res'[b].zone = NoZone \/ off(q) < res'[b].append_off
      <4>1. CASE Exists(b)
        <5>1. /\ l2[b].append_off =< res[b].append_off /\ res[b].append_off \in Nat
              /\ res'[b].zone = res[b].zone /\ res'[b].append_off = res[b].append_off
          BY <1>2, <1>10, <2>3, <4>1 DEF Covers, TypeOK, Resv
        <5>2. off(q) \in Int
          BY CellParts, BlockmapAssumption DEF TypeOK, Boundary
        <5>3. CASE Bare(q)
          BY <3>3, <5>1, <5>3 DEF Shadow
        <5>4. CASE ~ Bare(q)
          BY <1>2, <3>3, <5>1, <5>2, <5>4 DEF Bare
        <5> QED
          BY <5>3, <5>4
      <4>2. CASE ~ Exists(b)
        BY <1>10, <2>3, <4>2
      <4> QED
        BY <4>1, <4>2
    <3>4. \A q \in snapC.live : Bare(q)' =>
            res'[blk(q)].delayed /\ Ahead(blk(q))' >= 2 /\ dirty'
      BY <1>1, <3>1, <3>2 DEF Shadow
    <3>5. \A q \in snapD.live : Bare(q)' =>
            res'[blk(q)].delayed /\ Ahead(blk(q))' >= 1 /\ haswork'
      <4> SUFFICES ASSUME NEW q \in snapD.live, Bare(q)'
                   PROVE  res'[blk(q)].delayed /\ Ahead(blk(q))' >= 1 /\ haswork'
        OBVIOUS
      <4>1. CASE blk(q) # b
        BY <2>1, <3>1, <4>1 DEF Shadow
      <4>2. CASE blk(q) = b
        <5>1. Ahead(b)' \in Int
          BY <1>11, <2>3 DEF Ahead, One
        <5> QED
          BY <2>1, <3>2, <4>2, <5>1
      <4> QED
        BY <4>1, <4>2
    <3>6. \A q \in snapC.live \union snapD.live : Bare(q)' =>
            res'[blk(q)].zone = NoZone \/ off(q) < res'[blk(q)].append_off
      BY <3>1, <3>3 DEF Shadow
    <3> QED
      BY <1>1, <3>4, <3>5, <3>6 DEF Shadow
  <2> QED
    BY <2>2, <2>3
<1> QED
  BY <1>9, <1>12, <1>13, <1>14, <1>15, <1>16, <1>17, <1>18

-----------------------------------------------------------------------------
(* The steps of the flusher.                                               *)

(* The rest of the delay list when its head is released.                   *)
LEMMA TailDelay ==
  ASSUME NEW s \in Seq(Block), IsInjective(s), s # <<>>
  PROVE  /\ Tail(s) \in Seq(Block) /\ IsInjective(Tail(s)) /\ Head(s) \in Block
         /\ Head(s) = s[1] /\ 1 \in DOMAIN s
         /\ ToSet(Tail(s)) = ToSet(s) \ {Head(s)}
         /\ DOMAIN s = 1 .. Len(s) /\ DOMAIN Tail(s) = 1 .. Len(Tail(s))
         /\ \A i \in DOMAIN Tail(s) : i + 1 \in DOMAIN s /\ Tail(s)[i] = s[i + 1]
<1> DEFINE t == Tail(s)
<1>1. /\ t \in Seq(Block) /\ Len(t) = Len(s) - 1 /\ Len(s) \in Nat \ {0}
      /\ \A i \in 1 .. Len(t) : t[i] = s[i + 1]
      /\ Head(s) = s[1] /\ Head(s) \in Block
  OBVIOUS
<1> HIDE DEF t
<1>2. DOMAIN s = 1 .. Len(s) /\ DOMAIN t = 1 .. Len(t)
  BY <1>1
<1>3. 1 \in DOMAIN s /\ \A i \in DOMAIN t : i + 1 \in DOMAIN s /\ t[i] = s[i + 1]
  BY <1>1, <1>2
<1>4. ASSUME NEW i \in 1 .. Len(s), NEW j \in 1 .. Len(s), s[i] = s[j]
      PROVE  i = j
  BY <1>2, <1>4 DEF IsInjective
<1>5. \A i, j \in 1 .. Len(t) : t[i] = t[j] => i = j
  <2> SUFFICES ASSUME NEW i \in 1 .. Len(t), NEW j \in 1 .. Len(t), t[i] = t[j]
               PROVE  i = j
    OBVIOUS
  <2>1. i + 1 \in 1 .. Len(s) /\ j + 1 \in 1 .. Len(s) /\ s[i + 1] = s[j + 1]
    BY <1>1
  <2> QED
    BY <1>4, <2>1
<1>6. IsInjective(t)
  BY <1>2, <1>5 DEF IsInjective
<1>7. ToSet(t) = ToSet(s) \ {s[1]}
  <2>1. ASSUME NEW i \in 1 .. Len(t) PROVE t[i] \in ToSet(s) \ {s[1]}
    <3>1. i + 1 \in 1 .. Len(s) /\ t[i] = s[i + 1] /\ 1 \in 1 .. Len(s)
      BY <1>1
    <3>2. s[i + 1] # s[1]
      BY <1>4, <3>1
    <3> QED
      BY <1>2, <3>1, <3>2 DEF ToSet
  <2>2. ASSUME NEW i \in 1 .. Len(s), s[i] # s[1] PROVE s[i] \in ToSet(t)
    <3>1. i - 1 \in 1 .. Len(t) /\ t[i - 1] = s[i]
      BY <1>1, <2>2
    <3> QED
      BY <1>2, <3>1 DEF ToSet
  <2>3. ToSet(t) = {t[i] : i \in 1 .. Len(t)} /\ ToSet(s) = {s[i] : i \in 1 .. Len(s)}
    BY <1>2 DEF ToSet
  <2> QED
    BY <2>1, <2>2, <2>3
<1> QED
  BY <1>1, <1>2, <1>3, <1>6, <1>7 DEF t

(* hammer_reserve_clrdelay().                                              *)
LEMMA ReleaseDelayedStep ==
  ASSUME Core, ReleaseDelayed
  PROVE  Core'
<1> USE DEF Core
<1>0. delay # <<>> /\ delay \in Seq(Block) /\ IsInjective(delay)
  BY DEF ReleaseDelayed, due, TypeOK, DelayNeverMissed
<1>1. PICK b \in Block : b = Head(delay)
  BY <1>0, TailDelay
<1> DEFINE R0 == [res EXCEPT ![b].delayed = FALSE]
           x == [res[b] EXCEPT !.delayed = FALSE]
<1>2. /\ cyc = "release" /\ res[b].flush_group = act /\ delay' = Tail(delay)
      /\ l2' = l2 /\ blocksFree' = blocksFree /\ live' = live /\ rec' = rec
      /\ act' = act /\ next' = next
      /\ dirty' = dirty /\ undoFlag' = undoFlag /\ snapC' = snapC /\ snapD' = snapD
      /\ res' = reserve_complete(R0, b, "flusher")
      /\ cyc' = IF res'[b].deleting = "flusher" THEN "deleting" ELSE cyc
  BY <1>1 DEF ReleaseDelayed, due, meta, fifo
<1>3. /\ delay' \in Seq(Block) /\ IsInjective(delay')
      /\ ToSet(delay') = ToSet(delay) \ {b}
      /\ DOMAIN delay = 1 .. Len(delay) /\ DOMAIN delay' = 1 .. Len(delay')
      /\ \A i \in DOMAIN delay' : i + 1 \in DOMAIN delay /\ delay'[i] = delay[i + 1]
      /\ b \in ToSet(delay)
  <2>1. b = delay[1] /\ 1 \in DOMAIN delay
    BY <1>0, <1>1, TailDelay
  <2>2. b \in ToSet(delay)
    BY <2>1 DEF ToSet
  <2> QED
    BY <1>0, <1>1, <1>2, <2>2, TailDelay
<1>4. res[b] \in Resv /\ res[b].delayed = TRUE
  BY <1>3 DEF DelayNeverMissed, TypeOK, Resv
<1>5. /\ res[b].refs = Cardinality(Holders(b)) + One(res[b].delayed)
                         + One(res[b].deleting # "no")
      /\ res[b].refs \in Nat /\ Cardinality(Holders(b)) \in Nat
      /\ Cardinality(Holders(b)) = 0 <=> Holders(b) = {}
      /\ Units \in Nat
  BY <1>4, HoldersCount, BlockmapAssumption DEF Refs, Resv
<1>6. res[b].refs # 0 /\ Exists(b) /\ res[b].deleting = "no"
  <2>1. res[b].refs # 0 /\ Exists(b)
    BY <1>4, <1>5 DEF One, Exists
  <2>2. res[b].deleting # "no" => res[b].refs = 1
    BY <2>1 DEF Covers
  <2> QED
    BY <1>4, <1>5, <2>1, <2>2 DEF One
<1>7. res[b].refs = 1 => Holders(b) = {} /\ Cardinality(Holders(b)) = 0
  BY <1>4, <1>5, <1>6 DEF One
<1>8. /\ R0 \in [Block -> Resv] /\ \A c \in Block \ {b} : R0[c] = res[c]
      /\ Fields(R0[b], res[b].zone, res[b].refs, res[b].append_off, res[b].l2free, FALSE,
                res[b].flush_group, res[b].deleting)
  <2>1. R0 = [res EXCEPT ![b] = x]
    BY DEF TypeOK
  <2>2. /\ x \in Resv
        /\ Fields(x, res[b].zone, res[b].refs, res[b].append_off, res[b].l2free, FALSE,
                res[b].flush_group, res[b].deleting)
    BY <1>4 DEF Resv, Fields
  <2> HIDE DEF x
  <2>3. R0[b] = x /\ R0 \in [Block -> Resv] /\ \A c \in Block \ {b} : R0[c] = res[c]
    BY <2>1, <2>2 DEF TypeOK
  <2> HIDE DEF R0
  <2> QED
    BY <2>2, <2>3
<1> HIDE DEF R0
<1>9. /\ res' \in [Block -> Resv] /\ \A c \in Block \ {b} : res'[c] = res[c]
      /\ res[b].refs = 1 /\ res[b].l2free =>
           Fields(res'[b], res[b].zone, 1, Units, FALSE, FALSE,
                  res[b].flush_group, "flusher")
      /\ res[b].refs = 1 /\ ~ res[b].l2free =>
           Fields(res'[b], NoZone, 0, 0, FALSE, FALSE, 0, "no")
      /\ res[b].refs # 1 =>
           Fields(res'[b], res[b].zone, res[b].refs - 1, res[b].append_off, res[b].l2free,
                  FALSE, res[b].flush_group, "no")
  <2>1. /\ R0[b].refs = res[b].refs /\ R0[b].zone = res[b].zone
        /\ R0[b].append_off = res[b].append_off /\ R0[b].l2free = res[b].l2free
        /\ R0[b].delayed = FALSE /\ R0[b].flush_group = res[b].flush_group
        /\ R0[b].deleting = "no"
    BY <1>6, <1>8 DEF Fields
  <2>2. /\ res' \in [Block -> Resv] /\ \A c \in Block \ {b} : res'[c] = R0[c]
        /\ R0[b].refs = 1 /\ R0[b].l2free =>
             Fields(res'[b], R0[b].zone, 1, Units, FALSE, R0[b].delayed,
                    R0[b].flush_group, "flusher")
        /\ R0[b].refs = 1 /\ ~ R0[b].l2free =>
             Fields(res'[b], NoZone, 0, 0, FALSE, FALSE, 0, "no")
        /\ R0[b].refs # 1 =>
             Fields(res'[b], R0[b].zone, R0[b].refs - 1, R0[b].append_off, R0[b].l2free,
                    R0[b].delayed, R0[b].flush_group, R0[b].deleting)
    BY <1>2, <1>6, <1>8, <2>1, CompleteEffect
  <2> QED
    BY <1>8, <2>1, <2>2
<1>10. res'[b].delayed = FALSE
  <2>1. CASE res[b].refs = 1 /\ res[b].l2free
    BY <1>9, <2>1 DEF Fields
  <2>2. CASE res[b].refs = 1 /\ ~ res[b].l2free
    BY <1>9, <2>2 DEF Fields
  <2>3. CASE res[b].refs # 1
    BY <1>9, <2>3 DEF Fields
  <2> QED
    BY <2>1, <2>2, <2>3
<1>11. TypeOK'
  BY <1>2, <1>3, <1>9 DEF TypeOK
<1>12. LayersExact'
  BY <1>2 DEF LayersExact, Snap
<1>13. Refs'
  <2>1. \A c : Holders(c)' = Holders(c)
    BY <1>2 DEF Holders
  <2>2. res'[b].refs = Cardinality(Holders(b)') + One(res'[b].delayed)
                         + One(res'[b].deleting # "no")
    <3>1. CASE res[b].refs = 1 /\ res[b].l2free
      BY <1>7, <1>9, <2>1, <3>1 DEF Fields, One
    <3>2. CASE res[b].refs = 1 /\ ~ res[b].l2free
      BY <1>7, <1>9, <2>1, <3>2 DEF Fields, One
    <3>3. CASE res[b].refs # 1
      BY <1>4, <1>5, <1>6, <1>9, <2>1, <3>3 DEF Fields, One
    <3> QED
      BY <3>1, <3>2, <3>3
  <2> QED
    BY <1>9, <2>1, <2>2 DEF Refs
<1>14. Covers'
  <2>1. ASSUME res'[b].refs > 0
        PROVE  /\ l2[b].zone \in {NoZone, res'[b].zone}
               /\ l2[b].append_off =< res'[b].append_off
               /\ res'[b].l2free => l2[b].zone = NoZone
               /\ res'[b].deleting # "no" =>
                    l2[b].zone = NoZone /\ res'[b].append_off >= Units /\ res'[b].refs = 1
    <3>1. /\ l2[b].zone \in {NoZone, res[b].zone}
          /\ l2[b].append_off =< res[b].append_off
          /\ res[b].l2free => l2[b].zone = NoZone
      BY <1>6 DEF Covers
    <3>2. CASE res[b].refs = 1 /\ res[b].l2free
      <4>1. l2[b].append_off = 0
        BY <3>1, <3>2, LiveBelow
      <4> QED
        BY <1>5, <1>9, <3>1, <3>2, <4>1 DEF Fields
    <3>3. CASE res[b].refs = 1 /\ ~ res[b].l2free
      BY <1>9, <2>1, <3>3 DEF Fields
    <3>4. CASE res[b].refs # 1
      BY <1>9, <3>1, <3>4 DEF Fields
    <3> QED
      BY <3>2, <3>3, <3>4
  <2> QED
    BY <1>2, <1>9, <2>1 DEF Covers, Exists
<1>15. Owned'
  <2>1. ASSUME NEW q \in Rec, rec[q].state = "reserved"
        PROVE  /\ res'[blk(rec[q].cell)].zone = res[blk(rec[q].cell)].zone
               /\ res'[blk(rec[q].cell)].append_off = res[blk(rec[q].cell)].append_off
    <3>1. blk(rec[q].cell) \in Block /\ q \in Holders(blk(rec[q].cell))
      BY <2>1, RecordExists
    <3>2. CASE blk(rec[q].cell) # b
      BY <1>9, <3>1, <3>2
    <3>3. CASE blk(rec[q].cell) = b
      <4>1. res[b].refs # 1
        BY <1>7, <3>1, <3>3
      <4> QED
        BY <1>9, <3>3, <4>1 DEF Fields
    <3> QED
      BY <3>2, <3>3
  <2> QED
    BY <1>2, <2>1 DEF Owned
<1>16. DelayNeverMissed'
  <2> DEFINE D(c) == (res'[c].flush_group - act') % SeqSpan
  <2>1. {c \in Block : res'[c].delayed} = ToSet(delay')
    <3>1. {c \in Block : res[c].delayed} = ToSet(delay)
      BY DEF DelayNeverMissed
    <3>2. {c \in Block : res'[c].delayed} = {c \in Block : res[c].delayed} \ {b}
      BY <1>9, <1>10
    <3> QED
      BY <1>3, <3>1, <3>2
  <2>2. \A i \in DOMAIN delay' : D(delay'[i]) = Due(delay[i + 1])
    <3> SUFFICES ASSUME NEW i \in DOMAIN delay'
                 PROVE  D(delay'[i]) = Due(delay[i + 1])
      OBVIOUS
    <3>1. delay'[i] \in ToSet(delay') /\ delay'[i] = delay[i + 1]
      BY <1>3 DEF ToSet
    <3>2. delay'[i] \in Block \ {b}
      <4>1. delay'[i] \in Block
        BY <1>3
      <4> QED
        BY <1>3, <3>1, <4>1
    <3> QED
      BY <1>2, <1>9, <3>1, <3>2 DEF Due
  <2>3. cyc' # "idle"
    BY <1>2
  <2>4. \A i \in DOMAIN delay' : D(delay'[i]) \in 0 .. 2
    BY <1>3, <2>2 DEF DelayNeverMissed
  <2>5. ASSUME NEW i \in DOMAIN delay', NEW j \in DOMAIN delay', i < j
        PROVE  D(delay'[i]) =< D(delay'[j])
    <3>1. i + 1 \in DOMAIN delay /\ j + 1 \in DOMAIN delay /\ i + 1 < j + 1
      BY <1>3, <2>5
    <3> QED
      BY <2>2, <3>1 DEF DelayNeverMissed
  <2>6. \A i \in DOMAIN delay' : Due(delay[i])' = D(delay'[i])
    BY DEF Due
  <2> QED
    BY <1>3, <2>1, <2>3, <2>4, <2>5, <2>6 DEF DelayNeverMissed
<1>17. Shadow'
  <2>1. Ahead(b) = 0
    <3>1. Due(b) = 0
      BY <1>2, <1>4, DueZero DEF Due, TypeOK
    <3> QED
      BY <1>2, <3>1 DEF Ahead, One
  <2>2. haswork' = haswork
    BY <1>2 DEF haswork
  <2>3. ASSUME NEW q \in snapC.live \union snapD.live, Bare(q)'
        PROVE  /\ Bare(q) /\ blk(q) \in Block \ {b} /\ res'[blk(q)] = res[blk(q)]
               /\ Ahead(blk(q))' = Ahead(blk(q))
    <3>1. Bare(q) /\ blk(q) \in Block
      BY <1>2, <2>3, CellParts DEF Bare, TypeOK, Boundary
    <3>2. blk(q) # b
      BY <2>1, <3>1 DEF Shadow
    <3>3. cyc' \notin {"group", "none"} /\ cyc \notin {"group", "none"}
      BY <1>2
    <3>4. Ahead(blk(q))' = Ahead(blk(q))
      BY <1>2, <1>9, <3>1, <3>2, <3>3 DEF Ahead, Due, One
    <3> QED
      BY <1>9, <3>1, <3>2, <3>4
  <2> QED
    BY <1>2, <2>2, <2>3 DEF Shadow
<1>18. Deleter'
  <2>1. \A c \in Block : res[c].deleting # "flusher"
    BY <1>2 DEF Deleter
  <2> QED
    BY <1>2, <1>9, <2>1 DEF Deleter
<1> QED
  BY <1>11, <1>12, <1>13, <1>14, <1>15, <1>16, <1>17, <1>18

(* What holds of the layers and the reservations still does when a step    *)
(* leaves them alone.                                                      *)
LEMMA SpaceFrame ==
  ASSUME Core, UNCHANGED <<meta, rsv>>
  PROVE  /\ Refs' /\ Covers' /\ Owned' /\ Exact(Snap)' = Exact(Snap)
         /\ l2' = l2 /\ blocksFree' = blocksFree /\ live' = live
         /\ res' = res /\ delay' = delay /\ rec' = rec
         /\ \A p : Bare(p)' = Bare(p)
<1>1. /\ l2' = l2 /\ blocksFree' = blocksFree /\ live' = live
      /\ res' = res /\ delay' = delay /\ rec' = rec
  BY DEF meta, rsv
<1>2. Refs'
  BY <1>1 DEF Core, Refs, Holders
<1>3. Covers'
  BY <1>1 DEF Core, Covers, Exists
<1>4. Owned'
  BY <1>1 DEF Core, Owned
<1>5. Exact(Snap)' = Exact(Snap)
  BY <1>1 DEF Snap, Exact
<1>6. \A p : Bare(p)' = Bare(p)
  BY <1>1 DEF Bare
<1> QED
  BY <1>1, <1>2, <1>3, <1>4, <1>5, <1>6

(* Whatever is delayed is on the list, and due within two cycles.          *)
LEMMA DelayedDue ==
  ASSUME TypeOK, DelayNeverMissed, NEW b \in Block, res[b].delayed
  PROVE  Due(b) \in 0 .. 2 /\ (Due(b) = 0 => cyc # "idle")
<1>1. b \in ToSet(delay)
  BY DEF DelayNeverMissed
<1>2. PICK i \in DOMAIN delay : delay[i] = b
  BY <1>1 DEF ToSet
<1> QED
  BY <1>2 DEF DelayNeverMissed

(* A cycle begins: every entry of the delay list comes one closer, and the *)
(* cycle's own finalization is yet to come.                                *)
LEMMA CycleStartStep ==
  ASSUME Core, NEW group \in BOOLEAN, CycleStart(group)
  PROVE  Core'
<1> USE DEF Core
<1>1. /\ cyc = "idle" /\ act' = next /\ next' = Inc(next)
      /\ cyc' \in {"group", "none"} /\ UNCHANGED <<meta, rsv>>
      /\ dirty' = dirty /\ undoFlag' = undoFlag /\ snapC' = snapC /\ snapD' = snapD
  BY DEF CycleStart, fifo
<1>2. /\ Refs' /\ Covers' /\ Owned' /\ Exact(Snap)' = Exact(Snap)
      /\ l2' = l2 /\ blocksFree' = blocksFree /\ live' = live
      /\ res' = res /\ delay' = delay /\ rec' = rec
      /\ \A p : Bare(p)' = Bare(p)
  BY <1>1, SpaceFrame
<1>3. act' = Inc(act) /\ act' \in Seqno /\ next' = Inc(act')
  BY <1>1, IncSeqno DEF TypeOK
<1>4. TypeOK'
  BY <1>1, <1>2, <1>3 DEF TypeOK
<1>5. LayersExact'
  BY <1>1, <1>2 DEF LayersExact
<1>6. ASSUME NEW b \in Block, res[b].delayed
      PROVE  Due(b)' = Due(b) - 1 /\ Due(b) \in 1 .. 2
  <2>1. Due(b) \in 1 .. 2
    BY <1>1, <1>6, DelayedDue
  <2>2. res[b].flush_group \in Seqno /\ act \in Seqno
    BY DEF TypeOK, Resv
  <2> QED
    BY <1>2, <1>3, <2>1, <2>2, OneCloser DEF Due
<1>7. DelayNeverMissed'
  <2>1. \A i \in DOMAIN delay : delay[i] \in Block /\ res[delay[i]].delayed
    BY DEF DelayNeverMissed, ToSet
  <2>2. \A i \in DOMAIN delay : Due(delay[i])' = Due(delay[i]) - 1 /\ Due(delay[i]) \in 1 .. 2
    BY <1>2, <1>6, <2>1 DEF Due
  <2>3. cyc' # "idle"
    BY <1>1
  <2>4. \A i, j \in DOMAIN delay : i < j => Due(delay[i])' =< Due(delay[j])'
    BY <2>2 DEF DelayNeverMissed
  <2> QED
    BY <1>2, <2>2, <2>3, <2>4 DEF DelayNeverMissed
<1>8. Shadow'
  <2>1. ASSUME NEW b \in Block, res[b].delayed PROVE Ahead(b)' = Ahead(b)
    BY <1>1, <1>6, <2>1 DEF Ahead, One
  <2>2. haswork' = haswork
    BY <1>1 DEF haswork
  <2>3. \A b \in Block : res[b].append_off \in Nat
    BY DEF TypeOK, Resv
  <2> QED
    BY <1>1, <1>2, <2>1, <2>2, <2>3, ShadowFrame DEF TypeOK
<1>9. Deleter'
  BY <1>1, <1>2 DEF Deleter
<1> QED
  BY <1>2, <1>4, <1>5, <1>7, <1>8, <1>9

(* hammer_flusher_finalize(): the header commits the last boundary, and a  *)
(* final call makes the present state the next one.  n is 1 at the end of  *)
(* a cycle, when one finalization less lies ahead.                         *)
LEMMA CommitShadow ==
  ASSUME Core, UNCHANGED <<meta, rsv>>, NEW final \in BOOLEAN, Commit(final),
         NEW n \in {0, 1}, n = 1 => final,
         \A b \in Block : res[b].delayed => Ahead(b) \in Int /\ Ahead(b)' = Ahead(b) - n
  PROVE  /\ Shadow' /\ LayersExact' /\ snapC' \in Boundary /\ snapD' \in Boundary
         /\ dirty' \in BOOLEAN /\ undoFlag' \in BOOLEAN
<1> USE DEF Core
<1>1. /\ Exact(Snap)' = Exact(Snap)
      /\ l2' = l2 /\ blocksFree' = blocksFree /\ live' = live /\ res' = res
      /\ \A p : Bare(p)' = Bare(p)
  BY SpaceFrame
<1>2. /\ snapD' = snapC
      /\ final => snapC' = Snap /\ undoFlag' = dirty /\ dirty' = FALSE
      /\ ~ final => snapC' = snapC /\ undoFlag' = undoFlag /\ dirty' = dirty
  BY DEF Commit
<1>3. Snap \in Boundary /\ Snap.live = live
  BY DEF Snap, Boundary, TypeOK
<1>4. /\ snapC' \in Boundary /\ snapD' \in Boundary
      /\ dirty' \in BOOLEAN /\ undoFlag' \in BOOLEAN
  BY <1>2, <1>3 DEF TypeOK
<1>5. LayersExact'
  BY <1>1, <1>2 DEF LayersExact
<1>6. \A p \in snapC.live : blk(p) \in Block
  BY CellParts DEF TypeOK, Boundary
<1>7. ASSUME NEW p \in snapC.live, Bare(p)
      PROVE  /\ res[blk(p)].delayed /\ Ahead(blk(p))' >= 1 /\ dirty
             /\ n = 0 => Ahead(blk(p))' >= 2
             /\ res[blk(p)].zone = NoZone \/ off(p) < res[blk(p)].append_off
  <2>1. /\ res[blk(p)].delayed /\ Ahead(blk(p)) >= 2 /\ dirty
        /\ res[blk(p)].zone = NoZone \/ off(p) < res[blk(p)].append_off
    BY <1>7 DEF Shadow
  <2>2. Ahead(blk(p)) \in Int /\ Ahead(blk(p))' = Ahead(blk(p)) - n
    BY <1>6, <2>1
  <2> QED
    BY <2>1, <2>2
<1>8. CASE final
  <2>1. \A p \in live : ~ Bare(p)
    BY LiveBelow
  <2>2. dirty => haswork'
    BY <1>2, <1>8 DEF haswork
  <2>3. snapC'.live = live /\ snapD'.live = snapC.live
    BY <1>2, <1>3, <1>8
  <2> QED
    BY <1>1, <1>4, <1>5, <1>7, <2>1, <2>2, <2>3 DEF Shadow
<1>9. CASE ~ final
  <2>1. n = 0
    BY <1>9
  <2>2. dirty => haswork'
    BY <1>2, <1>9 DEF haswork
  <2> QED
    BY <1>1, <1>2, <1>4, <1>5, <1>7, <1>9, <2>1, <2>2 DEF Shadow
<1> QED
  BY <1>8, <1>9

LEMMA MidFinalizeStep ==
  ASSUME Core, NEW final \in BOOLEAN, MidFinalize(final)
  PROVE  Core'
<1> USE DEF Core
<1>1. /\ Commit(final) /\ UNCHANGED <<meta, rsv>>
      /\ act' = act /\ next' = next /\ cyc' = cyc
  BY DEF MidFinalize, seqs
<1>2. /\ Refs' /\ Covers' /\ Owned'
      /\ l2' = l2 /\ blocksFree' = blocksFree /\ live' = live
      /\ res' = res /\ delay' = delay /\ rec' = rec
  BY <1>1, SpaceFrame
<1>3. \A b \in Block : res[b].delayed => Ahead(b) \in Int /\ Ahead(b)' = Ahead(b) - 0
  <2>1. \A b \in Block : res[b].delayed => Ahead(b) \in Int
    BY DelayedDue DEF Ahead, One
  <2>2. \A b \in Block : Ahead(b)' = Ahead(b)
    BY <1>1, <1>2 DEF Ahead, Due
  <2> QED
    BY <2>1, <2>2
<1>4. /\ Shadow' /\ LayersExact' /\ snapC' \in Boundary /\ snapD' \in Boundary
      /\ dirty' \in BOOLEAN /\ undoFlag' \in BOOLEAN
  BY <1>1, <1>3, CommitShadow
<1>5. TypeOK'
  BY <1>1, <1>2, <1>4 DEF TypeOK
<1>6. DelayNeverMissed'
  BY <1>1, <1>2, DelayFrame
<1>7. Deleter'
  BY <1>1, <1>2 DEF Deleter
<1> QED
  BY <1>2, <1>4, <1>5, <1>6, <1>7

(* At the end of a cycle without work there is nothing to wait for.        *)
LEMMA CycleFinalizeStep ==
  ASSUME Core, CycleFinalize
  PROVE  Core'
<1> USE DEF Core
<1>1. /\ cyc \in {"group", "none"} /\ cyc' = "release" /\ UNCHANGED <<meta, rsv>>
      /\ act' = act /\ next' = next
      /\ Commit(TRUE) \/ (~ haswork /\ UNCHANGED fifo)
  BY DEF CycleFinalize
<1>2. /\ Refs' /\ Covers' /\ Owned' /\ Exact(Snap)' = Exact(Snap)
      /\ l2' = l2 /\ blocksFree' = blocksFree /\ live' = live
      /\ res' = res /\ delay' = delay /\ rec' = rec
      /\ \A p : Bare(p)' = Bare(p)
  BY <1>1, SpaceFrame
<1>3. \A b \in Block : res[b].delayed => Ahead(b) \in Int /\ Ahead(b)' = Ahead(b) - 1
  <2> SUFFICES ASSUME NEW b \in Block, res[b].delayed
               PROVE  Ahead(b) \in Int /\ Ahead(b)' = Ahead(b) - 1
    OBVIOUS
  <2>1. Due(b) \in Int
    BY DelayedDue
  <2>2. Due(b)' = Due(b)
    BY <1>1, <1>2 DEF Due
  <2> QED
    BY <1>1, <2>1, <2>2 DEF Ahead, One
<1>4. /\ Shadow' /\ LayersExact' /\ snapC' \in Boundary /\ snapD' \in Boundary
      /\ dirty' \in BOOLEAN /\ undoFlag' \in BOOLEAN
  <2>1. CASE Commit(TRUE)
    BY <1>1, <1>3, <2>1, CommitShadow
  <2>2. CASE ~ haswork /\ UNCHANGED fifo
    <3>1. dirty' = dirty /\ undoFlag' = undoFlag /\ snapC' = snapC /\ snapD' = snapD
      BY <2>2 DEF fifo
    <3>2. \A p \in snapC.live \union snapD.live : ~ Bare(p)
      BY <2>2 DEF Shadow, haswork
    <3>3. Shadow'
      BY <1>2, <3>1, <3>2 DEF Shadow
    <3>4. LayersExact'
      BY <1>2, <3>1 DEF LayersExact
    <3> QED
      BY <3>1, <3>3, <3>4 DEF TypeOK
  <2> QED
    BY <1>1, <2>1, <2>2
<1>5. TypeOK'
  BY <1>1, <1>2, <1>4 DEF TypeOK
<1>6. DelayNeverMissed'
  BY <1>1, <1>2, DelayFrame
<1>7. Deleter'
  BY <1>1, <1>2 DEF Deleter
<1> QED
  BY <1>2, <1>4, <1>5, <1>6, <1>7

(* The head of the delay list is not due, so nothing on it is.             *)
LEMMA CycleEndStep ==
  ASSUME Core, CycleEnd
  PROVE  Core'
<1> USE DEF Core
<1>1. /\ cyc = "release" /\ ~ due /\ cyc' = "idle" /\ UNCHANGED <<meta, rsv>>
      /\ act' = act /\ next' = next
      /\ dirty' = dirty /\ undoFlag' = undoFlag /\ snapC' = snapC /\ snapD' = snapD
  BY DEF CycleEnd, fifo
<1>2. /\ Refs' /\ Covers' /\ Owned' /\ Exact(Snap)' = Exact(Snap)
      /\ l2' = l2 /\ blocksFree' = blocksFree /\ live' = live
      /\ res' = res /\ delay' = delay /\ rec' = rec
      /\ \A p : Bare(p)' = Bare(p)
  BY <1>1, SpaceFrame
<1>3. TypeOK'
  BY <1>1, <1>2 DEF TypeOK
<1>4. LayersExact'
  BY <1>1, <1>2 DEF LayersExact
<1>5. \A i \in DOMAIN delay : Due(delay[i]) \in 1 .. 2
  <2> SUFFICES ASSUME NEW i \in DOMAIN delay PROVE Due(delay[i]) \in 1 .. 2
    OBVIOUS
  <2>1. /\ delay \in Seq(Block) /\ delay # <<>> /\ DOMAIN delay = 1 .. Len(delay)
    BY DEF TypeOK
  <2>2. 1 \in DOMAIN delay /\ Head(delay) = delay[1] /\ delay[1] \in Block
    BY <2>1
  <2>3. Due(delay[1]) # 0
    <3>1. res[delay[1]].flush_group # act
      BY <1>1, <2>1, <2>2 DEF due
    <3>2. res[delay[1]].flush_group \in Seqno /\ act \in Seqno
      BY <2>2 DEF TypeOK, Resv
    <3> QED
      BY <3>1, <3>2, DueZero DEF Due
  <2>4. Due(delay[1]) \in 1 .. 2 /\ Due(delay[i]) \in 0 .. 2
    BY <2>2, <2>3 DEF DelayNeverMissed
  <2>5. CASE i = 1
    BY <2>4, <2>5
  <2>6. CASE i # 1
    <3>1. 1 < i
      BY <2>1, <2>6
    <3>2. Due(delay[1]) =< Due(delay[i])
      BY <2>2, <3>1 DEF DelayNeverMissed
    <3> QED
      BY <2>4, <3>2
  <2> QED
    BY <2>5, <2>6
<1>6. DelayNeverMissed'
  <2>1. \A i \in DOMAIN delay : Due(delay[i])' = Due(delay[i])
    BY <1>1, <1>2 DEF Due
  <2> QED
    BY <1>2, <1>5, <2>1 DEF DelayNeverMissed
<1>7. Shadow'
  <2>1. \A b \in Block : Ahead(b)' = Ahead(b) /\ res[b].append_off \in Nat
    BY <1>1, <1>2 DEF Ahead, Due, One, TypeOK, Resv
  <2>2. haswork' = haswork
    BY <1>1 DEF haswork
  <2> QED
    BY <1>1, <1>2, <2>1, <2>2, ShadowFrame DEF TypeOK
<1>8. Deleter'
  BY <1>1, <1>2 DEF Deleter
<1> QED
  BY <1>2, <1>3, <1>4, <1>6, <1>7, <1>8

(* A crash: what the recovery restores is exact, and nothing is reserved.  *)
LEMMA FreshState ==
  ASSUME l2' \in [Block -> Layer2], blocksFree' \in Int, live' \in SUBSET Cell,
         snapC' \in Boundary, snapD' \in Boundary, LayersExact',
         snapC'.live \subseteq live', snapD'.live \subseteq live',
         res' = [b \in Block |-> NoRes], delay' = <<>>, rec' = [r \in Rec |-> NoRec],
         act' = 0, next' = 1, cyc' = "idle", dirty' = FALSE, undoFlag' = FALSE
  PROVE  Core'
<1>1. /\ NoRes \in Resv /\ NoRes.refs = 0 /\ NoRes.delayed = FALSE /\ NoRes.deleting = "no"
  BY NewResv DEF Fields, AnyZone, NoRes
<1>2. /\ res' \in [Block -> Resv]
      /\ \A b \in Block : /\ res'[b].refs = 0 /\ res'[b].delayed = FALSE
                          /\ res'[b].deleting = "no"
  BY <1>1
<1>3. rec' \in [Rec -> Record] /\ \A r \in Rec : rec'[r].state = "none"
  BY DEF NoRec, Record, AnyZone
<1>4. act' \in Seqno /\ next' = Inc(act')
  BY BlockmapAssumption DEF Seqno, Inc
<1>5. TypeOK'
  <2>1. delay' \in Seq(Block)
    OBVIOUS
  <2>2. dirty' \in BOOLEAN /\ undoFlag' \in BOOLEAN
    OBVIOUS
  <2>3. cyc' \in {"idle", "group", "none", "release", "deleting"}
    OBVIOUS
  <2>4. \A r \in Rec : rec'[r].state # "none" => rec'[r].cell \in Cell /\ rec'[r].zone \in Zone
    BY <1>3
  <2> QED
    BY <1>2, <1>3, <1>4, <2>1, <2>2, <2>3, <2>4, Zenon DEF TypeOK
<1>6. Refs'
  <2>1. \A b \in Block : Holders(b)' = {}
    BY <1>3 DEF Holders
  <2>2. Cardinality({}) = 0
    BY FS_EmptySet
  <2>3. \A b \in Block : /\ One(res'[b].delayed) = 0 /\ res'[b].refs = 0
                          /\ One(res'[b].deleting # "no") = 0
    BY <1>2 DEF One
  <2>4. 0 = 0 + 0 + 0
    OBVIOUS
  <2> QED
    BY <2>1, <2>2, <2>3, <2>4 DEF Refs
<1>7. Covers' /\ Owned' /\ Deleter'
  BY <1>2, <1>3 DEF Covers, Exists, Owned, Deleter
<1>8. DelayNeverMissed'
  <2>1. DOMAIN delay' = {} /\ ToSet(delay') = {}
    BY DEF ToSet
  <2>2. {b \in Block : res'[b].delayed} = {}
    BY <1>2
  <2>3. IsInjective(delay')
    BY <2>1 DEF IsInjective
  <2> QED
    BY <2>1, <2>2, <2>3 DEF DelayNeverMissed
<1>9. Shadow'
  <2>1. \A p \in live' : ~ Bare(p)'
    <3>1. ExactOf(l2', blocksFree', live')
      BY ExactSnap DEF LayersExact, Snap
    <3>2. ASSUME NEW p \in live' PROVE ~ Bare(p)'
      <4>1. /\ p \in Used(live', blk(p)) /\ blk(p) \in Block /\ off(p) \in Int
            /\ l2'[blk(p)].append_off \in Int
        BY CellParts, BlockmapAssumption DEF Used, Layer2
      <4> QED
        BY <3>1, <4>1 DEF ExactOf, Bare
    <3> QED
      BY <3>2
  <2> QED
    BY <2>1 DEF Shadow
<1> QED
  BY <1>5, <1>6, <1>7, <1>8, <1>9 DEF Core

LEMMA CrashStep ==
  ASSUME Core, Crash
  PROVE  Core'
<1>1. /\ l2' = snapD.l2 /\ blocksFree' = snapD.blocksFree /\ live' = snapD.live
      /\ snapC' = snapD /\ snapD' = snapD
  BY DEF Crash
<1>2. /\ snapD \in Boundary
      /\ l2' \in [Block -> Layer2] /\ blocksFree' \in Int /\ live' \in SUBSET Cell
  BY <1>1 DEF Core, TypeOK, Boundary
<1>3. LayersExact'
  <2>1. ExactOf(snapD.l2, snapD.blocksFree, snapD.live)
    BY ExactParts DEF Core, LayersExact
  <2> QED
    BY <1>1, <2>1, ExactSnap, ExactParts DEF LayersExact, Snap
<1> QED
  BY <1>1, <1>2, <1>3, FreshState DEF Crash

LEMMA InitInv == Init => Core
<1> SUFFICES ASSUME Init PROVE Core
  OBVIOUS
<1>1. /\ Free2 \in Layer2 /\ Free2.zone = NoZone /\ Free2.append_off = 0
      /\ Free2.bytes_free = Units
  BY BlockmapAssumption DEF Free2, Layer2, AnyZone
<1>2. /\ l2 \in [Block -> Layer2] /\ live = {} /\ blocksFree \in Int
      /\ \A b \in Block : l2[b] = Free2
  BY <1>1, BlocksFinite DEF Init
<1>3. Snap \in Boundary /\ Snap.live = {}
  BY <1>2 DEF Snap, Boundary
<1>4. ExactOf(l2, blocksFree, live)
  <2>1. FreeSet(l2) = Block
    BY <1>1, <1>2 DEF FreeSet
  <2>2. \A b \in Block : Used(live, b) = {}
    BY <1>2 DEF Used
  <2>3. Cardinality({}) = 0
    BY FS_EmptySet
  <2>4. \A b \in Block : l2[b].bytes_free = Units - Cardinality(Used(live, b))
    BY <1>1, <1>2, <2>2, <2>3, BlockmapAssumption
  <2>5. blocksFree = Cardinality(FreeSet(l2))
    BY <2>1 DEF Init
  <2> QED
    BY <1>1, <1>2, <2>2, <2>4, <2>5 DEF ExactOf
<1>5. LayersExact
  BY <1>4, ExactSnap DEF LayersExact, Snap, Init
<1>6. NoRes \in Resv /\ NoRes.refs = 0 /\ NoRes.delayed = FALSE /\ NoRes.deleting = "no"
  BY NewResv DEF Fields, AnyZone, NoRes
<1>7. /\ res \in [Block -> Resv]
      /\ \A b \in Block : res[b].refs = 0 /\ res[b].delayed = FALSE /\ res[b].deleting = "no"
  BY <1>6 DEF Init
<1>8. rec \in [Rec -> Record] /\ \A r \in Rec : rec[r].state = "none"
  BY DEF NoRec, Record, AnyZone, Init
<1>9. TypeOK
  <2>1. act \in Seqno /\ next = Inc(act)
    BY BlockmapAssumption DEF Seqno, Inc, Init
  <2>2. delay \in Seq(Block) /\ dirty \in BOOLEAN /\ undoFlag \in BOOLEAN
        /\ cyc \in {"idle", "group", "none", "release", "deleting"}
    <3>1. delay = <<>> /\ dirty = FALSE /\ undoFlag = FALSE /\ cyc = "idle"
      BY DEF Init
    <3>2. <<>> \in Seq(Block)
      OBVIOUS
    <3> QED
      BY <3>1, <3>2, Zenon
  <2>3. live \in SUBSET Cell /\ snapC \in Boundary /\ snapD \in Boundary
    BY <1>2, <1>3 DEF Init
  <2> QED
    BY <1>2, <1>7, <1>8, <2>1, <2>2, <2>3 DEF TypeOK
<1>10. Refs
  <2>1. \A b \in Block : Holders(b) = {}
    BY <1>8 DEF Holders
  <2>2. Cardinality({}) = 0
    BY FS_EmptySet
  <2> QED
    BY <1>7, <2>1, <2>2 DEF Refs, One
<1>11. Covers /\ Owned /\ Deleter
  BY <1>7, <1>8 DEF Covers, Exists, Owned, Deleter
<1>12. DelayNeverMissed
  <2>1. delay = <<>> /\ DOMAIN delay = {} /\ ToSet(delay) = {}
    BY DEF ToSet, Init
  <2>2. {b \in Block : res[b].delayed} = {}
    BY <1>7
  <2>3. IsInjective(delay)
    BY <2>1 DEF IsInjective
  <2> QED
    BY <2>1, <2>2, <2>3 DEF DelayNeverMissed
<1>13. Shadow
  BY <1>3 DEF Shadow, Init
<1> QED
  BY <1>5, <1>9, <1>10, <1>11, <1>12, <1>13 DEF Core

-----------------------------------------------------------------------------
(* The allocation that sleeps.                                             *)

(* hammer_blockmap_alloc() wakes to a cell that still suits it: layer2 is  *)
(* as it was, and a reservation it finds there has not moved past the cell.*)
LEMMA StillFits ==
  ASSUME Pending, AllocTake
  PROVE  alloc.zone \in Zone /\ alloc.cell \in Cell /\ fit(alloc.zone, alloc.cell)
<1>1. ~ unlocked /\ (Exists(blk(alloc.cell)) => res[blk(alloc.cell)].append_off =< off(alloc.cell))
  BY DEF AllocTake
<1> QED
  BY <1>1 DEF Pending, Bare, fit

LEMMA AllocTakeStep ==
  ASSUME IInv, AllocTake
  PROVE  Core'
<1>1. alloc.zone \in Zone /\ alloc.cell \in Cell /\ fit(alloc.zone, alloc.cell)
  BY StillFits DEF IInv
<1> QED
  BY <1>1, AllocStep DEF IInv

(* While nobody sleeps with blkmap_lock held there is nothing to keep.     *)
LEMMA NothingPending ==
  ASSUME alloc' = NoAlloc
  PROVE  Pending'
BY DEF Pending, NoAlloc, AnyZone, unlocked

(* Others leave layer2 alone meanwhile, and no reservation appears.        *)
LEMMA PendingFrame ==
  ASSUME Pending, TypeOK, alloc' = alloc, l2' = l2,
         \A b \in Block : Exists(b)' => Exists(b) /\ res'[b].zone = res[b].zone
  PROVE  Pending'
<1>1. ~ unlocked => blk(alloc.cell) \in Block
  BY CellParts DEF Pending
<1> QED
  BY <1>1 DEF Pending, unlocked, Bare

(* Giving up a reference makes no reservation and changes no zone.         *)
LEMMA CompleteKeepsZones ==
  ASSUME NEW R, NEW b \in Block, R \in [Block -> Resv], NEW who,
         NEW c \in Block, reserve_complete(R, b, who)[c].refs > 0
  PROVE  R[c].refs > 0 /\ reserve_complete(R, b, who)[c].zone = R[c].zone
<1>1. R[c] \in Resv /\ R[b] \in Resv /\ R[b].refs \in Nat /\ NoRes.refs = 0
  BY DEF Resv, NoRes
<1>2. CASE c # b
  BY <1>1, <1>2 DEF reserve_complete
<1>3. CASE c = b /\ R[b].refs = 1 /\ R[b].l2free
  BY <1>1, <1>3 DEF reserve_complete, Resv
<1>4. CASE c = b /\ ~ (R[b].refs = 1 /\ R[b].l2free)
  <2>1. reserve_complete(R, b, who)[c] = unref(R[b])
    BY <1>1, <1>4 DEF reserve_complete
  <2>2. R[b].refs # 1
    BY <1>1, <2>1 DEF unref
  <2>3. unref(R[b]) = [R[b] EXCEPT !.refs = @ - 1]
    BY <2>2 DEF unref
  <2>4. unref(R[b]).zone = R[b].zone /\ unref(R[b]).refs = R[b].refs - 1
    BY <1>1, <2>3 DEF Resv
  <2> QED
    BY <1>1, <1>4, <2>1, <2>4
<1> QED
  BY <1>2, <1>3, <1>4

(* The sleeper is pending, or not, after every step.                       *)
LEMMA PendingStep ==
  ASSUME IInv, [Next]_vars
  PROVE  Pending'
<1>0. Pending /\ TypeOK /\ res \in [Block -> Resv] /\ rec \in [Rec -> Record]
  BY DEF IInv, Core, TypeOK
<1>1. ASSUME alloc' = alloc, unlocked PROVE Pending'
  BY <1>1, NothingPending DEF unlocked
<1>2. ASSUME alloc' = alloc, l2' = l2, res' = res PROVE Pending'
  BY <1>0, <1>2, PendingFrame DEF Exists
<1>3. ASSUME NEW z \in Zone, NEW p \in Cell, AllocStart(z, p) PROVE Pending'
  <2>1. /\ fit(z, p) /\ alloc' = [zone |-> z, cell |-> p]
        /\ l2' = l2 /\ res' = res
    BY <1>3 DEF AllocStart, meta
  <2> QED
    BY <2>1 DEF Pending, Bare, fit, Exists, AnyZone
<1>4. CASE AllocTake
  BY <1>4, NothingPending DEF AllocTake
<1>5. ASSUME NEW r \in Rec, Finalize(r) PROVE Pending'
  BY <1>1, <1>5 DEF Finalize
<1>6. ASSUME NEW p \in Cell, Free(p) PROVE Pending'
  BY <1>1, <1>6 DEF Free
<1>7. ASSUME NEW r \in Rec, NEW z \in Zone, NEW p \in Cell, Reserve(r, z, p) PROVE Pending'
  BY <1>1, <1>7 DEF Reserve
<1>8. ASSUME NEW r \in Rec, Release(r) PROVE Pending'
  <2>1. PICK b \in Block : b = blk(rec[r].cell)
    BY <1>8, RecordExists DEF Release, IInv, Core
  <2>2. /\ alloc' = alloc /\ l2' = l2
        /\ res' = reserve_complete(res, b, "record")
    BY <1>8, <2>1 DEF Release, meta
  <2> QED
    BY <1>0, <2>2, CompleteKeepsZones, PendingFrame DEF Exists
<1>9. ASSUME NEW b \in Block, BuffersDeleted(b) PROVE Pending'
  <2>1. /\ alloc' = alloc /\ l2' = l2
        /\ res' = [res EXCEPT ![b] = unref([res[b] EXCEPT !.deleting = "no"])]
    BY <1>9 DEF BuffersDeleted, meta
  <2> DEFINE e == [res[b] EXCEPT !.deleting = "no"]
  <2>2. /\ e.refs = res[b].refs /\ e.zone = res[b].zone /\ res[b].refs \in Nat
        /\ e \in Resv
    BY <1>0 DEF Resv
  <2> HIDE DEF e
  <2>3. unref(e).refs > 0 => res[b].refs > 0 /\ unref(e).zone = res[b].zone
    <3>1. CASE res[b].refs = 1
      BY <2>2, <3>1 DEF unref, NoRes
    <3>2. CASE res[b].refs # 1
      <4>1. unref(e) = [e EXCEPT !.refs = @ - 1]
        BY <2>2, <3>2 DEF unref
      <4>2. unref(e).refs = res[b].refs - 1 /\ unref(e).zone = res[b].zone
        BY <2>2, <4>1 DEF Resv
      <4> QED
        BY <2>2, <4>2
    <3> QED
      BY <3>1, <3>2
  <2>4. \A c \in Block : Exists(c)' => Exists(c) /\ res'[c].zone = res[c].zone
    BY <1>0, <2>1, <2>3 DEF Exists, e
  <2> QED
    BY <1>0, <2>1, <2>4, PendingFrame
<1>10. CASE ReleaseDelayed
  <2> DEFINE b == Head(delay)
             R == [res EXCEPT ![b].delayed = FALSE]
  <2>1. /\ alloc' = alloc /\ l2' = l2 /\ delay # <<>>
        /\ res' = reserve_complete(R, b, "flusher")
    BY <1>10 DEF ReleaseDelayed, meta, due
  <2>2. b \in Block
    BY <1>0, <2>1 DEF TypeOK
  <2>3. /\ R \in [Block -> Resv]
        /\ \A c \in Block : R[c].refs = res[c].refs /\ R[c].zone = res[c].zone
    BY <1>0, <2>2 DEF Resv
  <2> HIDE DEF R, b
  <2> QED
    BY <1>0, <2>1, <2>2, <2>3, CompleteKeepsZones, PendingFrame DEF Exists
<1>11. CASE \/ \E group \in BOOLEAN : CycleStart(group)
            \/ \E final \in BOOLEAN : MidFinalize(final)
            \/ CycleFinalize \/ CycleEnd
  BY <1>2, <1>11 DEF CycleStart, MidFinalize, CycleFinalize, CycleEnd, meta, rsv
<1>12. CASE Crash
  BY <1>12, NothingPending DEF Crash
<1>13. CASE UNCHANGED vars
  BY <1>2, <1>13 DEF vars, meta, rsv
<1> QED
  BY <1>3, <1>4, <1>5, <1>6, <1>7, <1>8, <1>9, <1>10, <1>11, <1>12, <1>13
     DEF Next, BackEnd, FrontEnd, Flusher

-----------------------------------------------------------------------------
(* Every step keeps the invariant.                                         *)

(* The sleeper's own bookkeeping is no part of the rest.                   *)
LEMMA Unchanged ==
  ASSUME Core, UNCHANGED <<meta, res, delay, rec, seqs, fifo>>
  PROVE  Core'
<1>1. /\ l2' = l2 /\ blocksFree' = blocksFree /\ live' = live
      /\ res' = res /\ delay' = delay /\ rec' = rec /\ act' = act /\ next' = next
      /\ cyc' = cyc /\ dirty' = dirty /\ undoFlag' = undoFlag
      /\ snapC' = snapC /\ snapD' = snapD
  BY DEF meta, seqs, fifo
<1>2. TypeOK' /\ LayersExact'
  BY <1>1 DEF Core, TypeOK, LayersExact, Exact, Snap
<1>3. Refs' /\ Covers' /\ Owned' /\ Deleter'
  BY <1>1 DEF Core, Refs, Holders, Covers, Exists, Owned, Deleter
<1>4. DelayNeverMissed'
  BY <1>1 DEF Core, DelayNeverMissed, Due
<1>5. Shadow'
  BY <1>1 DEF Core, Shadow, Bare, Ahead, Due, haswork
<1> QED
  BY <1>2, <1>3, <1>4, <1>5 DEF Core

LEMMA InitIInv == Init => IInv
<1>1. Init => alloc = NoAlloc
  BY DEF Init
<1>2. alloc = NoAlloc => Pending
  BY DEF Pending, NoAlloc, AnyZone, unlocked
<1> QED
  BY <1>1, <1>2, InitInv DEF IInv

LEMMA NextInv == IInv /\ [Next]_vars => IInv'
<1> SUFFICES ASSUME IInv, [Next]_vars PROVE Core'
  BY PendingStep DEF IInv
<1>0. Core
  BY DEF IInv
<1>1. CASE \E z \in Zone, p \in Cell : AllocStart(z, p)
  BY <1>0, <1>1, Unchanged DEF AllocStart
<1>2. CASE AllocTake
  BY <1>2, AllocTakeStep
<1>3. CASE (\E r \in Rec : Finalize(r)) \/ (\E p \in Cell : Free(p))
  BY <1>0, <1>3, FinalizeStep, FreeStep
<1>4. CASE FrontEnd
  BY <1>0, <1>4, ReserveStep, ReleaseStep, BuffersDeletedStep DEF FrontEnd
<1>5. CASE Flusher
  BY <1>0, <1>5, CycleStartStep, MidFinalizeStep, CycleFinalizeStep, ReleaseDelayedStep,
     CycleEndStep DEF Flusher
<1>6. CASE Crash
  BY <1>0, <1>6, CrashStep
<1>7. CASE UNCHANGED vars
  BY <1>0, <1>7, Unchanged DEF vars, rsv
<1> QED
  BY <1>1, <1>2, <1>3, <1>4, <1>5, <1>6, <1>7 DEF Next, BackEnd

(* The invariant holds throughout: of the layers, the reservations and     *)
(* their references, the delay list, the allocation that sleeps, and the   *)
(* cells a crash would bring back, together.                               *)
THEOREM Invariant == Spec => []IInv
BY InitIInv, NextInv, PTL DEF Spec

-----------------------------------------------------------------------------
(* The results.                                                            *)

(* The free counts, owners and append_offs of layer1 and layer2 describe   *)
(* the cells in use exactly, also in the states a crash restores, whatever *)
(* hammer_blockmap_alloc(), _reserve(), _finalize() and _free() do in      *)
(* whatever order.                                                         *)
THEOREM LayersAreExact == Spec => []LayersExact
<1>1. IInv => LayersExact
  BY DEF IInv, Core
<1> QED
  BY <1>1, Invariant, PTL

(* What the front end reserved for a direct write stays the record's until *)
(* hammer_blockmap_finalize(), which finds the big-block in its own zone.  *)
THEOREM ReservationsHold == Spec => []ReservationHolds
<1>1. IInv => ReservationHolds
  <2> SUFFICES ASSUME IInv, NEW r \in Rec, rec[r].state = "reserved", NEW b, b = blk(rec[r].cell)
               PROVE  /\ rec[r].cell \notin live
                      /\ \A q \in Rec \ {r} : rec[q].state = "reserved" =>
                           rec[q].cell # rec[r].cell
                      /\ Exists(b) /\ res[b].zone = rec[r].zone
                      /\ l2[b].zone \in {NoZone, rec[r].zone}
                      /\ off(rec[r].cell) < res[b].append_off
                      /\ res[b].refs = Cardinality({q \in Rec : rec[q].state # "none"
                                                       /\ blk(rec[q].cell) = b})
                                       + (IF res[b].delayed THEN 1 ELSE 0)
                                       + (IF res[b].deleting # "no" THEN 1 ELSE 0)
    BY DEF ReservationHolds
  <2>1. b \in Block /\ Exists(b)
    BY RecordExists DEF IInv, Core
  <2>2. /\ rec[r].cell \notin live
        /\ \A q \in Rec \ {r} : rec[q].state = "reserved" => rec[q].cell # rec[r].cell
        /\ res[b].zone = rec[r].zone /\ off(rec[r].cell) < res[b].append_off
    BY DEF IInv, Core, Owned
  <2>3. l2[b].zone \in {NoZone, res[b].zone}
    BY <2>1 DEF IInv, Core, Covers
  <2>4. res[b].refs = Cardinality(Holders(b)) + One(res[b].delayed)
                        + One(res[b].deleting # "no")
    BY <2>1 DEF IInv, Core, Refs
  <2> QED
    BY <2>1, <2>2, <2>3, <2>4 DEF Holders, One
<1> QED
  BY <1>1, Invariant, PTL

(* hammer_flusher_flush() releases every delayed big-block in the cycle it *)
(* was put down for, though it only compares the head of the list with     *)
(* the cycle it is in, and the cycle numbers wrap around.                  *)
THEOREM DelaysKept == Spec => []DelayNeverMissed
<1>1. IInv => DelayNeverMissed
  BY DEF IInv, Core
<1> QED
  BY <1>1, Invariant, PTL

(* While hammer_del_buffers() sleeps, nothing is allocated or reserved in  *)
(* the big-block whose buffers it deletes.                                 *)
THEOREM DeletesOfFreeOnly == Spec => []DeletesFreeOnly
<1>1. IInv => DeletesFreeOnly
  <2> SUFFICES ASSUME IInv, NEW b \in Block, res[b].deleting # "no"
               PROVE  /\ \A p \in live : blk(p) # b
                      /\ \A r \in Rec : rec[r].state = "reserved" => blk(rec[r].cell) # b
    BY DEF DeletesFreeOnly
  <2>1. Cardinality(Holders(b)) \in Nat /\ (Cardinality(Holders(b)) = 0 <=> Holders(b) = {})
    BY HoldersCount
  <2>2. /\ res[b].refs = Cardinality(Holders(b)) + One(res[b].delayed)
                           + One(res[b].deleting # "no")
        /\ res[b].delayed \in BOOLEAN
    BY DEF IInv, Core, Refs, TypeOK, Resv
  <2>3. Exists(b)
    BY <2>1, <2>2 DEF Exists, One
  <2>4. l2[b].zone = NoZone /\ res[b].refs = 1
    BY <2>3 DEF IInv, Core, Covers
  <2>5. Holders(b) = {}
    BY <2>1, <2>2, <2>4 DEF One
  <2>6. \A p \in live : l2[blk(p)].zone # NoZone
    BY LiveBelow DEF IInv, Core
  <2> QED
    BY <2>4, <2>5, <2>6 DEF Holders
<1> QED
  BY <1>1, Invariant, PTL

(* No cell is taken into use or reserved again while one of the two        *)
(* boundaries a crash may restore still refers to it: the delay list keeps *)
(* a freed big-block long enough, however finalizations fall into cycles.  *)
THEOREM ReuseIsDelayed == Spec => NoEarlyReuse
<1> DEFINE Safe == Crash \/
                   ((live' \union Reserved') \ (live \union Reserved))
                      \cap (snapC.live \union snapD.live) = {}
<1>1. ASSUME IInv, NEW z \in Zone, NEW p \in Cell, fit(z, p)
      PROVE  p \notin snapC.live \union snapD.live
  <2> SUFFICES ASSUME p \in snapC.live \union snapD.live PROVE FALSE
    OBVIOUS
  <2>1. /\ blk(p) \in Block /\ off(p) \in Nat /\ z # NoZone
        /\ res[blk(p)].append_off \in Nat
    BY <1>1, CellParts, BlockmapAssumption DEF IInv, Core, TypeOK, Resv
  <2>2. Bare(p)
    BY <1>1 DEF fit, Bare
  <2>3. /\ res[blk(p)].delayed
        /\ res[blk(p)].zone = NoZone \/ off(p) < res[blk(p)].append_off
    BY <1>1, <2>2 DEF IInv, Core, Shadow
  <2>4. Exists(blk(p))
    BY <1>1, <2>1, <2>3, NothingHeld DEF IInv, Core
  <2> QED
    BY <1>1, <2>1, <2>3, <2>4 DEF fit
<1>2. ASSUME IInv, [Next]_vars PROVE Safe \/ UNCHANGED vars
  <2>1. CASE AllocTake
    <3>1. /\ live' = live \union {alloc.cell} /\ Reserved' = Reserved
          /\ alloc.zone \in Zone /\ alloc.cell \in Cell /\ fit(alloc.zone, alloc.cell)
      BY <1>2, <2>1, StillFits DEF IInv, AllocTake, Take, Reserved
    <3> QED
      BY <1>1, <1>2, <3>1
  <2>2. ASSUME NEW r \in Rec, Finalize(r) PROVE Safe
    <3>1. /\ live' = live \union {rec[r].cell} /\ rec[r].cell \in Reserved
      BY <2>2 DEF Finalize, Take, Reserved
    <3>2. Reserved' \subseteq Reserved
      BY <1>2, <2>2 DEF Finalize, Reserved, IInv, TypeOK, Record
    <3> QED
      BY <3>1, <3>2
  <2>3. ASSUME NEW p \in Cell, Free(p) PROVE Safe
    BY <2>3 DEF Free, Reserved
  <2>4. ASSUME NEW r \in Rec, NEW z \in Zone, NEW p \in Cell, Reserve(r, z, p) PROVE Safe
    <3>1. live' = live /\ fit(z, p)
      BY <2>4 DEF Reserve, meta
    <3>2. Reserved' \subseteq Reserved \union {p}
      BY <1>2, <2>4 DEF Reserve, Reserved, IInv, TypeOK
    <3> QED
      BY <1>1, <1>2, <3>1, <3>2
  <2>5. ASSUME NEW r \in Rec, Release(r) PROVE Safe
    <3>1. live' = live
      BY <2>5 DEF Release, meta
    <3>2. Reserved' \subseteq Reserved
      BY <1>2, <2>5 DEF Release, Reserved, IInv, TypeOK, NoRec
    <3> QED
      BY <3>1, <3>2
  <2>6. ASSUME live' = live, rec' = rec PROVE Safe
    BY <2>6 DEF Reserved
  <2>9. ASSUME NEW z \in Zone, NEW p \in Cell, AllocStart(z, p) PROVE Safe
    BY <2>6, <2>9 DEF AllocStart, meta
  <2>7. ASSUME NEW b \in Block, BuffersDeleted(b) PROVE Safe
    BY <2>6, <2>7 DEF BuffersDeleted, meta
  <2>8. ASSUME Flusher PROVE Safe
    BY <2>6, <2>8 DEF Flusher, CycleStart, MidFinalize, CycleFinalize, ReleaseDelayed,
                      CycleEnd, meta, rsv
  <2> QED
    BY <1>2, <2>1, <2>2, <2>3, <2>4, <2>5, <2>7, <2>8, <2>9 DEF Next, BackEnd, FrontEnd
<1>3. IInv /\ [Next]_vars => [Safe]_vars
  BY <1>2
<1> QED
  BY <1>3, Invariant, PTL DEF Spec, NoEarlyReuse
=============================================================================
