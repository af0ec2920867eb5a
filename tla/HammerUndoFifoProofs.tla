------------------------ MODULE HammerUndoFifoProofs ------------------------
(***************************************************************************)
(* The UNDO FIFO for every buffer size, zone size and record size: nothing *)
(* between the header's first_offset and next_offset is ever overwritten,  *)
(* and the backward scan of the recovery finds exactly what was laid down. *)
(*                                                                         *)
(* The argument measures every offset as a distance from the header's      *)
(* first_offset around the zone.  The entries of the log lie end to end on *)
(* that line, the head room keeps its length below that of the zone, and   *)
(* so distances tell entries apart as well as offsets do.                  *)
(***************************************************************************)
EXTENDS HammerUndoFifo, SequenceTheorems, TLAPS

(* The distance from f forward to x, around the zone.                      *)
D(f, x) == IF f =< x THEN x - f ELSE Alloc - f + x

Entry == [off : 0 .. Alloc - 1, size : 1 .. BufSize, type : {"pad", "undo"}]

(* The distance of entry k's end; entry 0 stands for first_offset.         *)
E(lg, f, k) == IF k = 0 THEN 0 ELSE D(f, lg[k].off) + lg[k].size

(* The offset just after entry e.                                          *)
End(e) == e.off + e.size

TypeOK ==
  /\ cell \in [0 .. Alloc - 1 -> Cell]
  /\ next \in Off /\ first \in Off /\ dNext \in Off /\ dFirst \in Off
  /\ want \in Nat /\ (want > 0 => want >= 2 /\ want < BufSize)
  /\ mode \in {"up", "panic", "scan", "failed"}
  /\ scan \in Off /\ bytes \in Int
  /\ log \in Seq(Entry) /\ done \in Seq(Entry)
  /\ nFirst \in Nat /\ nNext \in Nat
  /\ nFirst =< nNext /\ nNext =< Len(log)

(* An entry lies in one buffer.                                            *)
Fits(e) ==
  /\ (e.off % BufSize) + e.size =< BufSize /\ End(e) =< Alloc
  /\ e.type = "undo" => e.size >= 2

(* The cells c hold entry e.                                               *)
Stored(c, e) ==
  /\ c[e.off] = HeadCell(e.type, e.size)
  /\ e.size > 1 => c[End(e) - 1] = TailCell(e.type, e.size)
  /\ e.type = "undo" => \A u \in e.off + 1 .. End(e) - 2 : c[u] = Data

(* Entry b follows entry a on the media.                                   *)
Follows(a, b) == b.off = End(a) \/ (b.off = 0 /\ End(a) = Alloc)

(* The entries of lg lie end to end, from f, on less than the whole zone.  *)
Chain(lg, f) ==
  /\ \A i \in 1 .. Len(lg) : D(f, lg[i].off) = E(lg, f, i - 1)
  /\ \A i, j \in 1 .. Len(lg) : i < j => E(lg, f, i) =< D(f, lg[j].off)
  /\ \A i \in 1 .. Len(lg) : E(lg, f, i) < Alloc
  /\ \A i \in 1 .. Len(lg) - 1 : Follows(lg[i], lg[i + 1])

(* Offset x is where the first k entries end.                              *)
At(lg, f, x, k) == D(f, x) = E(lg, f, k) /\ (k >= 1 => x = End(lg[k]))

Laid ==
  /\ \A i \in 1 .. Len(log) : Fits(log[i]) /\ Stored(cell, log[i])
  /\ Chain(log, dFirst)

Header == At(log, dFirst, dNext, nNext)

Cached ==
  mode \in {"up", "panic"} =>
    /\ At(log, dFirst, next, Len(log))
    /\ D(dFirst, first) = E(log, dFirst, nFirst)
    /\ nFirst = Len(log) => first = next

Scanning ==
  /\ mode # "failed"
  /\ mode = "scan" =>
       LET k == nNext - Len(done)
       IN /\ k \in Nat /\ Len(log) = nNext
          /\ \A j \in 1 .. Len(done) : done[j] = log[nNext + 1 - j]
          /\ bytes = E(log, dFirst, k)
          /\ k >= 1 => \/ scan = End(log[k])
                       \/ scan = 0 /\ End(log[k]) = Alloc

IInv == TypeOK /\ Laid /\ Header /\ Cached /\ Scanning
-----------------------------------------------------------------------------
(* Arithmetic of buffers.                                                  *)

LEMMA Division ==
  ASSUME NEW a \in Nat
  PROVE  /\ a \div BufSize \in Nat /\ a % BufSize \in 0 .. BufSize - 1
         /\ a = BufSize * (a \div BufSize) + (a % BufSize)
BY SizeAssumption

(* Quotient and remainder are unique.                                      *)
LEMMA Unique ==
  ASSUME NEW a \in Nat, NEW q \in Nat, NEW r \in 0 .. BufSize - 1,
         a = BufSize * q + r
  PROVE  a \div BufSize = q /\ a % BufSize = r
<1> DEFINE p == a \div BufSize
           s == a % BufSize
<1>1. p \in Nat /\ s \in 0 .. BufSize - 1 /\ a = BufSize * p + s
  BY Division
<1> HIDE DEF p, s
<1>2. BufSize \in Nat \ {0}
  BY SizeAssumption
<1>3. ~(p < q)
  <2> SUFFICES ASSUME p < q PROVE FALSE
    OBVIOUS
  <2>1. PICK m \in Nat : q = p + m + 1
    <3>1. q - p - 1 \in Nat /\ q = p + (q - p - 1) + 1
      BY <1>1
    <3> QED BY <3>1
  <2>2. BufSize * (p + m + 1) = BufSize * p + BufSize * m + BufSize
    BY <1>1, <1>2, <2>1
  <2>3. BufSize * m \in Nat /\ BufSize * p \in Nat
    BY <1>1, <1>2
  <2> QED BY <1>1, <1>2, <2>1, <2>2, <2>3
<1>4. ~(q < p)
  <2> SUFFICES ASSUME q < p PROVE FALSE
    OBVIOUS
  <2>1. PICK m \in Nat : p = q + m + 1
    <3>1. p - q - 1 \in Nat /\ p = q + (p - q - 1) + 1
      BY <1>1
    <3> QED BY <3>1
  <2>2. BufSize * (q + m + 1) = BufSize * q + BufSize * m + BufSize
    BY <1>1, <1>2, <2>1
  <2>3. BufSize * m \in Nat /\ BufSize * q \in Nat
    BY <1>1, <1>2
  <2> QED BY <1>1, <1>2, <2>1, <2>2, <2>3
<1>5. p = q
  BY <1>1, <1>3, <1>4
<1>6. s = r
  <2>1. BufSize * q \in Nat
    BY <1>2
  <2> QED BY <1>1, <1>5, <2>1
<1> QED
  BY <1>5, <1>6 DEF p, s

(* n units on, still in the buffer.                                        *)
LEMMA SameBuffer ==
  ASSUME NEW a \in Nat, NEW n \in Nat, (a % BufSize) + n < BufSize
  PROVE  /\ (a + n) \div BufSize = a \div BufSize
         /\ (a + n) % BufSize = (a % BufSize) + n
<1>1. /\ a \div BufSize \in Nat /\ a % BufSize \in 0 .. BufSize - 1
      /\ a = BufSize * (a \div BufSize) + (a % BufSize)
  BY Division
<1> DEFINE q == a \div BufSize
           r == a % BufSize
<1>2. q \in Nat /\ r \in Nat /\ a = BufSize * q + r /\ r + n < BufSize
  BY <1>1
<1>3. BufSize * q \in Nat /\ BufSize \in Nat
  BY <1>2, SizeAssumption
<1> HIDE DEF q, r
<1>4. a + n \in Nat /\ r + n \in 0 .. BufSize - 1 /\ a + n = BufSize * q + (r + n)
  BY <1>2, <1>3
<1>5. (a + n) \div BufSize = q /\ (a + n) % BufSize = r + n
  BY <1>2, <1>4, Unique
<1> QED
  BY <1>5 DEF q, r

(* The XOR test passes only when the entry ends before its buffer does.    *)
LEMMA NotCrossing ==
  ASSUME NEW a \in Nat, NEW n \in Nat, n < BufSize
  PROVE  ~crosses(a, n) <=> (a % BufSize) + n < BufSize
<1>1. ASSUME (a % BufSize) + n < BufSize PROVE ~crosses(a, n)
  BY <1>1, SameBuffer DEF crosses
<1>2. ASSUME ~crosses(a, n) PROVE (a % BufSize) + n < BufSize
  <2> DEFINE q == a \div BufSize
             r == a % BufSize
             s == (a + n) % BufSize
  <2>1. q \in Nat /\ r \in 0 .. BufSize - 1 /\ a = BufSize * q + r
    BY Division
  <2>2. (a + n) \div BufSize = q
    BY <1>2 DEF crosses
  <2>3. a + n \in Nat
    OBVIOUS
  <2>4. s \in 0 .. BufSize - 1 /\ a + n = BufSize * q + s
    BY <2>2, <2>3, Division
  <2>5. BufSize * q \in Nat /\ BufSize \in Nat
    BY <2>1, SizeAssumption
  <2> HIDE DEF q, r, s
  <2>6. r + n = s
    BY <2>1, <2>4, <2>5
  <2>7. r + n < BufSize
    BY <2>1, <2>4, <2>5, <2>6
  <2> QED BY <2>7 DEF r
<1> QED
  BY <1>1, <1>2

LEMMA AllocNat == Alloc \in Nat \ {0} /\ BufSize \in Nat \ {0}
BY SizeAssumption DEF Alloc

(* The end of a buffer is not beyond the end of the zone.                  *)
LEMMA BufferEnd ==
  ASSUME NEW a \in 0 .. Alloc - 1
  PROVE  a + (BufSize - (a % BufSize)) =< Alloc
<1> DEFINE q == a \div BufSize
           r == a % BufSize
<1>1. a \in Nat /\ BufSize \in Nat \ {0} /\ NumBufs \in Nat \ {0}
  BY AllocNat, SizeAssumption
<1>2. q \in Nat /\ r \in 0 .. BufSize - 1 /\ a = BufSize * q + r
  BY <1>1, Division
<1> HIDE DEF q, r
<1>3. q < NumBufs
  <2> SUFFICES ASSUME q >= NumBufs PROVE FALSE
    BY <1>1, <1>2
  <2>1. PICK m \in Nat : q = NumBufs + m
    <3>1. q - NumBufs \in Nat /\ q = NumBufs + (q - NumBufs)
      BY <1>1, <1>2
    <3> QED BY <3>1
  <2>2. BufSize * (NumBufs + m) = BufSize * NumBufs + BufSize * m
    BY <1>1, <2>1
  <2>3. BufSize * m \in Nat /\ BufSize * NumBufs \in Nat
    BY <1>1
  <2>4. a < BufSize * NumBufs
    BY <2>3 DEF Alloc
  <2> QED BY <1>1, <1>2, <2>1, <2>2, <2>3, <2>4
<1>4. PICK m \in Nat : NumBufs = q + 1 + m
  <2>1. NumBufs - q - 1 \in Nat /\ NumBufs = q + 1 + (NumBufs - q - 1)
    BY <1>1, <1>2, <1>3
  <2> QED BY <2>1
<1>5. BufSize * (q + 1 + m) = BufSize * q + BufSize + BufSize * m
  BY <1>1, <1>2, <1>4
<1>6. BufSize * m \in Nat /\ BufSize * q \in Nat
  BY <1>1, <1>2
<1>7. a + (BufSize - r) =< BufSize * NumBufs
  BY <1>1, <1>2, <1>4, <1>5, <1>6
<1> QED
  BY <1>7 DEF r, Alloc
-----------------------------------------------------------------------------
(* Arithmetic of distances.                                                *)

LEMMA DistanceType ==
  ASSUME NEW f \in Off, NEW x \in Off
  PROVE  D(f, x) \in Nat /\ D(f, f) = 0
BY AllocNat DEF D, Off

(* A step of n units forward that does not go round to f.                  *)
LEMMA Shift ==
  ASSUME NEW f \in Off, NEW x \in 0 .. Alloc - 1, NEW n \in Nat,
         x + n =< Alloc, D(f, x) + n < Alloc
  PROVE  x + n \in Off /\ D(f, x + n) = D(f, x) + n
BY AllocNat DEF D, Off

(* The wrap at the end of the zone does not change the distance.           *)
LEMMA Wrap ==
  ASSUME NEW f \in Off, NEW x \in Off, D(f, x) < Alloc
  PROVE  /\ (IF x = Alloc THEN 0 ELSE x) \in 0 .. Alloc - 1
         /\ D(f, IF x = Alloc THEN 0 ELSE x) = D(f, x)
BY AllocNat DEF D, Off

(* Distances from g, further on than f.                                    *)
LEMMA Rebase ==
  ASSUME NEW f \in Off, NEW g \in Off, NEW x \in Off,
         \/ D(f, g) < D(f, x)
         \/ D(f, g) =< D(f, x) /\ x < Alloc
         \/ g = x
  PROVE  D(g, x) = D(f, x) - D(f, g)
BY AllocNat DEF D, Off

(* What lies before w on the line is not where [w, w + n) is.              *)
LEMMA Apart ==
  ASSUME NEW f \in Off, NEW x \in 0 .. Alloc - 1, NEW m \in Nat,
         NEW w \in 0 .. Alloc - 1, NEW n \in Nat,
         D(f, x) + m =< D(f, w), D(f, w) + n < Alloc
  PROVE  x + m =< w \/ w + n =< x
BY AllocNat DEF D, Off
-----------------------------------------------------------------------------
(* Entries.                                                                *)

LEMMA EntryType ==
  ASSUME NEW e \in Entry
  PROVE  /\ e.off \in 0 .. Alloc - 1 /\ e.size \in 1 .. BufSize
         /\ e.off \in Nat /\ e.size \in Nat /\ e.size >= 1
         /\ e.type \in {"pad", "undo"} /\ End(e) \in Nat /\ End(e) > e.off
BY AllocNat DEF Entry, End

(* What was laid down can be read back.                                    *)
LEMMA ReadBack ==
  ASSUME NEW e \in Entry, Fits(e), Stored(cell, e)
  PROVE  /\ tail_ok(End(e)) /\ undo_ok(e.off)
         /\ cell[e.off] = HeadCell(e.type, e.size)
         /\ cell[End(e) - 1].size = e.size
         /\ e.off \div BufSize = (End(e) - 1) \div BufSize
<1>0. /\ e.off \in Nat /\ e.size \in Nat /\ e.size >= 1
      /\ e.type \in {"pad", "undo"} /\ End(e) = e.off + e.size
      /\ BufSize \in Nat \ {0}
  BY EntryType, AllocNat DEF End
<1>1. e.off % BufSize \in 0 .. BufSize - 1
  BY <1>0, Division
<1>2. /\ (e.off % BufSize) + e.size =< BufSize
      /\ e.type = "undo" => e.size >= 2
  BY DEF Fits
<1>3. /\ (e.off + (e.size - 1)) \div BufSize = e.off \div BufSize
      /\ (e.off + (e.size - 1)) % BufSize = (e.off % BufSize) + (e.size - 1)
  <2>1. e.size - 1 \in Nat /\ (e.off % BufSize) + (e.size - 1) < BufSize
    BY <1>0, <1>1, <1>2
  <2> QED BY <1>0, <2>1, SameBuffer
<1>4. End(e) - 1 = e.off + (e.size - 1) /\ e.off + e.size - 1 = End(e) - 1
      /\ e.off + e.size - 2 = End(e) - 2
  BY <1>0
<1>5. cell[e.off] = HeadCell(e.type, e.size)
  BY DEF Stored
<1>6. /\ cell[End(e) - 1].size = e.size /\ cell[End(e) - 1].type = e.type
      /\ cell[End(e) - 1].sig = "head" => e.size = 1
  <2>1. CASE e.size = 1
    <3>1. End(e) - 1 = e.off
      BY <1>0, <2>1
    <3> QED BY <1>5, <2>1, <3>1 DEF HeadCell
  <2>2. CASE e.size > 1
    <3>1. cell[End(e) - 1] = TailCell(e.type, e.size)
      BY <2>2 DEF Stored
    <3> QED BY <3>1 DEF TailCell
  <2> QED BY <1>0, <2>1, <2>2
<1>7. tail_ok(End(e))
  <2>1. (End(e) - 1) % BufSize = (e.off % BufSize) + (e.size - 1)
    BY <1>3, <1>4
  <2>2. e.size =< ((End(e) - 1) % BufSize) + 1
    BY <1>0, <1>1, <2>1
  <2>3. cell[End(e) - 1].sig = "head" => e.type = "pad" /\ e.size = 1
    BY <1>0, <1>2, <1>6
  <2> QED BY <1>0, <1>6, <2>2, <2>3 DEF tail_ok
<1>8. undo_ok(e.off)
  <2>1. /\ cell[e.off].sig = "head" /\ cell[e.off].size = e.size
        /\ cell[e.off].type = e.type
    BY <1>5 DEF HeadCell
  <2>2. e.size =< BufSize - (e.off % BufSize)
    BY <1>0, <1>1, <1>2
  <2>3. e.type = "undo" => \A u \in e.off + 1 .. e.off + e.size - 2 : cell[u] = Data
    BY <1>4 DEF Stored
  <2> QED BY <1>0, <1>4, <1>6, <2>1, <2>2, <2>3 DEF undo_ok
<1> QED
  BY <1>3, <1>4, <1>5, <1>6, <1>7, <1>8

(* A write elsewhere leaves an entry as it was.                            *)
LEMMA StillStored ==
  ASSUME NEW e \in Entry, Fits(e), NEW c, NEW d, Stored(c, e),
         NEW w \in Nat, NEW n \in Nat,
         \A u \in 0 .. Alloc - 1 : u < w \/ u >= w + n => d[u] = c[u],
         End(e) =< w \/ w + n =< e.off
  PROVE  Stored(d, e)
<1>1. /\ e.off \in Nat /\ e.size \in Nat /\ e.size >= 1 /\ e.off < Alloc
      /\ End(e) = e.off + e.size /\ End(e) =< Alloc /\ Alloc \in Nat
  BY EntryType, AllocNat DEF End, Fits
<1>2. \A u \in e.off .. End(e) - 1 : d[u] = c[u]
  BY <1>1
<1>3. e.off \in e.off .. End(e) - 1 /\ End(e) - 1 \in e.off .. End(e) - 1
      /\ \A u \in e.off + 1 .. End(e) - 2 : u \in e.off .. End(e) - 1
  BY <1>1
<1> QED
  BY <1>2, <1>3 DEF Stored

(* Distances along the chain.                                              *)
LEMMA Ends ==
  ASSUME NEW lg \in Seq(Entry), NEW f \in Off, Chain(lg, f)
  PROVE  /\ \A k \in 0 .. Len(lg) : E(lg, f, k) \in Nat /\ E(lg, f, k) < Alloc
         /\ \A k \in 1 .. Len(lg) : E(lg, f, k) > 0
         /\ \A i, j \in 0 .. Len(lg) : i < j => E(lg, f, i) =< D(f, lg[j].off)
         /\ \A i, j \in 0 .. Len(lg) : i < j => E(lg, f, i) < E(lg, f, j)
<1>0. Len(lg) \in Nat /\ Alloc \in Nat \ {0}
  BY AllocNat
<1>1. \A k \in 1 .. Len(lg) : /\ D(f, lg[k].off) \in Nat
                              /\ lg[k].size \in Nat /\ lg[k].size >= 1
  <2> TAKE k \in 1 .. Len(lg)
  <2>1. lg[k] \in Entry
    BY <1>0
  <2>2. lg[k].off \in Off /\ lg[k].size \in Nat /\ lg[k].size >= 1
    BY <2>1, EntryType, <1>0 DEF Off
  <2> QED BY <2>2, DistanceType
<1>2. \A k \in 1 .. Len(lg) : /\ E(lg, f, k) = D(f, lg[k].off) + lg[k].size
                              /\ E(lg, f, k) < Alloc
  <2>1. \A k \in 1 .. Len(lg) : E(lg, f, k) = D(f, lg[k].off) + lg[k].size
    BY <1>0 DEF E
  <2>2. \A k \in 1 .. Len(lg) : E(lg, f, k) < Alloc
    BY DEF Chain
  <2> QED BY <2>1, <2>2
<1>3. E(lg, f, 0) = 0
  BY DEF E
<1>4. \A k \in 0 .. Len(lg) : k = 0 \/ k \in 1 .. Len(lg)
  BY <1>0
<1>5. \A i, j \in 0 .. Len(lg) : i < j => E(lg, f, i) =< D(f, lg[j].off)
  <2>1. \A i, j \in 1 .. Len(lg) : i < j => E(lg, f, i) =< D(f, lg[j].off)
    BY DEF Chain
  <2> SUFFICES ASSUME NEW i \in 0 .. Len(lg), NEW j \in 0 .. Len(lg), i < j
               PROVE  E(lg, f, i) =< D(f, lg[j].off)
    OBVIOUS
  <2>2. j \in 1 .. Len(lg)
    BY <1>0
  <2>3. CASE i = 0
    BY <1>1, <1>3, <2>2, <2>3
  <2>4. CASE i \in 1 .. Len(lg)
    BY <2>1, <2>2, <2>4
  <2> QED BY <1>4, <2>3, <2>4
<1>6. \A k \in 0 .. Len(lg) : E(lg, f, k) \in Nat /\ E(lg, f, k) < Alloc
  <2> TAKE k \in 0 .. Len(lg)
  <2>1. CASE k = 0
    BY <1>0, <1>3, <2>1
  <2>2. CASE k \in 1 .. Len(lg)
    BY <1>1, <1>2, <2>2
  <2> QED BY <1>4, <2>1, <2>2
<1>7. \A k \in 1 .. Len(lg) : E(lg, f, k) > 0
  BY <1>1, <1>2
<1>8. \A i, j \in 0 .. Len(lg) : i < j => E(lg, f, i) < E(lg, f, j)
  <2> SUFFICES ASSUME NEW i \in 0 .. Len(lg), NEW j \in 0 .. Len(lg), i < j
               PROVE  E(lg, f, i) < E(lg, f, j)
    OBVIOUS
  <2>1. j \in 1 .. Len(lg)
    BY <1>0
  <2>2. E(lg, f, i) =< D(f, lg[j].off) /\ E(lg, f, i) \in Nat
    BY <1>5, <1>6
  <2>3. /\ E(lg, f, j) = D(f, lg[j].off) + lg[j].size
        /\ D(f, lg[j].off) \in Nat /\ lg[j].size \in Nat /\ lg[j].size >= 1
    BY <1>1, <1>2, <2>1
  <2> QED BY <2>2, <2>3
<1> QED
  BY <1>5, <1>6, <1>7, <1>8
-----------------------------------------------------------------------------
(* An entry e is laid down at the wrapped next_offset.                     *)
LEMMA Appended ==
  ASSUME IInv, TypeOK', mode = "up", mode' = mode,
         NEW e \in Entry, Fits(e), e.off = wrapped,
         D(dFirst, next) + e.size < Alloc,
         log' = Append(log, e), next' = End(e), Stored(cell', e),
         \A u \in 0 .. Alloc - 1 : u < e.off \/ u >= End(e) => cell'[u] = cell[u],
         UNCHANGED <<first, hdr, nFirst, nNext>>
  PROVE  Laid' /\ Header' /\ Cached' /\ Scanning'
<1> DEFINE L == Len(log)
           f == dFirst
           w == e.off
<1>1. /\ log \in Seq(Entry) /\ L \in Nat /\ f \in Off /\ next \in Off /\ first \in Off
      /\ nFirst \in Nat /\ nNext \in Nat /\ nFirst =< nNext /\ nNext =< L
      /\ Alloc \in Nat \ {0}
  BY AllocNat DEF IInv, TypeOK
<1>2. /\ log' = Append(log, e) /\ Len(log') = L + 1 /\ log'[L + 1] = e
      /\ \A i \in 1 .. L : log'[i] = log[i]
  BY <1>1
<1>3. /\ Chain(log, f) /\ \A i \in 1 .. L : Fits(log[i]) /\ Stored(cell, log[i])
      /\ At(log, f, next, L) /\ At(log, f, dNext, nNext)
      /\ D(f, first) = E(log, f, nFirst)
  BY DEF IInv, Laid, Header, Cached
<1>4. /\ dFirst' = f /\ dNext' = dNext /\ first' = first
      /\ nFirst' = nFirst /\ nNext' = nNext
  BY DEF hdr
<1>5. /\ e.size \in Nat /\ e.size >= 1 /\ w \in 0 .. Alloc - 1 /\ w \in Nat
      /\ End(e) = w + e.size /\ End(e) =< Alloc
  BY EntryType DEF End, Fits
<1>6. D(f, next) \in Nat /\ D(f, next) = E(log, f, L)
  BY <1>1, <1>3, DistanceType DEF At
<1>7. D(f, w) = E(log, f, L)
  <2>1. D(f, next) < Alloc
    BY <1>1, <1>5, <1>6
  <2>2. D(f, IF next = Alloc THEN 0 ELSE next) = D(f, next)
    BY <1>1, <2>1, Wrap
  <2> QED BY <1>6, <2>2 DEF wrapped
<1>8. End(e) \in Off /\ D(f, End(e)) = D(f, w) + e.size
  <2>1. D(f, w) + e.size < Alloc
    BY <1>6, <1>7
  <2> QED BY <1>1, <1>5, <2>1, Shift
<1>9. /\ \A k \in 0 .. L : E(log', f, k) = E(log, f, k)
      /\ E(log', f, L + 1) = D(f, w) + e.size
  <2>1. \A k \in 0 .. L : k = 0 \/ k \in 1 .. L
    BY <1>1
  <2>2. L + 1 # 0
    BY <1>1
  <2> QED BY <1>2, <2>1, <2>2 DEF E
<1>10. \A i \in 1 .. L + 1 : i = L + 1 \/ i \in 1 .. L
  BY <1>1
<1>11. \A i \in 1 .. L :
         /\ log[i] \in Entry /\ log[i].off \in 0 .. Alloc - 1
         /\ log[i].size \in Nat /\ End(log[i]) = log[i].off + log[i].size
         /\ D(f, log[i].off) + log[i].size =< D(f, w)
  <2> TAKE i \in 1 .. L
  <2>1. /\ log[i] \in Entry /\ log[i].off \in 0 .. Alloc - 1
        /\ log[i].size \in Nat /\ End(log[i]) = log[i].off + log[i].size
    BY <1>1, EntryType DEF End
  <2>2. E(log, f, i) = D(f, log[i].off) + log[i].size
    BY <1>1 DEF E
  <2>3. E(log, f, i) =< E(log, f, L)
    <3>1. i \in 0 .. L /\ L \in 0 .. L /\ (i = L \/ i < L)
      BY <1>1
    <3>2. E(log, f, i) \in Nat /\ E(log, f, L) \in Nat
          /\ (i < L => E(log, f, i) < E(log, f, L))
      BY <1>1, <1>3, <3>1, Ends
    <3> QED BY <3>1, <3>2
  <2> QED BY <1>7, <2>1, <2>2, <2>3
<1>12. \A i \in 1 .. L : Stored(cell', log[i])
  <2> TAKE i \in 1 .. L
  <2>1. End(log[i]) =< w \/ w + e.size =< log[i].off
    <3>1. D(f, w) + e.size < Alloc
      BY <1>6, <1>7
    <3>2. log[i].off + log[i].size =< w \/ w + e.size =< log[i].off
      BY <1>1, <1>5, <1>11, <3>1, Apart
    <3> QED BY <1>11, <3>2
  <2>2. \A u \in 0 .. Alloc - 1 : u < w \/ u >= w + e.size => cell'[u] = cell[u]
    BY <1>5
  <2> QED BY <1>3, <1>5, <1>11, <2>1, <2>2, StillStored
<1>13. Chain(log', f)
  <2>1. \A i \in 1 .. L + 1 : D(f, log'[i].off) = E(log', f, i - 1)
    <3> TAKE i \in 1 .. L + 1
    <3>1. CASE i = L + 1
      <4>1. i - 1 = L /\ L \in 0 .. L
        BY <1>1, <3>1
      <4> QED BY <1>2, <1>7, <1>9, <3>1, <4>1
    <3>2. CASE i \in 1 .. L
      <4>1. i - 1 \in 0 .. L
        BY <1>1, <3>2
      <4> QED BY <1>2, <1>3, <1>9, <3>2, <4>1 DEF Chain
    <3> QED BY <1>10, <3>1, <3>2
  <2>2. ASSUME NEW i \in 1 .. L + 1, NEW j \in 1 .. L + 1, i < j
        PROVE  E(log', f, i) =< D(f, log'[j].off)
    <3>1. i \in 1 .. L /\ i \in 0 .. L
      BY <1>1, <2>2
    <3>2. CASE j = L + 1
      <4>1. E(log, f, i) = D(f, log[i].off) + log[i].size
        BY <3>1, <1>1 DEF E
      <4> QED BY <1>2, <1>9, <1>11, <3>1, <3>2, <4>1
    <3>3. CASE j \in 1 .. L
      BY <1>2, <1>3, <1>9, <2>2, <3>1, <3>3 DEF Chain
    <3> QED BY <1>10, <3>2, <3>3
  <2>3. \A i \in 1 .. L + 1 : E(log', f, i) < Alloc
    <3> TAKE i \in 1 .. L + 1
    <3>1. CASE i = L + 1
      BY <1>6, <1>7, <1>9, <3>1
    <3>2. CASE i \in 1 .. L
      <4>1. i \in 0 .. L
        BY <1>1, <3>2
      <4> QED BY <1>3, <1>9, <3>2, <4>1 DEF Chain
    <3> QED BY <1>10, <3>1, <3>2
  <2>4. \A i \in 1 .. L + 1 - 1 : Follows(log'[i], log'[i + 1])
    <3> SUFFICES ASSUME NEW i \in 1 .. L PROVE Follows(log'[i], log'[i + 1])
      BY <1>1
    <3>1. CASE i = L
      <4>1. next = End(log[L]) /\ log'[L] = log[L]
        BY <1>1, <1>2, <1>3, <3>1 DEF At
      <4> QED BY <1>2, <3>1, <4>1 DEF Follows, wrapped
    <3>2. CASE i \in 1 .. L - 1
      <4>1. i + 1 \in 1 .. L
        BY <1>1, <3>2
      <4> QED BY <1>2, <1>3, <3>2, <4>1 DEF Chain
    <3>3. i = L \/ i \in 1 .. L - 1
      BY <1>1
    <3> QED BY <3>1, <3>2, <3>3
  <2> QED BY <1>2, <2>1, <2>2, <2>3, <2>4 DEF Chain
<1>14. Laid'
  <2>1. \A i \in 1 .. L + 1 : Fits(log'[i]) /\ Stored(cell', log'[i])
    BY <1>2, <1>3, <1>10, <1>12
  <2> QED BY <1>2, <1>4, <1>13, <2>1 DEF Laid
<1>15. Header'
  <2>1. nNext \in 0 .. L /\ (nNext >= 1 => nNext \in 1 .. L)
    BY <1>1
  <2> QED BY <1>2, <1>3, <1>4, <1>9, <2>1 DEF Header, At
<1>16. Cached'
  <2>1. At(log', f, next', L + 1)
    BY <1>1, <1>2, <1>8, <1>9 DEF At
  <2>2. D(f, first) = E(log', f, nFirst)
    <3>1. nFirst \in 0 .. L
      BY <1>1
    <3> QED BY <1>3, <1>9, <3>1
  <2>3. nFirst # L + 1
    BY <1>1
  <2> QED BY <1>2, <1>4, <2>1, <2>2, <2>3 DEF Cached
<1>17. Scanning'
  BY DEF Scanning
<1> QED
  BY <1>14, <1>15, <1>16, <1>17
-----------------------------------------------------------------------------
(* One lemma per action.                                                   *)

(* Where the next entry goes, and the room there is.                       *)
LEMMA Room ==
  ASSUME TypeOK, want > 0, HaveSpace
  PROVE  /\ wrapped \in 0 .. Alloc - 1 /\ wrapped \in Nat
         /\ want \in Nat /\ want >= 2 /\ want < BufSize /\ BufSize \in Nat
         /\ D(dFirst, next) \in Nat /\ D(dFirst, next) + want < Alloc
<1>1. /\ next \in Off /\ dFirst \in Off /\ want \in Nat /\ want >= 2 /\ want < BufSize
      /\ Reserve \in Nat \ {0} /\ Alloc \in Nat \ {0} /\ BufSize \in Nat
  BY AllocNat, SizeAssumption DEF TypeOK
<1>2. D(dFirst, next) \in Nat
  BY <1>1, DistanceType
<1>3. Alloc - D(dFirst, next) >= want + Reserve
  BY DEF HaveSpace, undo_space, undo_used, D
<1>4. D(dFirst, next) + want < Alloc
  BY <1>1, <1>2, <1>3
<1>5. wrapped \in 0 .. Alloc - 1
  BY <1>1 DEF wrapped, Off
<1> QED
  BY <1>1, <1>2, <1>4, <1>5

LEMMA CellTypes ==
  ASSUME NEW n \in 0 .. BufSize, NEW ty \in {"pad", "undo"}
  PROVE  HeadCell(ty, n) \in Cell /\ TailCell(ty, n) \in Cell /\ Data \in Cell
<1>1. 0 \in 0 .. BufSize
  BY AllocNat
<1> QED
  BY <1>1 DEF HeadCell, TailCell, Data, Cell

LEMMA PadStep == IInv /\ Pad => IInv'
<1> SUFFICES ASSUME IInv, Pad PROVE IInv'
  OBVIOUS
<1> DEFINE n == BufSize - (wrapped % BufSize)
           e == [off |-> wrapped, size |-> n, type |-> "pad"]
<1>1. /\ TypeOK /\ mode = "up" /\ want > 0 /\ HaveSpace /\ crosses(wrapped, want)
      /\ cell' = PutPad(wrapped, n) /\ next' = wrapped + n /\ log' = Append(log, e)
      /\ mode' = mode /\ UNCHANGED <<first, hdr, want, rec, nFirst, nNext>>
  BY DEF IInv, Pad
<1>2. /\ wrapped \in 0 .. Alloc - 1 /\ wrapped \in Nat
      /\ want \in Nat /\ want >= 2 /\ want < BufSize /\ BufSize \in Nat
      /\ D(dFirst, next) \in Nat /\ D(dFirst, next) + want < Alloc
  BY <1>1, Room
<1>3. wrapped % BufSize \in 0 .. BufSize - 1 /\ wrapped + n =< Alloc
  BY <1>2, Division, BufferEnd
<1>4. n \in 1 .. BufSize /\ n \in Nat /\ (wrapped % BufSize) + n = BufSize
  BY <1>2, <1>3
<1>5. n =< want
  BY <1>1, <1>2, <1>3, NotCrossing
<1> HIDE DEF n
<1>6. e \in Entry /\ e.off = wrapped /\ e.size = n /\ e.type = "pad"
      /\ End(e) = wrapped + n
  BY <1>2, <1>4 DEF Entry, End
<1> HIDE DEF e
<1>7. Fits(e)
  BY <1>2, <1>3, <1>4, <1>6 DEF Fits
<1>8. cell \in [0 .. Alloc - 1 -> Cell] /\ Alloc \in Nat \ {0}
  BY <1>1, AllocNat DEF TypeOK
<1>9. \A u \in 0 .. Alloc - 1 :
         /\ u = wrapped => cell'[u] = HeadCell("pad", n)
         /\ u # wrapped /\ u = wrapped + n - 1 => cell'[u] = TailCell("pad", n)
         /\ u # wrapped /\ u # wrapped + n - 1 => cell'[u] = cell[u]
  BY <1>1, <1>8 DEF PutPad
<1>10. cell' \in [0 .. Alloc - 1 -> Cell]
  <2>1. HeadCell("pad", n) \in Cell /\ TailCell("pad", n) \in Cell
    <3>1. n \in 0 .. BufSize
      BY <1>2, <1>4
    <3> QED BY <3>1, CellTypes
  <2> QED BY <1>1, <1>8, <2>1 DEF PutPad
<1>11. Stored(cell', e)
  <2>1. cell'[wrapped] = HeadCell("pad", n)
    BY <1>2, <1>9
  <2>2. ASSUME n > 1 PROVE cell'[wrapped + n - 1] = TailCell("pad", n)
    <3>1. wrapped + n - 1 \in 0 .. Alloc - 1 /\ wrapped + n - 1 # wrapped
      BY <1>2, <1>3, <1>4, <1>8, <2>2
    <3> QED BY <1>9, <3>1
  <2>3. e.size > 1 => cell'[End(e) - 1] = TailCell(e.type, e.size)
    BY <1>2, <1>4, <1>6, <2>2
  <2> QED BY <1>6, <2>1, <2>3 DEF Stored
<1>12. \A u \in 0 .. Alloc - 1 : u < e.off \/ u >= End(e) => cell'[u] = cell[u]
  BY <1>2, <1>4, <1>6, <1>9
<1>13. TypeOK'
  <2>1. next' \in Off
    BY <1>1, <1>2, <1>3, <1>4, <1>8 DEF Off
  <2>2. log' \in Seq(Entry) /\ Len(log') = Len(log) + 1
    BY <1>1, <1>6 DEF TypeOK
  <2>3. nNext =< Len(log')
    BY <1>1, <2>2 DEF TypeOK
  <2>4. /\ first' \in Off /\ dNext' \in Off /\ dFirst' \in Off
        /\ want' \in Nat /\ (want' > 0 => want' >= 2 /\ want' < BufSize)
        /\ mode' \in {"up", "panic", "scan", "failed"}
    BY <1>1 DEF TypeOK, hdr
  <2>5. /\ scan' \in Off /\ bytes' \in Int /\ done' \in Seq(Entry)
        /\ nFirst' \in Nat /\ nNext' \in Nat /\ nFirst' =< nNext'
        /\ nNext' = nNext
    BY <1>1 DEF TypeOK, rec
  <2> QED BY <1>10, <2>1, <2>2, <2>3, <2>4, <2>5 DEF TypeOK
<1>14. D(dFirst, next) + e.size < Alloc /\ next' = End(e)
  BY <1>1, <1>2, <1>4, <1>5, <1>6, <1>8
<1> QED
  BY <1>1, <1>6, <1>7, <1>11, <1>12, <1>13, <1>14, Appended DEF IInv

LEMMA LayStep == IInv /\ Lay => IInv'
<1> SUFFICES ASSUME IInv, Lay PROVE IInv'
  OBVIOUS
<1> DEFINE e == [off |-> wrapped, size |-> want, type |-> "undo"]
<1>1. /\ TypeOK /\ mode = "up" /\ want > 0 /\ HaveSpace /\ ~crosses(wrapped, want)
      /\ cell' = PutUndo(wrapped, want) /\ next' = wrapped + want
      /\ log' = Append(log, e) /\ want' = 0
      /\ mode' = mode /\ UNCHANGED <<first, hdr, rec, nFirst, nNext>>
  BY DEF IInv, Lay
<1>2. /\ wrapped \in 0 .. Alloc - 1 /\ wrapped \in Nat
      /\ want \in Nat /\ want >= 2 /\ want < BufSize /\ BufSize \in Nat
      /\ D(dFirst, next) \in Nat /\ D(dFirst, next) + want < Alloc
  BY <1>1, Room
<1>3. /\ wrapped % BufSize \in 0 .. BufSize - 1
      /\ wrapped + (BufSize - (wrapped % BufSize)) =< Alloc
  BY <1>2, Division, BufferEnd
<1>4. (wrapped % BufSize) + want < BufSize
  BY <1>1, <1>2, NotCrossing
<1>5. Alloc \in Nat \ {0} /\ wrapped + want =< Alloc
  BY <1>2, <1>3, <1>4, AllocNat
<1>6. e \in Entry /\ e.off = wrapped /\ e.size = want /\ e.type = "undo"
      /\ End(e) = wrapped + want
  BY <1>2 DEF Entry, End
<1> HIDE DEF e
<1>7. Fits(e)
  BY <1>2, <1>3, <1>4, <1>5, <1>6 DEF Fits
<1>8. cell \in [0 .. Alloc - 1 -> Cell]
  BY <1>1 DEF TypeOK
<1>9. \A u \in 0 .. Alloc - 1 :
         /\ u = wrapped => cell'[u] = HeadCell("undo", want)
         /\ u = wrapped + want - 1 => cell'[u] = TailCell("undo", want)
         /\ u > wrapped /\ u < wrapped + want - 1 => cell'[u] = Data
         /\ u < wrapped \/ u >= wrapped + want => cell'[u] = cell[u]
  <2> TAKE u \in 0 .. Alloc - 1
  <2>1. cell'[u] = CASE u = wrapped -> HeadCell("undo", want)
                     [] u = wrapped + want - 1 -> TailCell("undo", want)
                     [] u > wrapped /\ u < wrapped + want - 1 -> Data
                     [] OTHER -> cell[u]
    BY <1>1, <1>8 DEF PutUndo
  <2>2. wrapped # wrapped + want - 1 /\ u \in Nat
    BY <1>2, <1>5
  <2>3. u = wrapped => cell'[u] = HeadCell("undo", want)
    BY <1>2, <2>1, <2>2
  <2>4. u = wrapped + want - 1 => cell'[u] = TailCell("undo", want)
    BY <1>2, <2>1, <2>2
  <2>5. u > wrapped /\ u < wrapped + want - 1 => cell'[u] = Data
    BY <1>2, <2>1, <2>2
  <2>6. u < wrapped \/ u >= wrapped + want => cell'[u] = cell[u]
    BY <1>2, <2>1, <2>2
  <2> QED BY <2>3, <2>4, <2>5, <2>6
<1>10. cell' \in [0 .. Alloc - 1 -> Cell]
  <2>1. HeadCell("undo", want) \in Cell /\ TailCell("undo", want) \in Cell
        /\ Data \in Cell
    <3>1. want \in 0 .. BufSize
      BY <1>2
    <3> QED BY <3>1, CellTypes
  <2> QED BY <1>1, <1>8, <2>1 DEF PutUndo
<1>11. Stored(cell', e)
  <2>1. wrapped + want - 1 \in 0 .. Alloc - 1
    BY <1>2, <1>5
  <2>2. \A u \in wrapped + 1 .. wrapped + want - 2 :
           u \in 0 .. Alloc - 1 /\ u > wrapped /\ u < wrapped + want - 1
    BY <1>2, <1>5
  <2>3. \A u \in wrapped + 1 .. wrapped + want - 2 : cell'[u] = Data
    BY <1>9, <2>2
  <2>4. cell'[wrapped] = HeadCell("undo", want)
    BY <1>2, <1>9
  <2>5. cell'[wrapped + want - 1] = TailCell("undo", want)
    BY <1>9, <2>1
  <2>6. \A u \in e.off + 1 .. End(e) - 2 : cell'[u] = Data
    BY <1>2, <1>6, <2>3
  <2>7. cell'[End(e) - 1] = TailCell(e.type, e.size)
    BY <1>2, <1>6, <2>5
  <2> QED BY <1>6, <2>4, <2>6, <2>7 DEF Stored
<1>12. \A u \in 0 .. Alloc - 1 : u < e.off \/ u >= End(e) => cell'[u] = cell[u]
  BY <1>6, <1>9
<1>13. TypeOK'
  <2>1. next' \in Off
    BY <1>1, <1>2, <1>5 DEF Off
  <2>2. log' \in Seq(Entry) /\ Len(log') = Len(log) + 1
    BY <1>1, <1>6 DEF TypeOK
  <2>3. nNext =< Len(log')
    BY <1>1, <2>2 DEF TypeOK
  <2>4. /\ first' \in Off /\ dNext' \in Off /\ dFirst' \in Off
        /\ want' \in Nat /\ (want' > 0 => want' >= 2 /\ want' < BufSize)
        /\ mode' \in {"up", "panic", "scan", "failed"}
    BY <1>1 DEF TypeOK, hdr
  <2>5. /\ scan' \in Off /\ bytes' \in Int /\ done' \in Seq(Entry)
        /\ nFirst' \in Nat /\ nNext' \in Nat /\ nFirst' =< nNext'
        /\ nNext' = nNext
    BY <1>1 DEF TypeOK, rec
  <2> QED BY <1>10, <2>1, <2>2, <2>3, <2>4, <2>5 DEF TypeOK
<1>14. D(dFirst, next) + e.size < Alloc /\ next' = End(e)
  BY <1>1, <1>2, <1>6
<1> QED
  BY <1>1, <1>6, <1>7, <1>11, <1>12, <1>13, <1>14, Appended DEF IInv

LEMMA GenerateStep == ASSUME NEW d \in DataSizes PROVE IInv /\ Generate(d) => IInv'
<1> SUFFICES ASSUME IInv, Generate(d) PROVE IInv'
  OBVIOUS
<1>1. /\ mode = "up" /\ mode' = mode /\ want' = HeadSize + d + 1
      /\ cell' = cell /\ next' = next /\ first' = first /\ dNext' = dNext
      /\ dFirst' = dFirst /\ log' = log /\ nFirst' = nFirst /\ nNext' = nNext
      /\ scan' = scan /\ bytes' = bytes /\ done' = done
  BY DEF Generate, undo_bytes, fifo, hdr, rec, hist
<1>2. want' \in Nat /\ want' >= 2 /\ want' < BufSize
  BY <1>1, SizeAssumption
<1>3. TypeOK'
  BY <1>1, <1>2 DEF IInv, TypeOK
<1>4. Laid' /\ Header' /\ Cached' /\ Scanning'
  BY <1>1 DEF IInv, Laid, Header, Cached, Scanning
<1> QED
  BY <1>3, <1>4 DEF IInv

LEMMA NoSpaceStep == IInv /\ NoSpace => IInv'
<1> SUFFICES ASSUME IInv, NoSpace PROVE IInv'
  OBVIOUS
<1>1. /\ mode = "up" /\ mode' = "panic" /\ want' = want
      /\ cell' = cell /\ next' = next /\ first' = first /\ dNext' = dNext
      /\ dFirst' = dFirst /\ log' = log /\ nFirst' = nFirst /\ nNext' = nNext
      /\ scan' = scan /\ bytes' = bytes /\ done' = done
  BY DEF NoSpace, fifo, hdr, rec, hist
<1>2. TypeOK'
  BY <1>1 DEF IInv, TypeOK
<1>3. Laid' /\ Header' /\ Cached' /\ Scanning'
  BY <1>1 DEF IInv, Laid, Header, Cached, Scanning
<1> QED
  BY <1>2, <1>3 DEF IInv

(* The header moves up: distances are measured from first_offset, which    *)
(* lies after nFirst entries.                                              *)
LEMMA SyncStep == ASSUME NEW final \in BOOLEAN PROVE IInv /\ Sync(final) => IInv'
<1> SUFFICES ASSUME IInv, Sync(final) PROVE IInv'
  OBVIOUS
<1> DEFINE L == Len(log)
           f == dFirst
           g == first
           k == nFirst
           M == Len(log')
<1>1. /\ mode = "up" /\ mode' = mode /\ dFirst' = g /\ dNext' = next /\ next' = next
      /\ first' = IF final THEN next ELSE g
      /\ log' = SubSeq(log, k + 1, L) /\ nNext' = M
      /\ nFirst' = IF final THEN M ELSE 0
      /\ cell' = cell /\ want' = want
      /\ scan' = scan /\ bytes' = bytes /\ done' = done
  BY DEF Sync, fifo, rec
<1>2. /\ log \in Seq(Entry) /\ L \in Nat /\ f \in Off /\ g \in Off /\ next \in Off
      /\ k \in Nat /\ k =< L /\ Alloc \in Nat \ {0}
  BY AllocNat DEF IInv, TypeOK
<1>3. /\ Chain(log, f) /\ \A i \in 1 .. L : Fits(log[i]) /\ Stored(cell, log[i])
      /\ At(log, f, next, L) /\ D(f, g) = E(log, f, k) /\ (k = L => g = next)
  BY <1>1 DEF IInv, Laid, Cached
<1>4. /\ log' \in Seq(Entry) /\ M = L - k /\ M \in Nat
      /\ \A i \in 1 .. M : log'[i] = log[k + i]
  <2>1. \A i \in 1 .. L : log[i] \in Entry
    BY <1>2
  <2>2. k + 1 \in 1 .. L + 1 /\ L \in k .. L
    BY <1>2
  <2> QED BY <1>1, <1>2, <2>1, <2>2
<1>5. \A i \in 1 .. M : k + i \in 1 .. L /\ k + i # 0 /\ k < k + i /\ k + i \in 0 .. L
  BY <1>2, <1>4
<1>6. \A i \in 1 .. M : /\ D(g, log'[i].off) = D(f, log'[i].off) - E(log, f, k)
                        /\ D(f, log'[i].off) \in Nat /\ log'[i].size \in Nat
                        /\ D(f, log'[i].off) >= E(log, f, k)
  <2> TAKE i \in 1 .. M
  <2>1. log'[i] \in Entry /\ log'[i] = log[k + i]
    BY <1>4
  <2>2. /\ log'[i].off \in Off /\ log'[i].off < Alloc /\ log'[i].size \in Nat
    BY <1>2, <2>1, EntryType DEF Off
  <2>3. E(log, f, k) =< D(f, log'[i].off)
    <3>1. k \in 0 .. L /\ k + i \in 0 .. L /\ k < k + i
      BY <1>2, <1>5
    <3> QED BY <1>2, <1>3, <2>1, <3>1, Ends
  <2>4. D(f, log'[i].off) \in Nat /\ E(log, f, k) \in Nat
    <3>1. k \in 0 .. L
      BY <1>2
    <3> QED BY <1>2, <1>3, <2>2, <3>1, DistanceType, Ends
  <2>5. D(g, log'[i].off) = D(f, log'[i].off) - D(f, g)
    BY <1>2, <1>3, <2>2, <2>3, Rebase
  <2> QED BY <1>3, <2>2, <2>3, <2>4, <2>5
<1>7. \A i \in 0 .. M : E(log', g, i) = E(log, f, k + i) - E(log, f, k)
  <2> TAKE i \in 0 .. M
  <2>1. E(log, f, k) \in Nat
    <3>1. k \in 0 .. L
      BY <1>2
    <3> QED BY <1>2, <1>3, <3>1, Ends
  <2>2. CASE i = 0
    <3>1. k + i = k /\ E(log', g, i) = 0
      BY <1>2, <2>2 DEF E
    <3> QED BY <2>1, <3>1
  <2>3. CASE i \in 1 .. M
    <3>1. E(log', g, i) = D(g, log'[i].off) + log'[i].size
      BY <1>4, <2>3 DEF E
    <3>2. E(log, f, k + i) = D(f, log'[i].off) + log'[i].size
      BY <1>4, <1>5, <2>3 DEF E
    <3> QED BY <1>6, <2>1, <2>3, <3>1, <3>2
  <2> QED BY <1>4, <2>2, <2>3
<1>8. \A i \in 0 .. L : E(log, f, i) \in Nat /\ E(log, f, i) < Alloc
  BY <1>2, <1>3, Ends
<1>9. D(g, next) = E(log', g, M)
  <2>1. k + M = L /\ M \in 0 .. M /\ k \in 0 .. L /\ L \in 0 .. L
    BY <1>2, <1>4
  <2>2. E(log', g, M) = D(f, next) - D(f, g)
    BY <1>3, <1>7, <2>1 DEF At
  <2>3. D(f, g) < D(f, next) \/ g = next
    <3>1. CASE k = L
      BY <1>3, <3>1
    <3>2. CASE k < L
      BY <1>2, <1>3, <2>1, <3>2, Ends DEF At
    <3> QED BY <1>2, <3>1, <3>2
  <2> QED BY <1>2, <2>2, <2>3, Rebase
<1>10. At(log', g, next, M)
  <2>1. ASSUME M >= 1 PROVE next = End(log'[M])
    <3>1. M \in 1 .. M /\ k + M = L /\ L >= 1
      BY <1>2, <1>4, <2>1
    <3>2. log'[M] = log[L]
      BY <1>4, <3>1
    <3> QED BY <1>3, <3>1, <3>2 DEF At
  <2> QED BY <1>9, <2>1 DEF At
<1>11. Chain(log', g)
  <2>1. \A i \in 1 .. M : D(g, log'[i].off) = E(log', g, i - 1)
    <3> TAKE i \in 1 .. M
    <3>1. i - 1 \in 0 .. M /\ k + (i - 1) = (k + i) - 1 /\ k + i \in 1 .. L
      BY <1>2, <1>4, <1>5
    <3>2. D(f, log'[i].off) = E(log, f, (k + i) - 1)
      BY <1>3, <1>4, <3>1 DEF Chain
    <3>3. E(log', g, i - 1) = E(log, f, (k + i) - 1) - E(log, f, k)
      BY <1>7, <3>1
    <3> QED BY <1>6, <3>2, <3>3
  <2>2. ASSUME NEW i \in 1 .. M, NEW j \in 1 .. M, i < j
        PROVE  E(log', g, i) =< D(g, log'[j].off)
    <3>1. k + i \in 1 .. L /\ k + j \in 1 .. L /\ k + i < k + j /\ k \in 0 .. L
          /\ i \in 0 .. M /\ k + i \in 0 .. L
      BY <1>2, <1>4, <1>5, <2>2
    <3>2. E(log, f, k + i) =< D(f, log'[j].off)
      BY <1>3, <1>4, <3>1 DEF Chain
    <3>3. E(log', g, i) = E(log, f, k + i) - E(log, f, k)
      BY <1>7, <3>1
    <3>4. /\ E(log, f, k + i) \in Nat /\ E(log, f, k) \in Nat
          /\ D(f, log'[j].off) \in Nat
          /\ D(g, log'[j].off) = D(f, log'[j].off) - E(log, f, k)
      BY <1>6, <1>8, <3>1
    <3> QED BY <3>2, <3>3, <3>4
  <2>3. \A i \in 1 .. M : E(log', g, i) < Alloc
    <3> TAKE i \in 1 .. M
    <3>1. i \in 0 .. M /\ k + i \in 0 .. L /\ k \in 0 .. L
      BY <1>2, <1>4, <1>5
    <3>2. E(log', g, i) = E(log, f, k + i) - E(log, f, k)
      BY <1>7, <3>1
    <3>3. E(log, f, k + i) \in Nat /\ E(log, f, k + i) < Alloc /\ E(log, f, k) \in Nat
      BY <1>8, <3>1
    <3> QED BY <1>2, <3>2, <3>3
  <2>4. \A i \in 1 .. M - 1 : Follows(log'[i], log'[i + 1])
    <3> TAKE i \in 1 .. M - 1
    <3>1. i \in 1 .. M /\ i + 1 \in 1 .. M /\ k + i \in 1 .. L - 1
          /\ k + (i + 1) = (k + i) + 1
      BY <1>2, <1>4
    <3>2. log'[i] = log[k + i] /\ log'[i + 1] = log[(k + i) + 1]
      BY <1>4, <3>1
    <3> QED BY <1>3, <3>1, <3>2 DEF Chain
  <2> QED BY <2>1, <2>2, <2>3, <2>4 DEF Chain
<1>12. Laid'
  <2>1. \A i \in 1 .. M : Fits(log'[i]) /\ Stored(cell', log'[i])
    BY <1>1, <1>3, <1>4, <1>5
  <2> QED BY <1>1, <1>11, <2>1 DEF Laid
<1>13. Header'
  BY <1>1, <1>10 DEF Header
<1>14. Cached'
  <2>1. CASE final
    BY <1>1, <1>9, <1>10, <2>1 DEF Cached
  <2>2. CASE ~final
    <3>1. D(g, g) = E(log', g, 0)
      BY <1>2, DistanceType DEF E
    <3>2. M = 0 => g = next
      BY <1>2, <1>3, <1>4
    <3> QED BY <1>1, <1>10, <2>2, <3>1, <3>2 DEF Cached
  <2> QED BY <2>1, <2>2
<1>15. Scanning'
  BY <1>1 DEF Scanning
<1>16. TypeOK'
  <2>1. /\ nFirst' \in Nat /\ nNext' \in Nat /\ nFirst' =< nNext' /\ nNext' =< Len(log')
    BY <1>1, <1>4
  <2>2. /\ dFirst' \in Off /\ dNext' \in Off /\ next' \in Off /\ first' \in Off
    BY <1>1, <1>2
  <2> QED BY <1>1, <1>4, <2>1, <2>2 DEF IInv, TypeOK
<1> QED
  BY <1>12, <1>13, <1>14, <1>15, <1>16 DEF IInv

(* A crash loses the entries after the header's next_offset.               *)
LEMMA CrashStep == IInv /\ Crash => IInv'
<1> SUFFICES ASSUME IInv, Crash PROVE IInv'
  OBVIOUS
<1> DEFINE L == Len(log)
           f == dFirst
           n == nNext
<1>1. /\ mode' = "scan" /\ scan' = dNext /\ bytes' = recover_bytes /\ done' = <<>>
      /\ want' = 0 /\ log' = SubSeq(log, 1, n)
      /\ cell' = cell /\ next' = next /\ first' = first /\ dNext' = dNext
      /\ dFirst' = f /\ nFirst' = nFirst /\ nNext' = n
  BY DEF Crash, fifo, hdr
<1>2. /\ log \in Seq(Entry) /\ L \in Nat /\ f \in Off /\ dNext \in Off
      /\ n \in Nat /\ n =< L /\ Alloc \in Nat \ {0}
  BY AllocNat DEF IInv, TypeOK
<1>3. /\ Chain(log, f) /\ \A i \in 1 .. L : Fits(log[i]) /\ Stored(cell, log[i])
      /\ At(log, f, dNext, n)
  BY DEF IInv, Laid, Header
<1>4. /\ log' \in Seq(Entry) /\ Len(log') = n /\ \A i \in 1 .. n : log'[i] = log[i]
  <2>1. \A i \in 1 .. L : log[i] \in Entry
    BY <1>2
  <2> QED BY <1>1, <1>2, <2>1
<1>5. \A i \in 1 .. n : i \in 1 .. L
  BY <1>2
<1>6. \A i \in 0 .. n : E(log', f, i) = E(log, f, i)
  <2>1. \A i \in 0 .. n : i = 0 \/ i \in 1 .. n
    BY <1>2
  <2> QED BY <1>4, <2>1 DEF E
<1>7. Chain(log', f)
  <2>1. \A i \in 1 .. n : i - 1 \in 0 .. n /\ i \in 0 .. n
    BY <1>2
  <2>2. \A i \in 1 .. n : D(f, log'[i].off) = E(log', f, i - 1)
    BY <1>3, <1>4, <1>5, <1>6, <2>1 DEF Chain
  <2>3. \A i, j \in 1 .. n : i < j => E(log', f, i) =< D(f, log'[j].off)
    BY <1>3, <1>4, <1>5, <1>6, <2>1 DEF Chain
  <2>4. \A i \in 1 .. n : E(log', f, i) < Alloc
    BY <1>3, <1>4, <1>5, <1>6, <2>1 DEF Chain
  <2>5. \A i \in 1 .. n - 1 : Follows(log'[i], log'[i + 1])
    <3>1. \A i \in 1 .. n - 1 : i \in 1 .. n /\ i + 1 \in 1 .. n /\ i \in 1 .. L - 1
      BY <1>2
    <3> QED BY <1>3, <1>4, <3>1 DEF Chain
  <2> QED BY <1>4, <2>2, <2>3, <2>4, <2>5 DEF Chain
<1>8. Laid'
  <2>1. \A i \in 1 .. n : Fits(log'[i]) /\ Stored(cell', log'[i])
    BY <1>1, <1>3, <1>4, <1>5
  <2> QED BY <1>1, <1>4, <1>7, <2>1 DEF Laid
<1>9. At(log', f, dNext, n)
  <2>1. n \in 0 .. n /\ (n >= 1 => n \in 1 .. n)
    BY <1>2
  <2> QED BY <1>3, <1>4, <1>6, <2>1 DEF At
<1>10. Header' /\ Cached'
  BY <1>1, <1>9 DEF Header, Cached
<1>11. bytes' = D(f, dNext)
  BY <1>1, <1>2 DEF recover_bytes, D, Off
<1>12. Scanning'
  <2>1. Len(done') = 0 /\ n - Len(done') = n
    BY <1>1, <1>2
  <2>2. bytes' = E(log', f, n)
    BY <1>9, <1>11 DEF At
  <2>3. n >= 1 => scan' = End(log'[n])
    BY <1>1, <1>9 DEF At
  <2> QED BY <1>1, <1>2, <1>4, <2>1, <2>2, <2>3 DEF Scanning
<1>13. TypeOK'
  <2>1. bytes' \in Int /\ scan' \in Off /\ done' \in Seq(Entry)
    BY <1>1, <1>2, <1>11, DistanceType
  <2>2. nNext' =< Len(log') /\ want' \in Nat /\ want' = 0
    BY <1>1, <1>2, <1>4
  <2> QED BY <1>1, <1>4, <2>1, <2>2 DEF IInv, TypeOK
<1> QED
  BY <1>8, <1>10, <1>12, <1>13 DEF IInv

LEMMA ScanWrapStep == IInv /\ ScanWrap => IInv'
<1> SUFFICES ASSUME IInv, ScanWrap PROVE IInv'
  OBVIOUS
<1> DEFINE k == nNext - Len(done)
<1>1. /\ mode = "scan" /\ mode' = mode /\ scan = 0 /\ bytes > 0 /\ scan' = Alloc
      /\ want' = want /\ bytes' = bytes /\ done' = done
      /\ cell' = cell /\ next' = next /\ first' = first /\ dNext' = dNext
      /\ dFirst' = dFirst /\ log' = log /\ nFirst' = nFirst /\ nNext' = nNext
  BY DEF ScanWrap, fifo, hdr, hist
<1>2. /\ k \in Nat /\ Len(log) = nNext
      /\ \A j \in 1 .. Len(done) : done[j] = log[nNext + 1 - j]
      /\ bytes = E(log, dFirst, k)
      /\ k >= 1 => scan = End(log[k]) \/ (scan = 0 /\ End(log[k]) = Alloc)
  BY <1>1 DEF IInv, Scanning
<1>3. TypeOK'
  <2>1. scan' \in Off
    BY <1>1, AllocNat DEF Off
  <2> QED BY <1>1, <2>1 DEF IInv, TypeOK
<1>4. Laid' /\ Header' /\ Cached'
  BY <1>1 DEF IInv, Laid, Header, Cached
<1>5. k >= 1 => scan' = End(log[k])
  <2> SUFFICES ASSUME k >= 1 PROVE scan' = End(log[k])
    OBVIOUS
  <2>1. log[k] \in Entry
    <3>1. log \in Seq(Entry) /\ done \in Seq(Entry) /\ nNext \in Nat
      BY DEF IInv, TypeOK
    <3>2. k \in 1 .. Len(log)
      BY <1>2, <3>1
    <3> QED BY <3>1, <3>2
  <2>2. End(log[k]) > 0
    BY <2>1, EntryType
  <2> QED BY <1>1, <1>2, <2>2
<1>6. Scanning'
  BY <1>1, <1>2, <1>5 DEF Scanning
<1> QED
  BY <1>3, <1>4, <1>6 DEF IInv

(* The scan reads the tail of entry k, and finds its head.                 *)
LEMMA ScanRecordStep == IInv /\ ScanRecord => IInv'
<1> SUFFICES ASSUME IInv, ScanRecord PROVE IInv'
  OBVIOUS
<1> DEFINE k == nNext - Len(done)
           n == cell[scan - 1].size
           e == log[k]
           new == [off |-> scan - n, size |-> n, type |-> cell[scan - n].type]
<1>1. /\ mode = "scan" /\ scan # 0 /\ bytes > 0
      /\ want' = want
      /\ cell' = cell /\ next' = next /\ first' = first /\ dNext' = dNext
      /\ dFirst' = dFirst /\ log' = log /\ nFirst' = nFirst /\ nNext' = nNext
  BY DEF ScanRecord, fifo, hdr, hist
<1>2. /\ log \in Seq(Entry) /\ done \in Seq(Entry) /\ Len(log) \in Nat
      /\ Len(done) \in Nat /\ nNext \in Nat /\ dFirst \in Off
      /\ Alloc \in Nat \ {0}
  BY AllocNat DEF IInv, TypeOK
<1>3. /\ k \in Nat /\ Len(log) = nNext
      /\ \A j \in 1 .. Len(done) : done[j] = log[nNext + 1 - j]
      /\ bytes = E(log, dFirst, k)
      /\ k >= 1 => scan = End(log[k]) \/ (scan = 0 /\ End(log[k]) = Alloc)
  BY <1>1 DEF IInv, Scanning
<1>4. k \in 1 .. Len(log) /\ k \in 1 .. nNext
  <2>1. k # 0
    BY <1>1, <1>3 DEF E
  <2> QED BY <1>2, <1>3, <2>1
<1>5. e \in Entry /\ Fits(e) /\ Stored(cell, e) /\ scan = End(e)
  <2>1. e \in Entry
    BY <1>2, <1>4
  <2>2. Fits(e) /\ Stored(cell, e)
    BY <1>4 DEF IInv, Laid
  <2> QED BY <1>1, <1>3, <1>4, <2>1, <2>2
<1>6. /\ e.off \in Nat /\ e.size \in Nat /\ e.size >= 1 /\ e.off \in Off
      /\ e.off < Alloc
      /\ scan = e.off + e.size /\ e.type \in {"pad", "undo"}
  BY <1>2, <1>5, EntryType DEF End, Off
<1>7. /\ tail_ok(scan) /\ undo_ok(e.off) /\ n = e.size
      /\ cell[e.off] = HeadCell(e.type, e.size)
  BY <1>5, ReadBack
<1>8. scan - n = e.off
  BY <1>6, <1>7
<1>9. new = e
  <2>1. cell[scan - n].type = e.type
    BY <1>7, <1>8 DEF HeadCell
  <2> QED BY <1>5, <1>7, <1>8, <2>1 DEF Entry
<1>10. scan' = e.off /\ bytes' = bytes - n /\ done' = Append(done, new) /\ mode' = mode
  BY <1>7, <1>8 DEF ScanRecord
<1>11. /\ done' = Append(done, e) /\ done' \in Seq(Entry)
       /\ Len(done') = Len(done) + 1 /\ done'[Len(done) + 1] = e
       /\ \A j \in 1 .. Len(done) : done'[j] = done[j]
  BY <1>2, <1>5, <1>9, <1>10
<1>12. TypeOK'
  <2>1. bytes' \in Int
    BY <1>6, <1>7, <1>10 DEF IInv, TypeOK
  <2> QED BY <1>1, <1>6, <1>10, <1>11, <2>1 DEF IInv, TypeOK
<1>13. Laid' /\ Header' /\ Cached'
  BY <1>1, <1>10 DEF IInv, Laid, Header, Cached
<1>14. Scanning'
  <2>1. nNext' - Len(done') = k - 1 /\ k - 1 \in Nat
    BY <1>1, <1>2, <1>4, <1>11
  <2>2. \A j \in 1 .. Len(done') : done'[j] = log[nNext + 1 - j]
    <3>1. \A j \in 1 .. Len(done') : j \in 1 .. Len(done) \/ j = Len(done) + 1
      BY <1>2, <1>11
    <3>2. nNext + 1 - (Len(done) + 1) = k
      BY <1>2
    <3> QED BY <1>3, <1>11, <3>1, <3>2
  <2>3. bytes' = E(log, dFirst, k - 1)
    <3>1. E(log, dFirst, k) = D(dFirst, e.off) + e.size
      BY <1>4 DEF E
    <3>2. D(dFirst, e.off) = E(log, dFirst, k - 1)
      BY <1>4 DEF IInv, Laid, Chain
    <3>3. D(dFirst, e.off) \in Nat
      BY <1>2, <1>6, DistanceType
    <3> QED BY <1>3, <1>6, <1>7, <1>10, <3>1, <3>2, <3>3
  <2>4. ASSUME k - 1 >= 1
        PROVE  \/ scan' = End(log[k - 1])
               \/ scan' = 0 /\ End(log[k - 1]) = Alloc
    <3>1. k - 1 \in 1 .. Len(log) - 1 /\ (k - 1) + 1 = k
      BY <1>2, <1>4, <2>4
    <3>2. Follows(log[k - 1], log[(k - 1) + 1])
      BY <3>1 DEF IInv, Laid, Chain
    <3> QED BY <1>10, <3>1, <3>2 DEF Follows
  <2> QED BY <1>1, <1>3, <1>10, <2>1, <2>2, <2>3, <2>4 DEF Scanning
<1> QED
  BY <1>12, <1>13, <1>14 DEF IInv

LEMMA ScanEndStep == IInv /\ ScanEnd => IInv'
<1> SUFFICES ASSUME IInv, ScanEnd PROVE IInv'
  OBVIOUS
<1>1. /\ mode' = "up" /\ first' = dNext /\ next' = dNext /\ dFirst' = dNext
      /\ log' = <<>> /\ nFirst' = 0 /\ nNext' = 0 /\ scan' = 0 /\ bytes' = 0
      /\ done' = <<>> /\ cell' = cell /\ dNext' = dNext /\ want' = want
  BY DEF ScanEnd
<1>2. dNext \in Off /\ 0 \in Off /\ Len(log') = 0 /\ log' \in Seq(Entry)
  BY <1>1, AllocNat DEF IInv, TypeOK, Off
<1>3. TypeOK'
  BY <1>1, <1>2 DEF IInv, TypeOK
<1>4. D(dNext, dNext) = E(log', dNext, 0)
  BY <1>2, DistanceType DEF E
<1>5. Laid'
  BY <1>1, <1>2 DEF Laid, Chain
<1>6. Header' /\ Cached' /\ Scanning'
  BY <1>1, <1>2, <1>4 DEF Header, Cached, Scanning, At
<1> QED
  BY <1>3, <1>5, <1>6 DEF IInv
-----------------------------------------------------------------------------
LEMMA InitStep == Init => IInv
<1> SUFFICES ASSUME Init PROVE IInv
  OBVIOUS
<1>1. /\ mode = "up" /\ log = <<>> /\ done = <<>> /\ nFirst = 0 /\ nNext = 0
      /\ first = 0 /\ next = 0 /\ dFirst = 0 /\ dNext = 0 /\ scan = 0 /\ bytes = 0
      /\ want = 0 /\ cell = [u \in 0 .. Alloc - 1 |-> Blank]
  BY DEF Init
<1>2. 0 \in Off /\ 0 \in 0 .. BufSize /\ Len(log) = 0 /\ log \in Seq(Entry)
  BY <1>1, AllocNat DEF Off
<1>3. Blank \in Cell
  BY <1>2 DEF Blank, Cell
<1>4. TypeOK
  BY <1>1, <1>2, <1>3 DEF TypeOK
<1>5. D(0, 0) = E(log, 0, 0)
  BY <1>2, DistanceType DEF E
<1>6. Laid
  BY <1>1, <1>2 DEF Laid, Chain
<1>7. Header /\ Cached /\ Scanning
  BY <1>1, <1>2, <1>5 DEF Header, Cached, Scanning, At
<1> QED
  BY <1>4, <1>6, <1>7 DEF IInv

LEMMA NextStep == IInv /\ [Next]_vars => IInv'
<1> SUFFICES ASSUME IInv, [Next]_vars PROVE IInv'
  OBVIOUS
<1>1. ASSUME NEW d \in DataSizes, Generate(d) PROVE IInv'
  BY <1>1, GenerateStep
<1>2. CASE NoSpace
  BY <1>2, NoSpaceStep
<1>3. CASE Pad
  BY <1>3, PadStep
<1>4. CASE Lay
  BY <1>4, LayStep
<1>5. ASSUME NEW final \in BOOLEAN, Sync(final) PROVE IInv'
  BY <1>5, SyncStep
<1>6. CASE Crash
  BY <1>6, CrashStep
<1>7. CASE ScanWrap
  BY <1>7, ScanWrapStep
<1>8. CASE ScanRecord
  BY <1>8, ScanRecordStep
<1>9. CASE ScanEnd
  BY <1>9, ScanEndStep
<1>10. CASE UNCHANGED vars
  <2>1. /\ mode' = mode /\ want' = want /\ scan' = scan /\ bytes' = bytes
        /\ done' = done /\ cell' = cell /\ next' = next /\ first' = first
        /\ dNext' = dNext /\ dFirst' = dFirst /\ log' = log /\ nFirst' = nFirst
        /\ nNext' = nNext
    BY <1>10 DEF vars, fifo, hdr, rec, hist
  <2> QED BY <2>1 DEF IInv, TypeOK, Laid, Header, Cached, Scanning
<1> QED
  BY <1>1, <1>2, <1>3, <1>4, <1>5, <1>6, <1>7, <1>8, <1>9, <1>10 DEF Next

(* The entries from the header's first_offset on lie end to end on less    *)
(* than the whole zone, each in one buffer and on the media, and the       *)
(* header, the cached offsets and the scan each stand at an entry's end.   *)
THEOREM Invariant == Spec => []IInv
<1>1. Init => IInv
  BY InitStep
<1>2. IInv /\ [Next]_vars => IInv'
  BY NextStep
<1> QED
  BY <1>1, <1>2, PTL DEF Spec

(* hammer_generate_undo() never overwrites an entry the recovery may need, *)
(* whatever the sizes: hammer_undo_space() leaves the head room in front   *)
(* of the header's first_offset, and a PAD is never longer than the record *)
(* it makes way for.                                                       *)
THEOREM EntriesKept == Spec => []EntriesIntact
<1>1. IInv => EntriesIntact
  <2> SUFFICES ASSUME IInv, NEW i \in DOMAIN log
               PROVE  LET e == log[i]
                      IN /\ tail_ok(e.off + e.size) /\ undo_ok(e.off)
                         /\ cell[e.off] = HeadCell(e.type, e.size)
                         /\ cell[e.off + e.size - 1].size = e.size
                         /\ e.off \div BufSize = (e.off + e.size - 1) \div BufSize
    BY DEF EntriesIntact
  <2>1. log \in Seq(Entry) /\ i \in 1 .. Len(log)
    BY DEF IInv, TypeOK
  <2>2. log[i] \in Entry /\ Fits(log[i]) /\ Stored(cell, log[i])
    BY <2>1 DEF IInv, Laid
  <2>3. /\ tail_ok(End(log[i])) /\ undo_ok(log[i].off)
        /\ cell[log[i].off] = HeadCell(log[i].type, log[i].size)
        /\ cell[End(log[i]) - 1].size = log[i].size
        /\ log[i].off \div BufSize = (End(log[i]) - 1) \div BufSize
    BY <2>2, ReadBack
  <2>4. /\ log[i].off + log[i].size = End(log[i])
        /\ log[i].off \in Nat /\ log[i].size \in Nat
    BY <2>2, EntryType DEF End
  <2> QED BY <2>3, <2>4
<1> QED
  BY <1>1, Invariant, PTL

(* hammer_recover()'s backward scan never fails on a FIFO the code has     *)
(* laid down, visits the entries the header claims and no others, last to  *)
(* first, and ends at the header's first_offset, also around the zone.     *)
THEOREM ScanIsExact == Spec => []ScanFindsAll
<1>1. IInv => ScanFindsAll
  <2> SUFFICES ASSUME IInv, mode = "scan"
               PROVE  /\ done = Reverse(SubSeq(log, nNext - Len(done) + 1, nNext))
                      /\ bytes =< 0 => bytes = 0 /\ Len(done) = nNext
    BY DEF ScanFindsAll, IInv, Scanning
  <2> DEFINE k == nNext - Len(done)
             s == SubSeq(log, k + 1, nNext)
  <2>1. /\ log \in Seq(Entry) /\ done \in Seq(Entry) /\ Len(log) \in Nat
        /\ Len(done) \in Nat /\ nNext \in Nat /\ dFirst \in Off
    BY DEF IInv, TypeOK
  <2>2. /\ k \in Nat /\ Len(log) = nNext
        /\ \A j \in 1 .. Len(done) : done[j] = log[nNext + 1 - j]
        /\ bytes = E(log, dFirst, k)
    BY DEF IInv, Scanning
  <2>3. /\ Len(s) = Len(done)
        /\ \A j \in 1 .. Len(done) : s[j] = log[k + j]
    <3>1. k + 1 \in 1 .. nNext + 1 /\ nNext \in k .. Len(log)
      BY <2>1, <2>2
    <3>2. \A i \in 1 .. Len(log) : log[i] \in Entry
      BY <2>1
    <3> QED BY <2>1, <2>2, <3>1, <3>2
  <2>4. done = Reverse(s)
    <3> HIDE DEF s
    <3>1. Reverse(s) = [j \in 1 .. Len(done) |-> s[(Len(done) - j) + 1]]
      BY <2>3 DEF Reverse
    <3>2. \A j \in 1 .. Len(done) : s[(Len(done) - j) + 1] = done[j]
      <4> TAKE j \in 1 .. Len(done)
      <4>1. (Len(done) - j) + 1 \in 1 .. Len(done)
            /\ k + ((Len(done) - j) + 1) = nNext + 1 - j
        BY <2>1
      <4> QED BY <2>2, <2>3, <4>1
    <3>3. done = [j \in 1 .. Len(done) |-> done[j]]
      BY <2>1
    <3> QED BY <3>1, <3>2, <3>3
  <2>5. ASSUME bytes =< 0 PROVE bytes = 0 /\ Len(done) = nNext
    <3>1. k = 0
      <4> SUFFICES ASSUME k # 0 PROVE FALSE
        OBVIOUS
      <4>1. k \in 1 .. Len(log)
        BY <2>1, <2>2
      <4>2. E(log, dFirst, k) > 0 /\ E(log, dFirst, k) \in Nat
        <5>1. Chain(log, dFirst) /\ k \in 0 .. Len(log)
          BY <2>1, <4>1 DEF IInv, Laid
        <5> QED BY <2>1, <4>1, <5>1, Ends
      <4> QED BY <2>2, <2>5, <4>2
    <3> QED BY <2>1, <2>2, <3>1 DEF E
  <2> QED BY <2>4, <2>5
<1> QED
  BY <1>1, Invariant, PTL
=============================================================================
