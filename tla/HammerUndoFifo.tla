--------------------------- MODULE HammerUndoFifo ---------------------------
(***************************************************************************)
(* The layout of the UNDO FIFO: where hammer_generate_undo() puts records  *)
(* and PADs, how hammer_undo_used() measures it, and how hammer_recover()  *)
(* finds the records again, backwards, from their tails alone.             *)
(*                                                                         *)
(* Offsets count 8-byte units (HAMMER_HEAD_ALIGN = sizeof(hammer_fifo_tail)*)
(* = 8, and every entry is a multiple of it) from the start of the UNDO    *)
(* zone.  A cell of the media holds what the code reads back: a head, a    *)
(* tail or data.  The contents and order of the writes are HammerUndo's    *)
(* business: here a volume header is synchronized in one step.             *)
(*                                                                         *)
(* An operator named after another one with a suffix (X, X_late) is not    *)
(* part of the model: it is a slip the code could have made, which the     *)
(* mutation runs put in the place of X to show that a property sees it.    *)
(***************************************************************************)
EXTENDS Integers, Sequences, SequencesExt

CONSTANTS
  BufSize,    \* HAMMER_BUFSIZE, in units
  NumBufs,    \* buffers in the UNDO zone
  HeadSize,   \* sizeof(struct hammer_fifo_undo), in units
  DataSizes,  \* lengths of the ranges recorded, in units
  Reserve     \* head room insisted on: two buffers in the code

ASSUME SizeAssumption ==
  /\ BufSize \in Nat \ {0} /\ NumBufs \in Nat \ {0}
  /\ HeadSize \in Nat \ {0} /\ Reserve \in Nat \ {0}
  /\ \A d \in DataSizes : d \in Nat /\ HeadSize + d + 1 < BufSize

VARIABLES
  cell,           \* the zone's cells
  next, first,    \* cached next_offset and first_offset
  dNext, dFirst,  \* those in the volume header
  want,           \* size of the record being laid down, 0 when none
  mode,           \* "up", "panic", "scan", "failed"
  scan, bytes,    \* hammer_recover's scan_offset and bytes
  \* history variables
  log,            \* entries from dFirst on, oldest first
  nFirst, nNext,  \* how many of them lie before first, and before dNext
  done            \* entries the scan has found, in order

fifo == <<cell, next>>
hdr  == <<dNext, dFirst>>
hist == <<log, nFirst, nNext>>
rec  == <<scan, bytes, done>>
vars == <<fifo, first, hdr, want, mode, rec, hist>>

Alloc == BufSize * NumBufs       \* alloc_offset
Off   == 0 .. Alloc
Cell  == [sig : {"none", "head", "tail", "data"}, type : {"pad", "undo"},
          size : 0 .. BufSize]
Blank == [sig |-> "none", type |-> "pad", size |-> 0]
Data  == [sig |-> "data", type |-> "undo", size |-> 0]
HeadCell(ty, n) == [sig |-> "head", type |-> ty, size |-> n]
TailCell(ty, n) == [sig |-> "tail", type |-> ty, size |-> n]

-----------------------------------------------------------------------------
(* hammer_undo_used, hammer_undo_space.                                    *)
undo_used  == IF dFirst =< next THEN next - dFirst ELSE Alloc - dFirst + next
undo_space == Alloc - undo_used

(* The size of a record for d units of data.                               *)
undo_bytes(d) == HeadSize + d + 1

(* The entry would cross, or exactly reach, a buffer boundary: the XOR     *)
(* test on next_offset and next_offset + bytes.                            *)
crosses_never(off, n) == FALSE
crosses(off, n) == off \div BufSize # (off + n) \div BufSize

(* What the code writes for a PAD and for a record of n units at off.      *)
PutPad(off, n) ==
  [u \in DOMAIN cell |-> CASE u = off -> HeadCell("pad", n)
                           [] u # off /\ u = off + n - 1 -> TailCell("pad", n)
                           [] OTHER -> cell[u]]
PutUndo(off, n) ==
  [u \in DOMAIN cell |-> CASE u = off -> HeadCell("undo", n)
                           [] u = off + n - 1 -> TailCell("undo", n)
                           [] u > off /\ u < off + n - 1 -> Data
                           [] OTHER -> cell[u]]

(* hammer_generate_undo is entered with undo_lock held.                    *)
Generate(d) ==
  /\ mode = "up" /\ want = 0
  /\ want' = undo_bytes(d)
  /\ UNCHANGED <<fifo, first, hdr, mode, rec, hist>>

(* next_offset after the wrap at the end of the zone.                      *)
wrapped == IF next = Alloc THEN 0 ELSE next

HaveSpace == undo_space >= want + Reserve

(* "hammer: insufficient undo FIFO space!"                                 *)
NoSpace ==
  /\ mode = "up" /\ want > 0 /\ ~HaveSpace
  /\ mode' = "panic"
  /\ UNCHANGED <<fifo, first, hdr, want, rec, hist>>

Pad ==
  /\ mode = "up" /\ want > 0 /\ HaveSpace
  /\ crosses(wrapped, want)
  /\ LET n == BufSize - (wrapped % BufSize)
     IN /\ cell' = PutPad(wrapped, n)
        /\ next' = wrapped + n
        /\ log' = Append(log, [off |-> wrapped, size |-> n, type |-> "pad"])
  /\ UNCHANGED <<first, hdr, want, mode, rec, nFirst, nNext>>

Lay ==
  /\ mode = "up" /\ want > 0 /\ HaveSpace
  /\ ~crosses(wrapped, want)
  /\ cell' = PutUndo(wrapped, want)
  /\ next' = wrapped + want
  /\ want' = 0
  /\ log' = Append(log, [off |-> wrapped, size |-> want, type |-> "undo"])
  /\ UNCHANGED <<first, hdr, mode, rec, nFirst, nNext>>

(* hammer_flusher_finalize writes the header; a final call then moves the  *)
(* cached first_offset up.                                                 *)
Sync(final) ==
  /\ mode = "up" /\ want = 0
  /\ dFirst' = first /\ dNext' = next
  /\ first' = IF final THEN next ELSE first
  /\ log' = SubSeq(log, nFirst + 1, Len(log))
  /\ nNext' = Len(log')
  /\ nFirst' = IF final THEN Len(log') ELSE 0
  /\ UNCHANGED <<fifo, want, mode, rec>>

-----------------------------------------------------------------------------
(* hammer_recover: how much UNDO the header claims.                        *)
recover_bytes_nowrap == dNext - dFirst
recover_bytes ==
  IF dNext >= dFirst THEN dNext - dFirst ELSE Alloc - dFirst + dNext

(* A crash, then the next mount starts the scan at the header's            *)
(* next_offset.                                                            *)
Crash ==
  /\ mode # "failed"
  /\ mode' = "scan"
  /\ scan' = dNext
  /\ bytes' = recover_bytes
  /\ done' = <<>>
  /\ want' = 0
  /\ log' = SubSeq(log, 1, nNext)
  /\ UNCHANGED <<fifo, first, hdr, nFirst, nNext>>

(* hammer_check_tail_signature.                                            *)
tail_ok(end) ==
  LET t == cell[end - 1]
  IN /\ t.sig = "head" => t.type = "pad" /\ t.size = 1
     /\ t.size >= 1 /\ t.size =< ((end - 1) % BufSize) + 1

(* hammer_recover_undo's checks of the record at off; the CRC stands for   *)
(* the data being what was written.                                        *)
undo_ok(off) ==
  LET h == cell[off]
  IN /\ h.sig = "head"
     /\ h.size >= 1 /\ h.size =< BufSize - (off % BufSize)
     /\ h.type = "undo" =>
          /\ \A u \in off + 1 .. off + h.size - 2 : cell[u] = Data
          /\ cell[off + h.size - 1].size = h.size
          /\ cell[off + h.size - 1].type = h.type

ScanWrap ==
  /\ mode = "scan" /\ bytes > 0 /\ scan = 0
  /\ scan' = Alloc
  /\ UNCHANGED <<fifo, first, hdr, want, mode, bytes, hist, done>>

ScanRecord ==
  /\ mode = "scan" /\ bytes > 0 /\ scan # 0
  /\ LET n   == cell[scan - 1].size
         off == scan - n
     IN IF tail_ok(scan) /\ undo_ok(off)
          THEN /\ scan' = off
               /\ bytes' = bytes - n
               /\ done' = Append(done, [off |-> off, size |-> n,
                                        type |-> cell[off].type])
               /\ UNCHANGED mode
          ELSE mode' = "failed" /\ UNCHANGED <<scan, bytes, done>>
  /\ UNCHANGED <<fifo, first, hdr, want, hist>>

(* The FIFO is forced to zero length where it ended.                       *)
ScanEnd ==
  /\ mode = "scan" /\ bytes =< 0
  /\ mode' = "up"
  /\ first' = dNext /\ next' = dNext /\ dFirst' = dNext
  /\ log' = <<>> /\ nFirst' = 0 /\ nNext' = 0
  /\ scan' = 0 /\ bytes' = 0 /\ done' = <<>>
  /\ UNCHANGED <<cell, dNext, want>>

-----------------------------------------------------------------------------
Init ==
  /\ cell = [u \in 0 .. Alloc - 1 |-> Blank]
  /\ next = 0 /\ first = 0 /\ dNext = 0 /\ dFirst = 0
  /\ want = 0 /\ mode = "up" /\ scan = 0 /\ bytes = 0
  /\ log = <<>> /\ nFirst = 0 /\ nNext = 0 /\ done = <<>>

Next ==
  \/ \E d \in DataSizes : Generate(d)
  \/ NoSpace \/ Pad \/ Lay
  \/ \E final \in BOOLEAN : Sync(final)
  \/ Crash \/ ScanWrap \/ ScanRecord \/ ScanEnd

Spec == Init /\ [][Next]_vars

-----------------------------------------------------------------------------
(* Properties.                                                             *)

(* Nothing in use is overwritten: every entry since the header's           *)
(* first_offset can still be read, whatever was laid down since, and lies  *)
(* within one buffer ("All undo structures are guaranteed to not cross a   *)
(* 16K filesystem buffer boundary").                                       *)
EntriesIntact ==
  \A i \in DOMAIN log :
    LET e == log[i]
    IN /\ tail_ok(e.off + e.size) /\ undo_ok(e.off)
       /\ cell[e.off] = HeadCell(e.type, e.size)
       /\ cell[e.off + e.size - 1].size = e.size
       /\ e.off \div BufSize = (e.off + e.size - 1) \div BufSize

(* The backward scan finds every entry the header claims and nothing else, *)
(* last to first, and ends exactly at the header's first_offset: a tail is *)
(* never misread, also for the 8-byte PAD whose tail is its head.          *)
ScanFindsAll ==
  /\ mode # "failed"
  /\ mode = "scan" =>
       /\ done = Reverse(SubSeq(log, nNext - Len(done) + 1, nNext))
       /\ bytes =< 0 => bytes = 0 /\ Len(done) = nNext
=============================================================================
