---------------------------- MODULE HammerBlockmap ----------------------------
(***************************************************************************)
(* The big-block allocator (hammer_blockmap.c): allocation and freeing by  *)
(* the back end, reservations by the front end for direct writes, and the  *)
(* delay list that keeps a freed big-block from being reused until the     *)
(* flushes that freed it have cycled.                                      *)
(*                                                                         *)
(* Space is a set of big-blocks of Units allocation units each, all in one *)
(* layer1 entry; a request takes one unit, a cell.  Big-blocks being 8MB   *)
(* and requests at most 64KB, the padding at buffer boundaries is left     *)
(* out.  A back-end operation runs under sync_lock and blkmap_lock, and is *)
(* one step unless it goes on after a sleep with what it read before it:   *)
(* hammer_blockmap_alloc does.  The layers it is changing are seen under   *)
(* those locks only, but reservations come to an end without them.  What a *)
(* crash restores is what HammerUndo shows: the state at the last flush    *)
(* boundary the volume header committed (snapD), and next the one after it *)
(* (snapC).                                                                *)
(*                                                                         *)
(* An operator named after another one with a suffix (X, X_late) is not    *)
(* part of the model: it is a slip the code could have made, which the     *)
(* mutation runs put in the place of X to show that a property sees it.    *)
(***************************************************************************)
EXTENDS Integers, Sequences, SequencesExt, FiniteSets

CONSTANTS
  Block,     \* big-blocks
  Units,     \* allocation units in a big-block
  Zone,      \* zones that allocate
  NoZone,    \* zone 0
  Rec,       \* in-memory data records that hold a reservation
  SeqSpan    \* flush cycle numbers are machine words: 2^32

ASSUME BlockmapAssumption ==
  /\ Block # {} /\ IsFiniteSet(Block) /\ Units \in Nat \ {0}
  /\ NoZone \notin Zone
  /\ IsFiniteSet(Rec)
  /\ SeqSpan \in Nat /\ SeqSpan > 3

VARIABLES
  l2,          \* layer2 of each big-block: zone, append_off, bytes_free
  blocksFree,  \* layer1->blocks_free (and vol0_stat_freebigblocks)
  live,        \* the cells the B-Tree refers to
  res,         \* rb_resv_root: the reservation of each big-block
  delay,       \* delay_list
  rec,         \* per record: its reserved cell
  alloc,       \* the hammer_blockmap_alloc that sleeps: its zone and cell
  act, next,   \* flusher.act, flusher.next
  cyc,         \* where the flusher's master is in its cycle
  dirty,       \* something was modified since the last final call
  undoFlag,    \* HMNT_UNDO_DIRTY
  snapC, snapD \* history: the states a crash may restore

meta  == <<l2, blocksFree, live>>
rsv   == <<res, delay, rec, alloc>>
seqs  == <<act, next, cyc>>
fifo  == <<dirty, undoFlag, snapC, snapD>>
vars  == <<meta, rsv, seqs, fifo>>

Cell    == Block \X (0 .. Units - 1)
blk(p)  == p[1]
off(p)  == p[2]
Inc(n)  == (n + 1) % SeqSpan
NoCell  == <<>>
Free2   == [zone |-> NoZone, append_off |-> 0, bytes_free |-> Units]
NoRes   == [zone |-> NoZone, refs |-> 0, append_off |-> 0, l2free |-> FALSE,
            delayed |-> FALSE, flush_group |-> 0, deleting |-> "no"]
NoAlloc == [zone |-> NoZone, cell |-> NoCell]
NoRec   == [state |-> "none", cell |-> NoCell, zone |-> NoZone]
Snap    == [l2 |-> l2, blocksFree |-> blocksFree, live |-> live]

Exists(b)   == res[b].refs > 0
(* Nobody sleeps with blkmap_lock, and sync_lock shared, held.             *)
unlocked    == alloc = NoAlloc
Reserved    == {rec[r].cell : r \in {x \in Rec : rec[x].state = "reserved"}}

-----------------------------------------------------------------------------
(* The search of hammer_blockmap_alloc and hammer_blockmap_reserve.        *)

(* Cell p suits zone z: the big-block is ours or nobody's, and p lies past *)
(* what has been allocated or reserved in it.                              *)
fit_zone_only(z, p) ==
  /\ l2[blk(p)].zone \in {NoZone, z}
  /\ off(p) >= l2[blk(p)].append_off
  /\ Exists(blk(p)) => res[blk(p)].zone = z
fit(z, p) ==
  /\ l2[blk(p)].zone \in {NoZone, z}
  /\ off(p) >= l2[blk(p)].append_off
  /\ Exists(blk(p)) => res[blk(p)].zone = z /\ off(p) >= res[blk(p)].append_off

(* Which suitable cell is found depends on the zone's iterator; it is left *)
(* open here.                                                              *)

(* Take cell p of a big-block for zone z: a free one becomes ours.         *)
Take_last(z, p) ==
  LET b == blk(p)
  IN /\ l2' = [l2 EXCEPT ![b] = [zone |-> z, bytes_free |-> @.bytes_free - 1,
                                 append_off |-> off(p) + 1]]
     /\ blocksFree' = IF l2[b].zone = NoZone THEN blocksFree - 1 ELSE blocksFree
     /\ live' = live \union {p}
     /\ dirty' = TRUE
Take(z, p) ==
  LET b == blk(p)
  IN /\ l2' = [l2 EXCEPT ![b] =
                [zone |-> z, bytes_free |-> @.bytes_free - 1,
                 append_off |-> IF @.append_off > off(p) THEN @.append_off
                                                         ELSE off(p) + 1]]
     /\ blocksFree' = IF l2[b].zone = NoZone THEN blocksFree - 1 ELSE blocksFree
     /\ live' = live \union {p}
     /\ dirty' = TRUE

(* hammer_blockmap_alloc, up to where it sleeps: it has taken blkmap_lock, *)
(* retested the cell and found the reservation, if there is one.  It takes *)
(* no reference to it.                                                     *)
AllocStart(z, p) ==
  /\ unlocked /\ fit(z, p)
  /\ alloc' = [zone |-> z, cell |-> p]
  /\ UNCHANGED <<meta, res, delay, rec, seqs, fifo>>

(* The rest, after hammer_modify_buffer.  A reservation that is there now  *)
(* was found, as a new one takes blkmap_lock; the KKASSERT of line 289     *)
(* holds, or the machine panics, which is a Crash.  Where the one found is *)
(* gone the code reads and writes its freed memory: it panics or goes on.  *)
AllocTake ==
  LET p == alloc.cell
      b == blk(p)
  IN /\ ~unlocked
     /\ Exists(b) => res[b].append_off =< off(p)
     /\ Take(alloc.zone, p)
     /\ res' = IF Exists(b) THEN [res EXCEPT ![b].append_off = off(p) + 1,
                                             ![b].l2free = FALSE]
                            ELSE res
     /\ alloc' = NoAlloc
  /\ UNCHANGED <<delay, rec, seqs, undoFlag, snapC, snapD>>

(* hammer_blockmap_reserve for record r, whose data is then written to the *)
(* cell at once.                                                           *)
Reserve(r, z, p) ==
  /\ unlocked /\ rec[r].state = "none" /\ fit(z, p)
  /\ rec' = [rec EXCEPT ![r] = [state |-> "reserved", cell |-> p, zone |-> z]]
  /\ LET b == blk(p)
         e == IF Exists(b)
                THEN [res[b] EXCEPT !.refs = @ + 1, !.append_off = off(p) + 1]
                ELSE [NoRes EXCEPT !.refs = 1, !.zone = z, !.append_off = off(p) + 1,
                                   !.l2free = (l2[b].bytes_free = Units)]
     IN res' = [res EXCEPT ![b] = e]
  /\ UNCHANGED <<meta, delay, alloc, seqs, fifo>>

(* hammer_blockmap_finalize: the back end commits the record.              *)
Finalize(r) ==
  /\ unlocked /\ rec[r].state = "reserved"
  /\ Take(rec[r].zone, rec[r].cell)
  /\ res' = [res EXCEPT ![blk(rec[r].cell)].l2free = FALSE]
  /\ rec' = [rec EXCEPT ![r].state = "committed"]
  /\ UNCHANGED <<delay, alloc, seqs, undoFlag, snapC, snapD>>

(* "--resv->refs", and the last reference frees the reservation.           *)
unref(e) == IF e.refs = 1 THEN NoRes ELSE [e EXCEPT !.refs = @ - 1]

(* hammer_blockmap_reserve_complete: the last reference to a reservation   *)
(* of a free big-block deletes its buffers, which may sleep, with          *)
(* append_off at its maximum to keep the big-block as it is.               *)
reserve_complete_open(R, b, who) ==
  IF R[b].refs = 1 /\ R[b].l2free
    THEN [R EXCEPT ![b].l2free = FALSE, ![b].deleting = who]
    ELSE [R EXCEPT ![b] = unref(@)]
reserve_complete(R, b, who) ==
  IF R[b].refs = 1 /\ R[b].l2free
    THEN [R EXCEPT ![b].append_off = Units, ![b].l2free = FALSE,
                   ![b].deleting = who]
    ELSE [R EXCEPT ![b] = unref(@)]

(* hammer_rel_mem_record: the record goes, committed or not.               *)
Release(r) ==
  /\ rec[r].state # "none"
  /\ res' = reserve_complete(res, blk(rec[r].cell), "record")
  /\ rec' = [rec EXCEPT ![r] = NoRec]
  /\ UNCHANGED <<meta, delay, alloc, seqs, fifo>>

(* The buffers are deleted: --refs, and the reservation goes.              *)
BuffersDeleted(b) ==
  /\ res[b].deleting # "no"
  /\ res' = [res EXCEPT ![b] = unref([res[b] EXCEPT !.deleting = "no"])]
  /\ cyc' = IF res[b].deleting = "flusher" THEN "release" ELSE cyc
  /\ UNCHANGED <<meta, delay, rec, alloc, act, next, fifo>>

(* hammer_reserve_setdelay: a covering reservation, of no zone if it is a  *)
(* new one, goes to the end of the delay list.                             *)
flush_group_next == next
flush_group == (next + 1) % SeqSpan
delayed(b) ==
  LET e == IF Exists(b) THEN res[b] ELSE [NoRes EXCEPT !.l2free = TRUE]
      d == [e EXCEPT !.refs = IF e.delayed THEN @ ELSE @ + 1,
                     !.delayed = TRUE, !.flush_group = flush_group]
  IN [res EXCEPT ![b] = d]
to_tail_stay(b) == IF res[b].delayed THEN delay ELSE Append(delay, b)
to_tail(b) == Append(RemoveFirst(delay, b), b)

(* hammer_blockmap_free: a big-block that becomes entirely free is reset,  *)
(* under a reservation.                                                    *)
Free(p) ==
  /\ unlocked /\ p \in live
  /\ LET b == blk(p)
         n == l2[b].bytes_free + 1
     IN IF n = Units
          THEN /\ l2' = [l2 EXCEPT ![b] = Free2]
               /\ blocksFree' = blocksFree + 1
               /\ res' = delayed(b)
               /\ delay' = to_tail(b)
          ELSE /\ l2' = [l2 EXCEPT ![b].bytes_free = n]
               /\ UNCHANGED <<blocksFree, res, delay>>
  /\ live' = live \ {p}
  /\ dirty' = TRUE
  /\ UNCHANGED <<rec, alloc, seqs, undoFlag, snapC, snapD>>

-----------------------------------------------------------------------------
(* The flusher's cycle, as far as the delay list depends on it.            *)

haswork == dirty \/ undoFlag

CycleStart(group) ==
  /\ cyc = "idle"
  /\ act' = next /\ next' = Inc(next)
  /\ cyc' = IF group THEN "group" ELSE "none"
  /\ UNCHANGED <<meta, rsv, fifo>>

(* hammer_flusher_finalize: the header commits the records since the last  *)
(* boundary; a final call sets a new boundary.  It holds sync_lock         *)
(* exclusively.                                                            *)
Commit(final) ==
  /\ unlocked
  /\ snapD' = snapC
  /\ IF final
       THEN snapC' = Snap /\ undoFlag' = dirty /\ dirty' = FALSE
       ELSE UNCHANGED <<snapC, undoFlag, dirty>>

(* A slave finalizes in the middle of a group.                             *)
MidFinalize(final) ==
  /\ cyc = "group"
  /\ Commit(final)
  /\ UNCHANGED <<meta, rsv, seqs>>

(* The end of the cycle: without a group, only if there is work left.      *)
CycleFinalize ==
  /\ cyc \in {"group", "none"}
  /\ IF cyc = "group" \/ haswork THEN Commit(TRUE) ELSE UNCHANGED fifo
  /\ cyc' = "release"
  /\ UNCHANGED <<meta, rsv, act, next>>

(* "Clean up any freed big-blocks": hammer_reserve_clrdelay.               *)
due == delay # <<>> /\ res[Head(delay)].flush_group = act
ReleaseDelayed ==
  /\ cyc = "release" /\ due
  /\ LET b == Head(delay)
         R == reserve_complete([res EXCEPT ![b].delayed = FALSE], b, "flusher")
     IN /\ res' = R
        /\ cyc' = IF R[b].deleting = "flusher" THEN "deleting" ELSE cyc
  /\ delay' = Tail(delay)
  /\ UNCHANGED <<meta, rec, alloc, act, next, fifo>>

CycleEnd ==
  /\ cyc = "release" /\ ~due
  /\ cyc' = "idle"
  /\ UNCHANGED <<meta, rsv, act, next, fifo>>

(* A crash and the recovery that follows.                                  *)
Crash ==
  /\ cyc' = "idle"
  /\ l2' = snapD.l2 /\ blocksFree' = snapD.blocksFree /\ live' = snapD.live
  /\ res' = [b \in Block |-> NoRes] /\ delay' = <<>>
  /\ rec' = [r \in Rec |-> NoRec] /\ alloc' = NoAlloc
  /\ act' = 0 /\ next' = 1
  /\ dirty' = FALSE /\ undoFlag' = FALSE
  /\ snapC' = snapD
  /\ UNCHANGED snapD

-----------------------------------------------------------------------------
Init ==
  /\ l2 = [b \in Block |-> Free2] /\ blocksFree = Cardinality(Block) /\ live = {}
  /\ res = [b \in Block |-> NoRes] /\ delay = <<>>
  /\ rec = [r \in Rec |-> NoRec] /\ alloc = NoAlloc
  /\ act = 0 /\ next = 1 /\ cyc = "idle"
  /\ dirty = FALSE /\ undoFlag = FALSE
  /\ snapC = Snap /\ snapD = Snap

BackEnd ==
  \/ \E z \in Zone, p \in Cell : AllocStart(z, p)
  \/ AllocTake
  \/ \E r \in Rec : Finalize(r)
  \/ \E p \in Cell : Free(p)

FrontEnd ==
  \/ \E r \in Rec, z \in Zone, p \in Cell : Reserve(r, z, p)
  \/ \E r \in Rec : Release(r)
  \/ \E b \in Block : BuffersDeleted(b)

Flusher ==
  \/ \E group \in BOOLEAN : CycleStart(group)
  \/ \E final \in BOOLEAN : MidFinalize(final)
  \/ CycleFinalize
  \/ ReleaseDelayed
  \/ CycleEnd

Next == BackEnd \/ FrontEnd \/ Flusher \/ Crash

Spec == Init /\ [][Next]_vars

-----------------------------------------------------------------------------
(* Properties.                                                             *)

(* A cell is not written again while a crash could still bring back what   *)
(* it held: "otherwise crash recovery could resurrect a data block that    *)
(* was already reused and overwritten" (hammer_blockmap.c:611).            *)
NoEarlyReuse ==
  [][Crash \/
     ((live' \union Reserved') \ (live \union Reserved))
        \cap (snapC.live \union snapD.live) = {}]_vars

(* Layer1 and layer2 describe the cells in use exactly, also in the states *)
(* a crash restores: the free counts, the owner of a big-block and its     *)
(* append_off (what the KKASSERTs of alloc, free and finalize rely on).    *)
Exact(s) ==
  /\ s.blocksFree = Cardinality({b \in Block : s.l2[b].zone = NoZone})
  /\ \A b \in Block :
       LET used == {p \in s.live : blk(p) = b}
       IN /\ s.l2[b].bytes_free = Units - Cardinality(used)
          /\ s.l2[b].zone = NoZone <=> used = {}
          /\ \A p \in used : off(p) < s.l2[b].append_off
          /\ used = {} => s.l2[b].append_off = 0
LayersExact == Exact(Snap) /\ Exact(snapC) /\ Exact(snapD)

(* A reserved cell is nobody else's until its record is committed, and its *)
(* big-block cannot pass to another zone meanwhile, even when it has been  *)
(* freed ("KKASSERT(layer2->zone == zone)" in hammer_blockmap_finalize,    *)
(* "KKASSERT(resv && resv->zone == zone)" in hammer_blockmap_lookup).  The *)
(* reservation counts its records, the delay list and whoever deletes its  *)
(* buffers once each, so that it neither goes too early nor stays.         *)
ReservationHolds ==
  \A r \in Rec : rec[r].state = "reserved" =>
    LET b == blk(rec[r].cell)
    IN /\ rec[r].cell \notin live
       /\ \A q \in Rec \ {r} : rec[q].state = "reserved" => rec[q].cell # rec[r].cell
       /\ Exists(b) /\ res[b].zone = rec[r].zone
       /\ l2[b].zone \in {NoZone, rec[r].zone}
       /\ off(rec[r].cell) < res[b].append_off
       /\ res[b].refs = Cardinality({q \in Rec : rec[q].state # "none" /\ blk(rec[q].cell) = b})
                         + (IF res[b].delayed THEN 1 ELSE 0)
                         + (IF res[b].deleting # "no" THEN 1 ELSE 0)

(* The delay list is in the order of the cycles that release its entries,  *)
(* none of which has passed: the flusher only looks at the head, and for   *)
(* equality with the cycle it is in.  A block is on it once, or not at all.*)
Due(b) == (res[b].flush_group - act) % SeqSpan
DelayNeverMissed ==
  /\ {b \in Block : res[b].delayed} = ToSet(delay) /\ IsInjective(delay)
  /\ \A i \in DOMAIN delay :
       /\ Due(delay[i]) \in 0 .. 2
       /\ Due(delay[i]) = 0 => cyc # "idle"
  /\ \A i, j \in DOMAIN delay : i < j => Due(delay[i]) =< Due(delay[j])

(* The buffers of a big-block are deleted only while it is entirely free:  *)
(* "Setting append_off to the max prevents any new allocations from        *)
(* occuring while we are trying to dispose of the reservation".            *)
DeletesFreeOnly ==
  \A b \in Block : res[b].deleting # "no" =>
    /\ \A p \in live : blk(p) # b
    /\ \A r \in Rec : rec[r].state = "reserved" => blk(rec[r].cell) # b
=============================================================================
