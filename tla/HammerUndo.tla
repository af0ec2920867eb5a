----------------------------- MODULE HammerUndo -----------------------------
(***************************************************************************)
(* The crash-consistency core of HAMMER: how meta-data is modified under   *)
(* an UNDO record, how hammer_flusher_finalize() orders the UNDO, volume   *)
(* header and meta-data writes, and what hammer_recover() does on the next *)
(* mount (hammer_undo.c, hammer_flusher.c, hammer_io.c, hammer_recover.c). *)
(*                                                                         *)
(* A location stands for a byte range a caller passes to                   *)
(* hammer_modify_buffer/volume.  UNDO FIFO offsets are counted in records  *)
(* and never wrap here: position p shares its media slot with              *)
(* p - UndoSlots, so the record at p - UndoSlots is gone once p is         *)
(* written.  HammerUndoFifo models the offsets, padding and wrapping.      *)
(* Media writes land one location at a time, in any order, until the       *)
(* callback hammer_io_complete() runs; a crash keeps any subset of the     *)
(* writes in flight.  The volume header is written as a unit.              *)
(*                                                                         *)
(* An operator named after another one with a suffix (X, X_late) is not    *)
(* part of the model: it is a slip the code could have made, which the     *)
(* mutation runs put in the place of X to show that a property sees it.    *)
(***************************************************************************)
EXTENDS Integers, FiniteSets

CONSTANTS
  Loc,          \* meta-data ranges covered by UNDO
  VolLoc,       \* those in the root volume header (subset of Loc)
  BlkMap,       \* the vol0_blockmap range of the header (in VolLoc)
  Val,          \* contents of a range
  Thread,       \* flusher slaves and other holders of the shared sync_lock
  OpSets,       \* the sets of ranges one operation updates together
  Serialized,   \* ranges whose writers a node or blockmap lock serializes
  UndoSlots,    \* size of the UNDO FIFO, in records
  UndoReserve,  \* head room hammer_generate_undo() insists on
  HistMax,      \* HAMMER_MAX_UNDOS
  DirtyLimit,   \* hammer_limit_dirtybufspace
  WriteErrors,  \* mount phases in which a device write may fail
  MaxPos, MaxOps, MaxTid, MaxCrash
                \* bounds on records, operations, flushes and crashes

ASSUME LocAssumption ==
  /\ VolLoc \subseteq Loc
  /\ BlkMap \in VolLoc
  /\ \A L \in OpSets : L \subseteq Loc
  /\ Serialized \subseteq Loc
  /\ Val # {}
ASSUME NatAssumption ==
  /\ UndoSlots \in Nat \ {0}
  /\ UndoReserve \in Nat
  /\ HistMax \in Nat \ {0}
  /\ DirtyLimit \in Nat \ {0}
  /\ MaxPos \in Nat /\ MaxOps \in Nat /\ MaxTid \in Nat /\ MaxCrash \in Nat

VARIABLES
  \* media
  dsk,          \* contents of every range
  dFirst,       \* first_offset and next_offset of the UNDO zone in the
  dNext,        \*   volume header
  dTid,         \* vol0_next_tid
  uDisk,        \* positions whose record is on the media
  \* root_volume->ondisk and meta-data buffers in memory
  mem, hFirst, hNext, hTid,
  metaDirty,    \* meta_list
  hdrDirty,     \* root_volume->io.modified
  undoDirty,    \* undo_list
  metaRun, undoRun, hdrRun,    \* writes in flight (io.running)
  \* struct hammer_mount
  cFirst, cNext,               \* blockmap[HAMMER_ZONE_UNDO_INDEX]
  cblk,                        \* the other zones of blockmap[]
  ulog,         \* the record laid down at each position
  hist,         \* rb_undo_root, the UNDO history
  critErr,      \* HAMMER_MOUNT_CRITICAL_ERROR
  undoFlag,     \* HMNT_UNDO_DIRTY
  tid,          \* flusher.trans.tid
  flushTid1, flushTid2,
  syncEx,       \* sync_lock is held exclusively
  \* control
  mode,         \* "recover", "rwait", "rfinal": mounting; "up": mounted;
                \*   "failed", "ronly": given up on writing; "panic"
  rpos,         \* scan_offset of the recovery scan
  flush,        \* the master's cycle: "none", "begin", "running", or
                \*   "meta" when there is no flush group
  fpc, fby,     \* step of hammer_flusher_finalize(), and its caller
  tpc,          \* per thread: program counter,
  top, ttodo,   \*   the ranges of its operation and those left to modify,
  tloc, tval,   \*   the range being modified and the contents to come
  ops, crashes, \* operations and crashes so far
  \* history variables: the state at position cFirst and at position dFirst
  snapC, snapD

media   == <<dsk, dFirst, dNext, dTid, uDisk>>
hdr     == <<hFirst, hNext, hTid>>
io      == <<metaDirty, hdrDirty, undoDirty, metaRun, undoRun, hdrRun>>
undo    == <<cNext, ulog, hist>>
tids    == <<tid, flushTid1, flushTid2>>
thr     == <<tpc, top, ttodo, tloc, tval>>
bounds  == <<ops, crashes>>
snaps   == <<snapC, snapD>>
vars    == <<media, mem, hdr, io, cFirst, undo, cblk, critErr, undoFlag, tids,
             syncEx, mode, rpos, flush, fpc, fby, thr, bounds, snaps>>

Pos      == 0 .. MaxPos
v0       == CHOOSE v \in Val : TRUE
NoRec    == [loc |-> BlkMap, val |-> v0, tid |-> 0]
Rec      == [loc : Loc, val : Val, tid : Nat]
MetaLoc  == Loc \ VolLoc

Idle(t)  == tpc[t] = "idle"
Final    == fby \in {"master", "emergency"}

-----------------------------------------------------------------------------
(* hammer_undo_used/space/max: the calculation uses the in-memory copy of  *)
(* the volume header's first_offset and the cached next_offset.            *)
undo_used_cached == cNext - cFirst
undo_used  == cNext - hFirst
undo_space == UndoSlots - undo_used

(* hammer_flusher_undo_exhausted: less than quarter/4 of the FIFO is left. *)
undo_exhausted(quarter) == 4 * undo_space < UndoSlots * quarter

(* hammer_flusher_meta_limit: locked_dirty_space + io_running_space.       *)
meta_limit ==
  Cardinality(metaDirty) + (IF hdrDirty THEN 1 ELSE 0) + Cardinality(metaRun)
    + Cardinality(undoRun) + (IF hdrRun THEN 1 ELSE 0) > DirtyLimit

(* hammer_flusher_haswork, without the flush groups and data buffers.      *)
haswork_no_undo_flag ==
  ~critErr /\ (hdrDirty \/ undoDirty # {} \/ metaDirty # {})
haswork ==
  ~critErr /\ (hdrDirty \/ undoDirty # {} \/ metaDirty # {} \/ undoFlag)

(* hammer_enter_undo_history: a full history recycles its oldest entry;    *)
(* which one that is is left open.                                         *)
enter_undo_history(l) ==
  \/ /\ Cardinality(hist) < HistMax
     /\ hist' = hist \union {l}
  \/ /\ Cardinality(hist) >= HistMax
     /\ \E x \in hist : hist' = (hist \ {x}) \union {l}

(* hammer_io_modify: a range's buffer goes on its modified list, after the *)
(* write of it in flight, if any (regetblk).                               *)
set_modlist(l) ==
  IF l \in VolLoc
    THEN hdrDirty' = TRUE /\ UNCHANGED metaDirty
    ELSE metaDirty' = metaDirty \union {l} /\ UNCHANGED hdrDirty

regetblk_finalize_want(l) ==
  fpc = "idle" /\ IF l \in VolLoc THEN ~hdrRun ELSE l \notin metaRun
regetblk(l) == IF l \in VolLoc THEN ~hdrRun ELSE l \notin metaRun

(* hammer_io_wait_all: every write in flight has completed.                *)
IoDrainedNoUndo == metaRun = {} /\ ~hdrRun
IoDrained == undoRun = {} /\ metaRun = {} /\ ~hdrRun

(* The body of hammer_generate_undo once the FIFO is locked: the record    *)
(* takes the range's current contents.  hammer_modify_volume(NULL) marks   *)
(* the root volume modified and waits for a header write in flight; the    *)
(* UNDO buffer likewise.  The record is stamped with the transaction id of *)
(* the flush that makes the change (a transaction outside a flush gets a   *)
(* later one); the stamp serves the properties only.                       *)
lay_undo(l) ==
  /\ ~hdrRun
  /\ cNext - UndoSlots \notin undoRun
  /\ undo_space >= 1 + UndoReserve
  /\ cNext < MaxPos
  /\ ulog' = [ulog EXCEPT ![cNext] =
                 [loc |-> l, val |-> mem[l],
                  tid |-> IF flush = "none" THEN tid + 1 ELSE tid]]
  /\ cNext' = cNext + 1
  /\ undoDirty' = (undoDirty \union {cNext}) \ {cNext - UndoSlots}
  /\ hdrDirty' = TRUE

-----------------------------------------------------------------------------
(* Operations on meta-data.  An operation holds sync_lock shared from its  *)
(* first to its last modification.                                         *)

(* hammer_sync_lock_sh: waits for the finalizer, not for one that waits.   *)
(* A range in Serialized stays locked for the whole operation.  After a    *)
(* critical error the mount is read-only: only the slaves go on, with the  *)
(* rest of their flush group.                                              *)
OpBegin(t) ==
  /\ mode = "up" /\ ~syncEx /\ Idle(t)
  /\ critErr => flush = "running"
  /\ ops < MaxOps
  /\ ops' = ops + 1
  /\ \E L \in OpSets, v \in Val :
       /\ \A u \in Thread \ {t} : top[u] \cap L \cap Serialized = {}
       /\ tpc' = [tpc EXCEPT ![t] = "op"]
       /\ top' = [top EXCEPT ![t] = L]
       /\ ttodo' = [ttodo EXCEPT ![t] = L]
       /\ tval' = [tval EXCEPT ![t] = v]
  /\ UNCHANGED <<media, mem, hdr, io, cFirst, undo, cblk, critErr, undoFlag,
                 tids, syncEx, mode, rpos, flush, fpc, fby, tloc, crashes,
                 snaps>>

(* hammer_modify_buffer/volume up to the UNDO history: a range already in  *)
(* the history needs no new record.                                        *)
Modify(t, l) ==
  /\ mode = "up" /\ tpc[t] = "op" /\ l \in ttodo[t] \ {BlkMap}
  /\ regetblk(l)
  /\ set_modlist(l)
  /\ IF l \in hist THEN UNCHANGED hist ELSE enter_undo_history(l)
  /\ tpc' = [tpc EXCEPT ![t] = IF l \in hist THEN "write" ELSE "lay"]
  /\ tloc' = [tloc EXCEPT ![t] = l]
  /\ ttodo' = [ttodo EXCEPT ![t] = @ \ {l}]
  /\ UNCHANGED <<media, mem, hdr, undoDirty, metaRun, undoRun, hdrRun, cFirst,
                 cNext, ulog, cblk, critErr, undoFlag, tids, syncEx, mode, rpos,
                 flush, fpc, fby, top, tval, bounds, snaps>>

(* hammer_generate_undo, after it waited for undo_lock and the FIFO buffer.*)
LayUndo(t) ==
  /\ mode = "up" /\ tpc[t] = "lay"
  /\ lay_undo(tloc[t])
  /\ tpc' = [tpc EXCEPT ![t] = "write"]
  /\ UNCHANGED <<top, ttodo, tloc, tval, media, mem, hdr, metaDirty, metaRun,
                 undoRun, hdrRun, cFirst, hist, cblk, critErr, undoFlag, tids,
                 syncEx, mode, rpos, flush, fpc, fby, bounds, snaps>>

(* hammer_generate_undo: panic("hammer: insufficient undo FIFO space!").   *)
UndoPanic ==
  /\ mode = "up" /\ undo_space < 1 + UndoReserve
  /\ \/ \E t \in Thread : tpc[t] = "lay"
     \/ fpc = "blockmap" /\ Final /\ hdrDirty /\ BlkMap \notin hist
  /\ mode' = "panic"
  /\ UNCHANGED <<media, mem, hdr, io, cFirst, undo, cblk, critErr, undoFlag,
                 tids, syncEx, rpos, flush, fpc, fby, thr, bounds, snaps>>

(* The caller changes the range, then hammer_modify_*_done().              *)
Write(t) ==
  /\ mode = "up" /\ tpc[t] = "write"
  /\ mem' = [mem EXCEPT ![tloc[t]] = tval[t]]
  /\ tpc' = [tpc EXCEPT ![t] = "op"]
  /\ UNCHANGED <<top, ttodo, tloc, tval, media, hdr, io, cFirst, undo, cblk,
                 critErr, undoFlag, tids, syncEx, mode, rpos, flush, fpc, fby,
                 bounds, snaps>>

(* hammer_blockmap_alloc's trailing update of the cached blockmap, without *)
(* an UNDO record: the header is marked modified.                          *)
SetBlockmap(t) ==
  /\ mode = "up" /\ tpc[t] = "op" /\ BlkMap \in ttodo[t]
  /\ ~hdrRun
  /\ hdrDirty' = TRUE
  /\ cblk' = tval[t]
  /\ ttodo' = [ttodo EXCEPT ![t] = @ \ {BlkMap}]
  /\ UNCHANGED <<tpc, top, tloc, tval, media, mem, hdr, metaDirty, undoDirty,
                 metaRun, undoRun, hdrRun, cFirst, undo, critErr, undoFlag,
                 tids, syncEx, mode, rpos, flush, fpc, fby, bounds, snaps>>

(* hammer_sync_unlock at the end of the operation.                         *)
OpEnd(t) ==
  /\ mode = "up" /\ tpc[t] = "op" /\ ttodo[t] = {}
  /\ tpc' = [tpc EXCEPT ![t] = "idle"]
  /\ top' = [top EXCEPT ![t] = {}]
  /\ tloc' = [tloc EXCEPT ![t] = BlkMap]
  /\ tval' = [tval EXCEPT ![t] = v0]
  /\ UNCHANGED <<ttodo, media, mem, hdr, io, cFirst, undo, cblk, critErr,
                 undoFlag, tids, syncEx, mode, rpos, flush, fpc, fby, bounds,
                 snaps>>

-----------------------------------------------------------------------------
(* The kernel may write a bdwrite()n UNDO buffer whenever it likes         *)
(* (hammer_io_checkwrite); meta-data and header writes it may not start.   *)
KernelWritesUndo(p) ==
  /\ mode = "up" /\ p \in undoDirty
  /\ undoDirty' = undoDirty \ {p}
  /\ undoRun' = undoRun \union {p}
  /\ UNCHANGED <<media, mem, hdr, metaDirty, hdrDirty, metaRun, hdrRun, cFirst,
                 undo, cblk, critErr, undoFlag, tids, syncEx, mode, rpos, flush,
                 fpc, fby, thr, bounds, snaps>>

(* hammer_io_complete for each kind of buffer.                             *)
UndoWritten(p) ==
  /\ p \in undoRun
  /\ undoRun' = undoRun \ {p}
  /\ uDisk' = (uDisk \union {p}) \ {p - UndoSlots}
  /\ UNCHANGED <<dsk, dFirst, dNext, dTid, mem, hdr, metaDirty, hdrDirty,
                 undoDirty, metaRun, hdrRun, cFirst, undo, cblk, critErr,
                 undoFlag, tids, syncEx, mode, rpos, flush, fpc, fby, thr,
                 bounds, snaps>>

MetaWritten(l) ==
  /\ l \in metaRun
  /\ metaRun' = metaRun \ {l}
  /\ dsk' = [dsk EXCEPT ![l] = mem[l]]
  /\ UNCHANGED <<dFirst, dNext, dTid, uDisk, mem, hdr, metaDirty, hdrDirty,
                 undoDirty, undoRun, hdrRun, cFirst, undo, cblk, critErr,
                 undoFlag, tids, syncEx, mode, rpos, flush, fpc, fby, thr,
                 bounds, snaps>>

(* What a header write puts on the media.                                  *)
HdrOnDisk ==
  /\ dsk' = [l \in Loc |-> IF l \in VolLoc THEN mem[l] ELSE dsk[l]]
  /\ dFirst' = hFirst /\ dNext' = hNext /\ dTid' = hTid
  /\ snapD' = snapC

HdrWritten ==
  /\ hdrRun
  /\ hdrRun' = FALSE
  /\ HdrOnDisk
  /\ UNCHANGED <<uDisk, mem, hdr, metaDirty, hdrDirty, undoDirty, metaRun,
                 undoRun, cFirst, undo, cblk, critErr, undoFlag, tids, syncEx,
                 mode, rpos, flush, fpc, fby, thr, bounds, snapC>>

(* hammer_io_complete with B_ERROR: hammer_critical_error() is flagged and *)
(* the write is not retried; the media holds anything.                     *)
ErrorPhase == IF mode = "up" THEN "up" ELSE "recover"

WriteFails ==
  /\ ErrorPhase \in WriteErrors
  /\ critErr' = TRUE
  /\ \/ \E p \in undoRun :
          /\ undoRun' = undoRun \ {p}
          /\ uDisk' = uDisk \ {p, p - UndoSlots}
          /\ UNCHANGED <<dsk, dFirst, dNext, dTid, metaRun, hdrRun, snapD>>
     \/ \E l \in metaRun, v \in Val :
          /\ metaRun' = metaRun \ {l}
          /\ dsk' = [dsk EXCEPT ![l] = v]
          /\ UNCHANGED <<dFirst, dNext, dTid, uDisk, undoRun, hdrRun, snapD>>
     \/ /\ hdrRun
        /\ hdrRun' = FALSE
        /\ UNCHANGED <<media, undoRun, metaRun, snapD>>
  /\ UNCHANGED <<mem, hdr, metaDirty, hdrDirty, undoDirty, cFirst, undo, cblk,
                 undoFlag, tids, syncEx, mode, rpos, flush, fpc, fby, thr,
                 bounds, snapC>>

-----------------------------------------------------------------------------
(* hammer_flusher_flush: one flush cycle of the master thread.             *)

(* hammer_start_transaction_fls for a flush group...                       *)
FlushBegin ==
  /\ mode = "up" /\ flush = "none" /\ fpc = "idle" /\ ~critErr
  /\ tid < MaxTid
  /\ tid' = tid + 1
  /\ flush' = "begin"
  /\ UNCHANGED <<media, mem, hdr, io, cFirst, undo, cblk, critErr, undoFlag,
                 flushTid1, flushTid2, syncEx, mode, rpos, fpc, fby, thr,
                 bounds, snaps>>

(* ... or, with no flush group, to finish cycling the UNDO FIFO.           *)
FlushMeta ==
  /\ mode = "up" /\ flush = "none" /\ fpc = "idle" /\ haswork
  /\ tid < MaxTid
  /\ tid' = tid + 1
  /\ flush' = "meta"
  /\ UNCHANGED <<media, mem, hdr, io, cFirst, undo, cblk, critErr, undoFlag,
                 flushTid1, flushTid2, syncEx, mode, rpos, fpc, fby, thr,
                 bounds, snaps>>

(* Entering hammer_flusher_finalize: finalize_lock is taken; a call that   *)
(* is not final returns at once when the meta-data limit is not exceeded,  *)
(* and any call does so after a critical error.                            *)
EnterFinalize(by) ==
  /\ fpc = "idle"
  /\ ~critErr
  /\ by \in {"dummy", "limit"} => meta_limit
  /\ fpc' = "lock" /\ fby' = by

(* The flush group starts running.  Before that a short FIFO calls for a   *)
(* dummy finalization, which hammer_flusher_finalize() may skip.           *)
FlushDummy ==
  /\ mode = "up" /\ flush = "begin"
  /\ undo_exhausted(3) /\ EnterFinalize("dummy")
  /\ UNCHANGED <<media, mem, hdr, io, cFirst, undo, cblk, critErr, undoFlag,
                 tids, syncEx, mode, rpos, flush, thr, bounds, snaps>>

FlushRun ==
  /\ mode = "up" /\ flush = "begin" /\ fpc = "idle"
  /\ undo_exhausted(3) => (~meta_limit \/ critErr)
  /\ flush' = "running"
  /\ UNCHANGED <<media, mem, hdr, io, cFirst, undo, cblk, critErr, undoFlag,
                 tids, syncEx, mode, rpos, fpc, fby, thr, bounds, snaps>>

(* hammer_flusher_flush_inode, after an inode was synchronized.            *)
SlaveFinalize ==
  /\ mode = "up" /\ flush = "running"
  /\ EnterFinalize(IF undo_exhausted(1) THEN "emergency" ELSE "limit")
  /\ UNCHANGED <<media, mem, hdr, io, cFirst, undo, cblk, critErr, undoFlag,
                 tids, syncEx, mode, rpos, flush, thr, bounds, snaps>>

(* The finalization that ends the cycle, once the slaves are done.         *)
MasterFinalize ==
  /\ mode = "up" /\ flush \in {"running", "meta"}
  /\ EnterFinalize("master")
  /\ UNCHANGED <<media, mem, hdr, io, cFirst, undo, cblk, critErr, undoFlag,
                 tids, syncEx, mode, rpos, flush, thr, bounds, snaps>>

(* After a critical error the master's finalization does nothing.          *)
FlushAbandon ==
  /\ mode = "up" /\ flush \in {"running", "meta"} /\ fpc = "idle" /\ critErr
  /\ flush' = "none"
  /\ UNCHANGED <<media, mem, hdr, io, cFirst, undo, cblk, critErr, undoFlag,
                 tids, syncEx, mode, rpos, fpc, fby, thr, bounds, snaps>>

-----------------------------------------------------------------------------
(* The steps of hammer_flusher_finalize, between the points it waits at.   *)

(* hammer_sync_lock_ex: no operation holds sync_lock shared.               *)
sync_lock_free_some == \E t \in Thread : Idle(t)
sync_lock_free == \A t \in Thread : Idle(t)

FinalizeSyncLock ==
  /\ mode = "up" /\ fpc = "lock"
  /\ sync_lock_free
  /\ syncEx' = TRUE
  /\ fpc' = "blockmap"
  /\ UNCHANGED <<media, mem, hdr, io, cFirst, undo, cblk, critErr, undoFlag,
                 tids, mode, rpos, flush, fby, thr, bounds, snaps>>

(* Final only: the cached blockmap, UNDO zone included, is copied into the *)
(* header under an UNDO record.                                            *)
FinalizeBlockmap ==
  /\ mode = "up" /\ fpc = "blockmap"
  /\ fpc' = "undo"
  /\ IF Final /\ hdrDirty
       THEN /\ IF BlkMap \in hist
                 THEN /\ ~hdrRun
                      /\ UNCHANGED <<undo, undoDirty, hdrDirty>>
                 ELSE lay_undo(BlkMap) /\ enter_undo_history(BlkMap)
            /\ mem' = [mem EXCEPT ![BlkMap] = cblk]
            /\ hFirst' = cFirst /\ hNext' = cNext'
       ELSE UNCHANGED <<undo, undoDirty, hdrDirty, mem, hFirst, hNext>>
  /\ UNCHANGED <<media, hTid, metaDirty, metaRun, undoRun, hdrRun, cFirst, cblk,
                 critErr, undoFlag, tids, syncEx, mode, rpos, flush, fby, thr,
                 bounds, snaps>>

FinalizeFlushUndo ==
  /\ mode = "up" /\ fpc = "undo"
  /\ undoRun' = undoRun \union undoDirty
  /\ undoDirty' = {}
  /\ fpc' = "wait1"
  /\ UNCHANGED <<media, mem, hdr, metaDirty, hdrDirty, metaRun, hdrRun, cFirst,
                 undo, cblk, critErr, undoFlag, tids, syncEx, mode, rpos, flush,
                 fby, thr, bounds, snaps>>

(* The common exit of hammer_flusher_finalize.                             *)
LeaveFinalize ==
  /\ syncEx' = FALSE
  /\ fpc' = "idle"
  /\ flush' = CASE fby = "master" -> "none"
                [] fby = "dummy"  -> "running"
                [] OTHER          -> flush

(* The writes waited for are on the media.                                 *)
WritesOkUnchecked == IoDrained
WritesOk == IoDrained /\ ~critErr

(* The new UNDO range and vol0_next_tid go out with the volume header, if  *)
(* the header changed.                                                     *)
FinalizeHeader ==
  /\ mode = "up" /\ fpc = "wait1" /\ WritesOk
  /\ LET dirty == hdrDirty \/ hFirst # cFirst \/ hNext # cNext
     IN /\ hFirst' = cFirst /\ hNext' = cNext
        /\ hTid' = IF dirty /\ hTid < tid THEN tid ELSE hTid
        /\ hdrRun' = dirty
        /\ hdrDirty' = FALSE
  /\ fpc' = "wait2"
  /\ UNCHANGED <<media, mem, metaDirty, undoDirty, metaRun, undoRun, cFirst,
                 undo, cblk, critErr, undoFlag, tids, syncEx, mode, rpos, flush,
                 fby, thr, bounds, snaps>>

(* The end of a final call: the next cycle's records start here.           *)
NextSequenceKeepHistory ==
  /\ undoFlag' = (cFirst # cNext)
  /\ cFirst' = cNext
  /\ flushTid1' = flushTid2
  /\ flushTid2' = tid
  /\ snapC' = mem
  /\ UNCHANGED hist
NextSequenceTid ==
  /\ undoFlag' = (cFirst # cNext)
  /\ cFirst' = cNext
  /\ hist' = {}
  /\ flushTid1' = tid
  /\ flushTid2' = tid
  /\ snapC' = mem
NextSequence ==
  /\ undoFlag' = (cFirst # cNext)
  /\ cFirst' = cNext
  /\ hist' = {}
  /\ flushTid1' = flushTid2
  /\ flushTid2' = tid
  /\ snapC' = mem

(* Meta-data is flushed asynchronously: it will be undone after a crash.   *)
FinalizeMeta ==
  /\ mode = "up" /\ fpc = "wait2" /\ WritesOk
  /\ metaRun' = metaRun \union metaDirty
  /\ metaDirty' = {}
  /\ IF Final
       THEN NextSequence
       ELSE UNCHANGED <<undoFlag, cFirst, hist, flushTid1, flushTid2, snapC>>
  /\ LeaveFinalize
  /\ UNCHANGED <<media, mem, hdr, hdrDirty, undoDirty, undoRun, hdrRun, cNext,
                 ulog, cblk, critErr, tid, mode, rpos, fby, thr, bounds, snapD>>

FinalizeFailed ==
  /\ mode = "up" /\ fpc \in {"wait1", "wait2"} /\ IoDrained /\ critErr
  /\ LeaveFinalize
  /\ UNCHANGED <<media, mem, hdr, io, cFirst, undo, cblk, critErr, undoFlag,
                 tids, mode, rpos, fby, thr, bounds, snaps>>

-----------------------------------------------------------------------------
(* A crash, or a panic(), keeps any subset of the writes in flight.  The   *)
(* next mount reads the volume header and starts hammer_recover().         *)
Crash ==
  /\ crashes < MaxCrash
  /\ crashes' = crashes + 1
  /\ \E S \in SUBSET metaRun, U \in SUBSET undoRun, h \in {hdrRun, FALSE} :
       /\ dsk' = [l \in Loc |-> IF l \in S \/ (h /\ l \in VolLoc)
                                  THEN mem[l] ELSE dsk[l]]
       /\ dFirst' = IF h THEN hFirst ELSE dFirst
       /\ dNext'  = IF h THEN hNext ELSE dNext
       /\ dTid'   = IF h THEN hTid ELSE dTid
       /\ snapD'  = IF h THEN snapC ELSE snapD
       /\ uDisk'  = ((uDisk \union U) \ {p - UndoSlots : p \in U})
                      \cap (0 .. dNext' - 1)
  /\ mem' = dsk' /\ hFirst' = dFirst' /\ hNext' = dNext' /\ hTid' = dTid'
  /\ metaDirty' = {} /\ undoDirty' = {} /\ hdrDirty' = FALSE
  /\ metaRun' = {} /\ undoRun' = {} /\ hdrRun' = FALSE
  /\ cFirst' = dNext' /\ cNext' = dNext' /\ cblk' = dsk'[BlkMap] /\ hist' = {}
  /\ critErr' = FALSE /\ undoFlag' = FALSE /\ syncEx' = FALSE
  /\ mode' = "recover" /\ rpos' = dNext'
  /\ flush' = "none" /\ fpc' = "idle" /\ fby' = "master"
  /\ tpc' = [t \in Thread |-> "idle"] /\ top' = [t \in Thread |-> {}]
  /\ ttodo' = [t \in Thread |-> {}]
  /\ tloc' = [t \in Thread |-> BlkMap] /\ tval' = [t \in Thread |-> v0]
  /\ UNCHANGED <<ulog, tids, ops, snapC>>

(* hammer_recover: the records are executed last to first.  A record that  *)
(* is not on the media fails its tail signature or CRC check.  (A blockmap *)
(* record also restores the old UNDO offsets in memory; the scan works on  *)
(* copies and RecoverFinish sets them.)                                    *)
scan_forward == hFirst + (hNext - rpos)
scan_record  == rpos - 1

RecoverUndo ==
  /\ mode = "recover" /\ rpos > hFirst /\ ~meta_limit
  /\ IF scan_record \in uDisk
       THEN LET r == ulog[scan_record]
            IN /\ mem' = [mem EXCEPT ![r.loc] = r.val]
               /\ set_modlist(r.loc)
               /\ rpos' = rpos - 1
               /\ UNCHANGED mode
       ELSE mode' = "failed" /\ UNCHANGED <<mem, metaDirty, hdrDirty, rpos>>
  /\ UNCHANGED <<media, hdr, undoDirty, metaRun, undoRun, hdrRun, cFirst, undo,
                 cblk, critErr, undoFlag, tids, syncEx, flush, fpc, fby, thr,
                 bounds, snaps>>

(* Too many dirty buffers: hammer_recover_flush_buffers(hmp, vol, 0).      *)
(* After a write error the mount is read-only and recovery gives up.       *)
RecoverFlushKeepDirty ==
  /\ mode = "recover" /\ meta_limit /\ ~critErr
  /\ metaRun' = metaRun \union metaDirty
  /\ mode' = "rwait"
  /\ UNCHANGED <<media, mem, hdr, metaDirty, hdrDirty, undoDirty, undoRun,
                 hdrRun, cFirst, undo, cblk, critErr, undoFlag, tids, syncEx,
                 rpos, flush, fpc, fby, thr, bounds, snaps>>
RecoverFlush ==
  /\ mode = "recover" /\ meta_limit
  /\ IF critErr
       THEN /\ mode' = "failed" /\ UNCHANGED <<metaRun, metaDirty>>
       ELSE /\ metaRun' = metaRun \union metaDirty
            /\ metaDirty' = {}
            /\ mode' = "rwait"
  /\ UNCHANGED <<media, mem, hdr, hdrDirty, undoDirty, undoRun, hdrRun, cFirst,
                 undo, cblk, critErr, undoFlag, tids, syncEx, rpos, flush, fpc,
                 fby, thr, bounds, snaps>>

RecoverWait ==
  /\ mode = "rwait" /\ IoDrained
  /\ mode' = "recover"
  /\ UNCHANGED <<media, mem, hdr, io, cFirst, undo, cblk, critErr, undoFlag,
                 tids, syncEx, rpos, flush, fpc, fby, thr, bounds, snaps>>

(* The scan is complete: the UNDO range is emptied in the in-memory header *)
(* and the recovered buffers are flushed.  A mount made read-only by a     *)
(* write error keeps them in memory.                                       *)
RecoverFinish ==
  /\ mode = "recover" /\ rpos = hFirst /\ hFirst # hNext /\ ~meta_limit
  /\ hFirst' = hNext
  /\ hdrDirty' = TRUE
  /\ IF critErr
       THEN mode' = "ronly" /\ UNCHANGED <<metaRun, metaDirty>>
       ELSE /\ metaRun' = metaRun \union metaDirty
            /\ metaDirty' = {}
            /\ mode' = "rfinal"
  /\ UNCHANGED <<media, mem, hNext, hTid, undoDirty, undoRun, hdrRun, cFirst,
                 undo, cblk, critErr, undoFlag, tids, syncEx, rpos, flush, fpc,
                 fby, thr, bounds, snaps>>

(* hammer_vfs_mount copies the header into struct hammer_mount.            *)
MountCaches ==
  /\ mode' = "up"
  /\ cFirst' = hFirst /\ cNext' = hNext /\ cblk' = mem[BlkMap]
  /\ tid' = hTid /\ flushTid1' = hTid /\ flushTid2' = hTid
  /\ snapC' = mem

(* The root volume header goes out last, and the mount does not wait for   *)
(* it.                                                                     *)
RecoverMount ==
  /\ mode = "rfinal" /\ IoDrained
  /\ hdrRun' = TRUE /\ hdrDirty' = FALSE
  /\ MountCaches
  /\ UNCHANGED <<media, mem, hdr, metaDirty, undoDirty, metaRun, undoRun, ulog,
                 hist, critErr, undoFlag, syncEx, rpos, flush, fpc, fby, thr,
                 bounds, snapD>>

(* An empty FIFO needs no recovery.                                        *)
CleanMount ==
  /\ mode = "recover" /\ hFirst = hNext
  /\ MountCaches
  /\ UNCHANGED <<media, mem, hdr, io, ulog, hist, critErr, undoFlag, syncEx,
                 rpos, flush, fpc, fby, thr, bounds, snapD>>

-----------------------------------------------------------------------------
Init ==
  /\ dsk = [l \in Loc |-> v0]
  /\ dFirst = 0 /\ dNext = 0 /\ dTid = 0 /\ uDisk = {}
  /\ mem = dsk /\ hFirst = 0 /\ hNext = 0 /\ hTid = 0
  /\ metaDirty = {} /\ undoDirty = {} /\ hdrDirty = FALSE
  /\ metaRun = {} /\ undoRun = {} /\ hdrRun = FALSE
  /\ cFirst = 0 /\ cNext = 0 /\ cblk = dsk[BlkMap]
  /\ ulog = [p \in Pos |-> NoRec]
  /\ hist = {} /\ critErr = FALSE /\ undoFlag = FALSE
  /\ tid = 0 /\ flushTid1 = 0 /\ flushTid2 = 0 /\ syncEx = FALSE
  /\ mode = "recover" /\ rpos = 0
  /\ flush = "none" /\ fpc = "idle" /\ fby = "master"
  /\ tpc = [t \in Thread |-> "idle"] /\ top = [t \in Thread |-> {}]
  /\ ttodo = [t \in Thread |-> {}]
  /\ tloc = [t \in Thread |-> BlkMap] /\ tval = [t \in Thread |-> v0]
  /\ ops = 0 /\ crashes = 0
  /\ snapC = dsk /\ snapD = dsk

Operation(t) ==
  \/ OpBegin(t)
  \/ \E l \in Loc : Modify(t, l)
  \/ LayUndo(t)
  \/ Write(t)
  \/ SetBlockmap(t)
  \/ OpEnd(t)

Finalize ==
  \/ FinalizeSyncLock
  \/ FinalizeBlockmap
  \/ FinalizeFlushUndo
  \/ FinalizeHeader
  \/ FinalizeMeta
  \/ FinalizeFailed

Flusher ==
  \/ FlushBegin
  \/ FlushMeta
  \/ FlushDummy
  \/ FlushRun
  \/ SlaveFinalize
  \/ MasterFinalize
  \/ FlushAbandon

Device ==
  \/ \E p \in Pos : KernelWritesUndo(p)
  \/ \E p \in Pos : UndoWritten(p)
  \/ \E l \in Loc : MetaWritten(l)
  \/ HdrWritten
  \/ WriteFails

Recover ==
  \/ RecoverUndo
  \/ RecoverFlush
  \/ RecoverWait
  \/ RecoverFinish
  \/ RecoverMount
  \/ CleanMount

Next ==
  \/ \E t \in Thread : Operation(t)
  \/ UndoPanic
  \/ Flusher
  \/ Finalize
  \/ Device
  \/ Recover
  \/ Crash

Spec == Init /\ [][Next]_vars

(* The kernel runs every thread that can run and every write completes.    *)
Fairness ==
  /\ WF_vars(Finalize)
  /\ WF_vars(Recover)
  /\ \A t \in Thread :
       WF_vars((\E l \in Loc : Modify(t, l)) \/ LayUndo(t) \/ Write(t)
                 \/ SetBlockmap(t) \/ OpEnd(t))
  /\ \A p \in Pos : WF_vars(UndoWritten(p))
  /\ \A l \in Loc : WF_vars(MetaWritten(l))
  /\ WF_vars(HdrWritten)

FairSpec == Spec /\ Fairness

-----------------------------------------------------------------------------
(* Properties.                                                             *)

TypeOK ==
  /\ dsk \in [Loc -> Val] /\ mem \in [Loc -> Val] /\ cblk \in Val
  /\ snapC \in [Loc -> Val] /\ snapD \in [Loc -> Val]
  /\ dFirst \in Pos /\ dNext \in Pos /\ hFirst \in Pos /\ hNext \in Pos
  /\ cFirst \in Pos /\ cNext \in Pos /\ rpos \in Pos
  /\ dTid \in Nat /\ hTid \in Nat /\ tid \in Nat
  /\ flushTid1 \in Nat /\ flushTid2 \in Nat
  /\ uDisk \subseteq Pos /\ undoDirty \subseteq Pos /\ undoRun \subseteq Pos
  /\ metaDirty \subseteq MetaLoc /\ metaRun \subseteq MetaLoc
  /\ hist \subseteq Loc /\ ulog \in [Pos -> Rec]
  /\ hdrDirty \in BOOLEAN /\ hdrRun \in BOOLEAN /\ critErr \in BOOLEAN
  /\ undoFlag \in BOOLEAN /\ syncEx \in BOOLEAN
  /\ mode \in {"recover", "rwait", "rfinal", "failed", "ronly", "up", "panic"}
  /\ flush \in {"none", "begin", "running", "meta"}
  /\ fpc \in {"idle", "lock", "blockmap", "undo", "wait1", "wait2"}
  /\ fby \in {"dummy", "limit", "emergency", "master"}
  /\ tpc \in [Thread -> {"idle", "op", "lay", "write"}]
  /\ top \in [Thread -> SUBSET Loc] /\ ttodo \in [Thread -> SUBSET Loc]
  /\ tloc \in [Thread -> Loc] /\ tval \in [Thread -> Val]
  /\ ops \in Nat /\ crashes \in Nat

(* The records a crash at this moment makes hammer_recover() execute.      *)
Live == dFirst .. dNext - 1

(* Every record the media's volume header claims is on the media: the UNDO *)
(* buffers were waited for before the header went out, and no later record *)
(* reused the slot of a live one.                                          *)
UndoLogIntact == Live \subseteq uDisk

(* A crash at any moment, whatever writes are in flight or have failed, is *)
(* rolled back to the state of one flush boundary (snapD): the log is      *)
(* there, a range whose media contents differ has a live record, and the   *)
(* earliest live record of a range (the last one executed) holds its       *)
(* contents at that boundary.                                              *)
Undone(l) ==
  /\ (\A p \in Live : ulog[p].loc # l) => dsk[l] = snapD[l]
  /\ \A p \in Live :
       (ulog[p].loc = l /\ \A q \in Live : ulog[q].loc = l => p =< q)
          => ulog[p].val = snapD[l]
CrashImageIsCommitted == UndoLogIntact /\ \A l \in Loc : Undone(l)

(* The ranges an operation updates together (an element and its parent, a  *)
(* node and the volume's root pointer) are never seen half updated: not by *)
(* the mounted filesystem between operations, and not after a crash.       *)
Rolled(l) ==
  IF \E p \in Live : ulog[p].loc = l
    THEN ulog[CHOOSE p \in Live : /\ ulog[p].loc = l
                                  /\ \A q \in Live : ulog[q].loc = l => p =< q].val
    ELSE dsk[l]
OperationsAtomic ==
  \A L \in OpSets : \A a, b \in L \ {BlkMap} :
    /\ Rolled(a) = Rolled(b)
    /\ (mode = "up" /\ \A t \in Thread : Idle(t)) => mem[a] = mem[b]

(* hammer_flusher_finalize: "flush_tid1 is fully synchronized, meaning a   *)
(* crash will not roll it back".  (The records recovery has just executed  *)
(* lie below hFirst.)                                                      *)
FlushTid1Durable ==
  mode = "up" => \A p \in Live :
    (crashes = 0 \/ p >= hFirst) => ulog[p].tid > flushTid1

(* When hammer_flusher_haswork() has nothing left and the writes are done, *)
(* as an unmount waits for, the media is clean: no UNDO to run and every   *)
(* range as in memory.                                                     *)
QuiescentClean ==
  (/\ mode = "up" /\ ~critErr /\ ~haswork
   /\ flush = "none" /\ IoDrained /\ \A t \in Thread : Idle(t))
     => dFirst = dNext /\ dsk = mem

(* A mount that comes up read-write after hammer_recover() has exactly the *)
(* contents of the last flush boundary, in memory and (once the header is  *)
(* out) on the media; recovery never leaves a record half applied.         *)
MountRestoresBoundary ==
  [][mode # "up" /\ mode' = "up" =>
       mem' = snapD /\ \A l \in MetaLoc : dsk'[l] = snapD[l]]_vars

(* hammer_recover() ends, however often it is interrupted by a crash.      *)
RecoveryTerminates ==
  mode \in {"recover", "rwait", "rfinal"} ~>
    mode \notin {"recover", "rwait", "rfinal"}

(* A finalization ends: the operations in progress, which it waits for in  *)
(* sync_lock, never wait for it, and neither do the writes.  The model's   *)
(* operations are MaxOps in number; hammer_lock gives an exclusive waiter  *)
(* no priority, and new holders without end could keep it waiting.         *)
FinalizeTerminates == fpc # "idle" ~> fpc = "idle"
=============================================================================
