-------------------------- MODULE HammerUndoProofs --------------------------
(***************************************************************************)
(* What hammer_generate_undo(), hammer_flusher_finalize() and              *)
(* hammer_recover() guarantee together, for any ranges, threads and FIFO   *)
(* size: type correctness without assumptions; crash consistency when no   *)
(* write fails and every range has one writer at a time; then what the     *)
(* flushes promise beyond it.                                              *)
(***************************************************************************)
EXTENDS HammerUndo, TLAPS

(* No device write fails, and a lock serializes the writers of every       *)
(* range.                                                                  *)
Sound == WriteErrors = {} /\ Serialized = Loc

Up == mode \in {"up", "panic"}

(* p is the first record of range l among those from a on.                 *)
First(u, a, p, l) == u[p].loc = l /\ \A q \in a .. p - 1 : u[q].loc # l

Covered(u, a, b, l) == \E p \in a .. b - 1 : u[p].loc = l

(* Executing the records a .. b - 1 of log u backwards on contents base    *)
(* gives contents v: the first record of a range decides, and a range      *)
(* without a record is as it was.                                          *)
Undoes(u, a, b, base, v) ==
  \A l \in Loc :
    \/ \E p \in a .. b - 1 : First(u, a, p, l) /\ u[p].val = v[l]
    \/ ~Covered(u, a, b, l) /\ base[l] = v[l]

(* Who holds what, and what is empty when.                                 *)
Control ==
  /\ ~critErr /\ mode # "ronly"
  /\ syncEx <=> fpc \in {"blockmap", "undo", "wait1", "wait2"}
  /\ syncEx => \A t \in Thread : tpc[t] = "idle"
  /\ ~Up => /\ fpc = "idle" /\ undoDirty = {} /\ undoRun = {} /\ ~hdrRun
            /\ \A t \in Thread : tpc[t] = "idle"
  /\ fpc \in {"wait1", "wait2"} => undoDirty = {}
  /\ fpc = "wait2" \/ hdrRun =>
       /\ undoDirty = {} /\ undoRun = {} /\ metaRun = {}
       /\ hFirst = cFirst /\ hNext = cNext

(* The three copies of the FIFO's range.  The in-memory header is the      *)
(* media's unless it is being written, or about to be.                     *)
Order ==
  /\ dFirst =< dNext /\ hFirst =< hNext /\ cFirst =< cNext
  /\ Up => /\ dFirst =< hFirst /\ hFirst =< cFirst
           /\ hNext =< cNext /\ dNext =< cNext
  /\ \/ hFirst = dFirst /\ hNext = dNext
     \/ hdrRun
     \/ fpc \in {"undo", "wait1"} /\ hdrDirty
     \/ mode = "rfinal"
  /\ mode = "rfinal" => hFirst = hNext /\ hNext = dNext
  /\ mode \in {"recover", "rwait"} => rpos \in hFirst .. hNext

(* Where the records are.                                                  *)
Records ==
  /\ UndoLogIntact
  /\ \A p \in undoDirty \union undoRun : p - UndoSlots < dFirst
  /\ Up => cFirst .. cNext - 1 \subseteq uDisk \union undoDirty \union undoRun

(* A thread touches the ranges of its operation only, and two operations   *)
(* have none in common.                                                    *)
Threads ==
  /\ \A t \in Thread :
       /\ ttodo[t] \subseteq top[t]
       /\ tpc[t] = "idle" => top[t] = {}
       /\ tpc[t] \in {"lay", "write"} => tloc[t] \in top[t]
  /\ \A t, s \in Thread : t # s => top[t] \cap top[s] = {}

(* A record of range l is in the current sequence, or about to be.         *)
Laying(l) == \E t \in Thread : tpc[t] = "lay" /\ tloc[t] = l
Recorded(l) == Covered(ulog, cFirst, cNext, l) \/ Laying(l)

Contents ==
  Up =>
    /\ Undoes(ulog, cFirst, cNext, mem, snapC)
    /\ \A l \in hist \union metaDirty : Recorded(l)
    /\ \A t \in Thread :
         /\ tpc[t] = "write" => Covered(ulog, cFirst, cNext, tloc[t])
         /\ (tpc[t] \in {"lay", "write"} /\ tloc[t] \in MetaLoc) =>
              tloc[t] \in metaDirty /\ tloc[t] \notin metaRun
    /\ \A l \in MetaLoc \ metaRun :
         l \notin metaDirty \/ ~Covered(ulog, cFirst, cNext, l) =>
           dsk[l] = mem[l]

Media ==
  /\ Undoes(ulog, dFirst, dNext, dsk, snapD)
  /\ \A l \in metaRun : Covered(ulog, dFirst, dNext, l)

Recovery ==
  /\ mode \in {"recover", "rwait"} =>
       /\ Undoes(ulog, rpos, hNext, dsk, mem)
       /\ \A l \in metaDirty : Covered(ulog, dFirst, dNext, l)
  /\ mode = "rfinal" => metaDirty = {} /\ mem = snapD
  /\ ~Up => /\ hist = {}
            /\ \A l \in MetaLoc \ (metaDirty \union metaRun) : dsk[l] = mem[l]

IInv ==
  /\ Sound /\ TypeOK /\ Control /\ Order /\ Records /\ Threads /\ Contents
  /\ Media /\ Recovery

-----------------------------------------------------------------------------
(* The log.                                                                *)

(* No record: nothing is changed.                                          *)
LEMMA UndoesNothing ==
  ASSUME NEW u, NEW a \in Int, NEW base, NEW v
  PROVE  Undoes(u, a, a, base, v) <=> \A l \in Loc : base[l] = v[l]
BY DEF Undoes, Covered

(* Records beyond the range do not matter.                                 *)
LEMMA UndoesSame ==
  ASSUME NEW u, NEW w, NEW a \in Int, NEW b \in Int, NEW base, NEW v,
         \A p \in a .. b - 1 : u[p] = w[p],
         Undoes(u, a, b, base, v)
  PROVE  Undoes(w, a, b, base, v)
<1> SUFFICES ASSUME NEW l \in Loc
             PROVE  \/ \E p \in a .. b - 1 : First(w, a, p, l) /\ w[p].val = v[l]
                    \/ ~Covered(w, a, b, l) /\ base[l] = v[l]
  BY DEF Undoes
<1>1. CASE \E p \in a .. b - 1 : First(u, a, p, l) /\ u[p].val = v[l]
  <2>1. PICK p \in a .. b - 1 : First(u, a, p, l) /\ u[p].val = v[l]
    BY <1>1
  <2>2. \A q \in a .. p - 1 : q \in a .. b - 1
    OBVIOUS
  <2> QED
    BY <2>1, <2>2 DEF First
<1>2. CASE ~Covered(u, a, b, l) /\ base[l] = v[l]
  BY <1>2 DEF Covered
<1> QED
  BY <1>1, <1>2 DEF Undoes

(* Contents of ranges with a record do not matter.                         *)
LEMMA UndoesBase ==
  ASSUME NEW u, NEW a \in Int, NEW b \in Int, NEW base, NEW new, NEW v,
         \A l \in Loc : Covered(u, a, b, l) \/ new[l] = base[l],
         Undoes(u, a, b, base, v)
  PROVE  Undoes(u, a, b, new, v)
BY DEF Undoes, Covered, First

(* hammer_generate_undo(): a record with the current contents.             *)
LEMMA UndoesExtend ==
  ASSUME NEW u, NEW w, NEW a \in Int, NEW b \in Int, NEW base, NEW v,
         NEW k \in Loc, a =< b,
         \A p \in a .. b - 1 : w[p] = u[p],
         w[b].loc = k, w[b].val = base[k],
         Undoes(u, a, b, base, v)
  PROVE  Undoes(w, a, b + 1, base, v)
<1> SUFFICES ASSUME NEW l \in Loc
             PROVE  \/ \E p \in a .. (b + 1) - 1 : First(w, a, p, l) /\ w[p].val = v[l]
                    \/ ~Covered(w, a, b + 1, l) /\ base[l] = v[l]
  BY DEF Undoes
<1>0. /\ a .. (b + 1) - 1 = (a .. b - 1) \union {b}
      /\ b \in a .. (b + 1) - 1
  OBVIOUS
<1>1. CASE \E p \in a .. b - 1 : First(u, a, p, l) /\ u[p].val = v[l]
  <2>1. PICK p \in a .. b - 1 : First(u, a, p, l) /\ u[p].val = v[l]
    BY <1>1
  <2>2. \A q \in a .. p - 1 : q \in a .. b - 1
    OBVIOUS
  <2> QED
    BY <1>0, <2>1, <2>2 DEF First
<1>2. CASE ~Covered(u, a, b, l) /\ base[l] = v[l]
  <2>1. \A p \in a .. b - 1 : w[p].loc # l
    BY <1>2 DEF Covered
  <2>2. CASE k = l
    BY <1>0, <1>2, <2>1, <2>2 DEF First
  <2>3. CASE k # l
    BY <1>0, <1>2, <2>1, <2>3 DEF Covered
  <2> QED
    BY <2>2, <2>3
<1> QED
  BY <1>1, <1>2 DEF Undoes

(* hammer_recover_undo(): one record further back.                         *)
LEMMA UndoesBack ==
  ASSUME NEW u, NEW a \in Int, NEW b \in Int, NEW base, NEW v, NEW w,
         a < b, u[a].loc \in Loc,
         w[u[a].loc] = u[a].val,
         \A l \in Loc : l # u[a].loc => w[l] = v[l],
         Undoes(u, a + 1, b, base, v)
  PROVE  Undoes(u, a, b, base, w)
<1> SUFFICES ASSUME NEW l \in Loc
             PROVE  \/ \E p \in a .. b - 1 : First(u, a, p, l) /\ u[p].val = w[l]
                    \/ ~Covered(u, a, b, l) /\ base[l] = w[l]
  BY DEF Undoes
<1>0. /\ a .. b - 1 = {a} \union (a + 1 .. b - 1)
      /\ a .. a - 1 = {}
      /\ \A p \in a + 1 .. b - 1 : a .. p - 1 = {a} \union (a + 1 .. p - 1)
  OBVIOUS
<1>1. CASE l = u[a].loc
  BY <1>0, <1>1 DEF First
<1>2. CASE l # u[a].loc
  <2>1. CASE \E p \in a + 1 .. b - 1 : First(u, a + 1, p, l) /\ u[p].val = v[l]
    <3>1. PICK p \in a + 1 .. b - 1 : First(u, a + 1, p, l) /\ u[p].val = v[l]
      BY <2>1
    <3> QED
      BY <1>0, <1>2, <3>1 DEF First
  <2>2. CASE ~Covered(u, a + 1, b, l) /\ base[l] = v[l]
    BY <1>0, <1>2, <2>2 DEF Covered
  <2> QED
    BY <2>1, <2>2 DEF Undoes
<1> QED
  BY <1>1, <1>2

(* The outcome is determined.                                              *)
LEMMA UndoesUnique ==
  ASSUME NEW u, NEW a \in Int, NEW b \in Int, NEW base, NEW v, NEW w,
         Undoes(u, a, b, base, v), Undoes(u, a, b, base, w)
  PROVE  \A l \in Loc : v[l] = w[l]
<1> SUFFICES ASSUME NEW l \in Loc PROVE v[l] = w[l]
  OBVIOUS
<1>1. CASE Covered(u, a, b, l)
  <2>1. PICK p \in a .. b - 1 : First(u, a, p, l) /\ u[p].val = v[l]
    BY <1>1 DEF Undoes
  <2>2. PICK q \in a .. b - 1 : First(u, a, q, l) /\ u[q].val = w[l]
    BY <1>1 DEF Undoes
  <2>3. ~(p < q) /\ ~(q < p)
    BY <2>1, <2>2 DEF First
  <2> QED
    BY <2>1, <2>2, <2>3
<1>2. CASE ~Covered(u, a, b, l)
  BY <1>2 DEF Undoes, Covered, First
<1> QED
  BY <1>1, <1>2

-----------------------------------------------------------------------------
(* Types.                                                                  *)

(* What the assumptions on the constants give.                             *)
LEMMA Constants ==
  /\ VolLoc \subseteq Loc /\ BlkMap \in VolLoc /\ BlkMap \in Loc
  /\ \A L \in OpSets : L \subseteq Loc
  /\ UndoSlots \in Nat \ {0} /\ UndoReserve \in Nat /\ MaxPos \in Nat
  /\ v0 \in Val
BY LocAssumption, NatAssumption DEF v0

(* hammer_enter_undo_history() adds no range but its own.                  *)
LEMMA EnterHistory ==
  ASSUME NEW l, enter_undo_history(l)
  PROVE  hist' \subseteq hist \union {l}
<1>1. CASE Cardinality(hist) < HistMax /\ hist' = hist \union {l}
  BY <1>1
<1>2. CASE \E x \in hist : hist' = (hist \ {x}) \union {l}
  BY <1>2
<1> QED
  BY <1>1, <1>2 DEF enter_undo_history

(* The types hold on the first mount.                                      *)
LEMMA InitType == Init => TypeOK
<1> SUFFICES ASSUME Init PROVE TypeOK
  OBVIOUS
<1> USE Constants DEF Init
<1>1. /\ dsk \in [Loc -> Val] /\ mem \in [Loc -> Val] /\ cblk \in Val
      /\ snapC \in [Loc -> Val] /\ snapD \in [Loc -> Val]
  OBVIOUS
<1>2. ulog \in [Pos -> Rec]
  BY DEF NoRec, Rec
<1>3. /\ hdrDirty \in BOOLEAN /\ hdrRun \in BOOLEAN /\ critErr \in BOOLEAN
      /\ undoFlag \in BOOLEAN /\ syncEx \in BOOLEAN
  OBVIOUS
<1> QED
  BY <1>1, <1>2, <1>3 DEF TypeOK, Pos

(* hammer_io_modify(): the modified lists.                                 *)
LEMMA ModlistType ==
  ASSUME TypeOK, NEW l \in Loc, set_modlist(l)
  PROVE  metaDirty' \subseteq MetaLoc /\ hdrDirty' \in BOOLEAN
BY DEF TypeOK, set_modlist, MetaLoc

(* hammer_generate_undo(): the FIFO and its buffers.                       *)
LEMMA LayType ==
  ASSUME TypeOK, NEW l \in Loc, lay_undo(l)
  PROVE  /\ cNext' \in Pos /\ ulog' \in [Pos -> Rec]
         /\ undoDirty' \subseteq Pos /\ hdrDirty' \in BOOLEAN
BY Constants DEF TypeOK, lay_undo, Pos, Rec

(* The operations on meta-data.                                            *)
LEMMA OperationType ==
  ASSUME TypeOK, NEW t \in Thread, Operation(t)
  PROVE  TypeOK'
<1> USE Constants
    DEF TypeOK, Pos, MetaLoc, media, hdr, io, undo, tids, thr, bounds, snaps
<1>1. CASE OpBegin(t)
  BY <1>1 DEF OpBegin
<1>2. ASSUME NEW l \in Loc, Modify(t, l) PROVE TypeOK'
  <2>1. hist' \subseteq Loc
    BY <1>2, EnterHistory DEF Modify
  <2>2. metaDirty' \subseteq Loc \ VolLoc /\ hdrDirty' \in BOOLEAN
    BY <1>2, ModlistType DEF Modify
  <2>3. tpc' \in [Thread -> {"idle", "op", "lay", "write"}]
    BY <1>2 DEF Modify
  <2> QED
    BY <1>2, <2>1, <2>2, <2>3 DEF Modify
<1>3. CASE LayUndo(t)
  BY <1>3, LayType DEF LayUndo
<1>4. CASE Write(t)
  BY <1>4 DEF Write
<1>5. CASE SetBlockmap(t)
  BY <1>5 DEF SetBlockmap
<1>6. CASE OpEnd(t)
  BY <1>6 DEF OpEnd
<1> QED
  BY <1>1, <1>2, <1>3, <1>4, <1>5, <1>6 DEF Operation

(* The device, with failing writes.                                        *)
LEMMA DeviceType == TypeOK /\ Device => TypeOK'
<1> SUFFICES ASSUME TypeOK, Device PROVE TypeOK'
  OBVIOUS
<1> USE Constants
    DEF TypeOK, Pos, MetaLoc, media, hdr, io, undo, tids, thr, bounds, snaps
<1>1. ASSUME NEW p \in Pos, KernelWritesUndo(p) PROVE TypeOK'
  BY <1>1 DEF KernelWritesUndo
<1>2. ASSUME NEW p \in Pos, UndoWritten(p) PROVE TypeOK'
  BY <1>2 DEF UndoWritten
<1>3. ASSUME NEW l \in Loc, MetaWritten(l) PROVE TypeOK'
  BY <1>3 DEF MetaWritten
<1>4. CASE HdrWritten
  <2>1. dsk' \in [Loc -> Val]
    BY <1>4 DEF HdrWritten, HdrOnDisk
  <2>2. dFirst' = hFirst /\ dNext' = hNext /\ dTid' = hTid /\ snapD' = snapC
    BY <1>4 DEF HdrWritten, HdrOnDisk
  <2>3. hdrRun' \in BOOLEAN
    BY <1>4 DEF HdrWritten
  <2> QED
    BY <1>4, <2>1, <2>2, <2>3, SMTT(30) DEF HdrWritten
<1>5. CASE WriteFails
  <2>1. /\ undoRun' \subseteq undoRun /\ metaRun' \subseteq metaRun
        /\ uDisk' \subseteq uDisk /\ dsk' \in [Loc -> Val]
        /\ UNCHANGED <<dFirst, dNext, dTid, snapD>>
    BY <1>5 DEF WriteFails
  <2>2. hdrRun' \in BOOLEAN /\ critErr' \in BOOLEAN
    BY <1>5 DEF WriteFails
  <2> QED
    BY <1>5, <2>1, <2>2 DEF WriteFails
<1> QED
  BY <1>1, <1>2, <1>3, <1>4, <1>5 DEF Device

(* The master and its slaves, outside hammer_flusher_finalize().           *)
LEMMA FlusherType == TypeOK /\ Flusher => TypeOK'
<1> SUFFICES ASSUME TypeOK, Flusher PROVE TypeOK'
  OBVIOUS
<1> USE DEF TypeOK, Pos, MetaLoc, media, hdr, io, undo, tids, thr, bounds, snaps
<1>1. CASE FlushBegin
  BY <1>1 DEF FlushBegin
<1>6. CASE FlushMeta
  BY <1>6 DEF FlushMeta
<1>2. CASE FlushDummy
  BY <1>2 DEF FlushDummy, EnterFinalize
<1>3. CASE FlushRun
  BY <1>3 DEF FlushRun
<1>7. CASE FlushAbandon
  BY <1>7 DEF FlushAbandon
<1>4. CASE SlaveFinalize
  BY <1>4 DEF SlaveFinalize, EnterFinalize
<1>5. CASE MasterFinalize
  BY <1>5 DEF MasterFinalize, EnterFinalize
<1> QED
  BY <1>1, <1>2, <1>3, <1>4, <1>5, <1>6, <1>7 DEF Flusher

(* hammer_flusher_finalize().                                              *)
LEMMA FinalizeType == TypeOK /\ Finalize => TypeOK'
<1> SUFFICES ASSUME TypeOK, Finalize PROVE TypeOK'
  OBVIOUS
<1> USE Constants
    DEF TypeOK, Pos, MetaLoc, media, hdr, io, undo, tids, thr, bounds, snaps
<1>1. CASE FinalizeSyncLock
  BY <1>1 DEF FinalizeSyncLock
<1>2. CASE FinalizeBlockmap
  <2>1. hist' \subseteq Loc
    BY <1>2, EnterHistory DEF FinalizeBlockmap
  <2>2. /\ cNext' \in Pos /\ ulog' \in [Pos -> Rec]
        /\ undoDirty' \subseteq Pos /\ hdrDirty' \in BOOLEAN
    <3>1. CASE lay_undo(BlkMap)
      BY <3>1, LayType
    <3>2. CASE UNCHANGED <<undo, undoDirty, hdrDirty>>
      BY <3>2
    <3> QED
      BY <1>2, <3>1, <3>2 DEF FinalizeBlockmap
  <2>3. /\ mem' \in [Loc -> Val] /\ hFirst' \in Pos /\ hNext' \in Pos
    BY <1>2, <2>2 DEF FinalizeBlockmap
  <2> QED
    BY <1>2, <2>1, <2>2, <2>3 DEF FinalizeBlockmap
<1>3. CASE FinalizeFlushUndo
  BY <1>3 DEF FinalizeFlushUndo
<1>4. CASE FinalizeHeader
  BY <1>4 DEF FinalizeHeader
<1>5. CASE FinalizeMeta
  BY <1>5 DEF FinalizeMeta, NextSequence, LeaveFinalize
<1>6. CASE FinalizeFailed
  BY <1>6 DEF FinalizeFailed, LeaveFinalize
<1> QED
  BY <1>1, <1>2, <1>3, <1>4, <1>5, <1>6 DEF Finalize

(* hammer_recover(), a crash and a panic.                                  *)
LEMMA RecoverType == TypeOK /\ (Recover \/ Crash \/ UndoPanic) => TypeOK'
<1> SUFFICES ASSUME TypeOK, Recover \/ Crash \/ UndoPanic PROVE TypeOK'
  OBVIOUS
<1> USE Constants
    DEF TypeOK, Pos, MetaLoc, media, hdr, io, undo, tids, thr, bounds, snaps
<1>1. CASE RecoverUndo
  <2>1. CASE scan_record \in uDisk
    <3>1. ulog[scan_record].loc \in Loc /\ ulog[scan_record].val \in Val
      BY <2>1 DEF Rec
    <3>2. metaDirty' \subseteq Loc \ VolLoc /\ hdrDirty' \in BOOLEAN
      BY <1>1, <2>1, <3>1, ModlistType DEF RecoverUndo
    <3> QED
      BY <1>1, <2>1, <3>1, <3>2 DEF RecoverUndo
  <2>2. CASE scan_record \notin uDisk
    BY <1>1, <2>2 DEF RecoverUndo
  <2> QED
    BY <2>1, <2>2
<1>2. CASE RecoverFlush
  BY <1>2 DEF RecoverFlush
<1>3. CASE RecoverWait
  BY <1>3 DEF RecoverWait
<1>4. CASE RecoverFinish
  BY <1>4 DEF RecoverFinish
<1>5. CASE RecoverMount
  <2>1. hdrRun' \in BOOLEAN /\ hdrDirty' \in BOOLEAN
    BY <1>5 DEF RecoverMount
  <2>2. /\ mode' = "up" /\ cblk' \in Val /\ snapC' = mem
        /\ cFirst' = hFirst /\ cNext' = hNext
        /\ tid' = hTid /\ flushTid1' = hTid /\ flushTid2' = hTid
    BY <1>5 DEF RecoverMount, MountCaches
  <2> QED
    BY <1>5, <2>1, <2>2 DEF RecoverMount
<1>6. CASE CleanMount
  BY <1>6 DEF CleanMount, MountCaches
<1>7. CASE Crash
  <2>1. /\ dFirst' \in Pos /\ dNext' \in Pos /\ dTid' \in Nat
        /\ snapD' \in [Loc -> Val] /\ dsk' \in [Loc -> Val]
    BY <1>7 DEF Crash
  <2>2. uDisk' \subseteq Pos
    BY <1>7, <2>1 DEF Crash
  <2>3. /\ mem' = dsk' /\ hFirst' = dFirst' /\ hNext' = dNext' /\ hTid' = dTid'
        /\ metaDirty' = {} /\ undoDirty' = {} /\ metaRun' = {} /\ undoRun' = {}
        /\ cFirst' = dNext' /\ cNext' = dNext' /\ cblk' = dsk'[BlkMap]
        /\ hist' = {} /\ rpos' = dNext' /\ crashes' = crashes + 1
        /\ mode' = "recover" /\ flush' = "none" /\ fpc' = "idle"
        /\ fby' = "master" /\ UNCHANGED <<ulog, tids, ops, snapC>>
    BY <1>7 DEF Crash
  <2>4. /\ hdrDirty' = FALSE /\ hdrRun' = FALSE /\ critErr' = FALSE
        /\ undoFlag' = FALSE /\ syncEx' = FALSE
    BY <1>7 DEF Crash
  <2>5. /\ tpc' = [t \in Thread |-> "idle"] /\ top' = [t \in Thread |-> {}]
        /\ ttodo' = [t \in Thread |-> {}]
        /\ tloc' = [t \in Thread |-> BlkMap] /\ tval' = [t \in Thread |-> v0]
    BY <1>7 DEF Crash
  <2>6. /\ hdrDirty' \in BOOLEAN /\ hdrRun' \in BOOLEAN /\ critErr' \in BOOLEAN
        /\ undoFlag' \in BOOLEAN /\ syncEx' \in BOOLEAN
    BY <2>4
  <2>7. /\ tpc' \in [Thread -> {"idle", "op", "lay", "write"}]
        /\ top' \in [Thread -> SUBSET Loc] /\ ttodo' \in [Thread -> SUBSET Loc]
        /\ tloc' \in [Thread -> Loc] /\ tval' \in [Thread -> Val]
    BY <2>5
  <2> QED
    BY <2>1, <2>2, <2>3, <2>6, <2>7
<1>8. CASE UndoPanic
  BY <1>8 DEF UndoPanic
<1> QED
  BY <1>1, <1>2, <1>3, <1>4, <1>5, <1>6, <1>7, <1>8 DEF Recover

(* Every step preserves the types.                                         *)
LEMMA NextType == TypeOK /\ [Next]_vars => TypeOK'
<1> SUFFICES ASSUME TypeOK, [Next]_vars PROVE TypeOK'
  OBVIOUS
<1>1. CASE UNCHANGED vars
  BY <1>1 DEF vars, TypeOK, media, hdr, io, undo, tids, thr, bounds, snaps
<1> QED
  BY <1>1, OperationType, DeviceType, FlusherType, FinalizeType, RecoverType
  DEF Next

(* Every variable keeps its type, whatever fails and whoever writes.       *)
THEOREM TypeCorrect == Spec => []TypeOK
BY InitType, NextType, PTL DEF Spec

-----------------------------------------------------------------------------
(* Crash consistency.  One lemma per conjunct of IInv.                     *)

(* One more record covers one more range.                                  *)
LEMMA CoveredExtend ==
  ASSUME NEW u, NEW w, NEW a \in Int, NEW b \in Int, NEW k, a =< b,
         \A p \in a .. b - 1 : w[p] = u[p], w[b].loc = k
  PROVE  \A l : Covered(w, a, b + 1, l) <=> (Covered(u, a, b, l) \/ l = k)
<1>1. a .. (b + 1) - 1 = (a .. b - 1) \union {b}
  OBVIOUS
<1> QED
  BY <1>1 DEF Covered

(* No record covers no range.                                              *)
LEMMA CoveredNothing ==
  ASSUME NEW u, NEW a \in Int, NEW l
  PROVE  ~Covered(u, a, a, l)
BY DEF Covered

(* What laying down a record does to the current sequence and the media's. *)
LEMMA LayEffect ==
  ASSUME IInv, mode = "up", NEW l \in Loc, lay_undo(l),
         UNCHANGED <<cFirst, dFirst, dNext>>
  PROVE  /\ Undoes(ulog', cFirst', cNext', mem, snapC)
         /\ \A x : Covered(ulog', cFirst', cNext', x)
                     <=> (Covered(ulog, cFirst, cNext, x) \/ x = l)
         /\ Undoes(ulog', dFirst', dNext', dsk, snapD)
         /\ \A x : Covered(ulog, dFirst, dNext, x)
                     => Covered(ulog', dFirst', dNext', x)
<1>1. /\ cFirst \in Int /\ cNext \in Int /\ dFirst \in Int /\ dNext \in Int
      /\ cFirst =< cNext /\ dNext =< cNext /\ cNext \in Pos
  BY Constants DEF IInv, TypeOK, Order, Up, Pos
<1>2. /\ cNext' = cNext + 1
      /\ ulog'[cNext].loc = l /\ ulog'[cNext].val = mem[l]
      /\ \A p \in Pos : p # cNext => ulog'[p] = ulog[p]
  BY <1>1 DEF IInv, TypeOK, lay_undo
<1>3. /\ \A p \in cFirst .. cNext - 1 : ulog'[p] = ulog[p]
      /\ \A p \in dFirst .. dNext - 1 : ulog'[p] = ulog[p]
  BY <1>1, <1>2, Constants DEF IInv, TypeOK, Pos
<1>4. /\ Undoes(ulog, cFirst, cNext, mem, snapC)
      /\ Undoes(ulog, dFirst, dNext, dsk, snapD)
  BY DEF IInv, Contents, Media, Up
<1>5. Undoes(ulog', cFirst, cNext + 1, mem, snapC)
  BY <1>1, <1>2, <1>3, <1>4, UndoesExtend
<1>6. Undoes(ulog', dFirst, dNext, dsk, snapD)
  BY <1>1, <1>3, <1>4, UndoesSame
<1>7. \A x : Covered(ulog', cFirst, cNext + 1, x)
               <=> (Covered(ulog, cFirst, cNext, x) \/ x = l)
  BY <1>1, <1>2, <1>3, CoveredExtend
<1>8. \A x : Covered(ulog, dFirst, dNext, x) => Covered(ulog', dFirst, dNext, x)
  BY <1>3 DEF Covered
<1> QED
  BY <1>2, <1>5, <1>6, <1>7, <1>8

(* What a header write does: the media's sequence is now the current one.  *)
LEMMA HeaderEffect ==
  ASSUME IInv, hdrRun, NEW new,
         \A l \in Loc : new[l] = IF l \in VolLoc THEN mem[l] ELSE dsk[l]
  PROVE  Undoes(ulog, hFirst, hNext, new, snapC)
<1>1. /\ Up /\ metaRun = {} /\ hFirst = cFirst /\ hNext = cNext
  BY DEF IInv, Control
<1>2. cFirst \in Int /\ cNext \in Int
  BY Constants DEF IInv, TypeOK, Pos
<1>3. \A l \in Loc : Covered(ulog, cFirst, cNext, l) \/ new[l] = mem[l]
  BY <1>1 DEF IInv, Contents, MetaLoc
<1>4. Undoes(ulog, cFirst, cNext, mem, snapC)
  BY <1>1 DEF IInv, Contents
<1> QED
  BY <1>1, <1>2, <1>3, <1>4, UndoesBase

(* The invariant holds on the first mount of an empty FIFO.                *)
LEMMA InitInv == Sound /\ Init => IInv
<1> SUFFICES ASSUME Sound, Init PROVE IInv
  OBVIOUS
<1> USE Constants DEF Init
<1>1. TypeOK
  BY InitType
<1>2. Control /\ Order /\ Threads
  BY DEF Control, Order, Threads, Up
<1>3. Records
  BY DEF Records, UndoLogIntact, Live, Up
<1>4. Contents
  BY DEF Contents, Up
<1>5. Undoes(ulog, 0, 0, dsk, dsk)
  BY UndoesNothing
<1>6. Media /\ Recovery
  BY <1>5 DEF Media, Recovery, Up
<1> QED
  BY <1>1, <1>2, <1>3, <1>4, <1>6 DEF IInv

(* Without write errors nothing is abandoned.                              *)
LEMMA NoFailure ==
  ASSUME IInv
  PROVE  ~WriteFails /\ ~FinalizeFailed /\ ~FlushAbandon
BY DEF IInv, Sound, Control, WriteFails, FinalizeFailed, FlushAbandon

(* Locks, and what is in flight when.                                      *)
LEMMA ControlStep == ASSUME IInv, [Next]_vars PROVE Control'
<1> USE Constants DEF IInv, TypeOK, Control, Up, Sound, Pos, MetaLoc, media,
          hdr, io, undo, tids, thr, bounds, snaps
<1>1. ASSUME NEW t \in Thread, OpBegin(t) PROVE Control'
  BY <1>1 DEF OpBegin, Idle
<1>2. ASSUME NEW t \in Thread, NEW l \in Loc, Modify(t, l) PROVE Control'
  BY <1>2 DEF Modify, set_modlist, regetblk
<1>3. ASSUME NEW t \in Thread, LayUndo(t) PROVE Control'
  BY <1>3 DEF LayUndo, lay_undo, undo_space, undo_used
<1>4. ASSUME NEW t \in Thread, Write(t) PROVE Control'
  BY <1>4 DEF Write
<1>5. ASSUME NEW t \in Thread, SetBlockmap(t) PROVE Control'
  BY <1>5 DEF SetBlockmap
<1>6. ASSUME NEW t \in Thread, OpEnd(t) PROVE Control'
  BY <1>6 DEF OpEnd
<1>7. CASE UndoPanic
  BY <1>7 DEF UndoPanic
<1>8. CASE FlushBegin
  BY <1>8 DEF FlushBegin
<1>9. CASE FlushMeta
  BY <1>9 DEF FlushMeta
<1>10. CASE FlushDummy
  BY <1>10 DEF FlushDummy, EnterFinalize
<1>11. CASE FlushRun
  BY <1>11 DEF FlushRun
<1>12. CASE SlaveFinalize
  BY <1>12 DEF SlaveFinalize, EnterFinalize
<1>13. CASE MasterFinalize
  BY <1>13 DEF MasterFinalize, EnterFinalize
<1>14. CASE FinalizeSyncLock
  BY <1>14 DEF FinalizeSyncLock, sync_lock_free, Idle
<1>15. CASE FinalizeBlockmap
  BY <1>15 DEF FinalizeBlockmap, lay_undo, undo_space, undo_used
<1>16. CASE FinalizeFlushUndo
  BY <1>16 DEF FinalizeFlushUndo
<1>17. CASE FinalizeHeader
  BY <1>17 DEF FinalizeHeader, WritesOk, IoDrained
<1>18. CASE FinalizeMeta
  BY <1>18 DEF FinalizeMeta, NextSequence, LeaveFinalize, WritesOk, IoDrained
<1>19. ASSUME NEW p \in Pos, KernelWritesUndo(p) PROVE Control'
  BY <1>19 DEF KernelWritesUndo
<1>20. ASSUME NEW p \in Pos, UndoWritten(p) PROVE Control'
  BY <1>20 DEF UndoWritten
<1>21. ASSUME NEW l \in Loc, MetaWritten(l) PROVE Control'
  BY <1>21 DEF MetaWritten
<1>22. CASE HdrWritten
  BY <1>22 DEF HdrWritten, HdrOnDisk
<1>23. CASE RecoverUndo
  BY <1>23 DEF RecoverUndo, set_modlist, scan_record
<1>24. CASE RecoverFlush
  BY <1>24 DEF RecoverFlush
<1>25. CASE RecoverWait
  BY <1>25 DEF RecoverWait, IoDrained
<1>26. CASE RecoverFinish
  BY <1>26 DEF RecoverFinish
<1>27. CASE RecoverMount
  BY <1>27 DEF RecoverMount, MountCaches, IoDrained
<1>28. CASE CleanMount
  BY <1>28 DEF CleanMount, MountCaches
<1>29. CASE Crash
  BY <1>29 DEF Crash
<1>30. CASE UNCHANGED vars
  BY <1>30 DEF vars
<1> QED
  BY <1>1, <1>2, <1>3, <1>4, <1>5, <1>6, <1>7, <1>8, <1>9, <1>10, <1>11, <1>12,
       <1>13, <1>14, <1>15, <1>16, <1>17, <1>18, <1>19, <1>20, <1>21, <1>22,
       <1>23, <1>24, <1>25, <1>26, <1>27, <1>28, <1>29, <1>30, NoFailure DEF
       Next, Operation, Flusher, Finalize, Device, Recover

(* Who modifies what.                                                      *)
LEMMA ThreadsStep == ASSUME IInv, [Next]_vars PROVE Threads'
<1> USE Constants DEF IInv, TypeOK, Control, Sound, Threads, Up, Pos, MetaLoc,
          media, hdr, io, undo, tids, thr, bounds, snaps
<1>1. ASSUME NEW t \in Thread, OpBegin(t) PROVE Threads'
  BY <1>1 DEF OpBegin, Idle
<1>2. ASSUME NEW t \in Thread, NEW l \in Loc, Modify(t, l) PROVE Threads'
  BY <1>2 DEF Modify, set_modlist, regetblk
<1>3. ASSUME NEW t \in Thread, LayUndo(t) PROVE Threads'
  BY <1>3 DEF LayUndo, lay_undo, undo_space, undo_used
<1>4. ASSUME NEW t \in Thread, Write(t) PROVE Threads'
  BY <1>4 DEF Write
<1>5. ASSUME NEW t \in Thread, SetBlockmap(t) PROVE Threads'
  BY <1>5 DEF SetBlockmap
<1>6. ASSUME NEW t \in Thread, OpEnd(t) PROVE Threads'
  BY <1>6 DEF OpEnd
<1>7. CASE UndoPanic
  BY <1>7 DEF UndoPanic
<1>8. CASE FlushBegin
  BY <1>8 DEF FlushBegin
<1>9. CASE FlushMeta
  BY <1>9 DEF FlushMeta
<1>10. CASE FlushDummy
  BY <1>10 DEF FlushDummy, EnterFinalize
<1>11. CASE FlushRun
  BY <1>11 DEF FlushRun
<1>12. CASE SlaveFinalize
  BY <1>12 DEF SlaveFinalize, EnterFinalize
<1>13. CASE MasterFinalize
  BY <1>13 DEF MasterFinalize, EnterFinalize
<1>14. CASE FinalizeSyncLock
  BY <1>14 DEF FinalizeSyncLock, sync_lock_free, Idle
<1>15. CASE FinalizeBlockmap
  BY <1>15 DEF FinalizeBlockmap, lay_undo, undo_space, undo_used
<1>16. CASE FinalizeFlushUndo
  BY <1>16 DEF FinalizeFlushUndo
<1>17. CASE FinalizeHeader
  BY <1>17 DEF FinalizeHeader, WritesOk, IoDrained
<1>18. CASE FinalizeMeta
  BY <1>18 DEF FinalizeMeta, NextSequence, LeaveFinalize, WritesOk, IoDrained
<1>19. ASSUME NEW p \in Pos, KernelWritesUndo(p) PROVE Threads'
  BY <1>19 DEF KernelWritesUndo
<1>20. ASSUME NEW p \in Pos, UndoWritten(p) PROVE Threads'
  BY <1>20 DEF UndoWritten
<1>21. ASSUME NEW l \in Loc, MetaWritten(l) PROVE Threads'
  BY <1>21 DEF MetaWritten
<1>22. CASE HdrWritten
  BY <1>22 DEF HdrWritten, HdrOnDisk
<1>23. CASE RecoverUndo
  BY <1>23 DEF RecoverUndo, set_modlist, scan_record
<1>24. CASE RecoverFlush
  BY <1>24 DEF RecoverFlush
<1>25. CASE RecoverWait
  BY <1>25 DEF RecoverWait, IoDrained
<1>26. CASE RecoverFinish
  BY <1>26 DEF RecoverFinish
<1>27. CASE RecoverMount
  BY <1>27 DEF RecoverMount, MountCaches, IoDrained
<1>28. CASE CleanMount
  BY <1>28 DEF CleanMount, MountCaches
<1>29. CASE Crash
  BY <1>29 DEF Crash
<1>30. CASE UNCHANGED vars
  BY <1>30 DEF vars
<1> QED
  BY <1>1, <1>2, <1>3, <1>4, <1>5, <1>6, <1>7, <1>8, <1>9, <1>10, <1>11, <1>12,
       <1>13, <1>14, <1>15, <1>16, <1>17, <1>18, <1>19, <1>20, <1>21, <1>22,
       <1>23, <1>24, <1>25, <1>26, <1>27, <1>28, <1>29, <1>30, NoFailure DEF
       Next, Operation, Flusher, Finalize, Device, Recover

(* The three copies of the UNDO range.                                     *)
LEMMA OrderStep == ASSUME IInv, [Next]_vars PROVE Order'
<1> USE Constants DEF IInv, TypeOK, Control, Order, Up, Sound, Pos, MetaLoc,
          media, hdr, io, undo, tids, thr, bounds, snaps
<1>1. ASSUME NEW t \in Thread, OpBegin(t) PROVE Order'
  BY <1>1 DEF OpBegin, Idle
<1>2. ASSUME NEW t \in Thread, NEW l \in Loc, Modify(t, l) PROVE Order'
  BY <1>2 DEF Modify, set_modlist, regetblk
<1>3. ASSUME NEW t \in Thread, LayUndo(t) PROVE Order'
  BY <1>3 DEF LayUndo, lay_undo, undo_space, undo_used
<1>4. ASSUME NEW t \in Thread, Write(t) PROVE Order'
  BY <1>4 DEF Write
<1>5. ASSUME NEW t \in Thread, SetBlockmap(t) PROVE Order'
  BY <1>5 DEF SetBlockmap
<1>6. ASSUME NEW t \in Thread, OpEnd(t) PROVE Order'
  BY <1>6 DEF OpEnd
<1>7. CASE UndoPanic
  BY <1>7 DEF UndoPanic
<1>8. CASE FlushBegin
  BY <1>8 DEF FlushBegin
<1>9. CASE FlushMeta
  BY <1>9 DEF FlushMeta
<1>10. CASE FlushDummy
  BY <1>10 DEF FlushDummy, EnterFinalize
<1>11. CASE FlushRun
  BY <1>11 DEF FlushRun
<1>12. CASE SlaveFinalize
  BY <1>12 DEF SlaveFinalize, EnterFinalize
<1>13. CASE MasterFinalize
  BY <1>13 DEF MasterFinalize, EnterFinalize
<1>14. CASE FinalizeSyncLock
  BY <1>14 DEF FinalizeSyncLock, sync_lock_free, Idle
<1>15. CASE FinalizeBlockmap
  BY <1>15 DEF FinalizeBlockmap, lay_undo, undo_space, undo_used
<1>16. CASE FinalizeFlushUndo
  BY <1>16 DEF FinalizeFlushUndo
<1>17. CASE FinalizeHeader
  <2>1. /\ hFirst' = cFirst /\ hNext' = cNext /\ fpc' = "wait2"
        /\ UNCHANGED <<dFirst, dNext, cFirst, cNext, mode, rpos>>
        /\ mode = "up" /\ fpc = "wait1" /\ ~hdrRun
    BY <1>17 DEF FinalizeHeader, WritesOk, IoDrained
  <2>2. hdrRun' \/ (hFirst = cFirst /\ hNext = cNext /\ ~hdrDirty)
    BY <1>17 DEF FinalizeHeader
  <2>3. hdrRun' \/ (hFirst' = dFirst' /\ hNext' = dNext')
    BY <2>1, <2>2
  <2> QED
    BY <2>1, <2>3
<1>18. CASE FinalizeMeta
  BY <1>18 DEF FinalizeMeta, NextSequence, LeaveFinalize, WritesOk, IoDrained
<1>19. ASSUME NEW p \in Pos, KernelWritesUndo(p) PROVE Order'
  BY <1>19 DEF KernelWritesUndo
<1>20. ASSUME NEW p \in Pos, UndoWritten(p) PROVE Order'
  BY <1>20 DEF UndoWritten
<1>21. ASSUME NEW l \in Loc, MetaWritten(l) PROVE Order'
  BY <1>21 DEF MetaWritten
<1>22. CASE HdrWritten
  BY <1>22 DEF HdrWritten, HdrOnDisk
<1>23. CASE RecoverUndo
  BY <1>23 DEF RecoverUndo, set_modlist, scan_record
<1>24. CASE RecoverFlush
  BY <1>24 DEF RecoverFlush
<1>25. CASE RecoverWait
  BY <1>25 DEF RecoverWait, IoDrained
<1>26. CASE RecoverFinish
  BY <1>26 DEF RecoverFinish
<1>27. CASE RecoverMount
  BY <1>27 DEF RecoverMount, MountCaches, IoDrained
<1>28. CASE CleanMount
  BY <1>28 DEF CleanMount, MountCaches
<1>29. CASE Crash
  BY <1>29 DEF Crash
<1>30. CASE UNCHANGED vars
  BY <1>30 DEF vars
<1> QED
  BY <1>1, <1>2, <1>3, <1>4, <1>5, <1>6, <1>7, <1>8, <1>9, <1>10, <1>11, <1>12,
       <1>13, <1>14, <1>15, <1>16, <1>17, <1>18, <1>19, <1>20, <1>21, <1>22,
       <1>23, <1>24, <1>25, <1>26, <1>27, <1>28, <1>29, <1>30, NoFailure DEF
       Next, Operation, Flusher, Finalize, Device, Recover

(* Where the records are.                                                  *)
LEMMA RecordsStep == ASSUME IInv, [Next]_vars PROVE Records'
<1> USE Constants DEF IInv, TypeOK, Control, Order, Up, Sound, Records,
          UndoLogIntact, Live, Pos, MetaLoc, media, hdr, io, undo, tids, thr,
          bounds, snaps
<1>1. ASSUME NEW t \in Thread, OpBegin(t) PROVE Records'
  BY <1>1 DEF OpBegin, Idle
<1>2. ASSUME NEW t \in Thread, NEW l \in Loc, Modify(t, l) PROVE Records'
  BY <1>2 DEF Modify, set_modlist, regetblk
<1>3. ASSUME NEW t \in Thread, LayUndo(t) PROVE Records'
  BY <1>3 DEF LayUndo, lay_undo, undo_space, undo_used
<1>4. ASSUME NEW t \in Thread, Write(t) PROVE Records'
  BY <1>4 DEF Write
<1>5. ASSUME NEW t \in Thread, SetBlockmap(t) PROVE Records'
  BY <1>5 DEF SetBlockmap
<1>6. ASSUME NEW t \in Thread, OpEnd(t) PROVE Records'
  BY <1>6 DEF OpEnd
<1>7. CASE UndoPanic
  BY <1>7 DEF UndoPanic
<1>8. CASE FlushBegin
  BY <1>8 DEF FlushBegin
<1>9. CASE FlushMeta
  BY <1>9 DEF FlushMeta
<1>10. CASE FlushDummy
  BY <1>10 DEF FlushDummy, EnterFinalize
<1>11. CASE FlushRun
  BY <1>11 DEF FlushRun
<1>12. CASE SlaveFinalize
  BY <1>12 DEF SlaveFinalize, EnterFinalize
<1>13. CASE MasterFinalize
  BY <1>13 DEF MasterFinalize, EnterFinalize
<1>14. CASE FinalizeSyncLock
  BY <1>14 DEF FinalizeSyncLock, sync_lock_free, Idle
<1>15. CASE FinalizeBlockmap
  <2>1. CASE lay_undo(BlkMap)
    <3>1. hFirst = dFirst /\ hNext = dNext
      BY <1>15, <2>1 DEF FinalizeBlockmap, lay_undo
    <3> QED
      BY <1>15, <2>1, <3>1
      DEF FinalizeBlockmap, lay_undo, undo_space, undo_used
  <2>2. CASE UNCHANGED <<undo, undoDirty>>
    BY <1>15, <2>2 DEF FinalizeBlockmap
  <2> QED
    BY <1>15, <2>1, <2>2 DEF FinalizeBlockmap
<1>16. CASE FinalizeFlushUndo
  BY <1>16 DEF FinalizeFlushUndo
<1>17. CASE FinalizeHeader
  BY <1>17 DEF FinalizeHeader, WritesOk, IoDrained
<1>18. CASE FinalizeMeta
  BY <1>18, SMTT(30)
  DEF FinalizeMeta, NextSequence, LeaveFinalize, WritesOk, IoDrained
<1>19. ASSUME NEW p \in Pos, KernelWritesUndo(p) PROVE Records'
  BY <1>19 DEF KernelWritesUndo
<1>20. ASSUME NEW p \in Pos, UndoWritten(p) PROVE Records'
  BY <1>20 DEF UndoWritten
<1>21. ASSUME NEW l \in Loc, MetaWritten(l) PROVE Records'
  BY <1>21 DEF MetaWritten
<1>22. CASE HdrWritten
  BY <1>22 DEF HdrWritten, HdrOnDisk
<1>23. CASE RecoverUndo
  BY <1>23 DEF RecoverUndo, set_modlist, scan_record
<1>24. CASE RecoverFlush
  BY <1>24 DEF RecoverFlush
<1>25. CASE RecoverWait
  BY <1>25 DEF RecoverWait, IoDrained
<1>26. CASE RecoverFinish
  BY <1>26 DEF RecoverFinish
<1>27. CASE RecoverMount
  BY <1>27 DEF RecoverMount, MountCaches, IoDrained
<1>28. CASE CleanMount
  BY <1>28 DEF CleanMount, MountCaches
<1>29. CASE Crash
  <2>1. /\ undoDirty' = {} /\ undoRun' = {} /\ mode' = "recover"
    BY <1>29 DEF Crash
  <2>2. PICK U \in SUBSET undoRun, h \in {hdrRun, FALSE} :
          /\ dFirst' = IF h THEN hFirst ELSE dFirst
          /\ dNext' = IF h THEN hNext ELSE dNext
          /\ uDisk' = ((uDisk \union U) \ {p - UndoSlots : p \in U})
                        \cap (0 .. dNext' - 1)
    BY <1>29 DEF Crash
  <2>3. CASE h
    <3>1. U = {} /\ hFirst = cFirst /\ hNext = cNext /\ Up
      BY <2>3
    <3>2. cFirst .. cNext - 1 \subseteq uDisk
      BY <2>3
    <3> QED
      BY <2>1, <2>2, <2>3, <3>1, <3>2
  <2>4. CASE ~h
    BY <2>1, <2>2, <2>4
  <2> QED
    BY <2>3, <2>4
<1>30. CASE UNCHANGED vars
  BY <1>30 DEF vars
<1> QED
  BY <1>1, <1>2, <1>3, <1>4, <1>5, <1>6, <1>7, <1>8, <1>9, <1>10, <1>11, <1>12,
       <1>13, <1>14, <1>15, <1>16, <1>17, <1>18, <1>19, <1>20, <1>21, <1>22,
       <1>23, <1>24, <1>25, <1>26, <1>27, <1>28, <1>29, <1>30, NoFailure DEF
       Next, Operation, Flusher, Finalize, Device, Recover

(* Memory and the current sequence of records.                             *)
LEMMA ContentsStep == ASSUME IInv, [Next]_vars PROVE Contents'
<1> USE Constants DEF IInv, TypeOK, Control, Up, Sound, Contents, Recorded,
          Laying, Pos, MetaLoc, media, hdr, io, undo, tids, thr, bounds, snaps
<1>1. ASSUME NEW t \in Thread, OpBegin(t) PROVE Contents'
  BY <1>1 DEF OpBegin, Idle
<1>2. ASSUME NEW t \in Thread, NEW l \in Loc, Modify(t, l) PROVE Contents'
  <2>1. /\ mode = "up" /\ tpc[t] = "op" /\ l \in ttodo[t] /\ tloc'[t] = l
        /\ \A u \in Thread : u # t => tpc'[u] = tpc[u] /\ tloc'[u] = tloc[u]
        /\ UNCHANGED <<mem, ulog, cFirst, cNext, dsk, snapC, metaRun, mode>>
    BY <1>2 DEF Modify
  <2>2. /\ l \in hist => tpc'[t] = "write" /\ hist' = hist
        /\ l \notin hist => tpc'[t] = "lay" /\ hist' \subseteq hist \union {l}
    BY <1>2, EnterHistory DEF Modify
  <2>3. /\ metaDirty \subseteq metaDirty'
        /\ metaDirty' \subseteq metaDirty \union {l}
        /\ l \in MetaLoc => l \in metaDirty' /\ l \notin metaRun'
        /\ l \notin MetaLoc => l \notin metaDirty'
    BY <1>2 DEF Modify, set_modlist, regetblk
  <2>4. l \in hist => Covered(ulog, cFirst, cNext, l)
    BY <2>1 DEF Threads
  <2>5. \A x : Laying(x) => Laying(x)'
    BY <2>1
  <2>6. Recorded(l)'
    BY <2>1, <2>2, <2>4
  <2>7. \A x \in hist' \union metaDirty' : Recorded(x)'
    BY <2>1, <2>2, <2>3, <2>5, <2>6
  <2>8. \A u \in Thread :
          /\ tpc'[u] = "write" => Covered(ulog', cFirst', cNext', tloc'[u])
          /\ (tpc'[u] \in {"lay", "write"} /\ tloc'[u] \in MetaLoc) =>
               tloc'[u] \in metaDirty' /\ tloc'[u] \notin metaRun'
    BY <2>1, <2>2, <2>3, <2>4
  <2> QED
    BY <2>1, <2>3, <2>7, <2>8
<1>3. ASSUME NEW t \in Thread, LayUndo(t) PROVE Contents'
  <2>1. /\ mode = "up" /\ tpc[t] = "lay" /\ tloc[t] \in Loc /\ tpc'[t] = "write"
        /\ \A u \in Thread : u # t => tpc'[u] = tpc[u]
        /\ lay_undo(tloc[t])
        /\ UNCHANGED <<tloc, mem, cFirst, dsk, dFirst, dNext, snapC, metaRun,
                       metaDirty, mode, hist>>
    BY <1>3 DEF LayUndo
  <2>2. /\ Undoes(ulog', cFirst', cNext', mem, snapC)
        /\ \A x : Covered(ulog', cFirst', cNext', x)
                    <=> (Covered(ulog, cFirst, cNext, x) \/ x = tloc[t])
    <3> HIDE DEF IInv
    <3> QED
      BY <2>1, LayEffect
  <2>3. \A x \in hist' \union metaDirty' : Recorded(x)'
    BY <2>1, <2>2
  <2>4. \A u \in Thread :
          /\ tpc'[u] = "write" => Covered(ulog', cFirst', cNext', tloc'[u])
          /\ (tpc'[u] \in {"lay", "write"} /\ tloc'[u] \in MetaLoc) =>
               tloc'[u] \in metaDirty' /\ tloc'[u] \notin metaRun'
    BY <2>1, <2>2
  <2> QED
    BY <2>1, <2>2, <2>3, <2>4
<1>4. ASSUME NEW t \in Thread, Write(t) PROVE Contents'
  <2>1. /\ mode = "up" /\ tpc[t] = "write" /\ tloc[t] \in Loc /\ tpc'[t] = "op"
        /\ \A u \in Thread : u # t => tpc'[u] = tpc[u]
        /\ \A x \in Loc : x # tloc[t] => mem'[x] = mem[x]
        /\ UNCHANGED <<tloc, ulog, cFirst, cNext, dsk, snapC, metaRun,
                       metaDirty, mode, hist>>
    BY <1>4 DEF Write
  <2>2. Covered(ulog, cFirst, cNext, tloc[t])
    BY <2>1
  <2>3. Undoes(ulog, cFirst, cNext, mem', snapC)
    BY <2>1, <2>2, UndoesBase
  <2>4. \A x \in hist' \union metaDirty' : Recorded(x)'
    BY <2>1
  <2>5. \A u \in Thread :
          /\ tpc'[u] = "write" => Covered(ulog', cFirst', cNext', tloc'[u])
          /\ (tpc'[u] \in {"lay", "write"} /\ tloc'[u] \in MetaLoc) =>
               tloc'[u] \in metaDirty' /\ tloc'[u] \notin metaRun'
    BY <2>1
  <2>6. \A x \in MetaLoc \ metaRun :
          x \notin metaDirty \/ ~Covered(ulog, cFirst, cNext, x) =>
            dsk[x] = mem'[x]
    BY <2>1, <2>2
  <2> QED
    BY <2>1, <2>3, <2>4, <2>5, <2>6
<1>5. ASSUME NEW t \in Thread, SetBlockmap(t) PROVE Contents'
  BY <1>5 DEF SetBlockmap
<1>6. ASSUME NEW t \in Thread, OpEnd(t) PROVE Contents'
  BY <1>6 DEF OpEnd
<1>7. CASE UndoPanic
  BY <1>7 DEF UndoPanic
<1>8. CASE FlushBegin
  BY <1>8 DEF FlushBegin
<1>9. CASE FlushMeta
  BY <1>9 DEF FlushMeta
<1>10. CASE FlushDummy
  BY <1>10 DEF FlushDummy, EnterFinalize
<1>11. CASE FlushRun
  BY <1>11 DEF FlushRun
<1>12. CASE SlaveFinalize
  BY <1>12 DEF SlaveFinalize, EnterFinalize
<1>13. CASE MasterFinalize
  BY <1>13 DEF MasterFinalize, EnterFinalize
<1>14. CASE FinalizeSyncLock
  BY <1>14 DEF FinalizeSyncLock, sync_lock_free, Idle
<1>15. CASE FinalizeBlockmap
  <2>1. /\ mode = "up" /\ \A t \in Thread : tpc[t] = "idle"
        /\ UNCHANGED <<tpc, tloc, cFirst, dsk, dFirst, dNext, snapC, metaRun,
                       metaDirty, mode>>
    BY <1>15 DEF FinalizeBlockmap
  <2>2. CASE UNCHANGED <<ulog, cNext, hist, mem>>
    BY <2>1, <2>2
  <2>3. CASE BlkMap \in hist /\ UNCHANGED undo
               /\ mem' = [mem EXCEPT ![BlkMap] = cblk]
    <3>1. Covered(ulog, cFirst, cNext, BlkMap)
      BY <2>1, <2>3
    <3>2. \A x \in Loc : x # BlkMap => mem'[x] = mem[x]
      BY <2>3
    <3>3. /\ Undoes(ulog, cFirst, cNext, mem, snapC)
          /\ cFirst \in Int /\ cNext \in Int
      BY <2>1
    <3>4. \A x \in Loc : Covered(ulog, cFirst, cNext, x) \/ mem'[x] = mem[x]
      BY <3>1, <3>2
    <3>5. Undoes(ulog, cFirst, cNext, mem', snapC)
      <4> HIDE DEF IInv
      <4> QED
        BY <3>3, <3>4, UndoesBase
    <3> QED
      BY <2>1, <2>3, <3>2, <3>5
  <2>4. CASE lay_undo(BlkMap) /\ enter_undo_history(BlkMap)
               /\ mem' = [mem EXCEPT ![BlkMap] = cblk]
    <3>1. /\ Undoes(ulog', cFirst', cNext', mem, snapC)
          /\ \A x : Covered(ulog', cFirst', cNext', x)
                      <=> (Covered(ulog, cFirst, cNext, x) \/ x = BlkMap)
      <4> HIDE DEF IInv
      <4> QED
        BY <2>1, <2>4, LayEffect
    <3>2. \A x \in Loc : x # BlkMap => mem'[x] = mem[x]
      BY <2>4
    <3>3. cFirst' \in Int /\ cNext' \in Int
      BY <2>1, <2>4 DEF lay_undo
    <3>4. Undoes(ulog', cFirst', cNext', mem', snapC)
      <4> HIDE DEF IInv
      <4>1. \A x \in Loc : Covered(ulog', cFirst', cNext', x) \/ mem'[x] = mem[x]
        BY <3>1, <3>2
      <4> QED
        BY <3>1, <3>3, <4>1, UndoesBase
    <3>5. hist' \subseteq hist \union {BlkMap}
      BY <2>4, EnterHistory
    <3> QED
      BY <2>1, <3>1, <3>2, <3>4, <3>5
  <2> QED
    BY <1>15, <2>2, <2>3, <2>4 DEF FinalizeBlockmap
<1>16. CASE FinalizeFlushUndo
  BY <1>16 DEF FinalizeFlushUndo
<1>17. CASE FinalizeHeader
  BY <1>17 DEF FinalizeHeader, WritesOk, IoDrained
<1>18. CASE FinalizeMeta
  <2>1. /\ mode = "up" /\ \A t \in Thread : tpc[t] = "idle"
        /\ metaRun' = metaDirty /\ metaDirty' = {}
        /\ UNCHANGED <<tpc, tloc, ulog, cNext, mem, dsk, mode>>
    BY <1>18 DEF FinalizeMeta, WritesOk, IoDrained
  <2>2. CASE Final
    <3>1. cFirst' = cNext /\ hist' = {} /\ snapC' = mem
      BY <1>18, <2>2 DEF FinalizeMeta, NextSequence
    <3>2. /\ Undoes(ulog, cNext, cNext, mem, mem)
          /\ \A l : ~Covered(ulog, cNext, cNext, l)
      BY UndoesNothing, CoveredNothing
    <3>3. \A l \in MetaLoc \ metaDirty : dsk[l] = mem[l]
      BY <1>18, <2>1 DEF FinalizeMeta, WritesOk, IoDrained
    <3> HIDE DEF IInv
    <3> QED
      BY <2>1, <3>1, <3>2, <3>3
  <2>3. CASE ~Final
    BY <1>18, <2>1, <2>3 DEF FinalizeMeta
  <2> QED
    BY <2>2, <2>3
<1>19. ASSUME NEW p \in Pos, KernelWritesUndo(p) PROVE Contents'
  BY <1>19 DEF KernelWritesUndo
<1>20. ASSUME NEW p \in Pos, UndoWritten(p) PROVE Contents'
  BY <1>20 DEF UndoWritten
<1>21. ASSUME NEW l \in Loc, MetaWritten(l) PROVE Contents'
  BY <1>21 DEF MetaWritten
<1>22. CASE HdrWritten
  BY <1>22 DEF HdrWritten, HdrOnDisk
<1>23. CASE RecoverUndo
  BY <1>23 DEF RecoverUndo, set_modlist, scan_record
<1>24. CASE RecoverFlush
  BY <1>24 DEF RecoverFlush
<1>25. CASE RecoverWait
  BY <1>25 DEF RecoverWait, IoDrained
<1>26. CASE RecoverFinish
  BY <1>26 DEF RecoverFinish
<1>27. CASE RecoverMount
  <2>1. /\ cFirst' = hFirst /\ cNext' = hFirst /\ snapC' = mem /\ metaRun = {}
        /\ \A t \in Thread : tpc[t] = "idle"
        /\ UNCHANGED <<tpc, tloc, ulog, mem, dsk, metaDirty, metaRun, hist>>
    BY <1>27 DEF RecoverMount, MountCaches, IoDrained, Order
  <2>2. metaDirty = {} /\ hist = {} /\ \A l \in MetaLoc : dsk[l] = mem[l]
    BY <1>27, <2>1 DEF RecoverMount, Recovery
  <2>3. /\ Undoes(ulog, hFirst, hFirst, mem, mem)
        /\ \A l : ~Covered(ulog, hFirst, hFirst, l)
    BY UndoesNothing, CoveredNothing
  <2> QED
    BY <2>1, <2>2, <2>3
<1>28. CASE CleanMount
  <2>1. /\ mode = "recover" /\ cFirst' = hFirst /\ cNext' = hFirst /\ snapC' = mem
        /\ \A t \in Thread : tpc[t] = "idle"
        /\ UNCHANGED <<tpc, tloc, ulog, mem, dsk, metaDirty, metaRun, hist>>
    BY <1>28 DEF CleanMount, MountCaches
  <2>2. dFirst = hFirst /\ dNext = hFirst
    BY <1>28 DEF CleanMount, Order
  <2>3. /\ Undoes(ulog, hFirst, hFirst, mem, mem)
        /\ \A l : ~Covered(ulog, hFirst, hFirst, l)
    BY UndoesNothing, CoveredNothing
  <2>4. metaDirty = {} /\ metaRun = {}
    BY <2>1, <2>2, <2>3 DEF Recovery, Media
  <2>5. hist = {} /\ \A l \in MetaLoc : dsk[l] = mem[l]
    BY <2>1, <2>4 DEF Recovery
  <2> QED
    BY <2>1, <2>3, <2>4, <2>5
<1>29. CASE Crash
  BY <1>29 DEF Crash
<1>30. CASE UNCHANGED vars
  BY <1>30 DEF vars
<1> QED
  BY <1>1, <1>2, <1>3, <1>4, <1>5, <1>6, <1>7, <1>8, <1>9, <1>10, <1>11, <1>12,
       <1>13, <1>14, <1>15, <1>16, <1>17, <1>18, <1>19, <1>20, <1>21, <1>22,
       <1>23, <1>24, <1>25, <1>26, <1>27, <1>28, <1>29, <1>30, NoFailure DEF
       Next, Operation, Flusher, Finalize, Device, Recover

(* The media and its sequence of records.                                  *)
LEMMA MediaStep == ASSUME IInv, [Next]_vars PROVE Media'
<1> USE Constants DEF IInv, TypeOK, Control, Up, Sound, Media, Pos, MetaLoc,
          media, hdr, io, undo, tids, thr, bounds, snaps
<1>1. ASSUME NEW t \in Thread, OpBegin(t) PROVE Media'
  BY <1>1 DEF OpBegin, Idle
<1>2. ASSUME NEW t \in Thread, NEW l \in Loc, Modify(t, l) PROVE Media'
  BY <1>2 DEF Modify, set_modlist, regetblk
<1>3. ASSUME NEW t \in Thread, LayUndo(t) PROVE Media'
  <2>1. /\ mode = "up"
        /\ UNCHANGED <<cFirst, dsk, dFirst, dNext, snapD, metaRun>>
    BY <1>3 DEF LayUndo
  <2>2. tloc[t] \in Loc /\ lay_undo(tloc[t])
    BY <1>3 DEF LayUndo
  <2> QED
    <3>1. /\ Undoes(ulog', dFirst', dNext', dsk, snapD)
          /\ \A x : Covered(ulog, dFirst, dNext, x)
                      => Covered(ulog', dFirst', dNext', x)
      <4> HIDE DEF IInv
      <4> QED
        BY <2>1, <2>2, LayEffect
    <3> QED
      BY <2>1, <3>1
<1>4. ASSUME NEW t \in Thread, Write(t) PROVE Media'
  BY <1>4 DEF Write
<1>5. ASSUME NEW t \in Thread, SetBlockmap(t) PROVE Media'
  BY <1>5 DEF SetBlockmap
<1>6. ASSUME NEW t \in Thread, OpEnd(t) PROVE Media'
  BY <1>6 DEF OpEnd
<1>7. CASE UndoPanic
  BY <1>7 DEF UndoPanic
<1>8. CASE FlushBegin
  BY <1>8 DEF FlushBegin
<1>9. CASE FlushMeta
  BY <1>9 DEF FlushMeta
<1>10. CASE FlushDummy
  BY <1>10 DEF FlushDummy, EnterFinalize
<1>11. CASE FlushRun
  BY <1>11 DEF FlushRun
<1>12. CASE SlaveFinalize
  BY <1>12 DEF SlaveFinalize, EnterFinalize
<1>13. CASE MasterFinalize
  BY <1>13 DEF MasterFinalize, EnterFinalize
<1>14. CASE FinalizeSyncLock
  BY <1>14 DEF FinalizeSyncLock, sync_lock_free, Idle
<1>15. CASE FinalizeBlockmap
  <2>1. /\ mode = "up"
        /\ UNCHANGED <<cFirst, dsk, dFirst, dNext, snapD, metaRun>>
    BY <1>15 DEF FinalizeBlockmap
  <2>2. CASE lay_undo(BlkMap)
    <3>1. /\ Undoes(ulog', dFirst', dNext', dsk, snapD)
          /\ \A x : Covered(ulog, dFirst, dNext, x)
                      => Covered(ulog', dFirst', dNext', x)
      <4> HIDE DEF IInv
      <4> QED
        BY <2>1, <2>2, LayEffect
    <3> QED
      BY <2>1, <3>1
  <2>3. CASE UNCHANGED ulog
    BY <2>1, <2>3
  <2> QED
    BY <1>15, <2>2, <2>3 DEF FinalizeBlockmap
<1>16. CASE FinalizeFlushUndo
  BY <1>16 DEF FinalizeFlushUndo
<1>17. CASE FinalizeHeader
  BY <1>17 DEF FinalizeHeader, WritesOk, IoDrained
<1>18. CASE FinalizeMeta
  <2>1. /\ mode = "up" /\ \A t \in Thread : tpc[t] = "idle"
        /\ metaRun' = metaDirty
        /\ UNCHANGED <<ulog, dsk, dFirst, dNext, snapD>>
    BY <1>18 DEF FinalizeMeta, WritesOk, IoDrained
  <2>2. cFirst = dFirst /\ cNext = dNext
    BY <1>18 DEF FinalizeMeta, WritesOk, IoDrained, Order
  <2>3. \A l \in metaDirty : Covered(ulog, dFirst, dNext, l)
    BY <2>1, <2>2 DEF Contents, Recorded, Laying
  <2> QED
    BY <2>1, <2>3
<1>19. ASSUME NEW p \in Pos, KernelWritesUndo(p) PROVE Media'
  BY <1>19 DEF KernelWritesUndo
<1>20. ASSUME NEW p \in Pos, UndoWritten(p) PROVE Media'
  BY <1>20 DEF UndoWritten
<1>21. ASSUME NEW l \in Loc, MetaWritten(l) PROVE Media'
  <2>1. /\ l \in metaRun /\ metaRun' = metaRun \ {l}
        /\ \A x \in Loc : x # l => dsk'[x] = dsk[x]
        /\ UNCHANGED <<ulog, dFirst, dNext, snapD>>
    BY <1>21 DEF MetaWritten
  <2>2. \A x \in Loc : Covered(ulog, dFirst, dNext, x) \/ dsk'[x] = dsk[x]
    BY <2>1
  <2>3. Undoes(ulog, dFirst, dNext, dsk', snapD)
    BY <2>2, UndoesBase
  <2> QED
    BY <2>1, <2>3
<1>22. CASE HdrWritten
  <2>1. /\ hdrRun /\ metaRun' = {} /\ dFirst' = hFirst /\ dNext' = hNext
        /\ snapD' = snapC /\ ulog' = ulog
        /\ \A l \in Loc : dsk'[l] = IF l \in VolLoc THEN mem[l] ELSE dsk[l]
    BY <1>22 DEF HdrWritten, HdrOnDisk
  <2>2. Undoes(ulog, hFirst, hNext, dsk', snapC)
    <3> HIDE DEF IInv
    <3> QED
      BY <2>1, HeaderEffect
  <2> QED
    BY <2>1, <2>2
<1>23. CASE RecoverUndo
  BY <1>23 DEF RecoverUndo, set_modlist, scan_record
<1>24. CASE RecoverFlush
  BY <1>24 DEF RecoverFlush, Recovery
<1>25. CASE RecoverWait
  BY <1>25 DEF RecoverWait, IoDrained
<1>26. CASE RecoverFinish
  BY <1>26 DEF RecoverFinish, Recovery
<1>27. CASE RecoverMount
  BY <1>27 DEF RecoverMount, MountCaches, IoDrained
<1>28. CASE CleanMount
  BY <1>28 DEF CleanMount, MountCaches
<1>29. CASE Crash
  <2>1. PICK S \in SUBSET metaRun, h \in {hdrRun, FALSE} :
          /\ dsk' = [l \in Loc |-> IF l \in S \/ (h /\ l \in VolLoc)
                                     THEN mem[l] ELSE dsk[l]]
          /\ dFirst' = IF h THEN hFirst ELSE dFirst
          /\ dNext' = IF h THEN hNext ELSE dNext
          /\ snapD' = IF h THEN snapC ELSE snapD
    BY <1>29 DEF Crash
  <2>2. metaRun' = {} /\ ulog' = ulog
    BY <1>29 DEF Crash
  <2>3. CASE h
    <3>1. hdrRun /\ S = {}
      BY <2>1, <2>3
    <3>2. \A l \in Loc : dsk'[l] = IF l \in VolLoc THEN mem[l] ELSE dsk[l]
      BY <2>1, <2>3, <3>1
    <3>3. Undoes(ulog, hFirst, hNext, dsk', snapC)
      <4> HIDE DEF IInv
      <4> QED
        BY <3>1, <3>2, HeaderEffect
    <3> QED
      BY <2>1, <2>2, <2>3, <3>3
  <2>4. CASE ~h
    <3>1. \A l \in Loc : Covered(ulog, dFirst, dNext, l) \/ dsk'[l] = dsk[l]
      BY <2>1, <2>4
    <3>2. Undoes(ulog, dFirst, dNext, dsk', snapD)
      BY <3>1, UndoesBase
    <3> QED
      BY <2>1, <2>2, <2>4, <3>2
  <2> QED
    BY <2>3, <2>4
<1>30. CASE UNCHANGED vars
  BY <1>30 DEF vars
<1> QED
  BY <1>1, <1>2, <1>3, <1>4, <1>5, <1>6, <1>7, <1>8, <1>9, <1>10, <1>11, <1>12,
       <1>13, <1>14, <1>15, <1>16, <1>17, <1>18, <1>19, <1>20, <1>21, <1>22,
       <1>23, <1>24, <1>25, <1>26, <1>27, <1>28, <1>29, <1>30, NoFailure DEF
       Next, Operation, Flusher, Finalize, Device, Recover

(* How far hammer_recover() has come.                                      *)
LEMMA RecoveryStep == ASSUME IInv, [Next]_vars PROVE Recovery'
<1> USE Constants DEF IInv, TypeOK, Control, Up, Sound, Recovery, Pos, MetaLoc,
          media, hdr, io, undo, tids, thr, bounds, snaps
<1>1. ASSUME NEW t \in Thread, OpBegin(t) PROVE Recovery'
  BY <1>1 DEF OpBegin, Idle
<1>2. ASSUME NEW t \in Thread, NEW l \in Loc, Modify(t, l) PROVE Recovery'
  BY <1>2 DEF Modify, set_modlist, regetblk
<1>3. ASSUME NEW t \in Thread, LayUndo(t) PROVE Recovery'
  BY <1>3 DEF LayUndo, lay_undo, undo_space, undo_used
<1>4. ASSUME NEW t \in Thread, Write(t) PROVE Recovery'
  BY <1>4 DEF Write
<1>5. ASSUME NEW t \in Thread, SetBlockmap(t) PROVE Recovery'
  BY <1>5 DEF SetBlockmap
<1>6. ASSUME NEW t \in Thread, OpEnd(t) PROVE Recovery'
  BY <1>6 DEF OpEnd
<1>7. CASE UndoPanic
  BY <1>7 DEF UndoPanic
<1>8. CASE FlushBegin
  BY <1>8 DEF FlushBegin
<1>9. CASE FlushMeta
  BY <1>9 DEF FlushMeta
<1>10. CASE FlushDummy
  BY <1>10 DEF FlushDummy, EnterFinalize
<1>11. CASE FlushRun
  BY <1>11 DEF FlushRun
<1>12. CASE SlaveFinalize
  BY <1>12 DEF SlaveFinalize, EnterFinalize
<1>13. CASE MasterFinalize
  BY <1>13 DEF MasterFinalize, EnterFinalize
<1>14. CASE FinalizeSyncLock
  BY <1>14 DEF FinalizeSyncLock, sync_lock_free, Idle
<1>15. CASE FinalizeBlockmap
  BY <1>15 DEF FinalizeBlockmap, lay_undo, undo_space, undo_used
<1>16. CASE FinalizeFlushUndo
  BY <1>16 DEF FinalizeFlushUndo
<1>17. CASE FinalizeHeader
  BY <1>17 DEF FinalizeHeader, WritesOk, IoDrained
<1>18. CASE FinalizeMeta
  BY <1>18 DEF FinalizeMeta, NextSequence, LeaveFinalize, WritesOk, IoDrained
<1>19. ASSUME NEW p \in Pos, KernelWritesUndo(p) PROVE Recovery'
  BY <1>19 DEF KernelWritesUndo
<1>20. ASSUME NEW p \in Pos, UndoWritten(p) PROVE Recovery'
  BY <1>20 DEF UndoWritten
<1>21. ASSUME NEW l \in Loc, MetaWritten(l) PROVE Recovery'
  <2>1. /\ l \in metaRun /\ metaRun' = metaRun \ {l} /\ dsk'[l] = mem[l]
        /\ \A x \in Loc : x # l => dsk'[x] = dsk[x]
        /\ UNCHANGED <<ulog, dFirst, dNext, hNext, rpos, mem, snapD, mode,
                       metaDirty, hist>>
    BY <1>21 DEF MetaWritten
  <2>2. mode \in {"recover", "rwait"} => Undoes(ulog, rpos, hNext, dsk', mem)
    BY <2>1 DEF Undoes
  <2> QED
    BY <2>1, <2>2
<1>22. CASE HdrWritten
  BY <1>22 DEF HdrWritten, HdrOnDisk
<1>23. CASE RecoverUndo
  <2>1. /\ mode = "recover" /\ rpos > hFirst
        /\ hFirst = dFirst /\ hNext = dNext /\ rpos \in hFirst .. hNext
        /\ UNCHANGED <<ulog, dFirst, dNext, hNext, dsk, snapD, metaRun, hist>>
    BY <1>23 DEF RecoverUndo, Order
  <2>2. CASE scan_record \notin uDisk
    BY <1>23, <2>1, <2>2 DEF RecoverUndo
  <2>3. CASE scan_record \in uDisk
    <3> DEFINE a == rpos - 1  k == ulog[a].loc
    <3>1. /\ a \in Int /\ hNext \in Int /\ a < hNext /\ k \in Loc
          /\ a \in Pos /\ a \in dFirst .. dNext - 1
      BY <2>1 DEF Rec
    <3>2. /\ rpos' = a /\ mode' = "recover"
          /\ mem'[k] = ulog[a].val /\ \A l \in Loc : l # k => mem'[l] = mem[l]
      BY <1>23, <2>3, <3>1 DEF RecoverUndo, scan_record
    <3>3. /\ metaDirty \subseteq metaDirty'
          /\ metaDirty' \subseteq metaDirty \union {k}
          /\ k \in MetaLoc => k \in metaDirty'
      BY <1>23, <2>3 DEF RecoverUndo, scan_record, set_modlist
    <3>4. Undoes(ulog, a + 1, hNext, dsk, mem)
      BY <2>1
    <3>5. Undoes(ulog, a, hNext, dsk, mem')
      <4> HIDE DEF IInv, a
      <4> QED
        BY <3>1, <3>2, <3>4, UndoesBack
    <3>6. Covered(ulog, dFirst, dNext, k)
      BY <3>1 DEF Covered
    <3>7. \A l \in metaDirty' : Covered(ulog, dFirst, dNext, l)
      BY <2>1, <3>3, <3>6
    <3>8. \A l \in MetaLoc \ (metaDirty' \union metaRun) : dsk[l] = mem'[l]
      BY <2>1, <3>2, <3>3
    <3>9. hist = {}
      BY <2>1
    <3> HIDE DEF IInv, a, k
    <3> QED
      BY <2>1, <3>2, <3>5, <3>7, <3>8, <3>9
  <2> QED
    BY <2>2, <2>3
<1>24. CASE RecoverFlush
  BY <1>24 DEF RecoverFlush
<1>25. CASE RecoverWait
  BY <1>25 DEF RecoverWait, IoDrained
<1>26. CASE RecoverFinish
  <2>1. /\ mode = "recover" /\ rpos = dFirst /\ hNext = dNext
        /\ metaRun' = metaRun \union metaDirty /\ metaDirty' = {}
        /\ mode' = "rfinal"
        /\ UNCHANGED <<ulog, dsk, mem, snapD, hist>>
    BY <1>26 DEF RecoverFinish, Order
  <2>2. \A l \in Loc : mem[l] = snapD[l]
    BY <2>1, UndoesUnique DEF Media
  <2>3. mem = snapD
    BY <2>2
  <2> QED
    BY <2>1, <2>3
<1>27. CASE RecoverMount
  BY <1>27 DEF RecoverMount, MountCaches, IoDrained
<1>28. CASE CleanMount
  BY <1>28 DEF CleanMount, MountCaches
<1>29. CASE Crash
  <2>1. /\ rpos' = dNext' /\ hNext' = dNext' /\ mem' = dsk' /\ hist' = {}
        /\ metaDirty' = {} /\ mode' = "recover" /\ ulog' = ulog
    BY <1>29 DEF Crash
  <2>2. dNext' \in Int
    BY <1>29 DEF Crash
  <2>3. Undoes(ulog, dNext', dNext', dsk', dsk')
    BY <2>2, UndoesNothing
  <2> QED
    BY <2>1, <2>3
<1>30. CASE UNCHANGED vars
  BY <1>30 DEF vars
<1> QED
  BY <1>1, <1>2, <1>3, <1>4, <1>5, <1>6, <1>7, <1>8, <1>9, <1>10, <1>11, <1>12,
       <1>13, <1>14, <1>15, <1>16, <1>17, <1>18, <1>19, <1>20, <1>21, <1>22,
       <1>23, <1>24, <1>25, <1>26, <1>27, <1>28, <1>29, <1>30, NoFailure DEF
       Next, Operation, Flusher, Finalize, Device, Recover

(* Every step preserves the invariant.                                     *)
LEMMA NextInv == IInv /\ [Next]_vars => IInv'
BY NextType, ControlStep, OrderStep, RecordsStep, ThreadsStep, ContentsStep,
   MediaStep, RecoveryStep
DEF IInv, Sound

(* IInv is an invariant of the specification.                              *)
LEMMA Inductive == Sound /\ Spec => []IInv
BY InitInv, NextInv, PTL DEF Spec

(* A log that undoes the media to a boundary is what the property asks.    *)
LEMMA Committed == IInv => CrashImageIsCommitted
<1> SUFFICES ASSUME IInv PROVE CrashImageIsCommitted
  OBVIOUS
<1>0. UndoLogIntact
  BY DEF IInv, Records
<1>1. dFirst \in Int /\ dNext \in Int
  BY Constants DEF IInv, TypeOK, Pos
<1>2. ASSUME NEW l \in Loc, \A p \in Live : ulog[p].loc # l
      PROVE  dsk[l] = snapD[l]
  BY <1>2 DEF IInv, Media, Undoes, First, Live
<1>3. ASSUME NEW l \in Loc, NEW p \in Live, ulog[p].loc = l,
             \A q \in Live : ulog[q].loc = l => p =< q
      PROVE  ulog[p].val = snapD[l]
  <2>1. PICK f \in Live : First(ulog, dFirst, f, l) /\ ulog[f].val = snapD[l]
    BY <1>3 DEF IInv, Media, Undoes, Covered, Live
  <2>2. p =< f /\ ~(p < f)
    BY <1>1, <1>3, <2>1 DEF First, Live
  <2>3. p = f
    BY <1>1, <1>3, <2>1, <2>2 DEF Live
  <2> QED
    BY <2>1, <2>3
<1> QED
  BY <1>0, <1>2, <1>3 DEF CrashImageIsCommitted, Undone

(* When no device write fails and the writers of a range take turns: at    *)
(* every moment the records the media's volume header claims are on the    *)
(* media, and executing them as hammer_recover() does yields exactly the   *)
(* contents at one flush boundary, whatever writes of the flusher, of      *)
(* operations or of an interrupted recovery are in flight.                 *)
THEOREM CrashConsistent ==
  Sound /\ Spec => []CrashImageIsCommitted
BY Inductive, Committed, PTL

(* Under the same assumptions: the records from the media's first_offset   *)
(* to its next_offset are on the media, and none of their slots has been   *)
(* used again, so that recovery always finds a whole log.                  *)
THEOREM LogIntact == Sound /\ Spec => []UndoLogIntact
<1>1. CrashImageIsCommitted => UndoLogIntact
  BY DEF CrashImageIsCommitted
<1> QED
  BY <1>1, CrashConsistent, PTL

(* A mount comes up through RecoverMount or CleanMount only, and both find *)
(* the boundary restored.                                                  *)
LEMMA MountStep ==
  ASSUME IInv, [Next]_vars, mode # "up", mode' = "up"
  PROVE  mem' = snapD /\ \A l \in MetaLoc : dsk'[l] = snapD[l]
<1> USE DEF media, hdr, io, undo, tids, thr, bounds, snaps
<1>1. CASE RecoverMount
  BY <1>1 DEF RecoverMount, IoDrained, IInv, Recovery, Up
<1>2. CASE CleanMount
  <2>1. /\ mode = "recover" /\ UNCHANGED <<dsk, mem>>
        /\ hFirst = hNext /\ rpos = dFirst /\ hNext = dNext
        /\ dFirst = dNext /\ dFirst \in Int
    BY <1>2, Constants DEF CleanMount, IInv, TypeOK, Order, Control, Up, Pos
  <2>2. /\ Undoes(ulog, dFirst, dFirst, dsk, mem)
        /\ Undoes(ulog, dFirst, dFirst, dsk, snapD)
    BY <2>1 DEF IInv, Recovery, Media
  <2>3. \A l \in Loc : dsk[l] = mem[l] /\ dsk[l] = snapD[l]
    BY <2>1, <2>2, UndoesNothing
  <2>4. mem = snapD
    BY <2>3 DEF IInv, TypeOK
  <2> QED
    BY <2>1, <2>3, <2>4 DEF MetaLoc
<1>3. RecoverMount \/ CleanMount
  BY DEF Next, Operation, Flusher, Finalize, Device, Recover, vars,
     OpBegin, Modify, LayUndo, Write, SetBlockmap, OpEnd, UndoPanic,
     FlushBegin, FlushMeta, FlushDummy, FlushRun, SlaveFinalize,
     MasterFinalize, FlushAbandon, FinalizeSyncLock, FinalizeBlockmap,
     FinalizeFlushUndo, FinalizeHeader, FinalizeMeta, FinalizeFailed,
     KernelWritesUndo, UndoWritten, MetaWritten, HdrWritten, WriteFails,
     RecoverUndo, RecoverFlush, RecoverWait, RecoverFinish, Crash
<1> QED
  BY <1>1, <1>2, <1>3

(* Under the same assumptions: however often crashes interrupt             *)
(* hammer_recover(), a mount that comes up has, in memory, exactly the     *)
(* contents of the last flush boundary, and on the media the same for      *)
(* everything but the volume header, which is still being written.         *)
THEOREM MountRestores == Sound /\ Spec => MountRestoresBoundary
<1>1. IInv /\ [Next]_vars =>
        [mode # "up" /\ mode' = "up" =>
           mem' = snapD /\ \A l \in MetaLoc : dsk'[l] = snapD[l]]_vars
  BY MountStep
<1> QED
  BY <1>1, Inductive, PTL DEF Spec, MountRestoresBoundary
-----------------------------------------------------------------------------
(***************************************************************************)
(* What the flushes promise beyond crash consistency: operations are       *)
(* atomic, also across a crash; a filesystem with nothing left to flush is *)
(* clean on the media; and flush_tid1 is durable, also when writes fail,   *)
(* as long as no slave has to finalize in an emergency.                    *)
(***************************************************************************)
(* Every range, the blockmap aside, belongs to one kind of operation.      *)
OpsApart == \A L, M \in OpSets : L = M \/ L \cap M \subseteq {BlkMap}

(* Contents v have the ranges of every operation alike.                    *)
Agree(v) == \A L \in OpSets : \A a, b \in L \ {BlkMap} : v[a] = v[b]

(* Thread t has still to change range l.                                   *)
Todo(t, l) == l \in ttodo[t] \/ (tpc[t] \in {"lay", "write"} /\ tloc[t] = l)

(* The ranges of an operation are alike at both boundaries; in memory they *)
(* are alike, or the operation is under way and those it has changed are.  *)
Atomic ==
  /\ Agree(snapC) /\ Agree(snapD)
  /\ \A t \in Thread : tpc[t] # "idle" =>
       /\ top[t] \in OpSets
       /\ \A l \in top[t] \ {BlkMap} : Todo(t, l) \/ mem[l] = tval[t]
  /\ Up => \A L \in OpSets :
       \/ \E t \in Thread : tpc[t] # "idle" /\ top[t] = L
       \/ \A a, b \in L \ {BlkMap} : mem[a] = mem[b]

(* What the header and HMNT_UNDO_DIRTY say of the FIFO, and when the       *)
(* header on the media is that in memory.                                  *)
Quiet ==
  /\ fpc # "idle" => flush # "none"
  /\ Up =>
       /\ ~hdrDirty => hNext = cNext
       /\ ~undoFlag => hFirst = cFirst
       /\ flush = "none" /\ ~hdrDirty => cFirst = cNext
       /\ hdrDirty \/ hdrRun \/ \A l \in VolLoc : dsk[l] = mem[l]
       /\ \A t \in Thread :
            tpc[t] \in {"lay", "write"} /\ tloc[t] \in VolLoc => hdrDirty
  /\ ~Up => flush = "none"

(* The transaction ids of the records in the FIFO.  The media's header     *)
(* lags behind the one in memory only while it is being written, or after  *)
(* an error.                                                               *)
Tids ==
  /\ fpc # "idle" => flush # "none"
  /\ fpc = "wait2" => hFirst = cFirst
  /\ Up => /\ dNext =< cNext /\ hNext =< cNext /\ cFirst =< cNext
           /\ \/ dFirst = hFirst \/ hdrRun \/ critErr
              \/ fpc \in {"undo", "wait1"} /\ hdrDirty
           /\ flushTid1 =< flushTid2
           /\ flush = "none" => flushTid2 =< tid
           /\ flush # "none" => flushTid2 < tid
           /\ \A p \in cFirst .. cNext - 1 : ulog[p].tid > flushTid2
           /\ \A p \in hFirst .. cNext - 1 : ulog[p].tid > flushTid1
           /\ crashes = 0 => \A p \in Live : ulog[p].tid > flushTid1
  /\ ~Up => /\ ~hdrRun /\ hNext = dNext /\ fpc = "idle" /\ flush = "none"
            /\ crashes = 0 => dFirst = dNext
  /\ mode \in {"recover", "rwait"} => hFirst = dFirst
  /\ mode = "rfinal" => hFirst = hNext
-----------------------------------------------------------------------------
(* Operations are atomic.                                                  *)

LEMMA InitAtomic == Init => Atomic
BY Constants DEF Init, Atomic, Agree, Up

(* Steps that leave memory, the boundaries and the threads alone.          *)
LEMMA AtomicFrame ==
  ASSUME Atomic, UNCHANGED <<mem, snapC, snapD, thr>>, Up' => Up
  PROVE  Atomic'
BY DEF Atomic, Agree, Todo, Up, thr

(* hammer_modify_*(), the change itself and the end of an operation.       *)
LEMMA OperationAtomic ==
  ASSUME OpsApart, IInv, Atomic, NEW t \in Thread, Operation(t)
  PROVE  Atomic'
<1> USE DEF thr, snaps
<1>0. /\ mode = "up" /\ Up /\ mode' = mode /\ Up' /\ UNCHANGED <<snapC, snapD>>
      /\ Agree(snapC)' /\ Agree(snapD)'
  BY DEF Operation, OpBegin, Modify, LayUndo, Write, SetBlockmap, OpEnd, Up,
     Atomic, Agree
<1>1. CASE OpBegin(t)
  <2>1. PICK L \in OpSets, v \in Val :
          /\ tpc' = [tpc EXCEPT ![t] = "op"] /\ top' = [top EXCEPT ![t] = L]
          /\ ttodo' = [ttodo EXCEPT ![t] = L] /\ tval' = [tval EXCEPT ![t] = v]
    BY <1>1 DEF OpBegin
  <2>2. tpc[t] = "idle" /\ UNCHANGED <<mem, tloc>>
    BY <1>1 DEF OpBegin, Idle
  <2> QED
    BY <1>0, <2>1, <2>2 DEF Atomic, Todo, IInv, TypeOK
<1>2. ASSUME NEW l \in Loc, Modify(t, l) PROVE Atomic'
  <2>1. /\ tpc[t] = "op" /\ l \in ttodo[t] /\ tpc'[t] \in {"lay", "write"}
        /\ \A u \in Thread \ {t} : tpc'[u] = tpc[u]
        /\ tloc' = [tloc EXCEPT ![t] = l]
        /\ ttodo' = [ttodo EXCEPT ![t] = @ \ {l}]
        /\ UNCHANGED <<mem, top, tval>>
    BY <1>2 DEF Modify, IInv, TypeOK
  <2>2. \A u \in Thread, k \in Loc : Todo(u, k) => Todo(u, k)'
    BY <2>1 DEF Todo, IInv, TypeOK
  <2>3. \A u \in Thread : tpc'[u] = "idle" <=> tpc[u] = "idle"
    BY <2>1
  <2> QED
    BY <1>0, <2>1, <2>2, <2>3 DEF Atomic, IInv, TypeOK
<1>3. CASE LayUndo(t)
  <2>1. /\ tpc[t] = "lay" /\ tpc' = [tpc EXCEPT ![t] = "write"]
        /\ UNCHANGED <<mem, top, ttodo, tloc, tval>>
    BY <1>3 DEF LayUndo
  <2>2. \A u \in Thread, k \in Loc : Todo(u, k) => Todo(u, k)'
    BY <2>1 DEF Todo, IInv, TypeOK
  <2> QED
    BY <1>0, <2>1, <2>2 DEF Atomic, IInv, TypeOK
<1>4. CASE Write(t)
  <2>1. /\ tpc[t] = "write" /\ tpc' = [tpc EXCEPT ![t] = "op"]
        /\ mem' = [mem EXCEPT ![tloc[t]] = tval[t]]
        /\ UNCHANGED <<top, ttodo, tloc, tval>>
    BY <1>4 DEF Write
  <2>2. /\ tloc[t] \in top[t] /\ tloc[t] \in Loc
        /\ \A u \in Thread \ {t} : tloc[t] \notin top[u]
    BY <2>1 DEF IInv, TypeOK, Threads
  <2>3. ASSUME NEW u \in Thread, tpc'[u] # "idle"
        PROVE  /\ top'[u] \in OpSets
               /\ \A l \in top'[u] \ {BlkMap} : Todo(u, l)' \/ mem'[l] = tval'[u]
    BY <2>1, <2>2, <2>3 DEF Atomic, Todo, IInv, TypeOK
  <2>4. ASSUME NEW L \in OpSets
        PROVE  \/ \E u \in Thread : tpc'[u] # "idle" /\ top'[u] = L
               \/ \A a, b \in L \ {BlkMap} : mem'[a] = mem'[b]
    <3>1. CASE top[t] = L
      BY <2>1, <3>1 DEF IInv, TypeOK
    <3>2. CASE top[t] # L
      <4>1. top[t] \in OpSets
        BY <2>1 DEF Atomic
      <4>2. \A a \in L \ {BlkMap} : mem'[a] = mem[a]
        BY <2>1, <2>2, <3>2, <4>1, Constants DEF OpsApart, IInv, TypeOK
      <4> QED
        BY <1>0, <2>1, <4>2 DEF Atomic, IInv, TypeOK
    <3> QED
      BY <3>1, <3>2
  <2> QED
    BY <1>0, <2>3, <2>4 DEF Atomic
<1>5. CASE SetBlockmap(t)
  <2>1. /\ ttodo' = [ttodo EXCEPT ![t] = @ \ {BlkMap}]
        /\ UNCHANGED <<mem, tpc, top, tloc, tval>>
    BY <1>5 DEF SetBlockmap
  <2>2. \A u \in Thread, k \in Loc \ {BlkMap} : Todo(u, k) => Todo(u, k)'
    BY <2>1 DEF Todo, IInv, TypeOK
  <2> QED
    BY <1>0, <2>1, <2>2 DEF Atomic, IInv, TypeOK
<1>6. CASE OpEnd(t)
  <2>1. /\ tpc[t] = "op" /\ ttodo[t] = {} /\ tpc' = [tpc EXCEPT ![t] = "idle"]
        /\ top' = [top EXCEPT ![t] = {}]
        /\ tloc' = [tloc EXCEPT ![t] = BlkMap]
        /\ tval' = [tval EXCEPT ![t] = v0]
        /\ UNCHANGED <<mem, ttodo>>
    BY <1>6 DEF OpEnd
  <2>2. \A a \in top[t] \ {BlkMap} : mem[a] = tval[t]
    BY <2>1 DEF Atomic, Todo
  <2>3. ASSUME NEW u \in Thread, tpc'[u] # "idle"
        PROVE  /\ top'[u] \in OpSets
               /\ \A l \in top'[u] \ {BlkMap} : Todo(u, l)' \/ mem'[l] = tval'[u]
    BY <2>1, <2>3 DEF Atomic, Todo, IInv, TypeOK
  <2>4. ASSUME NEW L \in OpSets
        PROVE  \/ \E u \in Thread : tpc'[u] # "idle" /\ top'[u] = L
               \/ \A a, b \in L \ {BlkMap} : mem'[a] = mem'[b]
    BY <1>0, <2>1, <2>2 DEF Atomic, IInv, TypeOK
  <2> QED
    BY <1>0, <2>3, <2>4 DEF Atomic
<1> QED
  BY <1>1, <1>2, <1>3, <1>4, <1>5, <1>6 DEF Operation

(* The finalizer takes a boundary while no operation is under way.         *)
LEMMA FinalizeAtomic ==
  ASSUME IInv, Atomic, Finalize
  PROVE  Atomic'
<1> USE DEF thr, snaps
<1>1. CASE FinalizeBlockmap
  <2>1. /\ mode = "up" /\ UNCHANGED <<thr, snapC, snapD, mode>>
        /\ \A l \in Loc \ {BlkMap} : mem'[l] = mem[l]
    BY <1>1 DEF FinalizeBlockmap, IInv, TypeOK
  <2> QED
    BY <2>1, Constants DEF Atomic, Agree, Todo, Up, IInv, TypeOK
<1>2. CASE FinalizeMeta
  <2>1. \A t \in Thread : tpc[t] = "idle"
    BY <1>2 DEF FinalizeMeta, IInv, Control
  <2>2. Up /\ Agree(mem)
    BY <1>2, <2>1 DEF FinalizeMeta, Atomic, Agree, Up
  <2>3. /\ UNCHANGED <<mem, thr, snapD, mode>>
        /\ snapC' = snapC \/ snapC' = mem
    BY <1>2 DEF FinalizeMeta, NextSequence
  <2> QED
    BY <2>1, <2>2, <2>3 DEF Atomic, Agree, Todo, Up
<1>3. CASE FinalizeSyncLock
  BY <1>3, AtomicFrame DEF FinalizeSyncLock, Up
<1>4. CASE FinalizeFlushUndo
  BY <1>4, AtomicFrame DEF FinalizeFlushUndo, Up
<1>5. CASE FinalizeHeader
  BY <1>5, AtomicFrame DEF FinalizeHeader, Up
<1>6. CASE FinalizeFailed
  BY <1>6, NoFailure
<1> QED
  BY <1>1, <1>2, <1>3, <1>4, <1>5, <1>6 DEF Finalize

(* Recovery ends with the contents of a boundary.                          *)
LEMMA RecoverAtomic ==
  ASSUME IInv, Atomic, Recover
  PROVE  Atomic'
<1> USE DEF thr, snaps
<1>1. ASSUME mode' = "up" PROVE Atomic'
  <2>1. mode # "up" /\ mem' = mem /\ snapC' = mem /\ UNCHANGED <<thr, snapD>>
    BY <1>1 DEF Recover, RecoverUndo, RecoverFlush, RecoverWait, RecoverFinish,
       RecoverMount, CleanMount, MountCaches
  <2>2. mem' = snapD
    BY <1>1, <2>1, MountStep DEF Next
  <2>3. \A t \in Thread : tpc[t] = "idle"
    <3>1. mode \in {"recover", "rfinal"}
      BY <1>1 DEF Recover, RecoverUndo, RecoverFlush, RecoverWait,
         RecoverFinish, RecoverMount, CleanMount, MountCaches
    <3> QED
      BY <3>1 DEF IInv, Control, Up
  <2> QED
    BY <2>1, <2>2, <2>3 DEF Atomic, Agree
<1>2. ASSUME mode' # "up" PROVE Atomic'
  <2>1. ~Up /\ ~Up' /\ UNCHANGED <<thr, snapC, snapD>>
    BY <1>2 DEF Recover, RecoverUndo, RecoverFlush, RecoverWait, RecoverFinish,
       RecoverMount, CleanMount, MountCaches, Up
  <2>2. \A t \in Thread : tpc[t] = "idle"
    BY <2>1 DEF IInv, Control
  <2> QED
    BY <2>1, <2>2 DEF Atomic, Agree
<1> QED
  BY <1>1, <1>2

LEMMA NextAtomic == OpsApart /\ IInv /\ Atomic /\ [Next]_vars => Atomic'
<1> SUFFICES ASSUME OpsApart, IInv, Atomic, [Next]_vars PROVE Atomic'
  OBVIOUS
<1> USE DEF thr, snaps
<1>1. CASE UndoPanic
  BY <1>1, AtomicFrame DEF UndoPanic, Up
<1>2. CASE Flusher
  <2>1. UNCHANGED <<mem, snapC, snapD, thr, mode>>
    BY <1>2 DEF Flusher, FlushBegin, FlushMeta, FlushDummy, FlushRun,
       SlaveFinalize, MasterFinalize, FlushAbandon
  <2> QED
    BY <2>1, AtomicFrame DEF Up
<1>3. CASE Device
  <2>1. /\ UNCHANGED <<mem, snapC, thr, mode>>
        /\ snapD' = snapD \/ snapD' = snapC
    BY <1>3, NoFailure DEF Device, KernelWritesUndo, UndoWritten, MetaWritten,
       HdrWritten, HdrOnDisk
  <2> QED
    BY <2>1 DEF Atomic, Agree, Todo, Up
<1>4. CASE Crash
  <2>1. /\ \A t \in Thread : tpc'[t] = "idle"
        /\ snapC' = snapC /\ (snapD' = snapD \/ snapD' = snapC) /\ ~Up'
    BY <1>4 DEF Crash, Up
  <2> QED
    BY <2>1 DEF Atomic, Agree
<1>5. CASE UNCHANGED vars
  BY <1>5, AtomicFrame DEF vars, Up
<1> QED
  BY <1>1, <1>2, <1>3, <1>4, <1>5, OperationAtomic, FinalizeAtomic,
     RecoverAtomic DEF Next

(* What hammer_recover() would make of range l is its contents at snapD.   *)
LEMMA RolledBack ==
  ASSUME IInv, NEW l \in Loc
  PROVE  Rolled(l) = snapD[l]
<1>0. dFirst \in Int /\ dNext \in Int
  BY Constants DEF IInv, TypeOK, Pos
<1>1. CASE \E p \in Live : ulog[p].loc = l
  <2>1. PICK p \in Live : First(ulog, dFirst, p, l) /\ ulog[p].val = snapD[l]
    BY <1>1 DEF IInv, Media, Undoes, Covered, Live
  <2>2. \A q \in Live : ulog[q].loc = l => p =< q
    BY <1>0, <2>1 DEF First, Live
  <2> DEFINE IsFirst(x) == /\ ulog[x].loc = l
                           /\ \A q \in Live : ulog[q].loc = l => x =< q
  <2>3. p \in Live /\ IsFirst(p)
    BY <2>1, <2>2 DEF First
  <2>4. \A x \in Live : IsFirst(x) => x = p
    BY <1>0, <2>3 DEF Live
  <2>5. (CHOOSE x \in Live : IsFirst(x)) = p
    BY <2>3, <2>4
  <2>6. Rolled(l) = ulog[CHOOSE x \in Live : IsFirst(x)].val
    BY <1>1 DEF Rolled
  <2> QED
    BY <2>1, <2>5, <2>6
<1>2. CASE ~ \E p \in Live : ulog[p].loc = l
  <2>1. ~Covered(ulog, dFirst, dNext, l)
    BY <1>2 DEF Covered, Live
  <2>2. dsk[l] = snapD[l]
    BY <2>1 DEF IInv, Media, Undoes, Covered, First
  <2> QED
    BY <1>2, <2>2 DEF Rolled
<1> QED
  BY <1>1, <1>2

(* When no write fails, the writers of a range take turns and different    *)
(* operations share no range but the blockmap: nobody sees the ranges of   *)
(* an operation half updated, neither the mounted filesystem between       *)
(* operations nor a mount after a crash at any moment.                     *)
THEOREM AtomicOperations ==
  OpsApart /\ Sound /\ Spec => []OperationsAtomic
<1> DEFINE AInv == OpsApart /\ Atomic
<1>a. OpsApart /\ Init => AInv
  BY InitAtomic
<1>b. IInv /\ AInv /\ [Next]_vars => AInv'
  BY NextAtomic DEF OpsApart
<1> HIDE DEF AInv
<1>1. OpsApart /\ Sound /\ Spec => []AInv
  BY <1>a, <1>b, Inductive, PTL DEF Spec
<1>2. IInv /\ AInv => OperationsAtomic
  <2> USE DEF AInv
  <2> SUFFICES ASSUME IInv, AInv, NEW L \in OpSets,
                      NEW a \in L \ {BlkMap}, NEW b \in L \ {BlkMap}
               PROVE  /\ Rolled(a) = Rolled(b)
                      /\ mode = "up" /\ (\A t \in Thread : Idle(t)) => mem[a] = mem[b]
    BY DEF OperationsAtomic
  <2>1. Rolled(a) = Rolled(b)
    BY RolledBack, Constants DEF Atomic, Agree
  <2>2. mode = "up" /\ (\A t \in Thread : Idle(t)) => mem[a] = mem[b]
    BY DEF Atomic, Idle, Up
  <2> QED
    BY <2>1, <2>2
<1> QED
  BY <1>1, <1>2, Inductive, PTL

-----------------------------------------------------------------------------
(* A filesystem with nothing left to do is clean.                          *)

LEMMA InitQuiet == Init => Quiet
BY DEF Init, Quiet, Up

LEMMA NextQuiet == IInv /\ Quiet /\ [Next]_vars => Quiet'
<1> SUFFICES ASSUME IInv, Quiet, [Next]_vars PROVE Quiet'
  OBVIOUS
<1> USE Constants DEF IInv, TypeOK, Control, Order, Quiet, Up, Pos, MetaLoc,
        media, hdr, io, undo, tids, thr, bounds, snaps
<1>1. ASSUME NEW t \in Thread, Operation(t) PROVE Quiet'
  <2>1. CASE OpBegin(t)
    BY <2>1 DEF OpBegin, Idle
  <2>2. ASSUME NEW l \in Loc, Modify(t, l) PROVE Quiet'
    BY <2>2 DEF Modify, set_modlist, regetblk
  <2>3. CASE LayUndo(t)
    BY <2>3 DEF LayUndo, lay_undo, undo_space, undo_used
  <2>4. CASE Write(t)
    BY <2>4 DEF Write
  <2>5. CASE SetBlockmap(t)
    BY <2>5 DEF SetBlockmap
  <2>6. CASE OpEnd(t)
    BY <2>6 DEF OpEnd
  <2> QED
    BY <1>1, <2>1, <2>2, <2>3, <2>4, <2>5, <2>6 DEF Operation
<1>2. CASE UndoPanic
  BY <1>2 DEF UndoPanic
<1>3. CASE Flusher
  <2>1. /\ flush' # "none" /\ mode = "up"
        /\ UNCHANGED <<mode, hdrDirty, hdrRun, hNext, hFirst, cNext, cFirst,
                       undoFlag, dsk, mem, tpc, tloc>>
    BY <1>3, NoFailure DEF Flusher, FlushBegin, FlushMeta, FlushDummy, FlushRun,
       SlaveFinalize, MasterFinalize, EnterFinalize
  <2> QED
    BY <2>1
<1>4. CASE Finalize
  <2>1. CASE FinalizeSyncLock
    BY <2>1 DEF FinalizeSyncLock
  <2>2. CASE FinalizeBlockmap
    BY <2>2 DEF FinalizeBlockmap, lay_undo, undo_space, undo_used
  <2>3. CASE FinalizeFlushUndo
    BY <2>3 DEF FinalizeFlushUndo
  <2>4. CASE FinalizeHeader
    BY <2>4 DEF FinalizeHeader, WritesOk, IoDrained
  <2>5. CASE FinalizeMeta
    <3>1. CASE Final
      BY <2>5, <3>1 DEF FinalizeMeta, NextSequence, LeaveFinalize
    <3>2. CASE ~Final
      BY <2>5, <3>2 DEF FinalizeMeta, LeaveFinalize, Final
    <3> QED
      BY <3>1, <3>2
  <2> QED
    BY <1>4, <2>1, <2>2, <2>3, <2>4, <2>5, NoFailure DEF Finalize
<1>5. CASE Device
  <2>1. ASSUME NEW p \in Pos, KernelWritesUndo(p) PROVE Quiet'
    BY <2>1 DEF KernelWritesUndo
  <2>2. ASSUME NEW p \in Pos, UndoWritten(p) PROVE Quiet'
    BY <2>2 DEF UndoWritten
  <2>3. ASSUME NEW l \in Loc, MetaWritten(l) PROVE Quiet'
    BY <2>3 DEF MetaWritten
  <2>4. CASE HdrWritten
    BY <2>4 DEF HdrWritten, HdrOnDisk
  <2> QED
    BY <1>5, <2>1, <2>2, <2>3, <2>4, NoFailure DEF Device
<1>6. CASE Recover
  <2>1. CASE RecoverMount
    BY <2>1 DEF RecoverMount, MountCaches
  <2>2. CASE CleanMount
    <3>1. \A l \in VolLoc : dsk'[l] = mem'[l]
      <4>1. mem' = mem /\ dsk' = dsk /\ hFirst = hNext /\ mode = "recover"
        BY <2>2 DEF CleanMount, MountCaches
      <4>2. rpos = hNext
        BY <4>1
      <4>3. Undoes(ulog, hNext, hNext, dsk, mem)
        BY <4>1, <4>2 DEF Recovery
      <4> QED
        BY <4>1, <4>3, UndoesNothing
    <3> QED
      BY <2>2, <3>1 DEF CleanMount, MountCaches
  <2>3. CASE RecoverUndo \/ RecoverFlush \/ RecoverWait \/ RecoverFinish
    <3>1. ~Up /\ ~Up' /\ UNCHANGED <<fpc, flush>>
      BY <2>3 DEF RecoverUndo, RecoverFlush, RecoverWait, RecoverFinish
    <3> QED
      BY <3>1
  <2> QED
    BY <1>6, <2>1, <2>2, <2>3 DEF Recover
<1>7. CASE Crash
  BY <1>7 DEF Crash
<1>8. CASE UNCHANGED vars
  BY <1>8 DEF vars
<1> QED
  BY <1>1, <1>2, <1>3, <1>4, <1>5, <1>6, <1>7, <1>8 DEF Next

(* When no write fails and the writers of a range take turns: once         *)
(* hammer_flusher_haswork() has nothing left, no transaction or flush is   *)
(* under way and the writes are done, the UNDO FIFO on the media is empty  *)
(* and every range on the media is as in memory, so that an unmount or a   *)
(* crash then loses nothing and the next mount recovers nothing.           *)
THEOREM CleanWhenQuiet == Sound /\ Spec => []QuiescentClean
<1>1. Sound /\ Spec => []Quiet
  BY InitQuiet, NextQuiet, Inductive, PTL DEF Spec
<1>2. IInv /\ Quiet => QuiescentClean
  <2> SUFFICES ASSUME IInv, Quiet, mode = "up", ~critErr, ~haswork,
                      flush = "none", IoDrained
               PROVE  dFirst = dNext /\ dsk = mem
    BY DEF QuiescentClean
  <2>1. /\ ~hdrDirty /\ ~hdrRun /\ metaDirty = {} /\ metaRun = {} /\ ~undoFlag
        /\ Up /\ fpc = "idle"
    BY DEF haswork, IoDrained, Up, Quiet
  <2>2. hFirst = hNext /\ dFirst = hFirst /\ dNext = hNext
    BY <2>1 DEF Quiet, IInv, Order
  <2>3. \A l \in Loc : dsk[l] = mem[l]
    BY <2>1 DEF Quiet, IInv, Contents, MetaLoc
  <2> QED
    BY <2>2, <2>3 DEF IInv, TypeOK
<1> QED
  BY <1>1, <1>2, Inductive, PTL

-----------------------------------------------------------------------------
(* flush_tid1 is durable.                                                  *)

LEMMA InitTids == Init => Tids
BY DEF Init, Tids, Up

(* Records later than one flush are later than those before it.            *)
LEMMA LaterToo ==
  ASSUME NEW u \in [Pos -> Rec], NEW a \in Pos, NEW b \in Pos,
         NEW r \in Nat, NEW s \in Nat, s =< r,
         \A p \in a .. b - 1 : u[p].tid > r
  PROVE  \A p \in a .. b - 1 : u[p].tid > s
<1>1. \A p \in a .. b - 1 : p \in Pos
  BY Constants DEF Pos
<1>2. \A p \in Pos : u[p].tid \in Nat
  BY DEF Rec
<1> QED
  BY <1>1, <1>2

(* hammer_generate_undo(): the new record carries a later id than any      *)
(* finished flush.                                                         *)
LEMMA LayTids ==
  ASSUME TypeOK, Tids, mode = "up", NEW l \in Loc, lay_undo(l),
         cFirst' = cFirst, flushTid1' = flushTid1, flushTid2' = flushTid2,
         dFirst' = dFirst, dNext' = dNext, crashes' = crashes
  PROVE  /\ cNext' = cNext + 1 /\ hdrDirty' = TRUE
         /\ \A p \in cFirst' .. cNext' - 1 : ulog'[p].tid > flushTid2'
         /\ \A p \in hFirst .. cNext' - 1 : ulog'[p].tid > flushTid1'
         /\ crashes' = 0 => \A p \in Live' : ulog'[p].tid > flushTid1'
<1> USE Constants DEF TypeOK, Pos
<1>1. /\ cNext' = cNext + 1 /\ hdrDirty' = TRUE
      /\ ulog'[cNext].tid = IF flush = "none" THEN tid + 1 ELSE tid
      /\ \A p \in Pos \ {cNext} : ulog'[p] = ulog[p]
  BY DEF lay_undo
<1>2. ulog'[cNext].tid > flushTid2 /\ flushTid2 >= flushTid1
  BY <1>1 DEF Tids, Up
<1>3. /\ \A p \in cFirst .. cNext' - 1 : p \in cFirst .. cNext - 1 \/ p = cNext
      /\ \A p \in hFirst .. cNext' - 1 : p \in hFirst .. cNext - 1 \/ p = cNext
      /\ \A p \in Live : p \in Pos \ {cNext}
      /\ Live' = Live
  BY <1>1 DEF Live, Tids, Up
<1>4. /\ \A p \in cFirst .. cNext - 1 : p \in Pos \ {cNext}
      /\ \A p \in hFirst .. cNext - 1 : p \in Pos \ {cNext}
  OBVIOUS
<1>5. /\ \A p \in cFirst .. cNext - 1 : ulog[p].tid > flushTid2
      /\ \A p \in hFirst .. cNext - 1 : ulog[p].tid > flushTid1
      /\ crashes = 0 => \A p \in Live : ulog[p].tid > flushTid1
  BY DEF Tids, Up
<1>6. \A p \in cFirst .. cNext' - 1 : ulog'[p].tid > flushTid2
  BY <1>1, <1>2, <1>3, <1>4, <1>5
<1>7. \A p \in hFirst .. cNext' - 1 : ulog'[p].tid > flushTid1
  <2> SUFFICES ASSUME NEW p \in hFirst .. cNext' - 1
               PROVE  ulog'[p].tid > flushTid1
    OBVIOUS
  <2>1. CASE p = cNext
    BY <1>2, <2>1, <1>1
  <2>2. CASE p \in hFirst .. cNext - 1
    BY <1>1, <1>4, <1>5, <2>2
  <2> QED
    BY <1>3, <2>1, <2>2
<1>8. crashes = 0 => \A p \in Live : ulog'[p].tid > flushTid1
  BY <1>1, <1>3, <1>5
<1> QED
  BY <1>1, <1>3, <1>6, <1>7, <1>8

LEMMA NextTids ==
  TypeOK /\ Tids /\ fby # "emergency" /\ [Next]_vars => Tids'
<1> SUFFICES ASSUME TypeOK, Tids, fby # "emergency", [Next]_vars PROVE Tids'
  OBVIOUS
<1> USE Constants DEF TypeOK, Tids, Up, Pos, Live,
        media, hdr, io, undo, tids, thr, bounds, snaps
<1>1. ASSUME NEW t \in Thread, Operation(t) PROVE Tids'
  <2>1. CASE LayUndo(t)
    <3>1. /\ mode = "up" /\ lay_undo(tloc[t]) /\ tloc[t] \in Loc
          /\ UNCHANGED <<dFirst, dNext, hFirst, hNext, cFirst, hdrRun, critErr,
                         flushTid1, flushTid2, tid, flush, fpc, mode, crashes>>
      BY <2>1 DEF LayUndo
    <3>2. /\ cNext' = cNext + 1 /\ hdrDirty' = TRUE
          /\ \A p \in cFirst' .. cNext' - 1 : ulog'[p].tid > flushTid2'
          /\ \A p \in hFirst .. cNext' - 1 : ulog'[p].tid > flushTid1'
          /\ crashes' = 0 => \A p \in Live' : ulog'[p].tid > flushTid1'
      BY <3>1, LayTids
    <3> QED
      BY <3>1, <3>2
  <2>2. CASE ~LayUndo(t)
    <3>1. /\ mode = "up" /\ (hdrDirty => hdrDirty')
          /\ UNCHANGED <<dFirst, dNext, hFirst, hNext, cFirst, cNext, hdrRun,
                         critErr, flushTid1, flushTid2, tid, flush, fpc, mode,
                         crashes, ulog>>
      BY <1>1, <2>2 DEF Operation, OpBegin, Modify, set_modlist, Write,
         SetBlockmap, OpEnd
    <3> QED
      BY <3>1
  <2> QED
    BY <2>1, <2>2
<1>2. CASE UndoPanic
  BY <1>2 DEF UndoPanic
<1>3. CASE Flusher
  <2>1. /\ mode = "up"
        /\ UNCHANGED <<dFirst, dNext, hFirst, hNext, cFirst, cNext, hdrRun,
                       hdrDirty, critErr, flushTid1, flushTid2, mode, crashes,
                       ulog>>
        /\ \/ flush = "none" /\ tid' = tid + 1 /\ fpc' = fpc /\ flush' # "none"
           \/ /\ tid' = tid /\ flush # "none"
              /\ \/ fpc' = "lock" /\ flush' = flush
                 \/ fpc' = "idle"
    BY <1>3 DEF Flusher, FlushBegin, FlushMeta, FlushDummy, FlushRun,
       SlaveFinalize, MasterFinalize, FlushAbandon, EnterFinalize
  <2>2. fpc' \in {"undo", "wait1", "wait2"} => fpc' = fpc
    BY <2>1
  <2>3. fpc \in {"undo", "wait1"} => FALSE
    BY <1>3 DEF Flusher, FlushBegin, FlushMeta, FlushDummy, FlushRun,
       SlaveFinalize, MasterFinalize, FlushAbandon, EnterFinalize
  <2> QED
    BY <2>1, <2>2, <2>3
<1>4. CASE Finalize
  <2>1. CASE FinalizeSyncLock
    BY <2>1 DEF FinalizeSyncLock
  <2>2. CASE FinalizeBlockmap
    <3>1. CASE Final /\ hdrDirty
      <4>1. /\ mode = "up" /\ fpc' = "undo" /\ hFirst' = cFirst /\ hNext' = cNext'
            /\ UNCHANGED <<dFirst, dNext, cFirst, hdrRun, critErr, flushTid1,
                           flushTid2, tid, flush, mode, crashes>>
            /\ fpc = "blockmap"
        BY <2>2, <3>1 DEF FinalizeBlockmap
      <4>2. /\ hdrDirty' /\ cNext =< cNext'
            /\ \A p \in cFirst' .. cNext' - 1 : ulog'[p].tid > flushTid2'
            /\ crashes' = 0 => \A p \in Live' : ulog'[p].tid > flushTid1'
        <5>1. CASE BlkMap \in hist
          <6>1. UNCHANGED <<cNext, ulog, hdrDirty>>
            BY <2>2, <3>1, <5>1 DEF FinalizeBlockmap
          <6> QED
            BY <3>1, <4>1, <6>1
        <5>2. CASE BlkMap \notin hist
          <6>1. lay_undo(BlkMap) /\ BlkMap \in Loc
            BY <2>2, <3>1, <5>2 DEF FinalizeBlockmap
          <6>2. /\ cNext' = cNext + 1 /\ hdrDirty' = TRUE
                /\ \A p \in cFirst' .. cNext' - 1 : ulog'[p].tid > flushTid2'
                /\ crashes' = 0 => \A p \in Live' : ulog'[p].tid > flushTid1'
            BY <4>1, <6>1, LayTids
          <6> QED
            BY <6>2
        <5> QED
          BY <5>1, <5>2
      <4>3. \A p \in hFirst' .. cNext' - 1 : ulog'[p].tid > flushTid1'
        <5>1. ulog' \in [Pos -> Rec] /\ cFirst' \in Pos /\ cNext' \in Pos
          BY <2>2, NextType DEF Next, Finalize
        <5>2. flushTid1 =< flushTid2 /\ flushTid1 \in Nat /\ flushTid2 \in Nat
          BY <4>1
        <5>3. \A p \in cFirst' .. cNext' - 1 : ulog'[p].tid > flushTid1
          BY <4>1, <4>2, <5>1, <5>2, LaterToo
        <5> QED
          BY <4>1, <5>3
      <4>4. cNext' \in Int /\ cNext \in Int
        BY <2>2, NextType DEF Next, Finalize
      <4> QED
        BY <4>1, <4>2, <4>3, <4>4
    <3>2. CASE ~(Final /\ hdrDirty)
      BY <2>2, <3>2 DEF FinalizeBlockmap
    <3> QED
      BY <3>1, <3>2
  <2>3. CASE FinalizeFlushUndo
    BY <2>3 DEF FinalizeFlushUndo
  <2>4. CASE FinalizeHeader
    <3>1. /\ mode = "up" /\ fpc = "wait1" /\ fpc' = "wait2"
          /\ hFirst' = cFirst /\ hNext' = cNext
          /\ ~hdrRun /\ ~critErr
          /\ UNCHANGED <<dFirst, dNext, cFirst, cNext, critErr, flushTid1,
                         flushTid2, tid, flush, mode, crashes, ulog>>
      BY <2>4 DEF FinalizeHeader, WritesOk, IoDrained
    <3>2. hdrRun' \/ (~hdrDirty /\ hFirst = cFirst)
      BY <2>4 DEF FinalizeHeader
    <3>3. hdrRun' \/ dFirst' = hFirst'
      BY <3>1, <3>2
    <3>4. \A p \in hFirst' .. cNext' - 1 : ulog'[p].tid > flushTid1'
      <4>1. \A p \in cFirst .. cNext - 1 : ulog[p].tid > flushTid1
        BY <3>1, LaterToo
      <4> QED
        BY <3>1, <4>1
    <3> QED
      BY <3>1, <3>3, <3>4
  <2>5. CASE FinalizeMeta
    <3>1. /\ mode = "up" /\ fpc = "wait2" /\ fpc' = "idle" /\ ~hdrRun /\ ~critErr
          /\ UNCHANGED <<dFirst, dNext, hFirst, hNext, cNext, hdrRun, critErr,
                         hdrDirty, tid, mode, crashes, ulog>>
      BY <2>5 DEF FinalizeMeta, LeaveFinalize, WritesOk, IoDrained
    <3>2. dFirst = hFirst /\ hFirst = cFirst /\ flush # "none"
      BY <3>1
    <3>3. CASE Final
      <4>1. /\ cFirst' = cNext /\ flushTid1' = flushTid2 /\ flushTid2' = tid
            /\ flush' = "none"
        BY <2>5, <3>3 DEF FinalizeMeta, NextSequence, LeaveFinalize, Final
      <4> QED
        BY <3>1, <3>2, <4>1
    <3>4. CASE ~Final
      <4>1. UNCHANGED <<cFirst, flushTid1, flushTid2>> /\ flush' # "none"
        BY <2>5, <3>2, <3>4 DEF FinalizeMeta, LeaveFinalize, Final
      <4> QED
        BY <3>1, <3>2, <4>1
    <3> QED
      BY <3>3, <3>4
  <2>6. CASE FinalizeFailed
    <3>1. /\ mode = "up" /\ fpc' = "idle" /\ critErr /\ flush # "none"
          /\ UNCHANGED <<dFirst, dNext, hFirst, hNext, cFirst, cNext, hdrRun,
                         critErr, flushTid1, flushTid2, hdrDirty, tid, mode,
                         crashes, ulog>>
      BY <2>6 DEF FinalizeFailed, LeaveFinalize
    <3> QED
      BY <3>1
  <2> QED
    BY <1>4, <2>1, <2>2, <2>3, <2>4, <2>5, <2>6 DEF Finalize
<1>5. CASE Device
  <2>1. CASE HdrWritten
    <3>1. /\ hdrRun /\ dFirst' = hFirst /\ dNext' = hNext /\ ~hdrRun'
          /\ UNCHANGED <<hFirst, hNext, cFirst, cNext, critErr, flushTid1, fpc,
                         flushTid2, hdrDirty, tid, flush, mode, crashes, ulog>>
      BY <2>1 DEF HdrWritten, HdrOnDisk
    <3> QED
      BY <3>1
  <2>2. CASE WriteFails
    <3>1. /\ critErr' /\ (hdrRun' => hdrRun)
          /\ UNCHANGED <<dFirst, dNext, hFirst, hNext, cFirst, cNext, flushTid1,
                         fpc, flushTid2, hdrDirty, tid, flush, mode, crashes,
                         ulog>>
      BY <2>2 DEF WriteFails
    <3> QED
      BY <3>1
  <2>3. CASE ~HdrWritten /\ ~WriteFails
    <3>1. UNCHANGED <<dFirst, dNext, hFirst, hNext, cFirst, cNext, flushTid1,
                      hdrRun, critErr, fpc, flushTid2, hdrDirty, tid, flush,
                      mode, crashes, ulog>>
      BY <1>5, <2>3 DEF Device, KernelWritesUndo, UndoWritten, MetaWritten
    <3> QED
      BY <3>1
  <2> QED
    BY <2>1, <2>2, <2>3
<1>6. CASE Recover
  <2>1. CASE RecoverMount
    <3>1. /\ mode' = "up" /\ ~Up /\ hdrRun' /\ cFirst' = hFirst /\ cNext' = hNext
          /\ tid' = hTid /\ flushTid1' = hTid /\ flushTid2' = hTid
          /\ UNCHANGED <<fpc, flush, hFirst, hNext, dFirst, dNext, crashes, ulog>>
      BY <2>1 DEF RecoverMount, MountCaches
    <3>2. hFirst = hNext
      BY <2>1 DEF RecoverMount
    <3> QED
      BY <3>1, <3>2
  <2>2. CASE CleanMount
    BY <2>2 DEF CleanMount, MountCaches
  <2>3. CASE RecoverUndo \/ RecoverFlush \/ RecoverWait \/ RecoverFinish
    <3>1. /\ ~Up /\ ~Up' /\ mode \in {"recover", "rwait"}
          /\ UNCHANGED <<fpc, flush, hdrRun, hNext, dNext, dFirst, crashes>>
          /\ mode' \in {"recover", "rwait"} => hFirst' = hFirst
          /\ mode' = "rfinal" => hFirst' = hNext
      BY <2>3 DEF RecoverUndo, RecoverFlush, RecoverWait, RecoverFinish
    <3> QED
      BY <3>1
  <2> QED
    BY <1>6, <2>1, <2>2, <2>3 DEF Recover
<1>7. CASE Crash
  <2>1. /\ ~Up' /\ ~hdrRun' /\ hNext' = dNext' /\ fpc' = "idle"
        /\ flush' = "none" /\ hFirst' = dFirst' /\ mode' # "rfinal"
    BY <1>7 DEF Crash
  <2>2. crashes' # 0
    BY <1>7 DEF Crash
  <2> QED
    BY <2>1, <2>2
<1>8. CASE UNCHANGED vars
  BY <1>8 DEF vars
<1> QED
  BY <1>1, <1>2, <1>3, <1>4, <1>5, <1>6, <1>7, <1>8 DEF Next

(* "flush_tid1 is fully synchronized, meaning a crash will not roll it     *)
(* back" (hammer_flusher_finalize): true whatever writes fail and however  *)
(* the threads interleave, in every execution in which no slave calls a    *)
(* final hammer_flusher_finalize() for want of UNDO space in the middle of *)
(* its flush group.  (UndoTid1Emergency shows that the condition is        *)
(* needed.)                                                                *)
THEOREM FlushTid1IsDurable ==
  Spec /\ [](fby # "emergency") => []FlushTid1Durable
<1>1. Spec /\ [](fby # "emergency") => []Tids
  BY InitTids, NextTids, TypeCorrect, PTL DEF Spec
<1>2. TypeOK /\ Tids => FlushTid1Durable
  BY Constants DEF TypeOK, Tids, Up, Pos, FlushTid1Durable, Live
<1> QED
  BY <1>1, <1>2, TypeCorrect, PTL
=============================================================================
