--------------------------- MODULE HammerRecords ---------------------------
(***************************************************************************)
(* In-memory inodes and records of HAMMER (hammer_inode.c,                 *)
(* hammer_object.c) and the vnode operations on them (hammer_vnops.c).     *)
(*                                                                         *)
(* The front end changes inodes in memory and queues records: directory    *)
(* entries to add (ADD), to delete (DEL), file data (DATA) and the targets *)
(* of symbolic links (GENERAL).  An inode with something to do for the     *)
(* flusher is IDLE, held back by a record that names it (SETUP), or in a   *)
(* flush group (FLUSH); so is a record.  The back end takes the inodes of  *)
(* one group at a time to the media.                                       *)
(*                                                                         *)
(* `fs' is all of it: inodes, records, flush groups, the media, and what   *)
(* the calls made so far asked for (the ghost fields ns, want, lnk).  What   *)
(* the kernel runs without blocking is an operator from fs to fs, since    *)
(* these functions call one another: releasing an inode may flush it,      *)
(* flushing it may release another.  Where the code blocks, an action      *)
(* ends.                                                                   *)
(***************************************************************************)
EXTENDS Integers, FiniteSets, FiniteSetsExt, SequencesExt

CONSTANTS NULL,
          Inode, Root, Dirs,   \* inode numbers; Dirs are the directories
          RecId,               \* bounds the records that exist at a time
          Names, MaxIter,      \* names of a directory; keys tried for a name
          Blocks,              \* blocks of a file, 0 .. n
          GroupLimit,          \* undo_rec_limit
          Slaves               \* inodes being flushed at the same time

IDLE == "idle"
SETUP == "setup"
FLUSH == "flush"

(* HAMMER_INODE_MODMASK and ..._NOXDIRTY                                   *)
ModMask == {"ddirty", "xdirty", "bufs", "mtime", "trunc", "deleting"}
NoXDirty == ModMask \ {"xdirty"}
NoBlock == Max(Blocks) + 1           \* stands for 0x7FFFFFFFFFFFFFFF

NoBufs == [b \in Blocks |-> 0]

(* A struct hammer_inode as hammer_create_inode() sets it up: nothing on   *)
(* the media.  `ph' is how far a flusher thread has got with it.           *)
NewInode ==
  [mem |-> TRUE, vp |-> "none", refs |-> 1, fst |-> IDLE, g |-> 0, ph |-> "",
   flags |-> {"ddirty", "mtime"}, sync |-> {}, nl |-> 0, snl |-> 0,
   size |-> 0, ssize |-> 0, trunc |-> NoBlock, strunc |-> 0, save |-> 0,
   buf |-> NoBufs]
NotLoaded == [NewInode EXCEPT !.mem = FALSE, !.refs = 0, !.flags = {}]

(* A struct hammer_record; `key' is the key in the B-Tree, and for DATA    *)
(* the block; `ref' is whether a cursor that sleeps stands at it.          *)
NoRec == [ip |-> NULL, typ |-> "", key |-> 0, fst |-> IDLE, g |-> 0, fe |-> FALSE,
          be |-> FALSE, ilk |-> FALSE, ref |-> FALSE, tgt |-> NULL, obj |-> NULL, val |-> 0]

NameKey(n, it) == n * MaxIter + it
NameOf(key) == key \div MaxIter

Panic(f, what) == [f EXCEPT !.bad = @ \union {what}]
Check(f, ok, what) == IF ok THEN f ELSE Panic(f, what)

(***************************************************************************)
(* The lists: ip->rec_tree in key order, ip->target_list.                  *)
(***************************************************************************)
Records(f, i) == {r \in RecId : f.rec[r].ip = i}
Targets(f, i) == {r \in RecId : f.rec[r].tgt = i}
InKeyOrder(f, S) == SetToSortSeq(S, LAMBDA r, s : \/ f.rec[r].key < f.rec[s].key
                                                  \/ (f.rec[r].key = f.rec[s].key /\ r < s))
Dirty(f, i) == f.ino[i].flags \intersect ModMask # {}
Set(f, i, flags) == [f EXCEPT !.ino[i].flags = @ \union flags]
Clear(f, i, flags) == [f EXCEPT !.ino[i].flags = @ \ flags]

(* total_count + refs of a group that is not running                       *)
GroupLoad(f, g) == Cardinality({i \in Inode : f.ino[i].g = g})
                 + Cardinality({r \in RecId : f.rec[r].g = g})

(* The record joins flush group g.                                         *)
Join(f, r, g) == [f EXCEPT !.rec[r].fst = FLUSH, !.rec[r].g = g]

(***************************************************************************)
(* The non-blocking core.  Its functions call one another: Do(f, c) is the *)
(* state after call c, and what it returns.                                *)
(***************************************************************************)
RECURSIVE Do(_, _)
Flush(f, i) == Do(f, [op |-> "flush", i |-> i]).fs
Rel(f, i, flush) == Do(f, [op |-> "rel", i |-> i, flush |-> flush]).fs
Deactivate(f, i) == Do(f, [op |-> "inactive", i |-> i]).fs
Parents(f, i, g) == Do(f, [op |-> "parents", i |-> i, g |-> g])
Core(f, i, g, up) == Do(f, [op |-> "core", i |-> i, g |-> g, up |-> up]).fs

(* next_flush_group, after the ones that are full; a new one if none is.   *)
NextGroup(f) ==
  LET open == {g \in 1 .. f.groups : g >= f.next /\ GroupLoad(f, g) <= GroupLimit}
  IN IF f.next = 0 \/ open = {} THEN f.groups + 1 ELSE Min(open)
PickGroup(f) ==
  [Check(f, ~(f.running /\ f.next = 1), "group running") EXCEPT
     !.next = NextGroup(f), !.groups = IF @ < NextGroup(f) THEN @ + 1 ELSE @]

(* hammer_inode_unloadable_check: an inode without links and without users *)
(* is to be destroyed; vtruncbuf drops its buffers.                        *)
UnloadableCheck(f, i) ==
  IF f.ino[i].nl = 0 /\ (f.ino[i].flags \union f.ino[i].sync) \intersect {"deleting", "deleted"} = {}
  THEN [f EXCEPT !.ino[i].flags = @ \union {"deleting", "trunc"}, !.ino[i].trunc = 0,
                 !.ino[i].buf = IF f.ino[i].vp # "none" THEN NoBufs ELSE @]
  ELSE f

(* hammer_vop_reclaim *)
Reclaim(f, i) == Rel([f EXCEPT !.ino[i].vp = "none"], i, TRUE)

(* hammer_vop_inactive: the last user of the vnode is gone.                *)
FlushIfDirty(f, i) == IF Dirty(f, i) THEN Flush(f, i) ELSE f
Recycle(f, i) == IF f.ino[i].nl = 0 THEN Reclaim(FlushIfDirty(f, i), i) ELSE f
Inactive(f, i) == Recycle(UnloadableCheck([f EXCEPT !.ino[i].vp = "cached"], i), i)

(* vrele of the reference the flusher held                                 *)
DropVheld(f, i) ==
  IF "vheld" \notin f.ino[i].flags THEN f
  ELSE IF f.ino[i].vp = "closing" THEN Deactivate(Clear(f, i, {"vheld"}), i)
  ELSE Clear(f, i, {"vheld"})

(* hammer_unload_inode, hammer_free_inode                                  *)
Unload(f, i) ==
  LET x == f.ino[i]
  IN [Check(f, /\ x.vp = "none" /\ x.fst = IDLE /\ ~Dirty(f, i)
               /\ Records(f, i) = {} /\ Targets(f, i) = {}, "unload")
        EXCEPT !.ino[i] = NotLoaded]

(* hammer_rel_inode: the last reference of a dirty inode has it flushed,   *)
(* which takes another one, and goes then.                                 *)
RelAgain(f, i, flush) ==
  IF f.ino[i].refs > 1 THEN Rel(f, i, flush) ELSE Panic(f, "rel loops")
RelLast(f, i, flush) == IF Dirty(f, i) THEN RelAgain(Flush(f, i), i, flush) ELSE Unload(f, i)
RelRef(f, i, flush) == IF f.ino[i].refs > 1 THEN [f EXCEPT !.ino[i].refs = @ - 1]
                       ELSE Rel(Check(f, f.ino[i].refs = 1, "no refs"), i, flush)
RelInode(f, i, flush) ==
  IF f.ino[i].refs = 1
  THEN RelLast(UnloadableCheck(Check(f, f.ino[i].vp = "none", "rel with vnode"), i), i, flush)
  ELSE RelRef(IF flush THEN Flush(f, i) ELSE f, i, flush)

(* hammer_test_inode: something it depended on is gone.                    *)
TestInode(f, i) ==
  IF "reflush" \in f.ino[i].flags
  THEN Rel(Flush([Clear(f, i, {"reflush"}) EXCEPT !.ino[i].refs = @ + 1], i), i, FALSE)
  ELSE f

(* hammer_flush_inode: a clean inode that nothing names goes idle; one     *)
(* held back by a record needs its directories in the group.               *)
Unhold(f, i) ==
  IF ~Dirty(f, i) /\ f.ino[i].fst = SETUP /\ Targets(f, i) = {}
  THEN Rel([f EXCEPT !.ino[i].fst = IDLE], i, FALSE) ELSE f
FlushSetup(s, i, g) == IF s.ret # -1 THEN Core(s.fs, i, g, FALSE)
                       ELSE Set(s.fs, i, {"reflush"})
FlushState(f, i, g) ==
  CASE ~Dirty(f, i) /\ f.ino[i].fst = IDLE -> f
    [] Dirty(f, i) /\ f.ino[i].fst = IDLE  -> Core(f, i, g, FALSE)
    [] f.ino[i].fst = SETUP -> FlushSetup(Parents(f, i, g), i, g)
    [] OTHER -> Set(f, i, {"reflush"})
FlushInode(f, i) == FlushState(Unhold(PickGroup(f), i), i, NextGroup(f))

(* hammer_setup_parent_inodes_helper: bring record r and its directory     *)
(* into group g.  1 is connectivity, 0 none needed, -1 none to be had.     *)
Connects(f, r) == [fs |-> f, ret |-> IF f.rec[r].typ = "add" THEN 1 ELSE 0]
Cut(f) == [fs |-> f, ret |-> -1]
JoinParent(f, r, g) ==
  IF f.ino[f.rec[r].ip].g = g THEN Connects(Join(f, r, g), r)
  ELSE Cut(Set(f, f.rec[r].ip, {"reflush"}))
InSetup(f, r) == Check(f, f.rec[r].fst = SETUP, "record not in setup")
ParentReady(up, r, pip, g) ==
  IF up.ret = -1 THEN Cut(up.fs)
  ELSE JoinParent(InSetup(IF up.fs.ino[pip].fst # FLUSH THEN Core(up.fs, pip, g, TRUE)
                          ELSE up.fs, r), r, g)
SetupParent(f, r, g) ==
  LET x == f.rec[r]
  IN CASE x.fst = IDLE -> Cut(Panic(f, "dependency idle"))
       [] x.fst = FLUSH /\ x.g # g -> Cut(Set(f, x.ip, {"reflush"}))
       [] x.fst = FLUSH /\ x.g = g -> Connects(f, r)
       [] OTHER -> ParentReady(Parents(f, x.ip, g), r, x.ip, g)

(* hammer_setup_parent_inodes: the records that name inode i               *)
Both(h, good) == [h EXCEPT !.ret = IF 1 \in {@, good} THEN 1 ELSE Min({@, good})]
SetupParents(f, i, g) ==
  FoldLeft(LAMBDA s, r : Both(SetupParent(s.fs, r, g), s.ret),
           [fs |-> f, ret |-> 0], SetToSeq(Targets(f, i)))

(* hammer_setup_child_callback over ip->rec_tree; `go' is whether a record *)
(* was found to flush.  A record that waits for its target inode takes the *)
(* inode along, unless the inode is being flushed already or the group is  *)
(* full.                                                                   *)
SetupChild(s, i, r) ==
  LET f == s.fs
      x == f.rec[r]
      g == f.ino[i].g
      gone == x.fe \/ x.be \/ x.fst = FLUSH
      held == ~s.full /\ ~gone /\ x.fst = SETUP
      taken == f.ino[x.tgt].fst = FLUSH
  IN CASE s.full -> s
       [] ~s.full /\ gone ->
            [s EXCEPT !.fs = Check(f, x.fst = FLUSH => x.g = g, "record in another group"),
                      !.go = @ \/ x.fst = FLUSH]
       [] ~s.full /\ ~gone /\ x.fst = IDLE ->
            [s EXCEPT !.fs = Join(Check(f, x.tgt = NULL, "idle with target"), r, g), !.go = TRUE]
       [] held /\ taken -> [s EXCEPT !.fs = Set(f, x.tgt, {"reflush"})]
       [] held /\ ~taken /\ GroupLoad(f, g) > GroupLimit ->
            [fs |-> Set(f, i, {"reflush"}), go |-> TRUE, full |-> TRUE]
       [] OTHER ->
            [s EXCEPT !.fs = Core(Join(Check(f, f.ino[x.tgt].fst # IDLE, "target idle"), r, g),
                                  x.tgt, g, TRUE),
                      !.go = TRUE]
SetupChildren(f, i) ==
  FoldLeft(LAMBDA s, r : SetupChild(s, i, r), [fs |-> f, go |-> FALSE, full |-> FALSE],
           InKeyOrder(f, Records(f, i)))

(* hammer_flush_inode_core: inode i enters group g, its state copied for   *)
(* the back end, unless there turns out to be nothing that can be flushed. *)
EnterGroup(f, i, g) ==
  LET x == f.ino[i]
      ok == x.fst # FLUSH /\ x.flags \intersect {"vheld", "wouldblock"} = {}
  IN [Check(f, ok, "flush twice") EXCEPT
        !.ino[i].refs = IF x.fst = IDLE THEN @ + 1 ELSE @,
        !.ino[i].fst = FLUSH, !.ino[i].g = g,
        !.ino[i].flags = IF x.vp = "open" THEN @ \union {"vheld"} ELSE @]
Snapshot(f, i) ==
  LET y == f.ino[i]
      cut == "trunc" \in y.flags
  IN [Check(Check(f, cut => "trunc" \notin y.sync, "truncation pending"),
            ~(f.running /\ y.g = 1), "group running") EXCEPT
        !.ino[i] = [y EXCEPT !.sync = @ \union (y.flags \intersect ModMask),
                             !.flags = @ \ ModMask,
                             !.snl = y.nl, !.ssize = y.size,
                             !.strunc = IF cut THEN y.trunc ELSE @,
                             !.trunc = IF cut THEN NoBlock ELSE @,
                             !.save = IF cut /\ @ > y.trunc THEN y.trunc ELSE @]]
EnterOrNot(s, i) ==
  IF s.go \/ s.fs.ino[i].flags \intersect NoXDirty # {} THEN Snapshot(s.fs, i)
  ELSE DropVheld([s.fs EXCEPT !.ino[i].fst = SETUP, !.ino[i].g = 0,
                              !.ino[i].flags = @ \union {"reflush"}], i)
FlushCore(f, i, g, up) ==
  EnterOrNot(IF up THEN [fs |-> EnterGroup(f, i, g), go |-> TRUE]
             ELSE SetupChildren(EnterGroup(f, i, g), i), i)

Do(f, c) ==
  CASE c.op = "flush"    -> [fs |-> FlushInode(f, c.i), ret |-> 0]
    [] c.op = "rel"      -> [fs |-> RelInode(f, c.i, c.flush), ret |-> 0]
    [] c.op = "inactive" -> [fs |-> Inactive(f, c.i), ret |-> 0]
    [] c.op = "core"     -> [fs |-> FlushCore(f, c.i, c.g, c.up), ret |-> 0]
    [] c.op = "parents"  -> SetupParents(f, c.i, c.g)

(***************************************************************************)
(* Records.                                                                *)
(***************************************************************************)
FreeRec(f) == CHOOSE r \in RecId : f.rec[r].ip = NULL

(* hammer_mem_add *)
MemAdd(f, x) == Set([f EXCEPT !.rec[FreeRec(f)] = x], x.ip, {"xdirty"})

(* hammer_rel_mem_record of a record that is deleted: nothing while a      *)
(* flush group or a cursor holds it, otherwise it goes.                    *)
FreeRecord(f, r) == [f EXCEPT !.rec[r] = NoRec]
LastRecord(f, i) ==
  IF Records(f, i) # {} THEN f
  ELSE TestInode([f EXCEPT !.ino[i].flags = @ \ {"xdirty"}, !.ino[i].sync = @ \ {"xdirty"}], i)
TestTarget(f, i) == Rel(TestInode([f EXCEPT !.ino[i].refs = @ + 1], i), i, FALSE)
TargetGone(f, x) == IF x.tgt = NULL THEN f ELSE TestTarget(f, x.tgt)
RelRecord(f, r) ==
  IF ~f.rec[r].fe \/ f.rec[r].fst = FLUSH \/ f.rec[r].ref THEN f
  ELSE TargetGone(LastRecord(FreeRecord(f, r), f.rec[r].ip), f.rec[r])

(* A record and its target inode are bound together: the inode leaves IDLE.*)
Bind(f, i) ==
  IF f.ino[i].fst # IDLE THEN f
  ELSE [f EXCEPT !.ino[i].refs = @ + 1, !.ino[i].fst = SETUP,
                 !.ino[i].flags = IF "flushw" \in @ THEN @ \union {"reflush"} ELSE @]

OnMedia(f, d) == f.ino[d].flags \intersect {"ondisk", "dondisk"} # {}

(* The keys a new entry may not use: in memory in any state, or on disk.   *)
KeysUsed(f, d) == {f.rec[r].key : r \in Records(f, d)}
                  \union (IF OnMedia(f, d) THEN {e.key : e \in {x \in f.ent : x.dir = d}} ELSE {})

(* hammer_ip_add_directory, from the lookup of an unused key on.  Without  *)
(* one the call fails; the link was counted before (BumpLinks) and stays.  *)
(* The keys of different names do not overlap here.                        *)
HasKey(f, d, n) == \E it \in 0 .. MaxIter - 1 : NameKey(n, it) \notin KeysUsed(f, d)
NewEntry(f, d, n, i) ==
  LET it == Min({x \in 0 .. MaxIter - 1 : NameKey(n, x) \notin KeysUsed(f, d)})
      x  == [NoRec EXCEPT !.ip = d, !.typ = "add", !.key = NameKey(n, it), !.fst = SETUP,
                          !.tgt = i, !.obj = i]
  IN Set([MemAdd(Bind(f, i), x) EXCEPT !.ns = @ \union {[dir |-> d, name |-> n, obj |-> i]}],
         d, {"mtime"})
AddDirectory(f, d, n, i) == IF HasKey(f, d, n) THEN NewEntry(f, d, n, i) ELSE f
BumpLinks(f, i) == Set([f EXCEPT !.ino[i].nl = @ + 1], i, {"ddirty"})

(***************************************************************************)
(* Lookups merge the records in memory with the B-Tree (hammer_ip_lookup,  *)
(* hammer_ip_first, hammer_ip_next): a DEL record hides the entry of its   *)
(* key on disk.                                                            *)
(***************************************************************************)
MemAdds(f, d) == {r \in Records(f, d) : f.rec[r].typ = "add" /\ ~f.rec[r].fe}
MemDels(f, d) == {r \in Records(f, d) : f.rec[r].typ = "del" /\ ~f.rec[r].fe}
DiskEntries(f, d) ==
  IF f.ino[d].mem /\ ~OnMedia(f, d) THEN {}
  ELSE {e \in f.ent : e.dir = d /\ \A r \in MemDels(f, d) : f.rec[r].key # e.key}
Merged(f, d) == {[dir |-> d, key |-> f.rec[r].key, obj |-> f.rec[r].obj] : r \in MemAdds(f, d)}
                \union {[dir |-> d, key |-> e.key, obj |-> e.obj] : e \in DiskEntries(f, d)}
View(f, d) == {[dir |-> d, name |-> NameOf(e.key), obj |-> e.obj] : e \in Merged(f, d)}
(* The two panics of hammer_ip_next().                                     *)
MergeOK(f, d) ==
  /\ \A r \in MemAdds(f, d) : \A e \in f.ent : e.dir = d => e.key # f.rec[r].key
  /\ \A r \in MemDels(f, d) : \E e \in f.ent : e.dir = d /\ e.key = f.rec[r].key

(* What hammer_vop_strategy_read() finds for a block, truncations that are *)
(* still to be done taken into account.                                    *)
BackendCutNot(f, i, b) == FALSE
BackendCut(f, i, b) == "trunc" \in f.ino[i].sync /\ f.ino[i].strunc <= b
FrontendCut(f, i, b) == "trunc" \in f.ino[i].flags /\ f.ino[i].trunc <= b
InMemory(f, i, b) == {r \in Records(f, i) : f.rec[r].typ = "data" /\ f.rec[r].key = b /\ ~f.rec[r].fe}
StrategyRead(f, i, b) ==
  IF InMemory(f, i, b) # {}
  THEN LET r == CHOOSE y \in InMemory(f, i, b) : TRUE
       IN IF FrontendCut(f, i, b) /\ f.rec[r].fst = FLUSH THEN 0 ELSE f.rec[r].val
  ELSE IF FrontendCut(f, i, b) \/ BackendCut(f, i, b) THEN 0 ELSE f.data[i][b]

(* hammer_vop_bmap: the block may be read from the media directly.         *)
Bmap(f, i, b) == /\ f.data[i][b] # 0 /\ InMemory(f, i, b) = {}
                 /\ ~FrontendCut(f, i, b) /\ ~BackendCut(f, i, b)

(* hammer_vop_read: a buffer in the cache, or one that is read in, by the  *)
(* cluster code or not.                                                    *)
Read(f, i, b) ==
  IF f.ino[i].buf[b] # 0 THEN {f.ino[i].buf[b]}
  ELSE {StrategyRead(f, i, b)} \union (IF Bmap(f, i, b) THEN {f.data[i][b]} ELSE {})

(* hammer_vop_readlink finds the link's record.                            *)
Readlink(f, i) == \/ \E r \in Records(f, i) : f.rec[r].typ = "gen" /\ ~f.rec[r].fe
                  \/ OnMedia(f, i) /\ \E x \in f.aux : x.obj = i
=============================================================================
