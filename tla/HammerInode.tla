---------------------------- MODULE HammerInode ----------------------------
(***************************************************************************)
(* The front end's calls and the flusher's work on inodes, over the state  *)
(* and the operators of HammerRecords.  `pr' is what is left to do for     *)
(* each thread and how far it has got with its call.                       *)
(***************************************************************************)
EXTENDS HammerRecords

CONSTANTS Proc, Scenarios        \* the calls the threads make

VARIABLES fs, pr

vars == <<fs, pr>>

(* A file system just mounted: some files, their blocks written, and the   *)
(* root directory in use.                                                  *)
Mounted(files) ==
  LET here == {Root} \union {e.obj : e \in files}
      data == [i \in Inode |-> [b \in Blocks |-> IF i \in here \ Dirs THEN 1 ELSE 0]]
      links(i) == IF i = Root THEN 1 ELSE Cardinality({e \in files : e.obj = i})
  IN [ino |-> [i \in Inode |-> IF i # Root THEN NotLoaded
                 ELSE [NewInode EXCEPT !.flags = {"ondisk"}, !.vp = "open", !.nl = 1, !.snl = 1]],
      rec |-> [r \in RecId |-> NoRec],
      groups |-> 0, running |-> FALSE, next |-> 0,
      ent |-> {[dir |-> e.dir, key |-> NameKey(e.name, 0), obj |-> e.obj, new |-> FALSE] : e \in files},
      data |-> data, want |-> data, dnew |-> {}, aux |-> {}, lnk |-> {},
      dino |-> [i \in Inode |-> [on |-> i \in here, nl |-> links(i), new |-> FALSE,
                                 size |-> IF i \in here \ Dirs THEN NoBlock ELSE 0]],
      stat |-> Cardinality(here), ns |-> files, stale |-> {}, bad |-> {}]

(* Where hammer_dounlink has got to when it sleeps: the inode of the entry *)
(* it found, the record if it was found in memory, and whether the cursor  *)
(* has the B-Tree leaf of the name locked.                                 *)
NoCursor == [at |-> "", obj |-> NULL, rec |-> NULL, leaf |-> FALSE]
Calling == [ops |-> <<>>, st |-> 0, cur |-> NoCursor, snap |-> NoBufs, off |-> 0, seen |-> <<>>, was |-> {}]
Init == \E s \in Scenarios : /\ fs = Mounted(s.files)
                             /\ pr = [p \in Proc |-> [Calling EXCEPT !.ops = s.ops[p]]]

(* A cursor on the inode waits while the back end has it locked.           *)
Unlocked(i) == fs.ino[i].ph \notin {"trunc", "rec", "upd"}

Call(p, op) == pr[p].ops # <<>> /\ Head(pr[p].ops).op = op
Arg(p) == Head(pr[p].ops)
Stage(p, st) == pr' = [pr EXCEPT ![p].st = st]
Return(p) == pr' = [pr EXCEPT ![p] = [Calling EXCEPT !.ops = Tail(pr[p].ops)]]

Entry(f, d, n) == {e \in View(f, d) : e.name = n}
Usable(d) == fs.ino[d].vp = "open" /\ Unlocked(d)

(* hammer_get_inode: from memory, or from the media.                       *)
GetInode(f, i) ==
  IF f.ino[i].mem THEN [f EXCEPT !.ino[i].refs = @ + 1]
  ELSE [Check(f, f.dino[i].on, "entry without inode") EXCEPT
          !.ino[i] = [NewInode EXCEPT !.flags = {"ondisk"}, !.nl = f.dino[i].nl, !.snl = f.dino[i].nl,
                                      !.size = f.dino[i].size, !.ssize = f.dino[i].size,
                                      !.save = f.dino[i].size]]

(* hammer_get_vnode *)
GetVnode(f, i) == [f EXCEPT !.ino[i].refs = IF f.ino[i].vp = "none" THEN @ + 1 ELSE @,
                            !.ino[i].vp = "open"]

(* hammer_inode_unloadable_check(ip, 1): with a vnode to truncate, whose   *)
(* release makes it inactive.                                              *)
Zonk(f, i) ==
  LET f1 == UnloadableCheck(f, i)
  IN IF f1 = f THEN f
     ELSE Deactivate([f1 EXCEPT !.ino[i].refs = IF f.ino[i].vp = "none" THEN @ + 1 ELSE @,
                                !.ino[i].buf = NoBufs], i)

(* hammer_ip_del_directory.  An entry found in memory needs no record of   *)
(* its own for the media; `mem' holds its record, {} if it was found on    *)
(* disk.  `stale' are the entries that reached the media nevertheless.     *)
NamedInMemory(f, d, n) == {r \in MemAdds(f, d) : NameOf(f.rec[r].key) = n}
DelInMemory(f, mem) ==
  [f EXCEPT !.rec = [r \in RecId |-> IF r \in mem THEN [@[r] EXCEPT !.fe = TRUE] ELSE @[r]],
            !.stale = @ \union {[dir |-> f.rec[r].ip, key |-> f.rec[r].key, obj |-> f.rec[r].obj] :
                                   r \in {x \in mem : f.rec[x].be}}]
DelOnDisk(f, d, n, i) ==
  LET e == CHOOSE x \in DiskEntries(f, d) : NameOf(x.key) = n
  IN MemAdd(Bind(Check(f, OnMedia(f, d), "not on disk"), i),
            [NoRec EXCEPT !.ip = d, !.typ = "del", !.key = e.key, !.fst = SETUP, !.tgt = i, !.obj = i])
DropLink(f, d, n, i) ==
  Set(Set([f EXCEPT !.ino[i].nl = @ - 1, !.ns = {x \in @ : ~(x.dir = d /\ x.name = n)}],
          d, {"mtime"}), i, {"ddirty"})
RelAll(f, rs) == FoldLeft(RelRecord, f, InKeyOrder(f, rs))
CursorDone(f, mem) ==
  RelAll([f EXCEPT !.rec = [r \in RecId |-> IF r \in mem THEN [@[r] EXCEPT !.ref = FALSE] ELSE @[r]]],
         mem)
DestroyUnused(f, i, unused) == IF unused THEN Flush(Zonk(f, i), i) ELSE f
DelDirectory(f, d, n, i, mem) ==
  LET unused == f.ino[i].nl = 1 /\ f.ino[i].vp \in {"none", "cached"}
  IN DestroyUnused(CursorDone(DropLink(IF mem # {} THEN DelInMemory(f, mem) ELSE DelOnDisk(f, d, n, i),
                                       d, n, i), mem), i, unused)

(* hammer_dounlink, from hammer_get_inode on: an entry of the kind asked   *)
(* for goes, a directory only if it is empty.                              *)
Refuses(f, v, i) == i \notin v.kind \/ (i \in Dirs /\ View(f, i) # {})
Unlinked(f, v, i, mem) ==
  Rel(IF Refuses(f, v, i) THEN CursorDone(f, mem) ELSE DelDirectory(f, v.d, v.n, i, mem), i, FALSE)

(***************************************************************************)
(* Vnode operations.                                                       *)
(***************************************************************************)
(* ncreate, nmkdir, nmknod, nsymlink: the OS has made sure that there is   *)
(* no such entry.  The inode, then the entry, then the vnode.              *)
MayCreate(a) == /\ Usable(a.d) /\ Entry(fs, a.d, a.n) = {}
                /\ ~fs.ino[a.i].mem /\ ~fs.dino[a.i].on
CreateInode(f, i) == [f EXCEPT !.ino[i] = NewInode, !.want[i] = NoBufs, !.lnk = @ \ {i}]
Named(f, a) == AddDirectory(BumpLinks(f, a.i), a.d, a.n, a.i)
NameInode(f, a) ==
  Rel(IF HasKey(f, a.d, a.n) THEN GetVnode(Named(f, a), a.i) ELSE Named(f, a), a.i, FALSE)

Create(p) == /\ Call(p, "create") /\ MayCreate(Arg(p)) /\ Return(p)
             /\ fs' = NameInode(CreateInode(fs, Arg(p).i), Arg(p))
Mkdir(p) == /\ Call(p, "mkdir") /\ MayCreate(Arg(p)) /\ Return(p)
            /\ fs' = NameInode(CreateInode(fs, Arg(p).i), Arg(p))
Mknod(p) == /\ Call(p, "mknod") /\ MayCreate(Arg(p)) /\ Return(p)
            /\ fs' = NameInode(CreateInode(fs, Arg(p).i), Arg(p))

(* The target of a long link is a record of its own.                       *)
Symlink(p) ==
  LET a  == Arg(p)
      f1 == MemAdd(CreateInode(fs, a.i), [NoRec EXCEPT !.ip = a.i, !.typ = "gen"])
      f2 == Set([f1 EXCEPT !.ino[a.i].size = 1, !.lnk = @ \union {a.i}], a.i, {"ddirty"})
  IN /\ Call(p, "symlink") /\ MayCreate(a) /\ Return(p)
     /\ fs' = NameInode(f2, a)

(* nlink: the link count first, then, the directory locked, the record.    *)
LinkBump(p) ==
  /\ Call(p, "link") /\ pr[p].st = 0 /\ fs.ino[Arg(p).i].vp = "open"
  /\ Entry(fs, Arg(p).d, Arg(p).n) = {}
  /\ fs' = BumpLinks(fs, Arg(p).i) /\ Stage(p, 1)
LinkAdd(p) ==
  LET a == Arg(p)
  IN /\ Call(p, "link") /\ pr[p].st = 1 /\ Usable(a.d)
     /\ fs' = AddDirectory(fs, a.d, a.n, a.i) /\ Return(p)

(* nremove, nrmdir, and nrename, which unlinks its target first: the entry *)
(* that hammer_dounlink is to remove, and the inodes of the kind asked for.*)
Victim(a) ==
  CASE a.op = "remove" -> [d |-> a.d,  n |-> a.n,  kind |-> Inode \ Dirs]
    [] a.op = "rmdir"  -> [d |-> a.d,  n |-> a.n,  kind |-> Dirs]
    [] a.op = "rename" -> [d |-> a.d2, n |-> a.n2, kind |-> Inode]
(* It finds the entry; one whose record is being synced it waits for.      *)
Unlinks(p) ==
  LET v == Victim(Arg(p))
  IN /\ pr[p].st = 0 /\ pr[p].cur = NoCursor /\ Usable(v.d)
     /\ \A r \in NamedInMemory(fs, v.d, v.n) : ~fs.rec[r].ilk
Found(p) == LET v == Victim(Arg(p)) IN {e.obj : e \in Entry(fs, v.d, v.n)}
UnlinkReturn(p, f, done) ==
  IF done /\ Arg(p).op = "rename"
  THEN fs' = BumpLinks(f, Arg(p).i) /\ pr' = [pr EXCEPT ![p].st = 1, ![p].cur = NoCursor]
  ELSE fs' = f /\ Return(p)

(* The inode is in memory, or there is no such entry: nothing sleeps.      *)
UnlinkNow(p) ==
  LET v == Victim(Arg(p))
  IN /\ Unlinks(p)
     /\ \/ Found(p) = {} /\ UnlinkReturn(p, fs, TRUE)
        \/ \E i \in Found(p) :
             /\ fs.ino[i].mem /\ (i \in Dirs => Unlocked(i))
             /\ UnlinkReturn(p, Unlinked(GetInode(fs, i), v, i, NamedInMemory(fs, v.d, v.n)),
                             ~Refuses(fs, v, i))
Unlink(p) == Call(p, "remove") /\ UnlinkNow(p)
Rmdir(p) == Call(p, "rmdir") /\ UnlinkNow(p)
RenameUnlink(p) == Call(p, "rename") /\ fs.ino[Arg(p).i].vp = "open" /\ UnlinkNow(p)

(* The inode has to be read: the directory's lock is released meanwhile,   *)
(* the cursor is not.  It holds the leaf it has searched, if it has, which *)
(* is the one where the name's records are or belong.                      *)
Removing(p) == pr[p].ops # <<>> /\ Arg(p).op \in {"remove", "rmdir", "rename"}
UnlinkFind(p) ==
  LET v == Victim(Arg(p))
      mem == NamedInMemory(fs, v.d, v.n)
  IN /\ Removing(p) /\ Unlinks(p)
     /\ \E i \in Found(p) :
          /\ ~fs.ino[i].mem
          /\ pr' = [pr EXCEPT ![p].cur =
                      [at |-> "get", obj |-> i, leaf |-> OnMedia(fs, v.d),
                       rec |-> IF mem = {} THEN NULL ELSE CHOOSE r \in mem : TRUE]]
     /\ fs' = [fs EXCEPT !.rec = [r \in RecId |-> [@[r] EXCEPT !.ref = @ \/ r \in mem]]]
UnlinkGet(p) ==
  /\ pr[p].cur.at = "get"
  /\ fs' = GetInode(fs, pr[p].cur.obj) /\ pr' = [pr EXCEPT ![p].cur.at = "del"]

(* The directory is locked again.  If the record is being synced the call  *)
(* starts over.                                                            *)
CursorRec(p) == {r \in RecId : r = pr[p].cur.rec}
MayEnd(p) == /\ pr[p].cur.at = "del" /\ Usable(Victim(Arg(p)).d)
             /\ pr[p].cur.obj \in Dirs => Unlocked(pr[p].cur.obj)
UnlinkEnd(p) ==
  LET v   == Victim(Arg(p))
      i   == pr[p].cur.obj
      mem == CursorRec(p)
  IN /\ MayEnd(p)
     /\ IF ~Refuses(fs, v, i) /\ \E r \in mem : fs.rec[r].ilk
        THEN /\ fs' = Rel(CursorDone(fs, mem), i, FALSE)
             /\ pr' = [pr EXCEPT ![p].cur = NoCursor]
        ELSE UnlinkReturn(p, Unlinked(fs, v, i, mem), ~Refuses(fs, v, i))
(* hammer_cursor_upgrade of the back end waits for such a leaf.            *)
LeafHeld(r) ==
  \E p \in Proc : /\ pr[p].cur.leaf /\ Victim(Arg(p)).d = fs.rec[r].ip
                  /\ Victim(Arg(p)).n = NameOf(fs.rec[r].key)

(* nrename, then: link the inode at the target, unlink the source.         *)
RenameAdd(p) ==
  LET a == Arg(p)
  IN /\ Call(p, "rename") /\ pr[p].st = 1 /\ Usable(a.d2)
     /\ IF HasKey(fs, a.d2, a.n2)
        THEN fs' = Set(AddDirectory(fs, a.d2, a.n2, a.i), a.i, {"ddirty"}) /\ Stage(p, 2)
        ELSE Return(p) /\ UNCHANGED fs
RenameDel(p) ==
  LET a == Arg(p)
  IN /\ Call(p, "rename") /\ pr[p].st = 2 /\ Usable(a.d)
     /\ \A r \in NamedInMemory(fs, a.d, a.n) : ~fs.rec[r].ilk
     /\ fs' = DelDirectory(fs, a.d, a.n, a.i, NamedInMemory(fs, a.d, a.n)) /\ Return(p)

(* nresolve and open *)
Open(p) ==
  LET a == Arg(p)
  IN /\ Call(p, "open") /\ Usable(a.d) /\ Return(p)
     /\ IF Entry(fs, a.d, a.n) = {} THEN UNCHANGED fs
        ELSE LET i == (CHOOSE e \in Entry(fs, a.d, a.n) : TRUE).obj
             IN fs' = Rel(GetVnode(GetInode(fs, i), i), i, FALSE)

(* readdir: the entries from an offset on, in the order of their keys.  A  *)
(* call may end behind any of them, and the next one goes on from there.   *)
(* `was' are the entries there were when the first call began.             *)
Entries(f, d) == {e \in f.ns : e.dir = d}
SameKey(key) == key
NextKey(key) == key + 1
Readdir(p) ==
  LET d == Arg(p).d
      rest == {e \in Merged(fs, d) : e.key >= pr[p].off}
      e == CHOOSE x \in rest : \A y \in rest : x.key <= y.key
  IN /\ Call(p, "readdir") /\ Usable(d) /\ UNCHANGED fs
     /\ IF rest = {} THEN Return(p)
        ELSE pr' = [pr EXCEPT ![p].off = NextKey(e.key), ![p].st = 1,
                              ![p].seen = Append(@, [dir |-> d, name |-> NameOf(e.key), obj |-> e.obj]),
                              ![p].was = IF pr[p].st = 0 THEN Entries(fs, d) ELSE @]

(* The last reference of the OS goes, once no other thread has a use for   *)
(* the vnode; the flusher may hold one more.                               *)
Uses(a, i) == \E k \in DOMAIN a \intersect {"d", "i", "d2"} : a[k] = i
Close(p) ==
  LET i == Arg(p).i
  IN /\ Call(p, "close") /\ fs.ino[i].vp = "open" /\ Return(p)
     /\ \A q \in Proc \ {p} : \A k \in DOMAIN pr[q].ops : ~Uses(pr[q].ops[k], i)
     /\ fs' = IF "vheld" \in fs.ino[i].flags THEN [fs EXCEPT !.ino[i].vp = "closing"]
              ELSE Deactivate(fs, i)

(* write: into the buffer cache                                            *)
Write(p) ==
  LET a == Arg(p)
      grow == a.b >= fs.ino[a.i].size
  IN /\ Call(p, "write") /\ fs.ino[a.i].vp = "open" /\ Return(p)
     /\ fs' = Set([fs EXCEPT !.ino[a.i].buf[a.b] = a.v, !.want[a.i][a.b] = a.v,
                             !.ino[a.i].size = IF grow THEN a.b + 1 ELSE @],
                  a.i, {"mtime", "bufs"} \union (IF grow THEN {"ddirty"} ELSE {}))

(* hammer_ip_frontend_trunc: not the records a flush group holds.          *)
FrontendTrunc(f, i, s) ==
  FoldLeft(LAMBDA h, r : RelRecord([Check(h, ~h.rec[r].ilk, "interlocked") EXCEPT !.rec[r].fe = TRUE], r),
           f, InKeyOrder(f, {r \in Records(f, i) : f.rec[r].key >= s /\ f.rec[r].fst # FLUSH}))

(* setattr with a size; sizes are whole blocks here.                       *)
Resize(f, i, s) ==
  LET cut(buf) == [b \in Blocks |-> IF b >= s THEN 0 ELSE buf[b]]
  IN [f EXCEPT !.ino[i].size = s, !.ino[i].buf = cut(@), !.want[i] = cut(@)]
Shorten(f, i, s) ==
  [FrontendTrunc(f, i, s) EXCEPT
     !.ino[i].flags = @ \union {"trunc"},
     !.ino[i].trunc = IF "trunc" \notin f.ino[i].flags \/ @ > s THEN s ELSE @]
SetSize(f, i, s) ==
  IF s < f.ino[i].size THEN Shorten(Resize(f, i, s), i, s) ELSE Resize(f, i, s)
Truncate(p) ==
  LET a == Arg(p)
  IN /\ Call(p, "trunc") /\ fs.ino[a.i].vp = "open" /\ Return(p)
     /\ fs' = IF a.s = fs.ino[a.i].size THEN fs ELSE Set(SetSize(fs, a.i, a.s), a.i, {"ddirty"})

(* hammer_vop_strategy_write: a buffer goes to the media, a record with it.*)
DropOld(f, rs) == FoldLeft(LAMBDA h, r : RelRecord([h EXCEPT !.rec[r].fe = TRUE], r), f, InKeyOrder(f, rs))
StrategyWrite(f, i, b) ==
  LET x == [NoRec EXCEPT !.ip = i, !.typ = "data", !.key = b, !.val = f.ino[i].buf[b]]
      out == [f EXCEPT !.ino[i].buf[b] = 0]
  IN IF (f.ino[i].flags \union f.ino[i].sync) \intersect {"deleting", "deleted"} # {} THEN out
     ELSE MemAdd(Check(DropOld(out, InMemory(f, i, b)), b < f.ino[i].size, "write behind the end"), x)
DirtyBufs(f, i) == {b \in Blocks : f.ino[i].buf[b] # 0}
WriteAll(f, i) == FoldLeft(LAMBDA h, b : StrategyWrite(h, i, b), f,
                           SetToSortSeq(DirtyBufs(f, i), LAMBDA b, c : b < c))
MayWrite(i) == \A b \in DirtyBufs(fs, i) : \A r \in InMemory(fs, i, b) : ~fs.rec[r].ilk

(* hammer_vop_fsync and hammer_wait_inode                                  *)
Fsync(p) ==
  LET i == Arg(p).i
  IN /\ Call(p, "fsync") /\ pr[p].st = 0 /\ fs.ino[i].vp = "open" /\ MayWrite(i)
     /\ fs' = Flush(WriteAll(fs, i), i)
     /\ pr' = [pr EXCEPT ![p].st = 1, ![p].snap = fs.want[i]]
FlushHeld(f, i) == IF f.ino[i].fst = SETUP THEN Flush(f, i) ELSE f
WaitFor(f, i) == IF f.ino[i].fst # IDLE THEN Set(f, i, {"flushw"}) ELSE f
FsyncWait(p) ==
  LET i == Arg(p).i
  IN /\ Call(p, "fsync") /\ pr[p].st = 1 /\ fs.ino[i].fst # IDLE
     /\ fs' = WaitFor(FlushHeld(fs, i), i)
     /\ IF fs'.ino[i].fst # IDLE THEN Stage(p, 2) ELSE UNCHANGED pr
FsyncWoken(p) ==
  /\ Call(p, "fsync") /\ pr[p].st = 2 /\ "flushw" \notin fs.ino[Arg(p).i].flags
  /\ Stage(p, 1) /\ UNCHANGED fs
FsyncReturnUnlessFlushing(p) ==
  /\ Call(p, "fsync") /\ pr[p].st = 1 /\ fs.ino[Arg(p).i].fst # FLUSH
  /\ Return(p) /\ UNCHANGED fs
FsyncReturn(p) ==
  /\ Call(p, "fsync") /\ pr[p].st = 1 /\ fs.ino[Arg(p).i].fst = IDLE
  /\ Return(p) /\ UNCHANGED fs

(***************************************************************************)
(* The kernel: buffers it writes out, the periodic sync, vnodes it takes   *)
(* back.                                                                   *)
(***************************************************************************)
BufWrite(i) ==
  /\ \E b \in DirtyBufs(fs, i) : /\ \A r \in InMemory(fs, i, b) : ~fs.rec[r].ilk
                                 /\ fs' = StrategyWrite(fs, i, b)
  /\ UNCHANGED pr

(* hammer_sync_scan1 and hammer_sync_scan2 *)
Scanned(i) == Flush(WriteAll(fs, i), i)
ScanWants(i) == /\ fs.ino[i].vp # "none" /\ MayWrite(i)
                /\ Dirty(fs, i) \/ DirtyBufs(fs, i) # {}
SyncScan(i) == ScanWants(i) /\ fs' = Scanned(i) /\ UNCHANGED pr

VnodeReclaim(i) ==
  /\ fs.ino[i].vp = "cached" /\ DirtyBufs(fs, i) = {}
  /\ fs' = Reclaim(fs, i)
  /\ UNCHANGED pr

(***************************************************************************)
(* The back end.  The master flusher takes one group after another; the    *)
(* slaves share its transaction.                                           *)
(***************************************************************************)
(* hammer_flusher_flush: the oldest group starts.                          *)
GroupStart ==
  /\ ~fs.running /\ fs.groups > 0
  /\ fs' = [fs EXCEPT !.running = TRUE,
                      !.next = IF @ # 1 THEN @ ELSE IF fs.groups > 1 THEN 2 ELSE 0]
  /\ UNCHANGED pr

(* ... and is over when every inode of it has been seen to: the            *)
(* finalization, and once more if inodes are left in the group.            *)
Down(n) == IF n > 0 THEN n - 1 ELSE 0
Members == {i \in Inode : fs.ino[i].g = 1}
GroupDone ==
  /\ fs.running /\ \A i \in Inode : fs.ino[i].ph \in {"", "again"}
  /\ \A i \in Members : fs.ino[i].ph = "again"
  /\ LET f1 == [fs EXCEPT !.dnew = {},
                          !.ent = {[e EXCEPT !.new = FALSE] : e \in @},
                          !.aux = {[x EXCEPT !.new = FALSE] : x \in @},
                          !.dino = [i \in Inode |-> [@[i] EXCEPT !.new = FALSE]]]
     IN fs' = IF Members # {}
              THEN [f1 EXCEPT !.ino = [i \in Inode |-> IF i \in Members THEN [@[i] EXCEPT !.ph = ""] ELSE @[i]]]
              ELSE [Check(f1, \A r \in RecId : f1.rec[r].g # 1, "records left in group") EXCEPT
                      !.running = FALSE, !.groups = @ - 1, !.next = Down(@),
                      !.ino = [i \in Inode |-> [@[i] EXCEPT !.g = Down(@)]],
                      !.rec = [r \in RecId |-> [@[r] EXCEPT !.g = Down(@)]]]
  /\ UNCHANGED pr

At(i, ph) == fs.running /\ fs.ino[i].g = 1 /\ fs.ino[i].ph = ph
InGroup(f, r) == f.rec[r].fst = FLUSH /\ f.rec[r].g = 1

(* hammer_sync_inode, the link count: the records of this group are on     *)
(* their way, those of later ones must not be counted yet.                 *)
LinkCountFrontEnd(f, i) == f.ino[i].nl
LinkCount(f, i) ==
  LET T == Targets(f, i)
      n(S) == Cardinality(S)
  IN f.ino[i].nl + n({r \in T : InGroup(f, r) /\ f.rec[r].fe})
                 - n({r \in T : ~InGroup(f, r) /\ ~f.rec[r].fe /\ f.rec[r].typ = "add"})
                 + n({r \in T : ~InGroup(f, r) /\ ~f.rec[r].fe /\ f.rec[r].typ = "del"})
(* The records that need not wait for the inode any longer                 *)
Resolved(f, i) == {r \in Targets(f, i) : InGroup(f, r) /\ ~f.rec[r].fe}
SlaveReady == Cardinality({j \in Inode : fs.ino[j].ph \notin {"", "again"}}) < Slaves
SyncStart(i) ==
  LET x == fs.ino[i]
      n == LinkCount(fs, i)
      f1 == [Check(fs, n >= 0, "negative link count") EXCEPT
               !.rec = [r \in RecId |-> IF r \in Resolved(fs, i) THEN [@[r] EXCEPT !.tgt = NULL] ELSE @[r]],
               !.ino[i].snl = n,
               !.ino[i].sync = IF n # x.snl THEN @ \union {"ddirty"} ELSE @,
               !.ino[i].ph = IF "trunc" \in x.sync THEN "trunc" ELSE "rec"]
  IN /\ At(i, "") /\ SlaveReady
     /\ fs' = IF x.sync \intersect ModMask = {} THEN [fs EXCEPT !.ino[i].ph = "end"] ELSE f1
     /\ UNCHANGED pr

(* hammer_ip_delete_range of what lies behind a truncation: all of it, or  *)
(* a part when there is too much dirty meta-data.                          *)
SyncTrunc(i) ==
  LET x == fs.ino[i]
      gone(S) == [Check(fs, \A b \in S : <<i, b>> \notin fs.dnew, "deleted in its transaction") EXCEPT
                    !.data[i] = [b \in Blocks |-> IF b \in S THEN 0 ELSE @[b]]]
      behind == {b \in Blocks : b >= x.strunc /\ fs.data[i][b] # 0}
  IN /\ At(i, "trunc") /\ UNCHANGED pr
     /\ \/ fs' = [gone(behind) EXCEPT !.ino[i].sync = @ \ {"trunc"}, !.ino[i].ph = "rec"]
        \/ \E b \in behind :
             fs' = [gone({c \in behind : c <= b}) EXCEPT
                      !.ino[i].strunc = b, !.ino[i].ph = "upd",
                      !.ino[i].flags = @ \union {"wouldblock"}]

(* hammer_flush_record_done *)
Unbind(f, r, x) ==
  CASE x.tgt # NULL /\ x.be -> TestInode([f EXCEPT !.rec[r].tgt = NULL, !.rec[r].g = 0], x.tgt)
    [] x.tgt # NULL /\ ~x.be ->
         TestInode(TestInode([f EXCEPT !.rec[r].fst = SETUP, !.rec[r].g = 0], x.ip), x.tgt)
    [] OTHER -> [f EXCEPT !.rec[r].g = 0]
RecordDone(f, r) ==
  LET x == f.rec[r]
  IN RelRecord([Unbind(f, r, x) EXCEPT
                  !.rec[r].fst = IF ~x.be /\ x.tgt # NULL THEN @ ELSE IDLE, !.rec[r].ilk = FALSE], r)

(* hammer_sync_record_callback, up to the point where it may block: the    *)
(* record is interlocked.                                                  *)
Queued(f, i) == {r \in Records(f, i) : InGroup(f, r)}
NextRec(i) == Head(InKeyOrder(fs, Queued(fs, i)))
Dispose(f, i, r) ==
  LET x == f.rec[r]
  IN CASE x.be -> {"be"}
       [] ~x.be /\ "deleting" \in f.ino[i].sync /\ x.typ \in {"data", "gen"} -> {"fe", "be"}
       [] ~x.be /\ "deleting" \notin f.ino[i].sync /\ x.typ \in {"data", "gen"} /\ x.fe -> {"be"}
       [] OTHER -> {}
Interlocked(f, i, r, x, live) ==
  [Check(Check(Check(f, ~x.ilk, "interlocked twice"),
               live /\ x.typ = "add" => "deleting" \notin f.ino[i].sync, "add during inode deletion"),
         live /\ x.typ = "del" => ~x.fe, "covering delete gone") EXCEPT !.rec[r].ilk = TRUE]
Disposed(f, r, d) == RecordDone([f EXCEPT !.rec[r].fe = @ \/ "fe" \in d, !.rec[r].be = TRUE], r)
Interlock(i) ==
  LET r == NextRec(i)
      d == Dispose(fs, i, r)
      f == Interlocked(fs, i, r, fs.rec[r], d = {})
  IN /\ At(i, "rec") /\ Queued(fs, i) # {} /\ UNCHANGED pr
     /\ fs' = IF d # {} THEN Disposed(f, r, d) ELSE [f EXCEPT !.ino[i].ph = "ilk"]

(* hammer_ip_sync_record_cursor: the record reaches the B-Tree.  A record  *)
(* that needs an overwrite delete replaces the block that is there.        *)
Committed(f, r) == [f EXCEPT !.rec[r].fe = TRUE, !.rec[r].be = TRUE]
SyncDel(f, r) ==
  LET here == {e \in f.ent : e.dir = f.rec[r].ip /\ e.key = f.rec[r].key}
  IN Committed([Check(f, here # {} /\ \A e \in here : ~e.new, "delete of what is not there")
                  EXCEPT !.ent = @ \ here], r)
AddGone(f, r) == Committed(f, r)
AddDone(f, r) == IF f.rec[r].fe THEN [f EXCEPT !.rec[r].fe = FALSE, !.rec[r].typ = "del"]
                 ELSE Committed(f, r)
SyncAdd(f, r) ==
  LET x == f.rec[r]
  IN AddDone([Check(f, \A e \in f.ent : e.dir = x.ip => e.key # x.key, "duplicate record") EXCEPT
                !.ent = @ \union {[dir |-> x.ip, key |-> x.key, obj |-> x.obj, new |-> TRUE]}], r)
NeedsOverwrite(f, x) == x.key < f.ino[x.ip].save
SyncData(f, r) ==
  LET x == f.rec[r]
      ok == IF NeedsOverwrite(f, x) THEN <<x.ip, x.key>> \notin f.dnew ELSE f.data[x.ip][x.key] = 0
  IN Committed([Check(f, ok, "duplicate record") EXCEPT
                  !.data[x.ip][x.key] = x.val, !.dnew = @ \union {<<x.ip, x.key>>},
                  !.ino[x.ip].save = IF @ > x.key THEN @ ELSE x.key + 1], r)
SyncGeneral(f, r) ==
  LET i == f.rec[r].ip
  IN Committed([Check(f, \A x \in f.aux : x.obj # i, "duplicate record") EXCEPT
                  !.aux = @ \union {[obj |-> i, new |-> TRUE]}], r)
SyncRecordCursor(f, r) ==
  CASE f.rec[r].typ = "del"  -> SyncDel(f, r)
    [] f.rec[r].typ = "add"  -> SyncAdd(f, r)
    [] f.rec[r].typ = "gen"  -> SyncGeneral(f, r)
    [] f.rec[r].typ = "data" -> SyncData(f, r)
Syncing(i) == CHOOSE y \in Records(fs, i) : fs.rec[y].ilk
SyncRecord(i) ==
  LET r == Syncing(i)
  IN /\ At(i, "ilk") /\ ~LeafHeld(r) /\ UNCHANGED pr
     /\ fs' = [RecordDone(Set(SyncRecordCursor(fs, r), i, {"dondisk"}), r) EXCEPT !.ino[i].ph = "rec"]

(* When nothing is left of the inode hammer_ip_delete_clean() deletes its  *)
(* auxiliary records: DELETED.                                             *)
DeleteClean(f, i) ==
  LET x == f.ino[i]
      mine == {y \in f.aux : y.obj = i}
  IN IF /\ x.ph = "rec" /\ x.snl = 0 /\ Records(f, i) = {}
        /\ "deleting" \in x.sync /\ "deleted" \notin x.flags
     THEN [Check(f, \A y \in mine : ~y.new, "deleted in its transaction") EXCEPT
                    !.aux = @ \ mine, !.ino[i].flags = @ \union {"deleted"}, !.ino[i].sync = @ \ {"deleting", "trunc"},
                    !.stat = IF "ondisk" \in x.flags THEN @ - 1 ELSE @]
     ELSE f

(* hammer_update_inode: a new version of the inode, or its deletion        *)
UpdateInode(f, i) ==
  LET x  == f.ino[i]
      there == "ondisk" \in x.flags /\ "delondisk" \notin x.flags
      f1 == IF there
            THEN [Check(f, f.dino[i].on /\ ~f.dino[i].new, "inode written twice") EXCEPT
                    !.dino[i].on = FALSE, !.ino[i].flags = @ \union {"delondisk"}]
            ELSE f
      redirty == "wouldblock" \in x.flags /\ x.ssize # x.size
      size == IF redirty THEN x.size ELSE x.ssize
  IN IF "deleted" \in x.flags THEN [f1 EXCEPT !.ino[i].sync = @ \ {"ddirty", "mtime"}]
     ELSE [f1 EXCEPT
             !.dino[i] = [on |-> TRUE, nl |-> x.snl, size |-> size, new |-> TRUE],
             !.stat = IF "ondisk" \in x.flags THEN @ ELSE @ + 1,
             !.ino[i].ssize = size,
             !.ino[i].flags = (@ \ {"delondisk"}) \union {"ondisk"},
             !.ino[i].sync = (@ \ {"ddirty", "mtime"}) \union (IF redirty THEN {"ddirty"} ELSE {})]

(* hammer_update_itimes: in place                                          *)
UpdateItimes(f, i) ==
  IF "ondisk" \in f.ino[i].flags /\ "delondisk" \notin f.ino[i].flags
  THEN [f EXCEPT !.ino[i].sync = @ \ {"mtime"}] ELSE f

(* The rest of hammer_sync_inode                                           *)
BufsSynced(f, i) == IF f.ino[i].ph = "rec" THEN [f EXCEPT !.ino[i].sync = @ \ {"bufs"}] ELSE f
Decide(f, i) ==
  [f EXCEPT !.ino[i].sync = IF "deleted" \in f.ino[i].flags THEN @ \ {"ddirty", "xdirty", "mtime", "deleting"}
                            ELSE IF "ondisk" \in f.ino[i].flags THEN @ ELSE @ \union {"ddirty"}]
Update(f, i) ==
  IF "deleted" \in f.ino[i].flags \/ "ddirty" \in f.ino[i].sync THEN UpdateInode(f, i)
  ELSE IF "mtime" \in f.ino[i].sync THEN UpdateItimes(f, i) ELSE f
SyncUpdate(i) ==
  /\ At(i, "upd") \/ (At(i, "rec") /\ Queued(fs, i) = {})
  /\ fs' = [Update(Decide(BufsSynced(DeleteClean(fs, i), i), i), i) EXCEPT !.ino[i].ph = "end"]
  /\ UNCHANGED pr

(* hammer_flush_inode_done                                                 *)
LinksKept(f, i) == {}
LinksAdjusted(f, i) == IF f.ino[i].nl # f.ino[i].snl THEN {"ddirty"} ELSE {}
MergeBack(f, i) ==
  LET x == f.ino[i]
  IN [f EXCEPT !.ino[i].flags = @ \union (x.sync \ {"trunc"}) \union LinksAdjusted(f, i)
                                  \union (IF DirtyBufs(f, i) # {} THEN {"bufs"} ELSE {}),
               !.ino[i].sync = @ \intersect {"trunc"}]
KeepTrackNot(f, i) == IF ~Dirty(f, i) THEN Clear(f, i, {"reflush"}) ELSE f
KeepTrack(f, i) ==
  IF ~Dirty(f, i) THEN Clear(f, i, {"reflush"})
  ELSE IF f.ino[i].vp = "none" THEN Set(f, i, {"reflush"}) ELSE f
WakeNobody(f, i) == f
WakeWaiters(f, i) == Clear(f, i, {"flushw"})
Idle(f, i) == Targets(f, i) = {} /\ Records(f, i) = {}
LeaveGroup(f, i) == WakeWaiters([f EXCEPT !.ino[i].fst = IF Idle(f, i) THEN IDLE ELSE SETUP], i)
Reflush(f, i) == IF "reflush" \in f.ino[i].flags THEN Flush(Clear(f, i, {"reflush"}), i) ELSE f
RelIfIdle(f, i, idle) == IF idle THEN Rel(f, i, FALSE) ELSE f
ReflushRel(f, i) == RelIfIdle(Reflush(f, i), i, f.ino[i].fst = IDLE)
Leave(f, i) == ReflushRel(LeaveGroup(DropVheld([f EXCEPT !.ino[i].g = 0], i), i), i)
CheckXDirty(f, i) == Check(f, (Records(f, i) = {}) = ("xdirty" \notin f.ino[i].flags), "xdirty")
LeaveOrStay(f, i) ==
  IF "wouldblock" \in f.ino[i].flags THEN [Clear(f, i, {"wouldblock"}) EXCEPT !.ino[i].ph = "again"]
  ELSE Leave(f, i)
SyncDone(i) ==
  /\ At(i, "end") /\ UNCHANGED pr
  /\ fs' = LeaveOrStay(KeepTrack(CheckXDirty(MergeBack([fs EXCEPT !.ino[i].ph = ""], i), i), i), i)

(***************************************************************************)
Finished == \A p \in Proc : pr[p].ops = <<>>

UnlinkStep(p) == UnlinkGet(p) \/ UnlinkEnd(p)
FsyncStep(p) == FsyncWait(p) \/ FsyncWoken(p) \/ FsyncReturn(p)
FrontEnd(p) == \/ Create(p) \/ Mkdir(p) \/ Mknod(p) \/ Symlink(p)
            \/ LinkBump(p) \/ LinkAdd(p) \/ Unlink(p) \/ Rmdir(p) \/ Readdir(p)
            \/ UnlinkFind(p) \/ UnlinkStep(p)
            \/ RenameUnlink(p) \/ RenameAdd(p) \/ RenameDel(p)
            \/ Open(p) \/ Close(p) \/ Write(p) \/ Truncate(p)
            \/ Fsync(p) \/ FsyncStep(p)
BackEnd(i) == \/ SyncStart(i) \/ SyncTrunc(i) \/ Interlock(i) \/ SyncRecord(i)
           \/ SyncUpdate(i) \/ SyncDone(i)

Next == \/ \E p \in Proc : FrontEnd(p)
        \/ \E i \in Inode : BufWrite(i) \/ SyncScan(i) \/ VnodeReclaim(i) \/ BackEnd(i)
        \/ GroupStart \/ GroupDone

Spec == Init /\ [][Next]_vars

(* Weak fairness of the syncer, which comes round every 30 seconds, of the *)
(* flusher threads and of a thread inside fsync() or woken in the middle   *)
(* of hammer_dounlink(); each Ready is what enables the action.            *)
ScanReady(i) == ScanWants(i) /\ Scanned(i) # fs
StartReady == ~fs.running /\ fs.groups > 0
DoneReady == /\ fs.running /\ \A i \in Inode : fs.ino[i].ph \in {"", "again"}
             /\ \A i \in Members : fs.ino[i].ph = "again"
BackReady(i) == /\ fs.running /\ fs.ino[i].g = 1 /\ fs.ino[i].ph # "again"
                /\ fs.ino[i].ph = "" => SlaveReady
                /\ fs.ino[i].ph = "ilk" => ~LeafHeld(Syncing(i))
UnlinkReady(p) == pr[p].cur.at = "get" \/ MayEnd(p)
FsyncReady(p) == /\ Call(p, "fsync") /\ pr[p].st > 0
                 /\ pr[p].st = 2 => "flushw" \notin fs.ino[Arg(p).i].flags
FairSpec ==
  /\ Spec
  /\ \A i \in Inode : /\ []<>~ScanReady(i) \/ []<><<SyncScan(i)>>_vars
                      /\ []<>~BackReady(i) \/ []<><<BackEnd(i)>>_vars
  /\ []<>~StartReady \/ []<><<GroupStart>>_vars
  /\ []<>~DoneReady \/ []<><<GroupDone>>_vars
  /\ \A p \in Proc : /\ []<>~FsyncReady(p) \/ []<><<FsyncStep(p)>>_vars
                     /\ []<>~UnlinkReady(p) \/ []<><<UnlinkStep(p)>>_vars

(***************************************************************************)
(* Properties.                                                             *)
(***************************************************************************)
(* None of the assertions and panics of the code modelled here can fail,   *)
(* whatever the order of front end and back end; those of                  *)
(* hammer_ip_next(), which merges memory and media, are looked at whenever *)
(* a directory is not locked.                                              *)
NoPanic ==
  /\ fs.bad = {}
  /\ \A d \in Dirs : fs.ino[d].mem /\ OnMedia(fs, d) /\ Unlocked(d) => MergeOK(fs, d)

(* A lookup or a readdir sees exactly the entries the calls made so far    *)
(* left, at every point of a flush: an entry is neither seen twice nor     *)
(* lost while its record moves from memory to the media, and a removed one *)
(* does not come back when its ADD record is synced and turned into a DEL; *)
(* but for the stale entries: those whose record reached the media while   *)
(* hammer_dounlink(), which had found it in memory, slept without the      *)
(* directory's lock.  They come back, and nothing else does.               *)
Stale(e) == \E x \in fs.stale : x.dir = e.dir /\ x.key = e.key /\ x.obj = e.obj
StaleIn(d) == {[dir |-> x.dir, name |-> NameOf(x.key), obj |-> x.obj] : x \in {y \in fs.stale : y.dir = d}}
ViewExact == \A d \in Dirs : Unlocked(d) => View(fs, d) = Entries(fs, d) \union StaleIn(d)

(* A readdir in several calls, whatever others do and the flusher moves    *)
(* meanwhile, returns no entry twice and every entry that was there from   *)
(* the first call to the last.                                             *)
ReaddirComplete ==
  [][\A p \in Proc : Call(p, "readdir") =>
       /\ IsInjective(pr'[p].seen)
       /\ pr'[p].ops # pr[p].ops =>
            pr[p].was \intersect Entries(fs, Arg(p).d) \subseteq ToSet(pr[p].seen)]_vars

(* read() returns what was written last, while buffers become records,     *)
(* records reach the media and truncations are pending in the front end,   *)
(* in the back end, or half done, also when the block's place on the media *)
(* is taken from bmap; and a symbolic link always has its target.          *)
DataExact ==
  \A i \in Inode \ Dirs : fs.ino[i].vp \in {"open", "closing"} =>
    IF i \in fs.lnk THEN Readlink(fs, i)
    ELSE \A b \in Blocks : b < fs.ino[i].size => Read(fs, i, b) = {fs.want[i][b]}

(* An entry whose removal in memory no longer knows its inode: the ADD     *)
(* record was deleted by the front end after the inode had dropped it from *)
(* its target list.                                                        *)
Detached(e) == \E r \in MemDels(fs, e.dir) : fs.rec[r].key = e.key /\ fs.rec[r].tgt = NULL
Links(i) == Cardinality({e \in fs.ent : e.obj = i /\ ~Detached(e) /\ ~Stale(e)})
(* Recovery goes back to where the master flusher last finalized: between  *)
(* two flush groups, or in one whose truncations are too large for one     *)
(* transaction.                                                            *)
Boundary == ~fs.running \/ DoneReady
(* There a directory entry has its inode on the media, the link count of   *)
(* an inode covers its entries, and the header counts the inodes; but for  *)
(* the detached entries, which EntriesHaveInodes is about, and the stale   *)
(* ones.                                                                   *)
MediaConsistent ==
  Boundary =>
    /\ \A e \in fs.ent : fs.dino[e.obj].on \/ Detached(e) \/ Stale(e)
    /\ \A i \in Inode : fs.dino[i].on => fs.dino[i].nl >= Links(i)
    /\ fs.stat = Cardinality({i \in Inode : fs.dino[i].on})

(* Between two flush groups every directory entry on the media has its     *)
(* inode there.  hammer_dounlink() takes it for granted: Debugger("ENOENT  *)
(* unlinking object that should exist").                                   *)
EntriesHaveInodes == ~fs.running => \A e \in fs.ent : fs.dino[e.obj].on

(* Nothing is left to be flushed.                                          *)
Settled ==
  /\ Finished /\ fs.groups = 0
  /\ \A i \in Inode : ~Dirty(fs, i) /\ DirtyBufs(fs, i) = {}
  /\ \A r \in RecId : fs.rec[r] = NoRec

Linked(i) == i = Root \/ \E e \in fs.ns : e.obj = i
(* Once nothing is left to be flushed the media hold what the calls made:  *)
(* the same entries, inodes for them with the right link count, the data   *)
(* written, the targets of symbolic links, and no inode that has neither a *)
(* name nor a user.                                                        *)
NothingLost ==
  Settled =>
    /\ {[dir |-> e.dir, name |-> NameOf(e.key), obj |-> e.obj] : e \in {x \in fs.ent : ~Stale(x)}} = fs.ns
    /\ \A i \in Inode :
         /\ Linked(i) => fs.dino[i].on
         /\ fs.dino[i].on /\ fs.ino[i].vp # "open" => Linked(i)
         /\ fs.dino[i].on /\ i # Root => fs.dino[i].nl = Links(i)
         /\ Linked(i) => fs.data[i] = fs.want[i]
    /\ {x.obj : x \in fs.aux} = {i \in fs.lnk : fs.dino[i].on}

(* When the calls stop, everything reaches the media: an inode that has    *)
(* lost its vnode, waits for a directory entry or was changed while it was *)
(* flushed is not forgotten.                                               *)
EventuallySettled == Finished ~> Settled

(* fsync() returns: whoever waits in hammer_wait_inode() is woken and in   *)
(* the end finds the inode idle.                                           *)
FsyncReturns == \A p \in Proc : (Call(p, "fsync") /\ pr[p].st > 0) ~> (pr[p].st = 0)

(* When fsync() returns, the inode and what was written to it before the   *)
(* call are in the B-Tree, even if a flush with older data was under way   *)
(* or the inode had to wait for its parent directory.                      *)
FsyncReaches ==
  [][\A p \in Proc : FsyncReturn(p) =>
       LET i == Arg(p).i
       IN Linked(i) => /\ fs.dino[i].on
                       /\ \A b \in Blocks : b < fs.ino[i].size /\ fs.want[i][b] = pr[p].snap[b]
                                              => fs.data[i][b] = pr[p].snap[b]]_vars
=============================================================================
