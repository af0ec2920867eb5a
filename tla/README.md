# HAMMER in TLA+

A verification project for the HAMMER file system as kept in this repository:
TLA+ models of its crash-consistency machinery, its B-Tree and its inodes,
model-checked with TLC on small instances, and theorems checked by TLAPS for every
value of the constants.

The repository is a port of DragonFly's HAMMER to Linux.  `src/dfly/vfs/hammer/`
holds the original sources; the files in `src/` itself are Linux glue
(`super.c`, `inode.c`, `file.c`, `dfly_wrap.c`), thin wrappers that include the
original file, or copies adapted to the port, in which locking and writing are
stubs (the port mounts read-only).  The models follow the original sources, where the
logic is.

## 1. Inventory

| Component | Source | State | Operations | Models |
|---|---|---|---|---|
| UNDO FIFO | `hammer_undo.c` | `blockmap[UNDO]` first/next/alloc offset, `rb_undo_root` history | generate_undo, enter/clear history, used/space/max | `HammerUndo`, `HammerUndoProofs`, `HammerUndoFifo`, `HammerUndoFifoProofs` |
| Flush ordering | `hammer_flusher.c` (finalize), `hammer_io.c` | undo/volu/meta/data lists, `io.running`, header copy, `flush_tid1/2`, `HMNT_UNDO_DIRTY` | hammer_flusher_finalize, modify_buffer/volume, io_complete, wait_all | `HammerUndo`, `HammerUndoProofs` |
| Recovery | `hammer_recover.c` | scan offset, recovered buffers | hammer_recover, recover_undo, recover_flush_buffers | `HammerUndo`, `HammerUndoFifo` and their proofs |
| Flusher threads | `hammer_flusher.c`, `hammer_inode.c` (flush_inode) | flush groups, `act/next/done`, `signal`, ready/run lists, `finalize_want`, `finalize_lock` | master and slave loops, async, sync, wait, create, destroy | `HammerFlusher`, `HammerFlusherProofs` |
| Locks | `hammer_subs.c` | `lockcount`, `locktd`, `wanted`, `exwanted` | lock_ex, lock_sh, try forms, upgrade, downgrade, unlock | `HammerLock`, `HammerLockProofs` |
| Big-block allocator | `hammer_blockmap.c` | layer1/layer2 entries, reservations, delay list | alloc, reserve, finalize, free, reserve_complete, setdelay, clrdelay | `HammerBlockmap`, `HammerBlockmapProofs` |
| Mount, unmount | `hammer_vfsops.c` | `struct hammer_mount` | vfs_mount, free_hmp, critical_error | parts, in `HammerUndo` and `HammerFlusher` |
| Buffer I/O | `hammer_io.c` | `modified`, `running`, `released`, `reclaim`, modify_refs per buffer | read, modify, flush, deallocate, direct I/O | as far as the flush order depends on it, in `HammerUndo` |
| Inodes, in-memory records | `hammer_inode.c`, `hammer_object.c` | flags, sync_flags, `flush_state`, link counts and truncation points twice (front end, back end), record tree, target list | flush_inode and its setup functions, sync_inode, flush_inode_done, ip_add/del_directory, rel_mem_record, ip_first/next | `HammerRecords`, `HammerInode` |
| Vnode operations | `hammer_vnops.c` | the buffer cache, the namecache | create, mkdir, mknod, symlink, link, rename, remove, rmdir, resolve, open, close, readdir, readlink, read, write, truncate, fsync, bmap, strategy | `HammerRecords`, `HammerInode` |
| B-Tree, cursors | `hammer_btree.c`, `hammer_cursor.c` | nodes, node locks, cursors and the lists that track them, mirror tids | lookup, iterate in both directions, insert, delete, split, remove, lock_children, mirror_propagate, cursor tracking | `HammerBtreeNode`, `HammerBtree`, `HammerIndex`, `HammerBtreeNodeProofs`, `HammerBtreeImageProofs`, `HammerBtreeProofs` |
| Prune, reblock, mirror, PFS, ioctl | `hammer_prune.c`, `hammer_reblock.c`, `hammer_mirror.c`, `hammer_pfs.c` | a cursor and its range | loops over the B-Tree that yield and retry | the loops, in `HammerBtree`, `HammerBtreeProofs` |
| Transactions, ids | `hammer_transaction.c` | `next_tid`, objid cache | start, done, alloc_tid, alloc_objid | not modelled |
| Volume, buffer, node cache | `hammer_ondisk.c` | reference counts, loading state | ref, load, release, flush | node allocation and the sync scan only |
| Linux port | `super.c`, `inode.c`, `file.c`, `dfly_wrap.*` | none of its own | read-only glue | not modelled |
| `hammerread` | `hammerread.c` | none (reads an image) | B-Tree walk | not modelled |

How they interact.  The front end (vnode operations) changes inodes in memory and
queues records for directory entries, data and link targets; a record that adds or
removes an entry depends on the inode it names and the inode on it, so that
`hammer_flush_inode` has to put both into one flush group.  The flusher's slaves take the
inodes of a group to the B-Tree (`hammer_sync_inode`), while the front end goes on with
calls that look at memory and media together.  In the B-Tree, back end, lookups and the
long-running ioctls meet on node locks and on cursors that are parked unlocked.
Threads modify meta-data buffers and the volume header under
the shared `sync_lock` (operations of the back end, run by flusher slaves and by
ioctls).  Each modification goes through `hammer_modify_buffer/volume`, which lays
an UNDO record first.  The master flusher numbers its cycles, hands the inodes of
one flush group to slaves, and ends the cycle with `hammer_flusher_finalize`, which
takes `sync_lock` exclusively and writes UNDO, then the header, then meta-data.
Callers of `hammer_flusher_sync` wait for a cycle number.  The allocator's delay list is
keyed to the same numbers.  A mount runs `hammer_recover` over the range of the
FIFO that the volume header claims.  The locks are under all of it.

What is hard in this code: crashes between any two device writes, also while recovering;
device writes that complete in any order or fail; state looked at before a sleep
and used after it (the UNDO history, layer2, the master's `next_ip`); sequence
numbers that wrap; a FIFO at its limit; lost wakeups; an unmount that must
drain; an inode or a record changed by the front end while the back end is half
through with it; cursors on nodes that others split, empty or move.  `PROJECT.json` lists these one by one at their lines.

What makes each component correct:

- UNDO and flush ordering: whatever a crash leaves on the media, recovery
  brings back one flush boundary; operations are all-or-nothing; `flush_tid1` is durable.
- FIFO layout: the space accounting is exact, live records are never overwritten
  and the backward scan finds exactly them.
- Flusher: an inode has one flusher at a time, sync means flushed, no signal is
  lost, an unmount drains.
- Locks: exclusion, exact counts, no lost wakeup, no self-deadlock.
- B-Tree: the tree stays well formed and its set of records changes only as asked;
  a scan misses nothing that was there all along; pruning keeps what snapshots show.
- Inodes and records: lookups, listings and reads see what the calls made, at every
  moment of a flush; between two flush groups the media agree with themselves; in the
  end everything is on the media; fsync returns, with its data written.
- Allocator: layer1/layer2 describe what is in use, a reservation holds, nothing
  is reused while a crash could bring it back.

## 2. Modules

`MCx` instantiates `x` for TLC.  Operators named after another with a suffix
(`Take_last`, `haswork_no_undo_flag`) are deliberate slips used by the mutation runs;
no specification uses them.

**HammerUndo.**  Data is abstracted to *locations*: byte ranges that callers hand
to `hammer_modify_*`, some in the volume header (`VolLoc`), one of them the cached
blockmap (`BlkMap`).  FIFO offsets count records and never wrap; position `p` shares
its slot with `p - UndoSlots`, so writing `p` destroys the older record.  Actions:
`OpBegin`/`Modify`/`LayUndo`/`Write`/`SetBlockmap`/`OpEnd` are one back-end operation
under `sync_lock`, split where `hammer_generate_undo` can sleep; `FlushBegin` to
`FlushAbandon` are `hammer_flusher_flush`'s decisions; `FinalizeSyncLock` to
`FinalizeFailed` are the parts of `hammer_flusher_finalize` between its waits;
`UndoWritten`, `MetaWritten`, `HdrWritten`, `WriteFails` are the device calling
`hammer_io_complete`; `Crash` keeps any subset of the writes in flight;
`RecoverUndo` to `CleanMount` are `hammer_recover` and the rest of the mount.
`snapC` and `snapD` are history variables: the contents at the cached and at the
media's `first_offset`.  `Serialized` says for which ranges a node or blockmap lock
keeps writers apart; the header's counters have no such lock.

**HammerUndoProofs.**  The theorems about `HammerUndo`: crash consistency, then atomic
operations, quiescence and `flush_tid1`.  Section 4 has the arguments of these and of
the other proof modules.

**HammerUndoFifo, HammerUndoFifoProofs.**  The layout the other module leaves out: offsets in 8-byte
units, buffer boundaries, PADs (including the 8-byte one whose head is its tail),
the wrap, `hammer_undo_used`, and the backward scan from tails.

**HammerLock, HammerLockProofs.**  One `hammer_lock`.  A call runs in a critical section up
to its `tsleep`, so every call and every retry is one step.

**HammerFlusher, HammerFlusherProofs.**  Master, slaves, finalize lock, groups, front-end queueing,
`hammer_flusher_sync/wait`, unmount.  Code between two sleeps is one step, as the
kernel it was written for is not preemptive.  `hammer_sync_inode` has two outcomes:
the inode is done, or it stays in its group (EWOULDBLOCK or an error).

**HammerBlockmap, HammerBlockmapProofs.**  Big-blocks of `Units` cells, all in one layer1 entry.  An operation of the back end
holds `blkmap_lock` (the unlocked tests before it are repeated under
the lock, so they have no effect of their own).  `hammer_blockmap_alloc` is two steps, `AllocStart` and
`AllocTake`: between them it sleeps with the lock held and with a reservation it has no reference
to, while `hammer_blockmap_reserve_complete`, which takes no lock, may end that reservation.  Finalize and free
go on with what they look up after their sleeps, and are one step.  Deleting buffers in
`hammer_blockmap_reserve_complete` sleeps too and is two steps.  What a crash restores is
taken from what HammerUndo establishes: the last boundary the header committed.

**HammerBtreeNode, HammerBtree, HammerIndex.**  `HammerBtreeNode` has the pure part: keys
`[k, t]` (key and create tid), comparison, separators, and what a split, an insertion, a
removal or a move does to the image of the tree and to the cursors tracked on its nodes.
`HammerBtree` has the threads.  Each works through jobs (insert, delete, lookup, scan, prune,
reblock, rollback, mirror) with a cursor; an action ends where the code waits for a node
lock, so `InitCursor`, `SearchUp`, `SearchDown`, `IterUp`, `IterDown` and the rest are the
pieces of `btree_search` and `hammer_btree_iterate` between two lock attempts, `Restart` is
EDEADLK, and `Yield`/`Relock` are `hammer_unlock_cursor`/`hammer_lock_cursor`.  Nodes have
four elements instead of 63 in a leaf and three in an internal node; keys are small
numbers, since only their order matters.  `HammerIndex` is the abstract specification: a set
of records that changes by one insertion, destruction or deletion-by-tid, each asked for by a
call in progress.  `Refines` is `HammerBtree` implementing it, with the records of the leaves as `recs`.

**HammerBtreeNodeProofs, HammerBtreeImageProofs, HammerBtreeProofs.**  What the operations of
`HammerBtreeNode` do to a tree of any size, then to the image of the tree and the cursors
tracked on it, as lemmas, and last the threads of `HammerBtree`: its inductive invariant and the theorems, the refinement of `HammerIndex` among
them.

**HammerRecords, HammerInode.**  `HammerRecords` has the non-blocking core as operators on
the whole state `fs`, because these functions call one another: `FlushInode`, `SetupParents`,
`SetupChildren`, `FlushCore`, `RelInode` and `Inactive`, which reach each other through the
recursive `Do`; then `RelRecord`, the merged view of memory and media, and the reads.  `HammerInode` has the actions: the vnode operations, split where
they block (`LinkBump`/`LinkAdd`, the three parts of rename, and `UnlinkFind`/`UnlinkGet`/`UnlinkEnd` for a
`hammer_dounlink` that has to read the inode from the media, with the directory's lock given up), the kernel's buffer writes, sync
scan and vnode reclaim, and the back end: `GroupStart`, `SyncStart` (link counts and resolved
dependencies), `SyncTrunc` (all or a part of a truncation), `Interlock` and `SyncRecord` (a
record is taken, the cursor may have to wait, it is in the B-Tree), `SyncUpdate` (inode
deleted, written or touched), `SyncDone` (`hammer_flush_inode_done`), `GroupDone`.  Ghost fields
`ns`, `want` and `lnk` say what the calls so far asked for, and `stale` which removed entries are
on the media because the removal lost a race (section 6).  KKASSERTs and panics put a
name into `fs.bad`.  Abstractions: sizes are whole blocks, so the partly cleared last block of
a truncation is left out; names have `MaxIter` keys each, so collisions happen and a name can run out of keys (ENOSPC, with
the link count up, as in the code), while keys of different names do not overlap, so that
`hammer_mem_add` never meets EEXIST; the records of a name are in one B-Tree leaf, which the cursor of a
sleeping `hammer_dounlink` keeps locked shared if it has searched it; object ids are
reused once an inode is gone, which the code never does; one `open` per vnode; the throttling of
the front end (`rsv_recs`) is left out; the namecache serializes calls on one name; a readdir step returns one
entry, which is finer than the code; bmap answers for one block.

The modules are joined by these facts rather than by one composed state space: the
finalization's steps of `HammerUndo` appear in `HammerFlusher` as one step under
the finalize lock, in `HammerBlockmap` as `Commit` and in `HammerInode` as `GroupDone`;
`hammer_sync_inode`, two outcomes in `HammerFlusher`, is spelled out in `HammerInode`, which
takes for granted what `HammerFlusher` shows (one group at a time, one slave per inode) and
what `HammerIndex` promises of the B-Tree.

## 3. Runs

| Run | Instance | Result |
|---|---|---|
| `UndoCore` | 2 threads, buffers b1, b2 updated together, a header counter, the blockmap; 5 slots, history of 1, 2 operations, 3 flushes, 1 crash | 1.5 million states; `UndoLogIntact`, `CrashImageIsCommitted`, `OperationsAtomic`, `QuiescentClean`, `MountRestoresBoundary` hold |
| `UndoErrors` | 1 thread, operations that allocate; 20 slots; any write may fail while mounted; 2 crashes, one during recovery | 0.4 million states; `CrashImageIsCommitted`, of which `UndoLogIntact` is a part, and `FlushTid1Durable`; recovery and finalization end |
| `UndoHistoryRace` | 2 threads on one header counter, not serialized | violated: see section 6 |
| `UndoTid1Emergency` | a FIFO of 5 slots that asks for an emergency finalization | violated: see section 6 |
| `UndoFifo` | 4 buffers of 7 units, records of 3 and 4 units | all reachable layouts; contents and scan exact |
| `Lock` | 4 threads, 2 shared holds each, recursion 2 | safety, and `SharedWaiterWakes` |
| `Flusher` | 2 inodes, which fit into one group, 2 slaves, 1 client, errors and unmount | 3.0 million states; `GroupsExclusive`, `UnmountDrains` |
| `FlusherLive` | 2 inodes, one to a group, 1 slave, 1 client, unmount | 0.16 million states; `SyncFlushesQueued`, `WaitReturns`, `UnmountEnds` |
| `Blockmap` | 2 big-blocks of 2 cells, 2 zones, 2 records, unlimited cycles and crashes | 1.0 million states; safety |
| `Btree` | nine scenarios of two or three threads on trees of one to three levels that grow to four, nodes of 4 and 3 elements | 0.2 million states; well-formedness, no failing KKASSERT of those modelled, no stale cursor, complete scans, pruning, refinement of `HammerIndex`; deadlock is checked |
| `Inode` | thirteen scenarios of two threads on two directories and two files of two blocks, two slaves, a flush group limit of 2 | 0.16 million states; see the properties in section 1; liveness under `FairSpec` |
| `InodeDangling` | create, close, remove, create of one name | violated: see section 6 |

Why the bounds are enough.  `UndoCore`: with five slots and a history of one entry
an operation on both buffers lays two records and re-lays ranges dropped from the
history; the FIFO is reused after the second flush, emergency
and limit finalizations both happen, and a crash may come at every one of these
points.  Three flushes are needed because a record is claimed by the header for up to
two boundaries.  `UndoErrors` allows two crashes, so that recovery of a full log is
itself interrupted; it uses 20 slots, so that the
FIFO never fills: see section 6 for what a full one does after a failed header write.
`UndoFifo`: 7-unit buffers with entries of 3 and 4 produce PADs of
every size from 1 up, and all wrap positions.  `Flusher`: with `GroupLimit` 1 a group takes two inodes, so that two slaves work on one group while the master
still has an inode to hand out; with `GroupLimit` 0, in `FlusherLive`, two inodes make up to three groups,
and `hammer_flusher_async` has several to count.  Sequence numbers are
compared only by their distance, so the views identify states that differ by
a shift; `SeqSpan` is larger than twice the largest distance that occurs.  `RelView` identifies states
that differ by the names of slaves too.  `FlusherLive` uses `SeqView`, the shift alone: every
shift of a behaviour of `FairSpec` is one, and neither the fairness nor the properties look at a
number, so that the view keeps what TLC needs to know of cycles.
`Blockmap` uses the same view for cycle numbers, and no other bound.  Symmetry is
over threads, inodes, records, zones and big-blocks, which no definition tells apart (no
liveness property is checked under symmetry).

`Btree`: a scenario fixes the tree and the jobs, and TLC explores every interleaving of their lock
waits; the trees are chosen so that leaves and internal nodes split, a root is
replaced, a chain of empty nodes collapses, boundaries need correction, and nodes are moved
under a parked cursor; capacities of 4 and 3 are the smallest for which a split leaves
two elements on a side.  What the properties need of any tree and any jobs is proved (section 4).  `Inode`: each scenario is one that flushing has to get right (the comments of
`MCHammerInode` name them), and the flusher, the syncer and vnode recycling may come in at every
point; a group limit of 2 makes dependencies cross group boundaries, and two slaves flush a
directory and its file at the same time.

Deadlock is checked in `UndoFifo`, `Lock`, `Blockmap` and `Btree`.  The other systems may
stop: the operations, flushes and crashes of `HammerUndo` are bounded and it may
panic, an unmounted `HammerFlusher` has nothing left to do, and the calls of `HammerInode` end.

Fairness.  In `HammerUndo`: the device completes writes, the finalizer, recovery and
a thread inside an operation go on; new operations, flushes and crashes are not
forced.  In `HammerLock`: a woken thread runs and an exclusive hold is released
(strongly, because recursion can be entered again meanwhile); shared holds are
not forced to end.  In `HammerFlusher`: master, slaves and waiters run; `SF` of
`SlaveFlushed` says an inode is not refused with EWOULDBLOCK for ever, since each
refusal is followed by a finalization that makes room; `WaitersPrompt` says a woken waiter
looks at `flusher.done` before the master has completed another cycle.  The code needs
only half of 2^32 cycles for that; without any such bound a waiter that is never scheduled could see
`(int)(seq - done)` wrap, and the small `SeqSpan` of the run would make that reachable.

That a finalization ends (`FinalizeTerminates`) is about operations and finalizer waiting for each other:
`hammer_lock` gives an exclusive waiter no priority, and the run's `MaxOps` bounds the operations that could come in its way.

In `HammerInode`: the syncer comes round, the flusher threads run and a thread inside fsync or asleep in
`hammer_dounlink` goes on; calls are not forced.

Boundaries.  `MediaConsistent` is looked at where the master finalizes: between two groups, and inside one when it comes
round "again" for inodes that were not done.  A partial finalization, `hammer_flusher_finalize(trans, 0)` in
`hammer_sync_record_callback` (hammer_inode.c:2333) or after an inode (hammer_flusher.c:511), changes nothing `HammerInode` has: it writes
UNDO, header and buffers, but `first_offset` moves only `if (final)` (hammer_flusher.c:740), and so recovery undoes
what it wrote, back to the last final call (`snapD` in `HammerUndo`).  The emergency call
in the middle of a group, `hammer_flusher_finalize(trans, 1)` (hammer_flusher.c:509), does move the boundary; there the
code gives up consistency ("even if directory dependancies have not been resolved", hammer_flusher.c:521), and no
property of `HammerInode` is stated of it.  The fairness is written as `[]<>~Ready \/ []<><<A>>_vars` with the
guard of `A` spelled out as `Ready`, which is weak fairness of `A` and much cheaper to evaluate.

Every property of a passing run has a mutant in `PROJECT.json`: a slip in one of the
modelled definitions with which TLC finds the run's cfg violated.

## 4. Proofs

`HammerLockProofs` proves `LockCorrect`: for every finite set of threads and handles
and every recursion bound, `Spec => [](TypeOK /\ Exclusion /\ NoLostWakeup /\
NoSelfWait /\ ExWantedExact)`.  The five parts are inductive together and not
alone: exclusion of `LockExRetry` needs `NoSelfWait` (a waiter holds nothing, so the
lock it finds free is not its own), the wakeup of the last shared holder needs the exact
count, and `NoLostWakeup` needs that `wanted` is cleared only with a wakeup of everyone.
The arithmetic on `Cardinality(shared)` goes through the lemmas `AddHold`,
`RemoveHold`, `WaiterJoins` and `WaiterLeaves`, which rest on FiniteSetTheorems.
Assumptions: the sets are finite and NULL is no thread.  `WakeupsKept` and `RecursionSafe`
state two of its parts on their own.

`HammerUndoProofs` is about `HammerUndo`, for any ranges, values, threads, operations,
FIFO size, history size and dirty limit, and any bounds:

- `TypeCorrect`: `Spec => []TypeOK`, with write errors and unserialized writers.
- `CrashConsistent`: `Sound /\ Spec => []CrashImageIsCommitted`, and
  `LogIntact`, `Sound /\ Spec => []UndoLogIntact`, a part of it.
- `MountRestores`: `Sound /\ Spec => MountRestoresBoundary`.

`Sound` says that no device write fails and that a lock serializes the writers of every
range.  Both are needed: `UndoHistoryRace` refutes `CrashImageIsCommitted` without the
second, and a failed header write on a full FIFO refutes `UndoLogIntact` without the first
(section 6).  `UndoErrors` covers write errors on an instance where the FIFO does not fill.

The argument turns on `Undoes(u, a, b, base, v)`: executing the records `a .. b - 1` of
log `u` backwards on `base` gives `v`, said without recursion (the first record of a range
decides).  Six lemmas say what laying a record, changing a range that has one and undoing
one record do to it, what does not matter to it, and that its outcome is unique; `LayEffect`
and `HeaderEffect` apply them to `hammer_generate_undo` and to the header write.  `IInv` then says
this at the three places it matters: of memory and the cached range of the FIFO
(`Contents`), of the media and the header's range (`Media`), and of recovery's memory and
the part of the log it has executed (`Recovery`).  `CrashImageIsCommitted` alone is not
inductive, because it does not say where the header that is about to be written leads.
The other parts carry the ordering: `Control` (who holds `sync_lock`, what has been waited
for when the header is in flight), `Order` (the cached, in-memory and media copies of the
FIFO's range), `Records` (a slot is reused only below the media's `first_offset`), `Threads`
(operations in progress share no range).  There is one lemma per part, with one step per
action.  TLC checked `IInv` as an invariant of the `UndoCore` instance first.

The rest of the module goes on from that `IInv`:

- `AtomicOperations`: `OpsApart /\ Sound /\ Spec => []OperationsAtomic`.  `OpsApart` says that two
  kinds of operation share no range but the blockmap; without it the ranges of one operation
  may differ because another one changed some of them.  The invariant `Atomic` follows an
  operation under way: a range is still to be changed or has the operation's value; the
  boundaries are taken under the exclusive `sync_lock`, when no operation is under way.
- `CleanWhenQuiet`: `Sound /\ Spec => []QuiescentClean`.  `Quiet` relates what `haswork()` looks at
  (the header's dirty flag, `HMNT_UNDO_DIRTY`) to the three copies of the FIFO's range.
- `FlushTid1IsDurable`: `Spec /\ [](fby # "emergency") => []FlushTid1Durable`, with failing
  writes too.  It needs no crash consistency, only `Tids`: how far each copy of the header has
  come.  The run `UndoTid1Emergency` refutes it when an emergency finalization happens.

`HammerUndoFifoProofs` is about any buffer size, number of buffers, record sizes and reserve
above 0 (the code keeps a large one; with none, a FIFO filled to the last unit would look
empty).  `EntriesKept` is `Spec => []EntriesIntact`, `ScanIsExact` is `Spec => []ScanFindsAll`.  An offset
says little by itself once the FIFO has wrapped, so that the invariant measures every offset as a
distance from the header's `first_offset` around the zone: on that line the entries of the log lie
end to end (`Chain`), what `hammer_undo_space` grants keeps its length below that of the zone,
and so writing a further entry or PAD touches no cell of an older one (`Laid`).  `Header` and `Cached`
put the offsets of the media and of memory on the same line, and `Scanning` says which entries
the scan has still to find.  What is a function of `Alloc`, `% BufSize` and `\div BufSize` comes from a
few arithmetic lemmas (`Division`, `Unique`), since the buffer size is not a number the solver knows.

`HammerBlockmapProofs` is about any big-blocks, cells, zones, records and width of cycle numbers above
3: `LayersAreExact`, `ReservationsHold`, `DelaysKept`, `DeletesOfFreeOnly` (invariants) and `ReuseIsDelayed`
(the action property `NoEarlyReuse`).  The inductive invariant adds to the properties: `Refs`, the
reference count of a reservation is the number of its holders, which tells when it goes away;
`Covers` and `Owned`, its relation to the layer2 entry and the cells under it; `Pending`, the cell of a sleeping allocation
still suits its zone, unless the reservation is being disposed of, when `AllocTake` cannot take it; `Deleter`, the flusher
deletes buffers of one big-block at a time; and `Shadow`, the heart of it: a cell that one of
the two boundaries refers to and layer2 no longer covers lies in a big-block on the delay list, due only
after as many finalizations as it takes for that boundary to pass.  `NoEarlyReuse` is no
consequence of the layers, which call such a cell free.

`HammerFlusherProofs` is about any inodes, any finite, nonempty set of slaves, any clients, work array sizes and group
limits, with write errors, EWOULDBLOCK and unmounts.  `GroupsAreExclusive` is `Spec => []GroupsExclusive`.
The invariant: an inode is in the groups once (`Apart`); what a slave has still to flush is in the running group, before the
master's `next_ip`, and with no other slave (`Pending`), which is why neither a slave that removes it nor one that
leaves it behind disturbs the master; `AtCursor`, `next_ip` is on the list; and `Lists` and `Running`, who may be
on which list in which state of the master.

Its second half is about sequence numbers.  `SyncIsComplete` is `Spec => []SyncFlushesQueued` and
`UnmountIsComplete` is `Spec => []UnmountDrains`, both under `Roomy`: the number of inodes plus four is below half of the
sequence numbers (2^31), as `after()` compares by a signed difference; a group that has not run and holds no inode is at most one (`Filled`),
so that the inodes bound the groups.  The number `hammer_flusher_async` returns is `next` plus the groups that are not
running.  The proof keeps, for each waiting caller, the number `m` of cycles that are still to begin before
the one it awaits (`Promise`): what it waits for is in the first `m` groups, or `m + 1` while the
master works on the first one.  Every cycle takes one off `m` and the first group off the list, and a group that
a refused inode has to go through again keeps its place.  For the unmount, `Patient` says that it may sync at least four
times (the code: 30).  `DInv` follows its syncs: the first one flushes every inode that was to be flushed again
(`First`), the second leaves no group (`Second`), the third does the last cycle that empties the UNDO FIFO
(`Third`), and so `haswork()` is false at the fourth look.

`HammerBtreeNodeProofs`, `HammerBtreeImageProofs` and `HammerBtreeProofs` are about any finite set of nodes, any threads,
any scenarios of trees and jobs, and any capacity of the nodes of at least 3 (internal) and 4 (leaf);
`ElmsAssumption`, `NodeAssumption`, `ProcAssumption` and `ScenarioAssumption` say what a scenario may be: a
well-formed tree, and jobs with the arguments the code's callers have.

- `Invariance`: `Spec => []IInv`; `TypeCorrect`, `WellFormedTree` (`TreeOK`) and `NoStaleNodes` follow.
- `ImplementsIndex`: `Spec => Refines`, step by step: `StepKinds` says that a step inserts, deletes,
  or keeps the records.
- `PruningKeepsSnapshots`: `Spec => PruneKeepsSnapshots`.

Trees have any depth, and no induction over them is needed.  `TreeOK` says of every node that the root is among
its ancestors, which speaks of chains; the proofs have `Ranked` instead: there are numbers that grow from
parent to child.  `HangsTree` and `TreeHangs` show that the two are the same (distances from the root are
ranks; with ranks, a chain of parents meets no node twice and ends, at the root).  For a split, a
new root, a collapse or a move the new ranks can be written down from the old ones, as a function.  The rest of `Linked`
is about a node, its parent and its children, so that an operation is checked at the few nodes it
changes (`SplitTree`, `CollapseTree`, `MoveTree`, `LeafChanges`, `InternalChanges`); that a separator separates,
and that half of a full node keeps an element on each side, is what they need of the data.

`TreeOK` is not inductive, as it depends on what a thread knows.  `IInv` adds, for every thread and by what it is about to do:
its cursor's node and parent are in the tree and belong together, and it holds both locks (`Seated`, `Keeps`); on its way up it holds
the child whose parent it waits for (`GoesUp`), and on its way down the parent whose child it waits
for (`GoesDown`), so that nobody can move the one it waits for; when it comes to insert, the leaf has room, and its
index is where the key belongs, between the bounds of the leaf (`Ready`, `Slot`); when it comes to delete, the element is one its
job may delete (`Doomed`).  A parked cursor is tracked and stays within its node (`Tracked`).  The other half of each step is that
it disturbs nobody else (`Undisturbed`): it changes a node only if no other thread has any lock on it, and
tracked cursors are moved along.  For btree_remove, whose climb takes any number of levels, this is `RemoveNodeIs`.

The refinement rests on two facts about ranges: two children of one node never cover the same key
(`CoversOnce`), so only one leaf covers a key (`CoversLeaf`); hence a key the search
has not found in its leaf is in no other (`InsertFresh`), and a record has one place
(`OnePlace`), so that striking it there strikes it from the set.

TLC was run on each of these invariants too, with the instance of its run and no violation.

Only model-checked:

- Liveness: `RecoveryTerminates`, `FinalizeTerminates`, `SharedWaiterWakes`, `WaitReturns`, `UnmountEnds` and those of `HammerInode`;
  fairness is out of the prover's reach.
- `NoPanic` of `HammerBtree`.  Of the assertions the model keeps, those about locks and links follow from `IInv`; those about data
  hold only for jobs as the code issues them (no key below the first one, a delete_tid that differs from the create_tid, a root that never
  becomes a leaf under a propagation, as it always holds the root inode), and for the range an iteration is in; an
  invariant would have to follow all of these through every wait.
- `ScanComplete` relates what an iteration has seen to what has been in the tree all along, and needs an
  invariant on the position of a parked cursor in the order of all keys.
- `HammerInode`, all of it: the operators of `HammerRecords` call each other recursively.
- Crash consistency with write errors (`UndoErrors`): `Sound` leaves them out, as it must on a FIFO
  that may fill up; which weaker assumption would do is open.

## 5. Not modelled

- Data buffers in `HammerUndo` (HAMMER has no UNDO for them; what protects them is the
  delay list, which is modelled) and direct I/O; CRCs, which stand for "the record read is the one
  written"; the read-only mount that keeps recovered buffers in memory until a remount; the
  padding of allocations to buffer boundaries.
- The reference counts and loading of volumes, buffers and nodes (`hammer_ondisk.c`) and the
  states of one buffer (`hammer_io.c`): both would be models of their own.
- Transaction and object ids (`hammer_transaction.c`): two counters under one lock.
- Media errors in `HammerInode` and `HammerBtree`: they end in a critical error and a read-only
  mount, which `HammerUndo` and `HammerFlusher` have.
- Attributes, permissions, times, quotas, file handles, statfs, kqueue; pseudo file systems as
  such; mirror_write, which decodes a stream; reblocking of data.
- The Linux port, in which locks, sleeps and writes are stubs, and `hammerread`, which prints.

## 6. Where the code and its comments disagree

Shown by a run:

- `UndoHistoryRace`: `hammer_generate_undo` (hammer_undo.c:103) enters a range into
  the history before it sleeps for `undo_lock` and the FIFO buffer.  A second thread
  modifying the same range meanwhile is told that a record exists (comment at :80, "if
  we already laid one down") and writes; the record laid afterwards holds the new
  contents.  Ranges under a node or blockmap lock are safe; the header's `vol0_stat_*` and
  similar counters are not.
- `UndoTid1Emergency`: an emergency finalization in the middle of a group shifts
  `flush_tid2` into `flush_tid1` with the tid of a flush that is still running; the comment at
  hammer_flusher.c:749 says `flush_tid1` "is fully synchronized, meaning a crash will
  not roll it back".

- `InodeDangling`: `hammer_sync_inode` (hammer_inode.c:2391) unbinds an ADD record of its own
  flush group from the inode the entry names.  If the entry is removed before the record is synced, the
  record becomes a DELETE that no longer names the inode; the inode is destroyed in the next
  group, and the entry stays until its directory is flushed again.  A crash in between leaves a directory
  entry without inode, which hammer_vnops.c:2767 calls `Debugger("ENOENT unlinking object that
  should exist")` over.  `MediaConsistent` is stated but for such entries.

Met while modelling, each reproduced with the models but not kept as a run:

- hammer_flusher.c:301 and :579: the dummy cycle that should make UNDO room before
  a group (comment at :295) returns at once unless the dirty-buffer limit is exceeded.
- hammer_flusher.c:619: the last finalization of a group copies the cached blockmap
  only if the header is dirty; a finalization in the middle may just have cleaned it
  (comment at :546, "we also synchronize our cached blockmap").
- hammer_flusher.c:674 and hammer_undo.c:271: after a failed header write the in-memory
  `first_offset` is ahead of the media's; on a full FIFO the rest of the group may
  overwrite records the media header still claims (comment at hammer_undo.c:258).
- hammer_recover.c:493: a failed buffer write during recovery does not keep the header
  with the emptied FIFO from being written (comment at hammer_io.c:803).
- hammer_vfsops.c:682 and :705: after a critical error `haswork()` is 0, so an unmount
  frees the flush groups without waiting for the threads working on one (comment
  at :711).  In `HammerFlusher` this is `TeardownBusy`, after which the model stops.

- hammer_pfs.c:406: `hammer_pfs_rollback` sets ATEDISK also after an iteration that only came
  across an internal element the mirror filter skips, and so steps over the changed subtree behind it
  (comment at :328, "removing everything greater or equal to trunc_tid").
- hammer_btree.c:1507: a split hands `mirror_tid` on while a propagation is on its way up, so
  that a mirror_read between the two skips a record that has changed (comment at hammer_mirror.c:68).
- hammer_inode.c:2055: a file destroyed in several rounds (EWOULDBLOCK) gives DELETING back to the
  front end; the next round syncs a DATA record that was queued before, and the inode goes
  without it (comment at :2509, data records "must have already been deleted by the normal truncation mechanic").
- hammer_inode.c:2016: `hammer_wait_inode` returns when the inode leaves its flush group, before the
  group is finalized (comment at hammer_vnops.c:188, "would not be undone if a crash occured after return").
- hammer_inode.c:1702: an inode pulled in by its directory leaves its own records for a later
  group, so that a symbolic link can be on the media without its target.
- hammer_object.c:636: the link count goes up before the record exists, so that a flush in between
  writes a count that is too high after a crash; `MediaConsistent` says "covers", not "equals".
- hammer_inode.c:2085: a clean inode left in SETUP stays in memory until something else flushes it.
- hammer_vnops.c:2758: `hammer_dounlink` gives up the directory's lock and may block in
  `hammer_get_inode` while it holds the in-memory record it found.  The flusher may sync that record
  meanwhile; `hammer_ip_del_directory` (hammer_object.c:719-739) then sets `DELETED_FE` on a record
  nobody will look at again and queues no deletion, though its comment says that "we must still avoid
  races against the backend potentially syncing the record to the media".  The removed name comes
  back, one link short, and in the end the inode can go while its entry stays, which the next lookup
  or remove of the name meets at hammer_vnops.c:2767.  The model keeps such an entry in `fs.stale`
  (scenario: a directory and a file in it, the file closed and unloaded, then removed while the
  directory is synced); `ViewExact`, `MediaConsistent` and `NothingLost` say what holds but for
  these entries.
- hammer_blockmap.c:234-291: `hammer_blockmap_alloc` looks a reservation up without a reference and may
  block in `hammer_modify_buffer` (258-286) before it uses it.  `hammer_blockmap_reserve_complete`, which
  takes neither `blkmap_lock` nor `sync_lock`, may meanwhile free it, or set its `append_off` to the
  end, at which the assertion at :289 panics (comment at :251, "at this point we've validated any
  reservation that might exist and can just ignore resv").  In `HammerBlockmap` the allocation ends
  its step where the code blocks (`AllocStart`, `AllocTake`).

Read, and not modelled:

- hammer_inode.c:2491: `tmp_error = -error`, with `error` 0, drops the error of a record.
- hammer_reblock.c:301: `elm` points into the node the cursor had before it was unlocked.

- hammer_blockmap.c:593: `HAMMER_RESF_LAYER2FREE` is set only when `setdelay` creates the
  reservation, so a big-block freed under an existing one keeps its buffers (comment at :573).
- hammer_blockmap.c:597: the arguments of `HAMMER_ZONE_ENCODE` are swapped.
- hammer_io.c:154: `hammer_io_wait_all` calls `hammer_io_flush_sync` before it waits.
- hammer_recover.c:216: the switch of `hammer_check_tail_signature` has no default.
- hammer_inode.c:1902: a record's flush state is compared with a record type.

## 7. Plan

What is left, in order:

1. `NoPanic` and `ScanComplete` of `HammerBtree` as theorems, with the invariants section 4 names.
2. Crash consistency with write errors while mounted, under the weakest assumption for which it holds
   (no record is laid between a failed header write and the unmount).
3. `HammerIO`: the states of one buffer and the reference and loading protocol of `hammer_ondisk.c`.
