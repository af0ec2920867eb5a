---------------------------- MODULE HammerFlusher ----------------------------
(***************************************************************************)
(* The flusher threads (hammer_flusher.c): the master that cycles through  *)
(* the flush groups and numbers its cycles, the slaves that flush inodes,  *)
(* the finalize lock they share, the callers that queue inodes, sync and   *)
(* wait, and the unmount that drains and kills the threads.                *)
(*                                                                         *)
(* The kernel is non-preemptive: code between two sleeps is one step.  A   *)
(* tsleep() on a plain condition that every change wakes up is a guard;    *)
(* the sleeps whose wakeup is conditional (flusher.signal, flusher.done)   *)
(* are states of their own.  What hammer_sync_inode() and the body of      *)
(* hammer_flusher_finalize() write is HammerUndo's business.               *)
(*                                                                         *)
(* An operator named after another one with a suffix (X, X_late) is not    *)
(* part of the model: it is a slip the code could have made, which the     *)
(* mutation runs put in the place of X to show that a property sees it.    *)
(***************************************************************************)
EXTENDS Integers, Sequences, SequencesExt, FiniteSets

CONSTANTS
  Inode,       \* inodes the front end queues
  Slave,       \* HAMMER_MAX_FLUSHERS slave threads
  Client,      \* threads that sync, wait or unmount
  None,        \* the null pointer
  SeqSpan,      \* sequence numbers are machine words: 2^32
  WorkMax,     \* HAMMER_FLUSH_GROUP_SIZE, inodes per slave
  GroupLimit,  \* undo_rec_limit, inodes per flush group
  MaxTries,    \* syncs after which an unmount gives up: 30
  Errors,      \* media errors happen
  Unmounts     \* the filesystem is unmounted

ASSUME FlusherAssumption ==
  /\ None \notin Inode /\ IsFiniteSet(Slave) /\ Slave # {}
  /\ SeqSpan \in Nat \ {0} /\ WorkMax \in Nat \ {0}
  /\ GroupLimit \in Nat /\ MaxTries \in Nat
  /\ Errors \in BOOLEAN /\ Unmounts \in BOOLEAN

VARIABLES
  groups,      \* flush_group_list: [ips, total, closed, running]
  nextGroup,   \* next_flush_group: its index in groups, 0 for NULL
  signal,      \* flusher.signal; every count above 1 is like 2
  act, next, done,
  td,          \* the master thread exists
  exiting,
  mpc,         \* the master's program counter
  count,       \* the loop count of hammer_flusher_flush
  cursor,      \* its next_ip
  want,        \* finalize_want
  lock,        \* holder of finalize_lock
  ready,       \* ready_list
  run,         \* run_list
  info,        \* per slave: runstate, work_array, the inodes left, pc
  reflush,     \* inodes with HAMMER_INODE_REFLUSH
  work,        \* cycles until haswork() has only the flush groups to see
  critErr,
  cl,          \* per client: pc, sequence number awaited, tries
  pend         \* history: inodes queued when the client's sync began

gvars == <<groups, nextGroup>>
seqs  == <<act, next, done>>
fin   == <<want, lock>>
slv   == <<ready, run, info>>
mst   == <<td, exiting, mpc, count, cursor>>
env   == <<reflush, work, critErr>>
vars  == <<gvars, signal, seqs, mst, fin, slv, env, cl, pend>>

Master   == "master"
IdleInfo == [runstate |-> 0, work |-> <<>>, i |-> 0, pc |-> "sleep"]
IdleCl   == [pc |-> "idle", seq |-> 0, tries |-> 0]
Inc(n)   == (n + 1) % SeqSpan

(* The master's steps on a flush group.                                    *)
InGroup == {"dlock", "dwork", "assign", "join", "flock", "fwork"}

(* (int)(seq - done) > 0                                                   *)
after(a, b) == (a - b) % SeqSpan \in 1 .. (SeqSpan \div 2) - 1

Queued(g) == {i \in Inode : Contains(groups[g].ips, i)}
AllQueued == UNION {Queued(g) : g \in DOMAIN groups}
NewGroup  == [ips |-> <<>>, total |-> 0, closed |-> FALSE, running |-> FALSE]
haswork_groups == ~critErr /\ groups # <<>>
haswork   == ~critErr /\ (groups # <<>> \/ work > 0)

-----------------------------------------------------------------------------
(* Signalling the master: ++signal, with a wakeup when it was 0.           *)
Signal ==
  /\ signal' = IF signal = 0 THEN 1 ELSE 2
  /\ mpc' = IF signal = 0 /\ mpc = "sleep" THEN "wake" ELSE mpc

(* hammer_flusher_async: close every group up to g; the sequence number is *)
(* that of the cycle after the one that flushes the last of them.          *)
close(G, g) == [k \in DOMAIN G |-> IF k =< g THEN [G[k] EXCEPT !.closed = TRUE]
                                             ELSE G[k]]
async_seq_one(G, g) == next
async_seq(G, g) ==
  (next + Cardinality({k \in 1 .. g : ~G[k].running})) % SeqSpan

(* hammer_flush_inode's choice of a group k: groups over the limit are     *)
(* passed over and closed, with a signal, and a new group is appended when *)
(* none is left.                                                           *)
pick(G) ==
  LET fit  == {k \in 1 .. Len(G) : nextGroup > 0 /\ k >= nextGroup
                                     /\ G[k].total =< GroupLimit}
      k    == IF fit = {} THEN Len(G) + 1 ELSE CHOOSE k \in fit : \A j \in fit : k =< j
      full == nextGroup > 0 /\ k # nextGroup
      G1   == IF full THEN close(G, k - 1) ELSE G
  IN [groups |-> IF fit = {} THEN Append(G1, NewGroup) ELSE G1,
      k |-> k, async |-> full]

(* hammer_flush_inode_core: the inode joins group k.                       *)
core(p, i) ==
  LET flg == p.groups[p.k]
  IN [p.groups EXCEPT ![p.k] = [flg EXCEPT !.ips = Append(@, i), !.total = @ + 1]]

(* The end of hammer_flush_inode with groups G: async(flg) when asked to.  *)
Queue(p, G, sig) ==
  /\ groups' = IF sig THEN close(G, p.k) ELSE G
  /\ nextGroup' = p.k
  /\ IF sig \/ p.async THEN Signal ELSE UNCHANGED <<signal, mpc>>

Mounted == td /\ \A c \in Client : cl[c].pc \in {"idle", "check", "sleep"}

-----------------------------------------------------------------------------
(* Front end.                                                              *)

(* hammer_flush_inode(ip, flags) by any front-end thread.  An inode that   *)
(* is flushing is flagged to be flushed again.                             *)
FlushInode(i, sig) ==
  /\ Mounted /\ ~critErr
  /\ LET p == pick(groups)
     IN IF i \in AllQueued
          THEN Queue(p, p.groups, sig) /\ reflush' = reflush \union {i}
          ELSE Queue(p, core(p, i), sig) /\ UNCHANGED reflush
  /\ UNCHANGED <<seqs, td, exiting, count, cursor, fin, slv, work, critErr, cl,
                 pend>>

(* The two signals of an async call and of the wait that follows it: the   *)
(* sequence number awaited is never the active one.                        *)
AsyncWait(c, seq, pc, tries) ==
  /\ signal' = 2
  /\ mpc' = IF signal = 0 /\ mpc = "sleep" THEN "wake" ELSE mpc
  /\ cl' = [cl EXCEPT ![c] = [pc |-> pc, seq |-> seq, tries |-> tries]]

(* hammer_flusher_sync.                                                    *)
StartSync(c, pc, tries) ==
  /\ groups' = close(groups, Len(groups))
  /\ pend' = [pend EXCEPT ![c] = AllQueued]
  /\ AsyncWait(c, async_seq(groups, Len(groups)), pc, tries)

Sync(c) ==
  /\ Mounted /\ cl[c].pc = "idle"
  /\ StartSync(c, "sleep", 0)
  /\ UNCHANGED <<nextGroup, seqs, td, exiting, count, cursor, fin, slv, env>>

(* hammer_flusher_wait_next: hammer_flusher_async_one, then wait.          *)
WaitNext(c) ==
  /\ Mounted /\ cl[c].pc = "idle"
  /\ AsyncWait(c, next, "sleep", 0)
  /\ UNCHANGED <<gvars, seqs, td, exiting, count, cursor, fin, slv, env, pend>>

(* hammer_flusher_wait, woken up: "Signal the flusher as often as          *)
(* necessary to keep it going".                                            *)
Awake(c) ==
  /\ cl[c].pc \in {"check", "dcheck"}
  /\ IF after(cl[c].seq, done)
       THEN /\ IF act # cl[c].seq THEN Signal ELSE UNCHANGED <<signal, mpc>>
            /\ cl' = [cl EXCEPT ![c].pc = IF @ = "check" THEN "sleep" ELSE "dsleep"]
       ELSE /\ cl' = [cl EXCEPT ![c].pc = IF @ = "check" THEN "idle" ELSE "drain"]
            /\ UNCHANGED <<signal, mpc>>
  /\ UNCHANGED <<gvars, seqs, td, exiting, count, cursor, fin, slv, env, pend>>

-----------------------------------------------------------------------------
(* hammer_flusher_master_thread and hammer_flusher_flush.                  *)

Cycle ==
  /\ mpc = "cycle"
  /\ act' = next /\ next' = Inc(next)
  /\ count' = 0
  /\ mpc' = IF ready = <<>> THEN "done" ELSE "pick"
  /\ UNCHANGED <<gvars, signal, done, td, exiting, cursor, fin, slv, env, cl, pend>>

(* No group (left): pure meta-data, or finishing to cycle the UNDO FIFO.   *)
PickNone ==
  /\ mpc = "pick" /\ groups = <<>>
  /\ IF count = 0 /\ haswork
       THEN mpc' = "mlock" /\ want' = want + 1
       ELSE mpc' = "done" /\ UNCHANGED want
  /\ UNCHANGED <<gvars, signal, seqs, td, exiting, count, cursor, lock, slv, env,
                 cl, pend>>

PickError ==
  /\ mpc = "pick" /\ groups # <<>> /\ critErr
  /\ count' = 1
  /\ mpc' = "done"
  /\ UNCHANGED <<gvars, signal, seqs, td, exiting, cursor, fin, slv, env, cl, pend>>

(* The group runs now, which keeps new inodes out of it.                   *)
next_group_stale == nextGroup
next_group == IF nextGroup = 1 THEN (IF Len(groups) > 1 THEN 2 ELSE 0) ELSE nextGroup
RunGroup ==
  /\ groups' = [groups EXCEPT ![1].running = TRUE]
  /\ nextGroup' = next_group
  /\ cursor' = IF groups[1].ips = <<>> THEN None ELSE groups[1].ips[1]
  /\ mpc' = "assign"

(* "We may have to do a dummy cycle" first, which sleeps.                  *)
PickGroup ==
  /\ mpc = "pick" /\ groups # <<>> /\ ~critErr
  /\ count' = 1
  /\ \/ mpc' = "dlock" /\ want' = want + 1 /\ UNCHANGED <<gvars, cursor>>
     \/ RunGroup /\ UNCHANGED want
  /\ UNCHANGED <<signal, seqs, td, exiting, lock, slv, env, cl, pend>>

(* TAILQ_NEXT in the list as it is now.                                    *)
successor(i) ==
  LET ips == groups[1].ips
      k   == CHOOSE n \in DOMAIN ips : ips[n] = i
  IN IF k = Len(ips) THEN None ELSE ips[k + 1]

(* A slave starts: ready_list to run_list, runstate = 1, wakeup.           *)
start(s, w) ==
  /\ ready' = Tail(ready)
  /\ run' = run \union {s}
  /\ info' = [info EXCEPT ![s] = [runstate |-> 1, work |-> w, i |-> 0, pc |-> "sync"]]

(* The next inode goes to the slave at the head of ready_list; a full work *)
(* array starts it, and the master needs another one, if it must wait.     *)
Assign ==
  /\ mpc = "assign" /\ cursor # None /\ ready # <<>>
  /\ LET s == Head(ready)
         w == Append(info[s].work, cursor)
     IN IF Len(w) = WorkMax
          THEN start(s, w)
          ELSE info' = [info EXCEPT ![s].work = w] /\ UNCHANGED <<ready, run>>
  /\ cursor' = successor(cursor)
  /\ UNCHANGED <<gvars, signal, seqs, td, exiting, mpc, count, fin, env, cl, pend>>

(* "Run the current slave if necessary", once one is at hand.              *)
AssignEnd ==
  /\ mpc = "assign" /\ cursor = None /\ ready # <<>>
  /\ IF info[Head(ready)].work # <<>>
       THEN start(Head(ready), info[Head(ready)].work)
       ELSE UNCHANGED slv
  /\ mpc' = "join"
  /\ UNCHANGED <<gvars, signal, seqs, td, exiting, count, cursor, fin, env, cl, pend>>

join_all   == run = {}
Join ==
  /\ mpc = "join" /\ join_all
  /\ mpc' = "flock" /\ want' = want + 1
  /\ UNCHANGED <<gvars, signal, seqs, td, exiting, count, cursor, lock, slv, env,
                 cl, pend>>

(* hammer_flusher_finalize of the master: "dlock"/"dwork" with final = 0,  *)
(* "flock"/"fwork" for a group and "mlock"/"mwork" without one.            *)
Working(pc) == CASE pc = "dlock" -> "dwork" [] pc = "flock" -> "fwork"
                 [] pc = "mlock" -> "mwork"
MasterLock ==
  /\ mpc \in {"dlock", "flock", "mlock"} /\ lock = None
  /\ lock' = Master
  /\ mpc' = Working(mpc)
  /\ UNCHANGED <<gvars, signal, seqs, td, exiting, count, cursor, want, slv, env,
                 cl, pend>>

(* A final call leaves one more cycle to do if it moved first_offset.      *)
synced(final) == IF final /\ ~critErr /\ work > 0 THEN work - 1 ELSE work

(* Afterwards the group is done and removed if its list is empty, else the *)
(* master loops up on it.                                                  *)
MasterFinalize ==
  /\ mpc \in {"dwork", "fwork", "mwork"}
  /\ lock' = None /\ want' = want - 1
  /\ work' = synced(mpc # "dwork")
  /\ \/ mpc = "dwork" /\ RunGroup
     \/ mpc = "mwork" /\ mpc' = "done" /\ UNCHANGED <<gvars, cursor>>
     \/ /\ mpc = "fwork" /\ groups[1].ips = <<>>
        /\ groups' = Tail(groups)
        /\ nextGroup' = IF nextGroup = 0 THEN 0 ELSE nextGroup - 1
        /\ mpc' = "done"
        /\ UNCHANGED cursor
     \/ mpc = "fwork" /\ groups[1].ips # <<>> /\ mpc' = "pick" /\ UNCHANGED <<gvars, cursor>>
  /\ UNCHANGED <<signal, seqs, td, exiting, count, slv, reflush, critErr, cl, pend>>

(* done = act, wakeup(&done); then cycle on while the first group is       *)
(* closed, exit, or wait for a signal.                                     *)
wakeup_forgotten(f) == f
wakeup_done(f) ==
  [c \in Client |-> [f[c] EXCEPT !.pc = CASE @ = "sleep" -> "check"
                                          [] @ = "dsleep" -> "dcheck"
                                          [] OTHER -> @]]
exit_when_idle == exiting /\ groups = <<>> /\ signal = 0
exit_now == exiting /\ groups = <<>>
CycleDone ==
  /\ mpc = "done"
  /\ done' = act
  /\ cl' = wakeup_done(cl)
  /\ IF groups # <<>> /\ groups[1].closed /\ ~critErr
       THEN mpc' = "cycle" /\ UNCHANGED td
       ELSE IF exit_now
         THEN mpc' = "exit" /\ td' = FALSE
         ELSE mpc' = (IF signal = 0 THEN "sleep" ELSE "wake") /\ UNCHANGED td
  /\ UNCHANGED <<gvars, signal, act, next, exiting, count, cursor, fin, slv, env, pend>>

(* "Flush for each count on signal but only allow one extra flush request  *)
(* to build up."                                                           *)
Wake ==
  /\ mpc = "wake"
  /\ signal' = signal - 1
  /\ mpc' = "cycle"
  /\ UNCHANGED <<gvars, seqs, td, exiting, count, cursor, fin, slv, env, cl, pend>>

-----------------------------------------------------------------------------
(* hammer_flusher_slave_thread and hammer_flusher_flush_inode.             *)

SlaveNext(s) == [info EXCEPT ![s].i = @ + 1, ![s].pc = "after"]
SlaveInode(s) == info[s].work[info[s].i + 1]
SlaveBusy(s) == info[s].pc = "sync" /\ info[s].i < Len(info[s].work)

(* hammer_sync_inode ran to the end: hammer_flush_inode_done() takes the   *)
(* inode off the list and, if the front end changed it again, queues it.   *)
SlaveFlushed(s) ==
  /\ SlaveBusy(s)
  /\ LET i == SlaveInode(s)
         G == [groups EXCEPT ![1].ips = RemoveFirst(@, i)]
         p == pick(G)
     IN /\ \/ i \in reflush /\ \E sig \in BOOLEAN : Queue(p, core(p, i), sig)
           \/ groups' = G /\ UNCHANGED <<nextGroup, signal, mpc>>
        /\ reflush' = reflush \ {i}
        /\ pend' = [c \in Client |-> pend[c] \ {i}]
  /\ info' = SlaveNext(s)
  /\ work' = 2
  /\ UNCHANGED <<seqs, td, exiting, count, cursor, fin, ready, run, critErr, cl>>

(* EWOULDBLOCK, or an error (see MediaError): HAMMER_INODE_WOULDBLOCK, the *)
(* inode stays in its group.                                               *)
SlaveWouldBlock(s) ==
  /\ SlaveBusy(s)
  /\ info' = SlaveNext(s)
  /\ work' = 2
  /\ UNCHANGED <<gvars, signal, seqs, mst, fin, ready, run, reflush, critErr, cl,
                 pend>>

(* Wait for a finalizer, then finalize if the UNDO space or the dirty      *)
(* buffer limit asks for it.                                               *)
SlaveCheck(s) ==
  /\ info[s].pc = "after" /\ want = 0
  /\ \E pc \in {"sync", "elock", "llock"} :
       /\ info' = [info EXCEPT ![s].pc = pc]
       /\ want' = IF pc = "sync" THEN want ELSE want + 1
  /\ UNCHANGED <<gvars, signal, seqs, mst, lock, ready, run, env, cl, pend>>

SlaveLock(s) ==
  /\ info[s].pc \in {"elock", "llock"} /\ lock = None
  /\ lock' = s
  /\ info' = [info EXCEPT ![s].pc = IF @ = "elock" THEN "ework" ELSE "lwork"]
  /\ UNCHANGED <<gvars, signal, seqs, mst, want, ready, run, env, cl, pend>>

SlaveFinalize(s) ==
  /\ info[s].pc \in {"ework", "lwork"}
  /\ lock' = None /\ want' = want - 1
  /\ work' = synced(info[s].pc = "ework")
  /\ info' = [info EXCEPT ![s].pc = "sync"]
  /\ UNCHANGED <<gvars, signal, seqs, mst, ready, run, reflush, critErr, cl, pend>>

(* The work array is done: run_list to ready_list, wakeup(&ready_list).    *)
SlaveDoneKeepCount(s) ==
  /\ info[s].pc = "sync" /\ info[s].i = Len(info[s].work)
  /\ info' = [info EXCEPT ![s].runstate = 0, ![s].pc = "sleep"]
  /\ run' = run \ {s}
  /\ ready' = Append(ready, s)
  /\ UNCHANGED <<gvars, signal, seqs, mst, fin, env, cl, pend>>
SlaveDone(s) ==
  /\ info[s].pc = "sync" /\ info[s].i = Len(info[s].work)
  /\ info' = [info EXCEPT ![s] = IdleInfo]
  /\ run' = run \ {s}
  /\ ready' = Append(ready, s)
  /\ UNCHANGED <<gvars, signal, seqs, mst, fin, env, cl, pend>>

(* hammer_critical_error, from hammer_io_complete or hammer_sync_inode.    *)
MediaError ==
  /\ Errors /\ ~critErr
  /\ critErr' = TRUE
  /\ UNCHANGED <<gvars, signal, seqs, mst, fin, slv, reflush, work, cl, pend>>

-----------------------------------------------------------------------------
(* hammer_free_hmp, once the VFS has no other user of the mount left.      *)
Unmount(c) ==
  /\ Unmounts /\ Mounted
  /\ \A d \in Client : cl[d].pc = "idle"
  /\ cl' = [cl EXCEPT ![c].pc = "drain"]
  /\ UNCHANGED <<gvars, signal, seqs, mst, fin, slv, env, pend>>

Drain(c) ==
  /\ cl[c].pc = "drain" /\ haswork /\ cl[c].tries < MaxTries
  /\ StartSync(c, "dsleep", cl[c].tries + 1)
  /\ UNCHANGED <<nextGroup, seqs, td, exiting, count, cursor, fin, slv, env>>

(* The left-over groups are freed and hammer_flusher_destroy() tells the   *)
(* master to exit; after a critical error the inodes are destroyed first.  *)
NoWorkLeft(c) == cl[c].pc = "drain" /\ (haswork => cl[c].tries = MaxTries)
Busy == mpc \in InGroup \/ run # {}
Teardown(c) ==
  /\ NoWorkLeft(c) /\ ~Busy
  /\ groups' = <<>> /\ nextGroup' = 0
  /\ exiting' = TRUE
  /\ Signal
  /\ cl' = [cl EXCEPT ![c].pc = "kill"]
  /\ UNCHANGED <<seqs, td, count, cursor, fin, slv, env, pend>>

(* Nothing makes sure that the flusher is idle by then: what its threads   *)
(* do with the group that is freed under them is undefined.                *)
TeardownBusy(c) ==
  /\ NoWorkLeft(c) /\ Busy
  /\ mpc' = "freed"
  /\ UNCHANGED <<gvars, signal, seqs, td, exiting, count, cursor, fin, slv, env,
                 cl, pend>>

(* Its loop signals the master, with a timeout, until it is gone...        *)
KillMaster(c) ==
  /\ cl[c].pc = "kill" /\ td
  /\ signal' = 2
  /\ mpc' = IF mpc = "sleep" THEN "wake" ELSE mpc
  /\ UNCHANGED <<gvars, seqs, td, exiting, count, cursor, fin, slv, env, cl, pend>>

(* ... and then ends the slaves on ready_list one by one.                  *)
KillSlave(c) ==
  /\ cl[c].pc = "kill" /\ ~td /\ ready # <<>>
  /\ info' = [info EXCEPT ![Head(ready)].runstate = -1]
  /\ ready' = Tail(ready)
  /\ UNCHANGED <<gvars, signal, seqs, mst, fin, run, env, cl, pend>>

Unmounted(c) ==
  /\ cl[c].pc = "kill" /\ ~td /\ ready = <<>>
  /\ cl' = [cl EXCEPT ![c].pc = "gone"]
  /\ UNCHANGED <<gvars, signal, seqs, mst, fin, slv, env, pend>>

-----------------------------------------------------------------------------
(* hammer_flusher_create.                                                  *)
Init ==
  /\ groups = <<>> /\ nextGroup = 0
  /\ signal = 0 /\ act = 0 /\ done = 0 /\ next = 1
  /\ td = TRUE /\ exiting = FALSE
  /\ mpc = "cycle" /\ count = 0 /\ cursor = None
  /\ want = 0 /\ lock = None
  /\ ready = SetToSeq(Slave) /\ run = {}
  /\ info = [s \in Slave |-> IdleInfo]
  /\ reflush = {} /\ work = 0 /\ critErr = FALSE
  /\ cl = [c \in Client |-> IdleCl]
  /\ pend = [c \in Client |-> {}]

Waiter(c) ==
  \/ Sync(c)
  \/ WaitNext(c)
  \/ Awake(c)
  \/ Unmount(c)
  \/ Drain(c)
  \/ Teardown(c)
  \/ TeardownBusy(c)
  \/ KillMaster(c)
  \/ KillSlave(c)
  \/ Unmounted(c)

MasterStep ==
  \/ Cycle \/ PickNone \/ PickError \/ PickGroup
  \/ Assign \/ AssignEnd \/ Join \/ MasterLock \/ MasterFinalize
  \/ CycleDone \/ Wake

SlaveStep(s) ==
  \/ SlaveFlushed(s)
  \/ SlaveWouldBlock(s)
  \/ SlaveCheck(s)
  \/ SlaveLock(s)
  \/ SlaveFinalize(s)
  \/ SlaveDone(s)

Next ==
  /\ mpc # "freed"
  /\ \/ \E i \in Inode, sig \in BOOLEAN : FlushInode(i, sig)
     \/ \E c \in Client : Waiter(c)
     \/ MasterStep
     \/ \E s \in Slave : SlaveStep(s)
     \/ MediaError

Spec == Init /\ [][Next]_vars

(* Every thread runs when it can, and an inode is not turned away with     *)
(* EWOULDBLOCK for ever: each refusal is followed by the finalization that *)
(* makes room for it.                                                      *)
Fairness ==
  /\ WF_vars(MasterStep)
  /\ \A s \in Slave : WF_vars(SlaveStep(s)) /\ SF_vars(SlaveFlushed(s))
  /\ \A c \in Client :
       WF_vars(Awake(c) \/ Drain(c) \/ Teardown(c) \/ KillMaster(c)
                 \/ KillSlave(c) \/ Unmounted(c))

(* A woken waiter runs before the master has gone through half of the      *)
(* sequence numbers: here, before it completes another cycle.              *)
WaitersPrompt == mpc = "done" => \A c \in Client : cl[c].pc \notin {"check", "dcheck"}

FairSpec == Init /\ [][Next /\ WaitersPrompt]_vars /\ Fairness

-----------------------------------------------------------------------------
(* Properties.                                                             *)

(* An inode is in one group at most and is flushed by one slave at a time, *)
(* from the running group; that group takes no new inode                   *)
(* ("KKASSERT(flg->running == 0)"); the master's saved next_ip is still on *)
(* the list whatever the slaves removed while it waited for one of them;   *)
(* and the final hammer_flusher_finalize of the group sees no slave at     *)
(* work, so that nothing of the group is modified after its last UNDO      *)
(* sequence.                                                               *)
GroupsExclusive ==
  /\ \A g, h \in DOMAIN groups : g # h => Queued(g) \cap Queued(h) = {}
  /\ \A s \in run : \A k \in info[s].i + 1 .. Len(info[s].work) :
       /\ info[s].work[k] \in Queued(1)
       /\ \A r \in run \ {s} : \A j \in info[r].i + 1 .. Len(info[r].work) :
            info[r].work[j] # info[s].work[k]
  /\ nextGroup > 0 => ~groups[nextGroup].running
  /\ \A g \in DOMAIN groups : groups[g].running => g = 1
  /\ cursor # None => mpc \in {"assign", "freed"} /\ cursor \in Queued(1)
  /\ mpc \in {"flock", "fwork"} => run = {}

(* hammer_flusher_sync: "All flush groups will be flushed".  When the wait *)
(* ends without a critical error, everything queued before the call has    *)
(* been flushed.                                                           *)
SyncFlushesQueued ==
  \A c \in Client :
    (cl[c].pc \in {"check", "dcheck"} /\ ~after(cl[c].seq, done) /\ ~critErr)
      => pend[c] = {}

(* hammer_free_hmp: flushing until hammer_flusher_haswork() is content     *)
(* takes a few syncs at most: an unmount never gives up ("giving up") and  *)
(* leaves nothing unflushed behind.                                        *)
UnmountDrains ==
  \A c \in Client :
    /\ cl[c].tries < MaxTries
    /\ (cl[c].pc = "kill" /\ ~critErr) => work = 0

(* A sync or a wait for the next cycle returns.                            *)
WaitReturns == \A c \in Client : cl[c].pc = "sleep" ~> cl[c].pc = "idle"

(* An unmount ends, with every flusher thread gone.                        *)
UnmountEnds ==
  \A c \in Client : cl[c].pc = "drain" ~>
    (cl[c].pc = "gone" /\ ~td /\ \A s \in Slave : info[s].runstate = -1)
=============================================================================
