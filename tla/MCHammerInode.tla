--------------------------- MODULE MCHammerInode ---------------------------
(* HammerInode for TLC: the calls of two threads on a root directory 1, a   *)
(* directory 2 and two files 3 and 4.  Each scenario is one that flushing   *)
(* has to get right: a name used again, fsync of a file just created and    *)
(* removed afterwards, writes around truncations, a directory emptied and   *)
(* removed, a link made while the last name goes, renames over a file and   *)
(* into another directory, a file destroyed with writes pending, a symbolic *)
(* link, and a directory read while its entries change.                     *)
EXTENDS HammerInode

MCProc == {1, 2}
create(d, n, i) == [op |-> "create", d |-> d, n |-> n, i |-> i]
close(i) == [op |-> "close", i |-> i]
link(d, n, i) == [op |-> "link", d |-> d, n |-> n, i |-> i]
remove(d, n) == [op |-> "remove", d |-> d, n |-> n]
rename(d, n, i, d2, n2) == [op |-> "rename", d |-> d, n |-> n, i |-> i, d2 |-> d2, n2 |-> n2]
open(d, n) == [op |-> "open", d |-> d, n |-> n]
write(i, b, v) == [op |-> "write", i |-> i, b |-> b, v |-> v]
trunc(i, s) == [op |-> "trunc", i |-> i, s |-> s]
fsync(i) == [op |-> "fsync", i |-> i]

mkdir(d, n, i) == [op |-> "mkdir", d |-> d, n |-> n, i |-> i]
mknod(d, n, i) == [op |-> "mknod", d |-> d, n |-> n, i |-> i]
symlink(d, n, i) == [op |-> "symlink", d |-> d, n |-> n, i |-> i]
rmdir(d, n) == [op |-> "rmdir", d |-> d, n |-> n]
readdir(d) == [op |-> "readdir", d |-> d]

file(d, n, i) == [dir |-> d, name |-> n, obj |-> i]
Calls(files, ops1, ops2) == [files |-> files, ops |-> <<ops1, ops2>>]

S1 == Calls({}, <<create(1, 0, 3), close(3), remove(1, 0), create(1, 0, 3)>>, <<>>)
S2 == Calls({}, <<create(1, 0, 3), close(3)>>, <<write(3, 0, 1), fsync(3), remove(1, 0)>>)
S3 == Calls({}, <<create(1, 0, 3), write(3, 0, 1), trunc(3, 0), write(3, 0, 2), close(3)>>, <<>>)
S4 == Calls({}, <<mkdir(1, 0, 2), create(2, 0, 3), close(3), remove(2, 0), close(2), rmdir(1, 0)>>, <<>>)
S5 == Calls({}, <<create(1, 0, 3), remove(1, 0), close(3)>>, <<link(1, 1, 3)>>)
S6 == Calls({file(1, 0, 3), file(1, 1, 4)}, <<open(1, 0), rename(1, 0, 3, 1, 1)>>, <<>>)
S7 == Calls({file(1, 0, 2), file(1, 1, 3)},
            <<open(1, 0), open(1, 1), rename(1, 1, 3, 2, 0), close(3), close(2)>>, <<>>)
S8 == Calls({file(1, 0, 3)}, <<open(1, 0), trunc(3, 1), write(3, 1, 2), trunc(3, 0), write(3, 1, 3), close(3)>>,
            <<>>)
S9 == Calls({file(1, 0, 3)}, <<open(1, 0), write(3, 1, 2), close(3)>>, <<fsync(3), remove(1, 0)>>)
S10 == Calls({file(1, 0, 3)}, <<open(1, 0), write(3, 0, 2), fsync(3), close(3)>>, <<remove(1, 0)>>)
S11 == Calls({}, <<create(1, 0, 3), fsync(3)>>, <<mknod(1, 1, 4), close(4), remove(1, 1)>>)
S12 == Calls({}, <<symlink(1, 0, 3), close(3), remove(1, 0)>>, <<>>)
S13 == Calls({file(1, 0, 3), file(1, 1, 4)}, <<readdir(1)>>, <<remove(1, 0), mkdir(1, 0, 2), close(2)>>)
MCScenarios == {S1, S2, S3, S4, S5, S6, S7, S8, S9, S10, S11, S12, S13}
RemoveCalls == {S1}
=============================================================================
