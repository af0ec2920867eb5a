---------------------------- MODULE MCHammerUndo ----------------------------
(* HammerUndo for TLC: two B-Tree buffers, one counter in the volume       *)
(* header, and the blockmap; an operation updates both buffers, or the     *)
(* counter, or allocates.                                                  *)
EXTENDS HammerUndo, TLC
CONSTANTS b1, b2, st, bm

MCLoc    == {b1, b2, st, bm}
MCVolLoc == {st, bm}
PairOps  == {{b1, b2}, {st}}
StatOps  == {{st}}
SmallLoc == {b1, st, bm}
OneOps   == {{b1}, {st}}
AllocOps == {{b1, bm}, {st}}
Symmetry == Permutations(Thread)
NoLoc    == {}
=============================================================================
