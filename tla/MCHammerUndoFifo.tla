-------------------------- MODULE MCHammerUndoFifo --------------------------
(* HammerUndoFifo for TLC; the .cfg gives the sizes.                       *)
EXTENDS HammerUndoFifo
=============================================================================
