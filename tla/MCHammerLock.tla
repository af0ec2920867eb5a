---------------------------- MODULE MCHammerLock ----------------------------
(* HammerLock for TLC; the .cfg files give the threads and holds.          *)
EXTENDS HammerLock
=============================================================================
