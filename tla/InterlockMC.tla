----------------------------- MODULE InterlockMC -----------------------------
(* Instances of Interlock for TLC: the constants are given by the .cfg     *)
(* files.                                                                  *)
EXTENDS Interlock
=============================================================================
