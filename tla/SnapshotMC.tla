------------------------------ MODULE SnapshotMC ------------------------------
(* Instances of Snapshot for TLC: the constants are given by the .cfg      *)
(* files.                                                                  *)
EXTENDS Snapshot
=============================================================================
