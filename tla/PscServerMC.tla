---------------------------- MODULE PscServerMC ----------------------------
(* PscServer on small instances; see README.md for the bounds.             *)
EXTENDS PscServer, TLC

Symmetry == Permutations(Conns)


=============================================================================
