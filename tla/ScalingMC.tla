----------------------------- MODULE ScalingMC ------------------------------
(***************************************************************************)
(* Scaling for TLC: values of both signs that fit and that do not, scale   *)
(* factors of both signs.                                                  *)
(***************************************************************************)
EXTENDS Scaling

MCValues == {-1, 5}
MCFactors == {3, -4}

=============================================================================
