----------------------------- MODULE SettingsMC -----------------------------
(***************************************************************************)
(* Settings for TLC: the channels are alike.                               *)
(***************************************************************************)
EXTENDS Settings, TLC

Symmetry == Permutations(Chans)

=============================================================================
