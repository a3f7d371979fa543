-------------------------------- MODULE DacMC --------------------------------
(***************************************************************************)
(* Dac for TLC: ramp tables, one with a point to be limited and one too    *)
(* long, and scale factors.                                                *)
(***************************************************************************)
EXTENDS Dac

MCTables == {<<1, -70, 3>>, <<1, 1, 1, 1>>}
MCAmps == {4, -9}
MCFactor == [c \in Chans |-> 1]

=============================================================================
