------------------------------- MODULE MCMachine -------------------------------
(* Instances of Machine for TLC. *)
EXTENDS MachineProps

MCLines    == {0, 1, 2, 8}
MCNoise    == {0}
MCGuestNdx == {0, 3}
=============================================================================
