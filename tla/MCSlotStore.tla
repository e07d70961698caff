---------------------------- MODULE MCSlotStore ----------------------------
(* Instances of SlotStore for TLC.                                         *)
EXTENDS SlotStore, TLC

CONSTANTS v1, v2, v3

MCVersion == {v1, v2, v3}

MCSymmetry == Permutations(MCVersion)
=============================================================================
