------------------------------ MODULE MCDaily ------------------------------
(* Small instances of Daily for TLC. *)
EXTENDS Daily, TLC

CONSTANTS p1, i1, i2, i3

MCOnePlayer == {p1}
MCThreeInteractions == {i1, i2, i3}

MCForward == {1}

InteractionSymmetry == Permutations(MCThreeInteractions)
=============================================================================
