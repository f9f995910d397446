---------------------------- MODULE MCUnitOfWork ----------------------------
(* Small instances of UnitOfWork for TLC. *)
EXTENDS UnitOfWork, TLC

CONSTANTS o1, o2, u1, u2, r1

MCOwners == {o1, o2}
MCUnits == {u1, u2}
MCMixedUnits == {u1, r1}
MCOneUnit == {u1}
MCReads == {r1}
MCHanging == {o2}

\* Owners are interchangeable.
MixedSymmetry == Permutations(MCOwners)
=============================================================================
