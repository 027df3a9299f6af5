----------------------------- MODULE MCDeltaRelay -----------------------------
(***************************************************************************)
(* Instances of DeltaRelay for TLC: a handful of members whose names are   *)
(* interchangeable except the owner's.                                     *)
(***************************************************************************)
EXTENDS DeltaRelay, TLC

CONSTANTS olivia, alice, bob, d1, d2, d3, none

MCUsers1  == {olivia}
MCUsers2  == {olivia, alice}
MCUsers3  == {olivia, alice, bob}
MCDeltas2 == {d1, d2}
MCDeltas3 == {d1, d2, d3}
MCDeltas1 == {d1}

MCSymmetry3 == Permutations({alice, bob})
MCSymmetryD3 == Permutations(MCDeltas3)
MCSymmetry2 == Permutations(MCDeltas2)

=============================================================================
