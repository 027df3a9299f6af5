--------------------------------- MODULE MCHub ---------------------------------
(* Instances of Hub for TLC. *)
EXTENDS Hub, TLC

CONSTANTS alice, bob, c1, c2, c3, s1

NoUsers    == {}
OneUser    == {alice}
TwoUsers   == {alice, bob}
TwoConns   == {c1, c2}
ThreeConns == {c1, c2, c3}
NoSends    == {}
OneSend    == {s1}
Sym        == Permutations({alice, bob}) \cup Permutations({c1, c2, c3})
=============================================================================
