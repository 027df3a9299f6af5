----------------------------- MODULE MCMembership -----------------------------
(* Instances of Membership for TLC. *)
EXTENDS Membership, TLC

CONSTANTS alice, bob, carol, p1, p2, t1, t2, t3, q1, q2, q3, q4

Four     == {Owner, alice, bob, carol}
Three    == {Owner, alice, bob}
OneProject  == {p1}
TwoProjects == {p1, p2}
TwoTokens   == {t1, t2}
TwoRequests   == {q1, q2}
FourRequests  == {q1, q2, q3, q4}
FreeOnly == {"free"}
AllTiers == {"free", "pro", "enterprise"}
Sym         == Permutations({alice, bob, carol}) \cup Permutations({q1, q2, q3, q4})
=============================================================================
