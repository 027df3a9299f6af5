------------------------------- MODULE MCTunnel -------------------------------
(* Instances of Tunnel for TLC. *)
EXTENDS Tunnel, TLC

CONSTANTS s1, s2, r1, r2, c1, c2

OneSession  == {s1}
TwoSessions == {s1, s2}
OneRequest  == {r1}
TwoRequests == {r1, r2}
OneConn     == {c1}
TwoConns    == {c1, c2}
Sym         == Permutations({r1, r2}) \cup Permutations({c1, c2})
=============================================================================
