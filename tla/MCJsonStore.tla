------------------------------ MODULE MCJsonStore ------------------------------
(* Instances of JsonStore for TLC. *)
EXTENDS JsonStore, TLC

CONSTANTS c1, c2, heartbeat, deltas

MCCallers   == {c1, c2}
MCTracked   == {heartbeat}
MCUntracked == {deltas}
NoSweepers  == {}
MCSymmetry  == Permutations(MCCallers)

\* One method of each kind that keeps the rule of db.go:172.
MethodsKept == {"StoreDelta", "GetPendingSignalsForPeer", "HeartbeatSweep", "GetDeltas"}
\* Also the ones that call save with the lock held.
MethodsAll  == MethodsKept \cup {"AckDelta", "DowngradeUserTier"}
MethodsFew  == {"StoreDelta", "HeartbeatSweep"}
=============================================================================
