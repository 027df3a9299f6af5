CONSTANTS
  olivia = olivia
  alice = alice
  bob = bob
  d1 = d1
  d2 = d2
  d3 = d3
  none = none
  Users <- MCUsers3
  Owner = olivia
  Nobody = none
  Deltas <- MCDeltas1
  NoDelta = none
  Sweepers = {}
  TTL = 0
  OrphanAge = 1
  PageLimit = 1
  MaxTime = 2
  LastPush = 1
  MaxInFlight = 2
  MaxFaults = 1
SPECIFICATION Spec
INVARIANT NoLostLastAck
INVARIANT PrematurePurgeNeedsDeparture
SYMMETRY MCSymmetry3
CHECK_DEADLOCK FALSE
