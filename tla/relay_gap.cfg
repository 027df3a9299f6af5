CONSTANTS
  olivia = olivia
  alice = alice
  bob = bob
  d1 = d1
  d2 = d2
  d3 = d3
  none = none
  Users <- MCUsers2
  Owner = olivia
  Nobody = none
  Deltas <- MCDeltas3
  NoDelta = none
  Sweepers = {}
  TTL = 0
  OrphanAge = 3
  PageLimit = 1
  MaxTime = 2
  LastPush = 2
  MaxInFlight = 2
  MaxFaults = 0
SPECIFICATION Spec
INVARIANT AckPurgeIsFlagged
PROPERTY KeepsTheLog
SYMMETRY MCSymmetryD3
CHECK_DEADLOCK FALSE
