CONSTANTS
  olivia = olivia
  alice = alice
  bob = bob
  d1 = d1
  d2 = d2
  d3 = d3
  none = none
  Users <- MCUsers2
  Owner = olivia
  Nobody = none
  Deltas <- MCDeltas1
  NoDelta = none
  Sweepers = {"hourly", "forced"}
  TTL = 1
  OrphanAge = 1
  PageLimit = 1
  MaxTime = 3
  LastPush = 1
  MaxInFlight = 1
  MaxFaults = 1
SPECIFICATION FairSpec
INVARIANT WatermarkCovers
PROPERTY EveryDeltaLeaves
CHECK_DEADLOCK FALSE
