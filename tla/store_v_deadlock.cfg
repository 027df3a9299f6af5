CONSTANTS
  c1 = c1
  c2 = c2
  heartbeat = heartbeat
  deltas = deltas
  Callers <- MCCallers
  Tracked <- NoSweepers
  Untracked <- NoSweepers
  Main = main
  Nobody = nobody
  Methods <- MethodsAll
  MaxChanges = 2
  MaxFaults = 0
SPECIFICATION Spec
INVARIANT NobodyWaitsForItself
CHECK_DEADLOCK FALSE
