CONSTANTS
  c1 = c1
  c2 = c2
  heartbeat = heartbeat
  deltas = deltas
  Callers <- MCCallers
  Tracked <- MCTracked
  Untracked <- NoSweepers
  Main = main
  Nobody = nobody
  Methods <- MethodsAll
  MaxChanges = 2
  MaxFaults = 1
SPECIFICATION LiveSpec
PROPERTIES KeepsItsPromises EveryCallReturns ShutdownCompletes
CHECK_DEADLOCK FALSE
