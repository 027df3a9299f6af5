CONSTANTS
  s1 = s1
  s2 = s2
  r1 = r1
  r2 = r2
  c1 = c1
  c2 = c2
  None = None
  Sessions <- OneSession
  Requests <- TwoRequests
  Conns <- TwoConns
  Durations = {1}
  Extensions = {1, 3}
  MaxDuration = 1
  MaxLife = 1
  Half = 2
  MaxTime = 2
SPECIFICATION Spec
INVARIANTS NoSocketIsLost NobodyStranded PanicOnlyAtTheEnd LatestAgentStays MutexIsReturned OnlyLatecomersStay
PROPERTY ExtensionsStayInBounds
SYMMETRY Sym
CHECK_DEADLOCK FALSE
