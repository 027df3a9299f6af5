CONSTANTS
  s1 = s1
  s2 = s2
  r1 = r1
  r2 = r2
  c1 = c1
  c2 = c2
  None = None
  Sessions <- TwoSessions
  Requests <- OneRequest
  Conns <- OneConn
  Durations = {1}
  Extensions = {1}
  MaxDuration = 1
  MaxLife = 1
  Half = 2
  MaxTime = 2
SPECIFICATION LiveSpec
PROPERTIES SessionsEnd VisitorsLeave
CHECK_DEADLOCK FALSE
