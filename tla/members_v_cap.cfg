CONSTANTS
  alice = alice
  bob = bob
  carol = carol
  p1 = p1
  p2 = p2
  t1 = t1
  t2 = t2
  t3 = t3
  q1 = q1
  q2 = q2
  q3 = q3
  q4 = q4
  Owner = owner
  None = none
  Users <- Three
  Projects <- OneProject
  Tokens <- TwoTokens
  Requests <- FourRequests
  Modes = {"pg"}
  Tiers <- FreeOnly
  FreeMembers = 2
  ProMembers = 3
  FreeProjects = 1
  ProProjects = 2
SPECIFICATION Spec
PROPERTY JoinRespectsCap
CHECK_DEADLOCK FALSE
