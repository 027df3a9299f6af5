CONSTANTS
  alice = alice
  bob = bob
  c1 = c1
  c2 = c2
  c3 = c3
  s1 = s1
  None = none
  Users <- OneUser
  Conns <- TwoConns
  Fickle <- OneUser
  Sends <- NoSends
SPECIFICATION LiveSpec
PROPERTIES HandlersEnd RevokedSocketsClose
CHECK_DEADLOCK FALSE
