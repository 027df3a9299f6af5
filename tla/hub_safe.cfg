CONSTANTS
  alice = alice
  bob = bob
  c1 = c1
  c2 = c2
  c3 = c3
  s1 = s1
  None = none
  Users <- TwoUsers
  Conns <- TwoConns
  Fickle <- NoUsers
  Sends <- OneSend
SPECIFICATION Spec
INVARIANT TypeOK
PROPERTY OnlyTheDeadAreDropped
SYMMETRY Sym
CHECK_DEADLOCK FALSE
