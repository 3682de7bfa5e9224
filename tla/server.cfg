SPECIFICATION UseSpec
CONSTANTS
  Acceptors = {a1, a2, a3}
  a1 = a1
  a2 = a2
  a3 = a3
  Conns = {c1, c2}
  c1 = c1
  c2 = c2
  MaxEndpoints = 2
  None = None
INVARIANTS
  NoPushWhileClosing
  OneAccept
  ProperClose
  SuccessfulStart
PROPERTIES
  CalmClose
CHECK_DEADLOCK FALSE
