SPECIFICATION UseSpec
CONSTANTS
  u1 = u1
  u2 = u2
  Loop = Loop
  Users = {u1, u2}
INVARIANTS
  TypeOK
  BufferExclusive
  ProperUse
PROPERTIES
  CloseReturns
