SPECIFICATION Spec
CONSTANTS
  PacketLength = 2
  CommandLength = 6
  MaxUnits = 6
  Versions = {v1, v2}
  v1 = v1
  v2 = v2
  None = None
INVARIANTS
  SendIsWhole
  ConfigIsWhole
PROPERTIES
  GetConfigEnds
