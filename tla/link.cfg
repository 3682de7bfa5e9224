SPECIFICATION Spec
CONSTANTS
  Garbage = Garbage
  Stale = Stale
  Configs <- AllConfigs
  Frames <- SomeFrames
  Texts <- ShortTexts
  BufferSizes = {40, 400, 1024}
INVARIANTS
  WholeIsAccepted
  ConfigArrives
  DataArrives
  StaysInBounds
PROPERTIES
  DamagedIsRejected
