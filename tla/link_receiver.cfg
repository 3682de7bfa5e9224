SPECIFICATION Spec
CONSTANTS
  Garbage = Garbage
  Stale = Stale
  Configs <- OneConfig
  Frames <- SomeFrames
  Texts <- ShortTexts
  BufferSizes = {65536}
INVARIANTS
  CommandsUnderstood
