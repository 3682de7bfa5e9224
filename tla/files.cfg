SPECIFICATION Spec
CONSTANTS
  Garbage = Garbage
  Stale = Stale
  None = None
  IntMax = 20
  JsonNames = {"a.json"}
  CsvNames = {"c.csv"}
  OtherNames = {}
  Configs <- SomeConfigs
  FrameLists <- SomeFrames
  Documents <- SomeDocuments
  Tolerances <- SomeTolerances
  Moments = {0, 100, 133, 1999}
INVARIANTS
  ConfigComesBack
  FramesComeBack
  LoadedTravels
  MissingIsRefused
  SourceArrives
  TimeCodesMeanTime
