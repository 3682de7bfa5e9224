SPECIFICATION FairSpec
CONSTANTS
  Capacity = 4
  MaxBytes = 10
INVARIANTS
  StreamIntact
PROPERTIES
  StreamSpec
  FramesDelivered
CHECK_DEADLOCK FALSE
