SPECIFICATION PhasedSpec
CONSTANTS
  t1 = t1
  t2 = t2
  t3 = t3
  k1 = k1
  k2 = k2
  NoThread = NoThread
  NoTask = NoTask
  Threads = {t1, t2, t3}
  Closers = {}
  Tasks = {k1, k2}
INVARIANTS
  TypeOK
  SingleLoop
  ResetOnlyWhenQuiet
  FutureValid
  CounterAtMostRequests
  PhasedUse
PROPERTIES
  CallsReturn
