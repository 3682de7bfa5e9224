SPECIFICATION Spec
CONSTANTS
  t1 = t1
  t2 = t2
  k1 = k1
  k2 = k2
  NoThread = NoThread
  NoTask = NoTask
  Threads = {t1, t2}
  Closers = {}
  Tasks = {k1, k2}
INVARIANTS
  HandleMeansLoop
