SPECIFICATION FilesSpec
CONSTANTS
  p1 = p1
  p2 = p2
  p3 = p3
  Procs = {p1, p2, p3}
  t1 = t1
  t2 = t2
  Tables = {t1, t2}
  NEntry = 2
  BufSize = 1
  Lens = {2}
  MaxStream = 2
  StreamBuf = 2
  StreamLens = {1, 3}
  StreamMax = 4
SYMMETRY Symmetry
INVARIANTS FileCountsExact PipeStreamIntact PipeSleepersReachable FileLayersSound
CHECK_DEADLOCK FALSE
