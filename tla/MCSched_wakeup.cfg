SPECIFICATION Spec
CONSTANTS
  p1 = p1
  p2 = p2
  p3 = p3
  Idle = Idle
  Procs = {p1, p2, p3}
  First = p1
  NCPU = 2
  MaxSlice = 2
  MinMove = 3
INVARIANT EnqueuedOnce
CHECK_DEADLOCK FALSE
