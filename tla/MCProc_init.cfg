SPECIFICATION Spec
CONSTANTS
  init = init
  p0 = p0
  p1 = p1
  p2 = p2
  NULL = NULL
  Init = init
  NCPU = 1
  Clones = {TRUE, FALSE}
  OtherWaits = {"WT_TIMER", "WT_KSEM"}
  Procs = {init, p0, p1, p2}
INVARIANTS InitIsLast
CHECK_DEADLOCK FALSE
