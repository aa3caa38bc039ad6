SPECIFICATION ProcessSpec
CONSTANTS
  init = init
  p0 = p0
  p1 = p1
  NULL = NULL
  initproc = init
  NCPU = 1
  Clones = {TRUE, FALSE}
  OtherWaits = {"WT_TIMER", "WT_KSEM"}
  Procs = {init, p0, p1}
  MAX_PROCESS = 6
  MAX_PID = 10
INVARIANTS NoZombieWoken UniquePids
PROPERTIES OrphansReaped GetPidReturns
CHECK_DEADLOCK FALSE
