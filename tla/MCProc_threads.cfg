SPECIFICATION FamilySpec
CONSTANTS
  init = init
  p0 = p0
  p1 = p1
  p2 = p2
  NULL = NULL
  Init = init
  NCPU = 1
  Clones = {TRUE, FALSE}
  OtherWaits = {}
  Procs = {init, p0, p1, p2}
SYMMETRY Symmetry
INVARIANTS FamilyLinks WaiterNotStranded
CHECK_DEADLOCK FALSE
