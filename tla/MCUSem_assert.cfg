SPECIFICATION USpec
CONSTANTS
  p1 = p1
  p2 = p2
  Procs = {p1, p2}
  NCPU = 1
  Kind = "WT_USEM"
  InitValue = 0
  MaxPosts = 2
INVARIANT UpFindsSleeper
CHECK_DEADLOCK FALSE
