SPECIFICATION FairSpec
CONSTANTS
  p1 = p1
  p2 = p2
  p3 = p3
  Procs = {p1, p2, p3}
  Width = 2
INVARIANTS TimersSound TimeoutReported
PROPERTIES Implements TimedWaitEnds
