SPECIFICATION FairSpec
CONSTANTS
  p1 = p1
  p2 = p2
  p3 = p3
  Idle = Idle
  Procs = {p1, p2, p3}
  First = p1
  NCPU = 1
  MaxSlice = 2
  MinMove = 3
INVARIANTS RunnableKept QueuesSound
PROPERTIES KeepsContract EveryoneRuns
