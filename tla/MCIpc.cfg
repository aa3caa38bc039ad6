SPECIFICATION IpcSpec
CONSTANTS
  p1 = p1
  p2 = p2
  p3 = p3
  Procs = {p1, p2, p3}
  NCPU = 1
  MaxSlots = 1
  Width = 1
  MaxPosts = 2
  Events = {1, 2}
  StdinSize = 2
  StdinLens = {1, 2}
  MaxTyped = 4
  s1 = s1
  s2 = s2
  Sems = {s1, s2}
SYMMETRY Symmetry
INVARIANTS MailboxCountsExact NoStranded Reachable UnitsAccounted NoTimerOutlivesWait  NoRendezvousMissed
CHECK_DEADLOCK FALSE
