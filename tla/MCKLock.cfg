SPECIFICATION FairLSpec
CONSTANTS
  p1 = p1
  p2 = p2
  p3 = p3
  Procs = {p1, p2, p3}
  NCPU = 2
  Kind = "WT_KSEM"
  InitValue = 1
INVARIANTS UnitsConserved Exclusion WaitersSound
PROPERTIES Implements Served
