SPECIFICATION SfsSpec
CONSTANTS
  NBlocks = 4
  NDirect = 1
  NEntry = 1
  BlkSize = 2
  MaxFileSize = 3
  Names = {"a"}
  f1 = f1
  f2 = f2
  Fds = {f1, f2}
  MaxIO = 2
  Seeks = {0, 2, 3}
  i1 = i1
  i2 = i2
  i3 = i3
  Inos = {i1, i2, i3}
  Root = Root
  n1 = n1
  n2 = n2
  EntryNames = {n1, n2}
  Procs = {"p"}
  DirFds = {"d"}
  DirBlocks = 8
SYMMETRY Symmetry
INVARIANTS DiskAccounted FileMapExact LinkCountsExact NameSpaceSound
CHECK_DEADLOCK FALSE
