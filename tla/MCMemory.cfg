SPECIFICATION MemSpec
CONSTANTS
  m1 = m1
  m2 = m2
  Mms = {m1, m2}
  h1 = h1
  Shmems = {h1}
  Top = 4
  NPages = 2
  BrkStart = 4
  ShmemLens = {3}
  MaxAreas = 3
  HeapTop = 4
  HeapStart = 2
  HeapAreas = 3
  HeapLens = {1}
  HeapPages = 1
  ZonePages = 9
  ZoneMaxOrder = 3
  SlabBlocks = {0, 1, 2}
  Threads = {1, 2, 3}
  Shares = {{}, {"sem", "fs", "sighand", "mm"}}
  IndexTop = 6
  TreeNodes = 10
SYMMETRY Symmetry
INVARIANTS PageRefsExact AreasIsolated AreasLaidOut PagesAccounted KmallocAccounted SharedExactly
CHECK_DEADLOCK FALSE
