SPECIFICATION Spec
CONSTANTS
  t1 = t1
  t2 = t2
  Threads <- MCThreads
  PageSz = 2
  DriverMem = 4
  HeapMem = 1
  Sizes = {1, 2}
  ListSz = 1
  MaxCalls = 3
  MaxFaults = 1
CONSTRAINT Explored
SYMMETRY Symmetry
INVARIANTS OneOwner FreedOnce PinnedEnds
CHECK_DEADLOCK FALSE
