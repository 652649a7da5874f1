SPECIFICATION FairSpec
CONSTANTS
  NumBytes = 9
  BufLen = 4
  Pieces = {1, 2, 3, 5, 9}
  Rooms = {1, 30}
  Expansions = {1, 2, 3, 5}
  MaxStreams = 2
INVARIANTS Conveyed
PROPERTIES Arrives
CHECK_DEADLOCK FALSE
