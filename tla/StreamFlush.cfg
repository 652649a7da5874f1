SPECIFICATION Spec
CONSTANTS
  NumBytes = 9
  BufLen = 4
  Pieces = {3}
  Rooms = {3}
  Expansions = {1, 2, 3, 5}
  MaxStreams = 1
INVARIANT Conveyed
CHECK_DEADLOCK FALSE
