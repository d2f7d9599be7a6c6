CONSTANTS
  HEAD_TOTAL_LEN = 2
  BUFFER_TOTAL_LEN = 2
  INT_LIMIT = 8
  SIZE = 256
  Lengths = {0, 1, 2, 5}
  MaxFrames = 3

SPECIFICATION Spec
INVARIANTS
  NoEmptyMessage
CHECK_DEADLOCK FALSE
