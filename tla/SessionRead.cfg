CONSTANTS
  HEAD_TOTAL_LEN = 2
  BUFFER_TOTAL_LEN = 2
  INT_LIMIT = 8
  SIZE = 256
  Lengths = {0, 2, 5, 8, 9, 11, 15}
  MaxFrames = 3

SPECIFICATION FairSpec
INVARIANTS
  IInv
  ChunkFits
  OnlyHugeOverflows
PROPERTIES
  FramesInOrder
  PostedFrozen
  EveryFramePosted
CHECK_DEADLOCK FALSE
