CONSTANTS
  Sessions = {s1, s2}
  Names = {f, g}
  Uploads = {u}
  MaxPieces = 2
  MaxRequests = 3

SPECIFICATION Spec
INVARIANT FirstPieceDestroysFile
CHECK_DEADLOCK FALSE
