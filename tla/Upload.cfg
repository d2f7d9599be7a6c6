CONSTANTS
  Sessions = {s1, s2}
  Names = {f, g}
  Uploads = {u, v}
  MaxPieces = 2
  MaxRequests = 3

SPECIFICATION Spec
SYMMETRY Interchangeable
INVARIANTS
  IInv
  
  CompleteIsOnDisk
CHECK_DEADLOCK FALSE
