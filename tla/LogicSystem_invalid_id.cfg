CONSTANTS
  Posters = {p1, p2}
  MaxPosts = 3

SPECIFICATION Spec
INVARIANTS
  InvalidIdAnswered
CHECK_DEADLOCK FALSE
