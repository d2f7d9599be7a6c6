CONSTANTS
  Posters = {p1, p2}
  MaxPosts = 3

SPECIFICATION FairSpec
PROPERTIES
  StopExits
CHECK_DEADLOCK FALSE
