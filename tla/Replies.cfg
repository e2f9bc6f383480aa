SPECIFICATION FairSpec
CONSTANTS
  NRequests = 2
  NNames = 5
  MaxForward = 1
  MAY_DIE = {"server"}
  MAY_QUIT = TRUE
CHECK_DEADLOCK FALSE
INVARIANTS NewName OneHolder OwnReply
 
