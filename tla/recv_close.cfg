SPECIFICATION FairSpec
CONSTANTS
  Kind = {"init", "other"}
  RecvSize = 6
  Blocking = FALSE
  MaxMsg = 2
PROPERTIES NoticesClose
CHECK_DEADLOCK FALSE
