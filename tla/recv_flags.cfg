SPECIFICATION FairSpec
CONSTANTS
  Kind = {"init", "other"}
  RecvSize = 6
  Blocking = FALSE
  MaxMsg = 2
INVARIANTS StaysUnsubscribed
CHECK_DEADLOCK FALSE
