\* A publisher p, a subscriber q, one accepted connection, and a descriptor to
\* spare; at most two loops within each other.  On the bench tcp the address of q is
\* refused, and a batch is one event.
SPECIFICATION BenchSpec
CONSTANTS
  Conn = {p, q, a}
  Major = {p, q}
  Publisher = {p}
  Unsubscriber = {}
  Sync = {q}
  File = {}
  Tcp = {}
  Refused = {}
  TcpMajor = {p, q}
  RefusedMajor = {q}
  Fd = {3, 4, 5, 6}
  Periodic = TRUE
  MaxDepth = 1
  MaxBatch = 2
  None = None
  Gone = Gone
  Kind = {"init", "answer", "other"}
  RecvSize = 7
  MaxMsg = 3
  EventFd = {1, 2}
  MaxSeq = 1
  MaxRoot = 2
INVARIANTS
  Consistent
  CountsSyncs
  StaleOnlyIfNested
  InStep
  WaitEndsWithLastAnswer
PROPERTIES
  AcceptedAreFreed
  MajorsReturn
  HandledUnlessLeft
  CloseNoticed
  EveryWaitEnds
CHECK_DEADLOCK FALSE
