SPECIFICATION Spec
CONSTANTS
  Conn = {p, q, a}
  Major = {p, q}
  Publisher = {p}
  Unsubscriber = {}
  Sync = {q}
  File = {}
  Tcp = {}
  Refused = {}
  Fd = {3, 4, 5, 6}
  Periodic = TRUE
  MaxDepth = 1
  MaxBatch = 2
  None = None
  Gone = Gone
INVARIANT EventsHold
