SPECIFICATION Spec
CONSTANTS
  Fd = {1, 2}
  MaxSeq = 2
  MaxRoot = 1
  AllowStale = FALSE
INVARIANT NoDangling
