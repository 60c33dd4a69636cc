SPECIFICATION MCSpec
CONSTANTS
  S = S
  A = A
  B = B
  kb = kb
  ks = ks
  Server = S
  Client = {A, B}
  Writable = {B}
  Unsub = {}
  Fragile = {A}
  Key = {kb, ks}
  Writer <- MCWriter
  Syncer = {A}
  Late <- LateAtA
  MaxVal <- TwoZero
  MaxSync = 1
  MaxDel = 0
  MaxTimer = 1
  MaxBreak = 1
INVARIANTS Converged OriginLeadsHome
PROPERTIES ImplementsStore SyncsAreFresh AllAnswered
CHECK_DEADLOCK FALSE
