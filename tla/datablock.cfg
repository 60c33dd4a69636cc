\* Three descriptors, so that a request has three targets or is relayed to two.
SPECIFICATION BenchSpec
CONSTANTS
  Fd = {1, 2, 3}
  MaxSeq = 1
  MaxRoot = 1
  AllowStale = FALSE
  Null = Null
  MaxEntries = 2
INVARIANTS
  TypeOK CountsUnanswered EndsWithLastAnswer
  TreesAreSound Replicated MergeOverlays SilentIffUnchanged HooksTold ErasesLeaves
  AnswersFresh SyncKeepsOwn
  PathsReplicated ReadsAreFresh
