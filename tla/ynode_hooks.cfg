SPECIFICATION BenchSpec
CONSTANTS
  Benches = {"hooks"}
  Queries <- TopQuery
  ReadHooks <- NestedHooks
  PathQueries <- BetweenThem
  Null = Null
  Sources <- TreeSources
  Erasures <- TreeErasures
  Hooks <- TreeHooks
  MaxEntries = 2
  Reuse = FALSE
INVARIANT LongestMatchTells
