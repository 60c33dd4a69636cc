SPECIFICATION BenchSpec
CONSTANTS
  Benches = {"tree"}
  Queries <- TopQuery
  ReadHooks <- RootedHooks
  PathQueries <- LeafQueries
  Null = Null
  Sources <- ReuseSources
  Erasures = {}
  Hooks <- NoHooks
  MaxEntries = 2
  Reuse = TRUE
INVARIANT Replicated
