SPECIFICATION BenchSpec
CONSTANTS
  Benches = {"answers"}
  Queries <- TopQuery
  ReadHooks <- RootedHooks
  PathQueries <- LeafQueries
  Null = Null
  Sources <- TreeSources
  Erasures <- TreeErasures
  Hooks <- TreeHooks
  MaxEntries = 2
  Reuse = FALSE
INVARIANT SyncKeepsOwn
