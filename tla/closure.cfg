SPECIFICATION FairSpec
CONSTANTS
  Hashes = {a, b, c}
  Graphs <- AllGraphs
  InputLists <- ShortLists
INVARIANTS TypeOK ListsClosure DependenciesFirst
PROPERTIES Resolves
CHECK_DEADLOCK FALSE
