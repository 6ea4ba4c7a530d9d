SPECIFICATION Spec
CONSTANTS
  app = app  lib = lib  s1 = s1  s2 = s2  k1 = k1  k2 = k2  xz = xz
  r1 = r1  r2 = r2  p1 = p1  p2 = p2
  NoKey = NoKey
  Paths <- TwoPaths
  Refs <- RefsOf
  Servers = {s1, s2}
  Keys = {k1, k2}
  Compressions = {xz}
  MaxLinks = 2
  Configs <- MixedConfigs
  Publishers = {p1, p2}
  Relays <- BothRelays
  FetchSets <- AnySubset
  AcceptSets <- AnySubset
  Delays <- SameSecond
  Skew <- NoSkew
  MaxRuns = 3
SYMMETRY Symmetric
INVARIANTS TypeOK RootBacked NodesServed ClosedTrees KeptOrCovered
PROPERTIES DryRunSilent OkMeansPublished
CHECK_DEADLOCK FALSE
