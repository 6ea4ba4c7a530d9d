SPECIFICATION FairSpec
CONSTANTS
  a = a  b = b  c = c
  Blobs = {a, b, c}
  Names = 5
  Inputs <- SmallInputs
  MaxLinks = 2
  NServers = 2
  AcceptSets <- SecondOrBoth
  HashLen = 2
  Headers <- SomeHeaders
  MaxReads = 1
INVARIANTS TypeOK ChildrenFirst
PROPERTIES ParsesHash ReadBack ReadSucceeds BuildEnds ReadEnds
CHECK_DEADLOCK FALSE
