SPECIFICATION Spec
CONSTANTS
  small = small  large = large  NoBlob = NoBlob
  NumServers = 2
  Blobs = {small, large}
  Large = {large}
  Ttl = 6
  Margin = 3
  SignDelays <- Slow
  WorkDelays = {0}
  NetDelays = {0}
  ServerSkew <- ClockAhead
  Denying = {}
  Full = {}
  MaxUploads = 1
INVARIANTS HeaderFresh
CHECK_DEADLOCK FALSE
