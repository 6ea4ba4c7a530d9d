SPECIFICATION FairSpec
CONSTANTS
  small = small  large = large  NoBlob = NoBlob
  NumServers = 3
  Blobs = {small, large}
  Large = {large}
  Ttl = 6
  Margin = 3
  SignDelays <- Quick
  WorkDelays = {0, 3}
  NetDelays = {0, 1}
  ServerSkew <- ClockAhead
  Denying = {3}
  Full = {2}
  MaxUploads = 3
INVARIANTS TypeOK HeaderFresh RetryAccepted
PROPERTIES EveryServerTried UploadPromise UploadReturns
CHECK_DEADLOCK FALSE
