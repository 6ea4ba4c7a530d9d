SPECIFICATION FairSpec
CONSTANTS
  c1 = c1  c2 = c2  alice = alice
  Callers = {c1, c2}
  UserKeys = {alice}
  MaxCalls = 3
INVARIANTS TypeOK OwnAnswer HandshakeFirst Answerable
PROPERTIES CallReturns
CHECK_DEADLOCK FALSE
