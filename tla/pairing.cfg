SPECIFICATION FairSpec
CONSTANTS
  p1 = p1  p2 = p2  phone = phone
  alice = alice  bob = bob  nos = nos  extra = extra
  None = None
  Procs = {p1, p2}
  Signers = {phone}
  Users = {alice, bob}
  Relays = {nos, extra}
  Defaults = {nos}
  Flags <- NoneOrExtra
  Holder <- AllAlice
  MaxRuns = 2
  MaxActs = 1
INVARIANTS TypeOK StoredKnown TransportMeets DamageExplained
PROPERTIES OkMeansStored RefreshKeeps CommandReturns
CHECK_DEADLOCK FALSE
