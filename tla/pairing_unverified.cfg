SPECIFICATION Spec
CONSTANTS
  p1 = p1  p2 = p2  phone = phone
  alice = alice  bob = bob  nos = nos  extra = extra
  None = None
  Procs = {p1}
  Signers = {phone}
  Users = {alice, bob}
  Relays = {nos, extra}
  Defaults = {nos}
  Flags <- NoneOrExtra
  Holder <- AllAlice
  MaxRuns = 2
  MaxActs = 1
PROPERTIES UserVerified
CHECK_DEADLOCK FALSE
