SPECIFICATION FairSpec
CONSTANTS
  a = a  b = b  w = w  u = u
  dave = dave  alice = alice  bob = bob
  n1 = n1  n2 = n2
  Seals = {a, b, w, u}
  Keys = {dave, alice, bob}
  Nonces = {n1, n2}
  TotalSupply = 3
  Deployer = dave
  Unallocated = Unallocated
  NoOwner = NoOwner
  NoCall = NoCall
  Requests <- OverlappingCalls
  Calls = {c1, c2, c3}
  Serial = FALSE

INVARIANTS NonceOnce
PROPERTIES CallsComplete
CHECK_DEADLOCK FALSE
