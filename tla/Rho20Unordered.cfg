SPECIFICATION Spec
CONSTANTS
  a = a  b = b  w = w  u = u
  dave = dave  alice = alice  bob = bob
  n1 = n1  n2 = n2
  Seals = {a, b, w, u}
  Keys = {dave, alice, bob}
  Nonces = {n1, n2}
  TotalSupply = 3
  Deployer = dave
  Unallocated = Unallocated
  NoOwner = NoOwner
  NoCall = NoCall
  Requests <- UnorderedCalls
  Calls = {c1, c2, c3}
  Serial = TRUE

INVARIANTS SupplyFixed
CHECK_DEADLOCK FALSE
