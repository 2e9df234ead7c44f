SPECIFICATION Spec
CONSTANTS
  i1 = i1  i2 = i2  a1 = a1  a2 = a2
  Payer = Payer  Payee = Payee  Deployer = Deployer
  Nobody = Nobody  NoOwner = NoOwner
  Funding = Funding  Unallocated = Unallocated
  Keys = {Payer, Payee, Deployer}
  Invoices = {i1, i2}
  Addresses = {a1, a2}
  Seals <- PaymentSeals
  ReadSeals <- RealUtxos
  TotalSupply = 2
  Half = 32
  Amounts <- InvoiceAmounts
  NonceBase = 10
  Randoms <- RandomParts
  MaxSecond = 0
  MaxFailures = 1
INVARIANTS RefusedOnlyAsRetry
CHECK_DEADLOCK FALSE
