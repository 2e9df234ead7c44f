SPECIFICATION Spec
CONSTANTS
  Ops = {o1}
  MayRefuse = {o1}
  NoTx = NoTx
  MaxDeploys = 1
  MaxOutputs = 2
  MaxConsignments = 1
INVARIANTS AcceptedTransferMade
CHECK_DEADLOCK FALSE
