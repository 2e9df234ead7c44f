SPECIFICATION Spec
CONSTANTS
  Ops = {o1}
  MayRefuse = {}
  NoTx = NoTx
  MaxDeploys = 1
  MaxOutputs = 3
  MaxConsignments = 1
INVARIANTS SealsSpendable
CHECK_DEADLOCK FALSE
