SPECIFICATION Spec
CONSTANTS
  Ops = {o1, o2}
  MayRefuse = {}
  NoTx = NoTx
  MaxDeploys = 2
  MaxOutputs = 3
  MaxConsignments = 1
SYMMETRY Symmetry
INVARIANTS SealsFollowFinality AcceptedIsProven OneStatePerTransaction
PROPERTIES EmbeddingKeepsTx
CHECK_DEADLOCK FALSE
