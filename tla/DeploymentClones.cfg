SPECIFICATION Spec
CONSTANTS
  Shared = Shared
  Clones = {k1}
  CloneDeploys = TRUE
  ClockFalls = FALSE
  MaxIndex = 2
  MaxClock = 2
  MaxDeploys = 2
  MaxErred = 1
INVARIANTS ContractsDistinct
CHECK_DEADLOCK FALSE
