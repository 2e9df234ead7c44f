SPECIFICATION Spec
CONSTANTS
  Shared = Shared
  Clones = {k1}
  CloneDeploys = FALSE
  ClockFalls = FALSE
  MaxIndex = 2
  MaxClock = 3
  MaxDeploys = 3
  MaxErred = 1
INVARIANTS KnownIsRegistered ContractsDistinct ContractsUntouched UpgradeInstalled
CHECK_DEADLOCK FALSE
