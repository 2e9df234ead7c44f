SPECIFICATION Spec
CONSTANTS
  Shared = Shared
  Clones = {}
  CloneDeploys = FALSE
  ClockFalls = TRUE
  MaxIndex = 2
  MaxClock = 2
  MaxDeploys = 2
  MaxErred = 1
INVARIANTS CachedIsRegistered
CHECK_DEADLOCK FALSE
