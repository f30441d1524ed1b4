SPECIFICATION Spec
CONSTANTS
  Execs = {e1, e2, e3, e4}
  Workers = {w1, w2}
  Sweeper = sweeper
  None = none
  Hooks <- LockedHooks
  MaxRetries = 0
  Faults = {}
  MaxCrashes = 1
SYMMETRY Interchangeable
CHECK_DEADLOCK FALSE
INVARIANT FinishedExecutionsLetGo
