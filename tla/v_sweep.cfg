SPECIFICATION Spec
CONSTANTS
  Execs = {e1, e2, e3}
  Workers = {w1, w2}
  Sweeper = sweeper
  None = none
  Hooks <- ExpiringQueueHook
  MaxRetries = 0
  Faults = {}
  MaxCrashes = 0
SYMMETRY Interchangeable
CHECK_DEADLOCK FALSE
INVARIANT MutualExclusion
