SPECIFICATION Spec
CONSTANTS
  Execs = {e1, e2, e3}
  Workers = {w1, w2}
  Sweeper = sweeper
  None = none
  Hooks <- LastingHooks
  MaxRetries = 1
  Faults = {"db", "disconnect", "logs"}
  MaxCrashes = 1
SYMMETRY Interchangeable
CHECK_DEADLOCK FALSE
INVARIANT TypeOK
INVARIANT MutualExclusion
INVARIANT LockNamesItsTask
INVARIANT ApprovalHoldsTheHook
PROPERTY DequeuedInOrder
