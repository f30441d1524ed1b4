SPECIFICATION FairSweepSpec
CONSTANTS
  Execs = {e1, e2}
  Workers = {w1, w2}
  Sweeper = sweeper
  None = none
  Hooks <- ExpiringHooks
  MaxRetries = 1
  Faults = {"disconnect", "expiry"}
  MaxCrashes = 1
CHECK_DEADLOCK FALSE
 
PROPERTY FollowsLifecycle
PROPERTY ApprovalsAreClosed
