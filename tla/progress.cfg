SPECIFICATION FairSpec
CONSTANTS
  Execs = {e1, e2, e3}
  Workers = {w1, w2}
  Sweeper = sweeper
  None = none
  Hooks <- LockedHooks
  MaxRetries = 1
  Faults = {}
  MaxCrashes = 0
CHECK_DEADLOCK FALSE
INVARIANT LockAccountedFor
 
 
