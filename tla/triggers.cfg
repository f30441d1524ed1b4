SPECIFICATION Spec
CONSTANTS
  Requests = {r1, r2}
  None = none
  Payloads = {"object", "good", "odd"}
  EmptyObject = "object"
  Settings <- SmallSettings
  Minute = 2
  MaxRetries = 1
  Fails = TRUE
  MaxEdits = 1
  MaxTime = 1
SYMMETRY Interchangeable
CHECK_DEADLOCK FALSE
INVARIANT TypeOK
 
INVARIANT LockAccountedFor
INVARIANT AttemptsTellTheTruth
 
INVARIANT LimitIsTheRules
