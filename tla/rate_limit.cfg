SPECIFICATION Spec
CONSTANTS
  Requests = {r1, r2, r3, r4}
  WindowSeconds = 2
  MaxRequests = 2
  Ttl = 3
  MaxDelay = 1
  MaxTime = 6
SYMMETRY Interchangeable
CHECK_DEADLOCK FALSE
INVARIANT WithinLimit
INVARIANT RejectedOnlyWhenFull
