SPECIFICATION Spec
CONSTANTS
  Statuses = {running, success}
  running = running
  success = success
  Unfiltered = unfiltered
  Days = {1, 2}
  PerPage = 2
  MaxPage = 3
  MaxRows = 4
CHECK_DEADLOCK FALSE
INVARIANT WalkMissesNothing
PROPERTY PageIsAsLabelled
