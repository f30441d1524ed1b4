SPECIFICATION Spec
CONSTANTS
  none = none
  Creators = {c1}
  Scheduler = scheduler
  None = none
  Plans <- SmallPlans
  Pause = 1
  MaxTime = 3
  MaxChanges = 2
  MaxEdits = 1
  MaxRestarts = 1
CHECK_DEADLOCK FALSE
 
 
PROPERTY RetentionSpares
 
