SPECIFICATION Spec
CONSTANTS
  Bytes <- SmallBytes
  Outputs <- SmallOutputs
  Maskings <- SmallMaskings
  ChunkBytes = 2
  PipeBytes = 2
  MaxBody = 3
  MaxRetries = 1
CHECK_DEADLOCK FALSE
INVARIANT SentIsMasked
 
INVARIANT AllIsShownWhenDone
INVARIANT OutputBeforeStatus
 
