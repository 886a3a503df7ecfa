SPECIFICATION Spec
CONSTANTS
  Streams <- MCStreams
  PartialMax = 2
  BufMax = 8
  CanBlock = TRUE
  MaxEvents = 3
INVARIANTS TypeOK NothingStray BufferBounded
 
CHECK_DEADLOCK FALSE
