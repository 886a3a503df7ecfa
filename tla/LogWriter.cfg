SPECIFICATION FairSpec
CONSTANTS
  p1 = p1
  p2 = p2
  Producers = {p1, p2}
  QueueMax = 2
  BatchSize = 2
  RingCapacity = 1
  MaxEvents = 2
  MaxFaults = 1
  MaxExits = 1
  MaxClears = 1
  MaxSyncs = 2
INVARIANTS TypeOK  LossesCounted
PROPERTIES Settled KeepsOrder
CHECK_DEADLOCK FALSE
