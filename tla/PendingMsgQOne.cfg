SPECIFICATION FairSpec
CONSTANTS
  NULL = NULL
  Keys = {k1}
  QueueIds = {q1, q2}
  Interval = 1
  MaxSent = 4
  Faults = {"create", "push", "full"}
INVARIANTS TypeOK LinkedAllocated NoQueueLeak InOrder
PROPERTIES OfferDrains QueueEnds
CHECK_DEADLOCK FALSE
