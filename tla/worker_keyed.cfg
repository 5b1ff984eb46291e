SPECIFICATION FairSpec
CONSTANTS
  Keys = {k1, k2}
  None = None
  MaxEnqueues = 3
INVARIANTS
  EnqueuesInOrder
  NoValueStranded
  DrainWaitsForKey
PROPERTIES
  EveryEnqueueProcessed
  DrainReturns
CHECK_DEADLOCK FALSE
