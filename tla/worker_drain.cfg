SPECIFICATION FairSpec
CONSTANTS
  Drainers = {d1, d2}
  MaxItems = 4
INVARIANTS
  CounterExact
  DrainWaitsForAll
PROPERTIES
  DrainReturns
CHECK_DEADLOCK FALSE
