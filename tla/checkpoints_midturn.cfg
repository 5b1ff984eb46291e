SPECIFICATION Spec
CONSTANTS
  None = None
  MaxTurns = 1
  MaxEdits = 1
  MaxDiffs = 1
  MaxReverts = 0
  MaxTrouble = 0
  MaxPending = 0
INVARIANTS
  CheckpointsAtTurnBoundaries
CHECK_DEADLOCK FALSE
