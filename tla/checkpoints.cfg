SPECIFICATION Spec
CONSTANTS
  None = None
  MaxTurns = 2
  MaxEdits = 1
  MaxDiffs = 1
  MaxReverts = 1
  MaxTrouble = 1
  MaxPending = 1
INVARIANTS
  TypeOK
  RowsDistinct
  
  CountsFollowConversation
  TurnEndsInItsCheckpoint
  TablesMatchMemory
PROPERTIES
  CapturedStaysCaptured
  
  RevertLandsTogether
CHECK_DEADLOCK FALSE
