SPECIFICATION FairSpec
CONSTANTS
  None = None
  Threads = {t1}
  MaxEvents = 3
  MaxOpens = 1
  MaxTrouble = 1
INVARIANTS
  TypeOK
  
  RemovedStaysRemoved
  GivesUpOnDeletedOnly
PROPERTIES
  ClientSettles
CHECK_DEADLOCK FALSE
