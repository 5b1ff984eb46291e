SPECIFICATION Spec
CONSTANTS
  p1 = p1
  t1 = t1
  t2 = t2
  k1 = k1
  None = None
  Projects = {p1}
  Threads = {t1, t2}
  Tasks = {k1}
  CommandIds = {1, 2, 3, 4, 5, 6, 7, 8, 9, 10, 11}
  Commands <- DeletionAndTaskCommands
  MaxDispatches = 4
  MaxQueued = 2
  MaxFaults = 1
  MaxCrashes = 1
INVARIANTS
  TypeOK
  TasksOfThisLife
  AtMostOnce
  MemoryFollowsStore
  NothingUncommittedVisible
  BusCarriesEveryEventInOrder
  HistoryWellFormed
  DeletedProjectsAreEmpty
  TablesFollowLog
PROPERTIES
  ImplementsCommandLog
CHECK_DEADLOCK FALSE
