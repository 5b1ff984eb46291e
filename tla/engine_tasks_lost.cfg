SPECIFICATION Spec
CONSTANTS
  p1 = p1
  t1 = t1
  t2 = t2
  k1 = k1
  None = None
  Projects = {p1}
  Threads = {t1}
  Tasks = {k1}
  CommandIds = {1, 2, 3, 4, 5, 6, 7}
  Commands <- TaskCommands
  MaxDispatches = 4
  MaxQueued = 2
  MaxFaults = 2
  MaxCrashes = 1
INVARIANTS
  ReadModelKeepsTasks
CHECK_DEADLOCK FALSE
