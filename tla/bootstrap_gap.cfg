SPECIFICATION Spec
CONSTANTS
  threads = threads
  plans = plans
  tasks = tasks
  Projectors = {threads, plans, tasks}
  Order <- RegistryOrder
  Required = {threads, plans}
  Releases <- ReleaseHistory
  ReadLimit = 2
  MaxEvents = 5
  MaxStarts = 4
INVARIANTS
  BootstrapCatchesUp
CHECK_DEADLOCK FALSE
