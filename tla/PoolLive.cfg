CONSTANTS
  Workers = {w1, w2}
  Clients = {c1}
  GlobalCapacity = 2
  LocalCapacity = 1
  MaxBatch = 2
  MaxBulk = 2
  MaxJobs = 2
  MaxStarts = 1
  None = None
SPECIFICATION FairSpec
PROPERTIES JobsRun StopCompletes
CHECK_DEADLOCK FALSE
