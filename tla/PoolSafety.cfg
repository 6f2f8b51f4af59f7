SPECIFICATION Spec
CONSTANTS
  Workers = {w1, w2}
  Clients = {c1}
  GlobalCapacity = 2
  LocalCapacity = 1
  MaxBatch = 2
  MaxBulk = 2
  MaxJobs = 3
  MaxStarts = 2
  None = None
INVARIANTS JobsAccounted NoLostWakeup
SYMMETRY PoolSymmetry
CHECK_DEADLOCK FALSE
