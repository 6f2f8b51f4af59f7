\* Turns of two tasks: kMaxTasks is reached with tasks left in L1, in the
\* cache or in both.
CONSTANTS
  Producers = {p1}
  Loop = loop
  Capacity = 2
  BatchSize = 1
  MaxTasks = 2
  MaxBulk = 2
  MaxJobs = 3
SPECIFICATION FairSpec
INVARIANTS RunOnce QuitRunsAccepted
PROPERTIES JobsRun QuitHonoured
CHECK_DEADLOCK FALSE
