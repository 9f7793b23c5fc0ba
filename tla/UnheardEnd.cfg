CONSTANTS
  NTasks = 2
  None = None
  MaxReqs = 2
SPECIFICATION FairSpec

PROPERTY EveryTaskReported
