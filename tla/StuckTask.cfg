SPECIFICATION FairSpec
CONSTANTS
  Tasks = {t1}
  NoTask = NoTask
  Types <- OneType
  Pools <- OnePool
  TypeOf <- AllGen
  PoolOf <- DefaultPool
  UserLimit <- NoLimit
  MaxAttempts <- NoAutoRetry
  Priority <- SamePriority
  Billing <- AllPrepaid
  Procs = {p1}
  Workers = {w1}
  ProcOf <- OneProc
  WorkerPool <- AllDefault
  ScanBatch = 2
  ApiOps = {}
  RetryBound = 1
  CrashBound = 0
  LapseBound = 1
PROPERTIES EveryTaskEnds
