SPECIFICATION Spec
CONSTANTS
  Tasks = {t1}
  NoTask = NoTask
  Types <- OneType
  Pools <- OnePool
  TypeOf <- AllGen
  PoolOf <- DefaultPool
  UserLimit <- NoLimit
  MaxAttempts <- NoAutoRetry
  Priority <- SamePriority
  Billing <- AllPrepaid
  Procs = {p1}
  Workers = {w1}
  ProcOf <- OneProc
  WorkerPool <- AllDefault
  ScanBatch = 1
  ApiOps = {"cancel", "retry"}
  RetryBound = 1
  CrashBound = 0
  LapseBound = 0
PROPERTIES LateResultDropped
