SPECIFICATION FairSpec
CONSTANTS
  Tasks = {t1}
  NoTask = NoTask
  Types <- OneType
  Pools <- OnePool
  TypeOf <- AllGen
  PoolOf <- DefaultPool
  UserLimit <- LimitOne
  MaxAttempts <- OneAutoRetry
  Priority <- SamePriority
  Billing <- AllHandler
  Procs = {p1, p2}
  Workers = {w1, w2}
  ProcOf <- OneWorkerEach
  WorkerPool <- AllDefault
  ScanBatch = 1
  ApiOps = {"cancel", "delete", "cleanup"}
  RetryBound = 1
  CrashBound = 1
  LapseBound = 0
INVARIANTS NoDoubleRun
PROPERTIES LateResultDropped EveryTaskEnds
