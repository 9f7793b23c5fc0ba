SPECIFICATION Spec
CONSTANTS
  Tasks = {t1, t2}
  NoTask = NoTask
  Types <- OneType
  Pools <- OnePool
  TypeOf <- AllGen
  PoolOf <- DefaultPool
  UserLimit <- NoLimit
  MaxAttempts <- NoAutoRetry
  Priority <- SamePriority
  Billing <- AllPrepaid
  Procs = {p1}
  Workers = {w1}
  ProcOf <- OneProc
  WorkerPool <- AllDefault
  ScanBatch = 2
  ApiOps = {"cancel", "retry"}
  RetryBound = 1
  CrashBound = 1
  LapseBound = 1
SYMMETRY Symmetry
INVARIANTS TypeOK CreditMatchesStatus
PROPERTIES TerminalSticks FirstComeFirstServed KeepsPromise
