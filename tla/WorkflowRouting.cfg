SPECIFICATION FairSpec
CONSTANTS
  first = first
  second = second
  last = last
  Nodes = {first, second, last}
  Conditions <- TwoConditions
  Runs = {r1, r2}
  CronRuns = {r2}
  Workflows <- TwoFlows
  Resets <- MaybeReset
  Capacity = 2
  Web = Web
  NoLoop = NoLoop
  CrashBound = 1
CHECK_DEADLOCK FALSE
INVARIANTS TypeOK UpstreamFirst AcyclicRunsThrough SkippedForAReason CompletedAccountsForAll
PROPERTIES SettledOnce EveryRunEnds
