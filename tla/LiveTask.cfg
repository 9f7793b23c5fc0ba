CONSTANTS
  NTasks = 2
  None = None
  MaxReqs = 2
SPECIFICATION FairSpec
INVARIANTS SocketsFollowTracking ToldTruly
PROPERTY ReportedOrStranded
