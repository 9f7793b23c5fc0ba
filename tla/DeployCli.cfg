SPECIFICATION FairSpec
CONSTANTS
  Runs = {first, second}
  None = None
  MaxFaults = 2
CHECK_DEADLOCK FALSE
INVARIANTS LaunchedWhole BackendKeepsItsFiles
PROPERTIES EveryRunAnswers
