SPECIFICATION FairSpec
CONSTANTS
  cheap = cheap
  dear = dear
  Reqs = {cheap, dear}
  Loops = {main}
  Price <- TwoPrices
  TopUps = {2}
  None = None
  MaxTopUps = 2
  MaxRetries = 1
  MaxCrashes = 1
CHECK_DEADLOCK FALSE
INVARIANTS AccountsForBills NeverOverdrawn DeliveredIsPaid BillHasTask
PROPERTIES FailureIsRefunded
