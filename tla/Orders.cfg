SPECIFICATION Spec
CONSTANTS
  Orders = {o1, o2}
  Users = {u1}
  Plans = {pro}
  Procs = {p1, p2}
  None = None
  MaxUses = 1
  MaxPayments = 3
SYMMETRY OrderSymmetry
CONSTRAINT UntilARace
CHECK_DEADLOCK FALSE
INVARIANTS OneOpenOrder CouponCountsOrders GrantedWithApproval PaidInTimeIsServed
PROPERTIES DecidedStays
