SPECIFICATION FairSpec
CONSTANTS
  c1 = c1
  c2 = c2
  o1 = o1
  o2 = o2
  d1 = d1
  Coupon = {c1, c2}
  Issued = {c1}
  Order = {o1, o2}
  Drill = {d1}
  DrillCoupon = c1
  Request = {1}
  Window = {1}
  TargetAvailable = 1
  ReplenishBelow = 1
  MaxSweepFailures = 1
INVARIANTS OneOrderPerCoupon CouponsMatch
PROPERTIES SettledStays OverdueIsSwept
CHECK_DEADLOCK FALSE
