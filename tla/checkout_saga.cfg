SPECIFICATION MCSpec
CONSTANTS
  c1 = c1
  c2 = c2
  s1 = s1
  s2 = s2
  p1 = p1
  p2 = p2
  None = None
  Checkout = {c1, c2}
  Key = {1, 2}
  Sku = {s1, s2}
  WithCoupon = {c1}
  Blacklisted = {}
  Payment = {p1, p2}
  Op = {1, 2}
  MaxFaults = 1
  MaxEdits = 1
INVARIANTS CleanAbort OneOrderPerKey PaidOrderIsBacked SettledPaymentSettlesOrder
PROPERTIES KeepsPromise CouponComesBack
CHECK_DEADLOCK FALSE
