SPECIFICATION Spec
CONSTANTS
  a = a
  b = b
  q1 = q1
  q2 = q2
  q3 = q3
  Reservation <- TwoReservations
  Qty <- Quantities
  Request <- ThreeRequests
  Window = {1, 2}
  Reset = {1}
  InitialStock = 2
  TargetQty = 4
  BaselineQty = 3
SYMMETRY RequestSymmetry
INVARIANTS NeverOversold StockMatchesReports ReplenishedOnce ReservedMatches
CHECK_DEADLOCK FALSE
