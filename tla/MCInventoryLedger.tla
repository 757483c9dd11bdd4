--------------------------- MODULE MCInventoryLedger ---------------------------
\* Model values and symmetry for checking InventoryLedger.
EXTENDS InventoryLedger, TLC

CONSTANTS a, b, q1, q2, q3

TwoReservations == {a, b}
Quantities == [r \in TwoReservations |-> IF r = a THEN 1 ELSE 2]
ThreeRequests == {q1, q2, q3}
RequestSymmetry == Permutations(ThreeRequests)
=============================================================================
