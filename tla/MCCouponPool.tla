------------------------------ MODULE MCCouponPool ------------------------------
\* Model values for checking CouponPool.
EXTENDS CouponPool
CONSTANTS c1, c2, o1, o2, d1
=============================================================================
