--------------------------- MODULE CouponPoolProofs ---------------------------
\* What holds of the coupons for any orders, drills, requests and windows. The
\* argument is that row locks keep what a transaction has read until it writes.
EXTENDS CouponPool, FiniteSetTheorems, TLAPS

\* Nobody holds the lock of a coupon or row that somebody else holds, and what was
\* read under a lock is still so.
LocksVouch ==
  /\ \A o \in Order : calculate[o] # "done" => reservation[o] = "NONE"
  /\ \A o \in Order : calculate[o] = "locked" => coupon[wants[o]] = "AVAILABLE"
  /\ \A o, p \in Order :
       calculate[o] = "locked" /\ calculate[p] = "locked" /\ wants[o] = wants[p] => o = p
  /\ \A o \in Order : \A r \in sweep.locked : calculate[o] = "locked" => wants[o] # wants[r]
  /\ \A q \in Request : request[q] = "locked" =>
       reservation[asks[q].order] = "RESERVED" /\ asks[q].order \notin sweep.found
  /\ \A p, q \in Request :
       request[p] = "locked" /\ request[q] = "locked" /\ asks[p].order = asks[q].order => p = q
  /\ \A r \in sweep.found : reservation[r] = "RESERVED"

IInv == TypeOK /\ LocksVouch /\ OneOrderPerCoupon /\ CouponsMatch

-----------------------------------------------------------------------------
\* Each part survives every step

\* Every step keeps the state well typed.
LEMMA TypeStep == TypeOK /\ [Next]_vars => TypeOK'
  <1> SUFFICES ASSUME TypeOK, [Next]_vars PROVE TypeOK'
    OBVIOUS
  <1> USE PoolAssumption DEF TypeOK, Settled, Row,
           couponVars, rowVars, requestVars, sweepVars, replenishVars
  <1>1 ASSUME NEW o \in Order, CalculateLocks(o) PROVE TypeOK'
    BY <1>1 DEF CalculateLocks
  <1>2 ASSUME NEW o \in Order, CalculateReserves(o) PROVE TypeOK'
    BY <1>2 DEF CalculateReserves
  <1>3 ASSUME NEW o \in Order, CalculateFails(o) PROVE TypeOK'
    BY <1>3 DEF CalculateFails
  <1>4 ASSUME NEW o \in Order, Due(o) PROVE TypeOK'
    BY <1>4 DEF Due
  <1>5 ASSUME NEW q \in Request, RequestLocks(q) PROVE TypeOK'
    BY <1>5 DEF RequestLocks
  <1>6 ASSUME NEW q \in Request, Releases(q) PROVE TypeOK'
    BY <1>6 DEF Releases, Settles
  <1>7 ASSUME NEW q \in Request, Confirms(q) PROVE TypeOK'
    BY <1>7 DEF Confirms, Settles
  <1>8 ASSUME NEW q \in Request, RequestFails(q) PROVE TypeOK'
    BY <1>8 DEF RequestFails
  <1>9 ASSUME SweepBegins PROVE TypeOK'
    BY <1>9 DEF SweepBegins, Overdue
  <1>10 ASSUME SweepCommits PROVE TypeOK'
    <2>1 coupon' \in [Coupon -> {"NONE", "AVAILABLE", "RESERVED", "USED"}]
      BY <1>10 DEF SweepCommits, SweepCommitsWith
    <2>2 reservation' \in [Row -> {"NONE", "RESERVED", "DELETED"} \cup Settled]
      BY <1>10 DEF SweepCommits, SweepCommitsWith
    <2>3 drilled' \subseteq Coupon
      BY <1>10 DEF SweepCommits, SweepCommitsWith, SweptCoupons
    <2> QED
      BY <1>10, <2>1, <2>2, <2>3
      DEF SweepCommits, SweepCommitsWith, NoSweep
  <1>11 ASSUME SweepFails PROVE TypeOK'
    BY <1>11 DEF SweepFails, NoSweep
  <1>12 ASSUME NEW r \in Row, SweepLocks(r) PROVE TypeOK'
    BY <1>12 DEF SweepLocks
  <1>13 ASSUME NEW d \in Drill, DrillPrepares(d) PROVE TypeOK'
    BY <1>13 DEF DrillPrepares
  <1>14 ASSUME NEW d \in Drill, DrillRemoves(d) PROVE TypeOK'
    BY <1>14 DEF DrillRemoves
  <1>15 ASSUME NEW w \in Window, ReplenishCounts(w) PROVE TypeOK'
    <2>1 Cardinality(Available) \in Nat
      BY FS_Subset, FS_CardinalityType DEF Available
    <2> QED
      BY <1>15, <2>1 DEF ReplenishCounts, Claimable
  <1>16 ASSUME NEW w \in Window, ReplenishSkips(w) PROVE TypeOK'
    BY <1>16 DEF ReplenishSkips, ReplenishCommits, Idle
  <1>17 ASSUME NEW w \in Window, ReplenishIssues(w) PROVE TypeOK'
    BY <1>17 DEF ReplenishIssues, ReplenishCommits, Idle
  <1>18 ASSUME NEW w \in Window, ReplenishFails(w) PROVE TypeOK'
    BY <1>18 DEF ReplenishFails, Idle
  <1>19 ASSUME NEW c \in Coupon, Lapse(c) PROVE TypeOK'
    BY <1>19 DEF Lapse
  <1>20 CASE UNCHANGED vars
    BY <1>20 DEF vars
  <1> QED
    BY <1>1, <1>2, <1>3, <1>4, <1>5, <1>6, <1>7, <1>8, <1>9, <1>10, <1>11, <1>12,
       <1>13, <1>14, <1>15, <1>16, <1>17, <1>18, <1>19, <1>20
    DEF Next, OrderStep, RequestStep

\* Every step preserves what the locks vouch for.
LEMMA LocksStep == TypeOK /\ LocksVouch /\ [Next]_vars => LocksVouch'
  <1> SUFFICES ASSUME TypeOK, LocksVouch, [Next]_vars PROVE LocksVouch'
    OBVIOUS
  <1> USE PoolAssumption DEF TypeOK, LocksVouch, Settled, Row,
           couponVars, rowVars, requestVars, sweepVars, replenishVars
  <1>1 ASSUME NEW o \in Order, CalculateLocks(o) PROVE LocksVouch'
    BY <1>1 DEF CalculateLocks, CouponFree
  <1>2 ASSUME NEW o \in Order, CalculateReserves(o) PROVE LocksVouch'
    BY <1>2 DEF CalculateReserves
  <1>3 ASSUME NEW o \in Order, CalculateFails(o) PROVE LocksVouch'
    BY <1>3 DEF CalculateFails
  <1>4 ASSUME NEW o \in Order, Due(o) PROVE LocksVouch'
    BY <1>4 DEF Due
  <1>5 ASSUME NEW q \in Request, RequestLocks(q) PROVE LocksVouch'
    BY <1>5 DEF RequestLocks, Proceeds, LockedByRequest
  <1>6 ASSUME NEW q \in Request, Releases(q) PROVE LocksVouch'
    BY <1>6 DEF Releases, Settles, CouponFree
  <1>7 ASSUME NEW q \in Request, Confirms(q) PROVE LocksVouch'
    BY <1>7 DEF Confirms, Settles, CouponFree
  <1>8 ASSUME NEW q \in Request, RequestFails(q) PROVE LocksVouch'
    BY <1>8 DEF RequestFails
  <1>9 ASSUME SweepBegins PROVE LocksVouch'
    BY <1>9 DEF SweepBegins, Overdue, LockedByRequest
  <1>10 ASSUME SweepCommits PROVE LocksVouch'
    BY <1>10 DEF SweepCommits, SweepCommitsWith, NoSweep
  <1>11 ASSUME SweepFails PROVE LocksVouch'
    BY <1>11 DEF SweepFails, NoSweep
  <1>12 ASSUME NEW r \in Row, SweepLocks(r) PROVE LocksVouch'
    BY <1>12 DEF SweepLocks
  <1>13 ASSUME NEW d \in Drill, DrillPrepares(d) PROVE LocksVouch'
    BY <1>13 DEF DrillPrepares
  <1>14 ASSUME NEW d \in Drill, DrillRemoves(d) PROVE LocksVouch'
    BY <1>14 DEF DrillRemoves
  <1>15 ASSUME NEW w \in Window, ReplenishCounts(w) PROVE LocksVouch'
    BY <1>15 DEF ReplenishCounts, Claimable
  <1>16 ASSUME NEW w \in Window, ReplenishSkips(w) PROVE LocksVouch'
    BY <1>16 DEF ReplenishSkips, ReplenishCommits, Idle
  <1>17 ASSUME NEW w \in Window, ReplenishIssues(w) PROVE LocksVouch'
    BY <1>17 DEF ReplenishIssues, ReplenishCommits, Idle
  <1>18 ASSUME NEW w \in Window, ReplenishFails(w) PROVE LocksVouch'
    BY <1>18 DEF ReplenishFails, Idle
  <1>19 ASSUME NEW c \in Coupon, Lapse(c) PROVE LocksVouch'
    BY <1>19 DEF Lapse
  <1>20 CASE UNCHANGED vars
    BY <1>20 DEF vars
  <1> QED
    BY <1>1, <1>2, <1>3, <1>4, <1>5, <1>6, <1>7, <1>8, <1>9, <1>10, <1>11, <1>12,
       <1>13, <1>14, <1>15, <1>16, <1>17, <1>18, <1>19, <1>20
    DEF Next, OrderStep, RequestStep

\* Every step keeps coupons and reservations in agreement.
LEMMA MatchStep == IInv /\ [Next]_vars => OneOrderPerCoupon' /\ CouponsMatch'
  <1> SUFFICES ASSUME IInv, [Next]_vars PROVE OneOrderPerCoupon' /\ CouponsMatch'
    OBVIOUS
  <1> USE PoolAssumption DEF IInv, TypeOK, LocksVouch, OneOrderPerCoupon, CouponsMatch,
           Holding, Settled, Row, couponVars, rowVars, requestVars, sweepVars, replenishVars
  <1>1 ASSUME NEW o \in Order, CalculateLocks(o) PROVE OneOrderPerCoupon' /\ CouponsMatch'
    BY <1>1 DEF CalculateLocks
  <1>2 ASSUME NEW o \in Order, CalculateReserves(o) PROVE OneOrderPerCoupon' /\ CouponsMatch'
    BY <1>2 DEF CalculateReserves
  <1>3 ASSUME NEW o \in Order, CalculateFails(o) PROVE OneOrderPerCoupon' /\ CouponsMatch'
    BY <1>3 DEF CalculateFails
  <1>4 ASSUME NEW o \in Order, Due(o) PROVE OneOrderPerCoupon' /\ CouponsMatch'
    BY <1>4 DEF Due
  <1>5 ASSUME NEW q \in Request, RequestLocks(q) PROVE OneOrderPerCoupon' /\ CouponsMatch'
    BY <1>5 DEF RequestLocks
  <1>6 ASSUME NEW q \in Request, Releases(q) PROVE OneOrderPerCoupon' /\ CouponsMatch'
    BY <1>6 DEF Releases, Settles
  <1>7 ASSUME NEW q \in Request, Confirms(q) PROVE OneOrderPerCoupon' /\ CouponsMatch'
    BY <1>7 DEF Confirms, Settles
  <1>8 ASSUME NEW q \in Request, RequestFails(q) PROVE OneOrderPerCoupon' /\ CouponsMatch'
    BY <1>8 DEF RequestFails
  <1>9 ASSUME SweepBegins PROVE OneOrderPerCoupon' /\ CouponsMatch'
    BY <1>9 DEF SweepBegins, Overdue
  <1>10 ASSUME SweepCommits PROVE OneOrderPerCoupon' /\ CouponsMatch'
    BY <1>10 DEF SweepCommits, SweepCommitsWith, NoSweep, SweptCoupons
  <1>11 ASSUME SweepFails PROVE OneOrderPerCoupon' /\ CouponsMatch'
    BY <1>11 DEF SweepFails, NoSweep
  <1>12 ASSUME NEW r \in Row, SweepLocks(r) PROVE OneOrderPerCoupon' /\ CouponsMatch'
    BY <1>12 DEF SweepLocks
  <1>13 ASSUME NEW d \in Drill, DrillPrepares(d) PROVE OneOrderPerCoupon' /\ CouponsMatch'
    BY <1>13 DEF DrillPrepares
  <1>14 ASSUME NEW d \in Drill, DrillRemoves(d) PROVE OneOrderPerCoupon' /\ CouponsMatch'
    BY <1>14 DEF DrillRemoves
  <1>15 ASSUME NEW w \in Window, ReplenishCounts(w) PROVE OneOrderPerCoupon' /\ CouponsMatch'
    BY <1>15 DEF ReplenishCounts, Claimable
  <1>16 ASSUME NEW w \in Window, ReplenishSkips(w) PROVE OneOrderPerCoupon' /\ CouponsMatch'
    BY <1>16 DEF ReplenishSkips, ReplenishCommits, Idle
  <1>17 ASSUME NEW w \in Window, ReplenishIssues(w) PROVE OneOrderPerCoupon' /\ CouponsMatch'
    BY <1>17 DEF ReplenishIssues, ReplenishCommits, Idle
  <1>18 ASSUME NEW w \in Window, ReplenishFails(w) PROVE OneOrderPerCoupon' /\ CouponsMatch'
    BY <1>18 DEF ReplenishFails, Idle
  <1>19 ASSUME NEW c \in Coupon, Lapse(c) PROVE OneOrderPerCoupon' /\ CouponsMatch'
    BY <1>19 DEF Lapse
  <1>20 CASE UNCHANGED vars
    BY <1>20 DEF vars
  <1> QED
    BY <1>1, <1>2, <1>3, <1>4, <1>5, <1>6, <1>7, <1>8, <1>9, <1>10, <1>11, <1>12,
       <1>13, <1>14, <1>15, <1>16, <1>17, <1>18, <1>19, <1>20
    DEF Next, OrderStep, RequestStep

\* The invariant holds throughout.
LEMMA Invariance == Spec => []IInv
  <1>1 Init => IInv
    BY PoolAssumption
    DEF Init, IInv, TypeOK, LocksVouch, OneOrderPerCoupon, CouponsMatch, Holding,
        NoSweep, Idle, Row, Settled
  <1>2 IInv /\ [Next]_vars => IInv'
    BY TypeStep, LocksStep, MatchStep DEF IInv
  <1> QED
    BY <1>1, <1>2, PTL DEF Spec

-----------------------------------------------------------------------------
\* The theorems

\* Every reachable state is well typed.
THEOREM TypeCorrect == Spec => []TypeOK
  BY Invariance, PTL DEF IInv

\* The row locks of calculate(), releaseReservation(), confirmReservation() and the
\* sweep keep a coupon to one order, as long as no drill's row on it was swept.
THEOREM CouponServesOneOrder == Spec => []OneOrderPerCoupon
  BY Invariance, PTL DEF IInv

\* On the same condition the status of a coupon is the status of its reservation.
THEOREM CouponsAgree == Spec => []CouponsMatch
  BY Invariance, PTL DEF IInv

\* A settled reservation of an order keeps its status and a used coupon stays used: no
\* request or sweep writes back what it read before another one committed.
THEOREM SettledIsFinal == Spec => SettledStays
  <1>1 IInv /\ [Next]_vars => KeepsSettled
    <2> SUFFICES ASSUME IInv, [Next]_vars PROVE KeepsSettled
      BY DEF vars
    <2> USE PoolAssumption DEF IInv, TypeOK, LocksVouch, CouponsMatch, OneOrderPerCoupon, Holding,
             KeepsSettled, Settled, Row, couponVars, rowVars, requestVars, sweepVars, replenishVars
    <2>1 ASSUME NEW o \in Order, CalculateLocks(o) PROVE KeepsSettled
      BY <2>1 DEF CalculateLocks
    <2>2 ASSUME NEW o \in Order, CalculateReserves(o) PROVE KeepsSettled
      BY <2>2 DEF CalculateReserves
    <2>3 ASSUME NEW o \in Order, CalculateFails(o) PROVE KeepsSettled
      BY <2>3 DEF CalculateFails
    <2>4 ASSUME NEW o \in Order, Due(o) PROVE KeepsSettled
      BY <2>4 DEF Due
    <2>5 ASSUME NEW q \in Request, RequestLocks(q) PROVE KeepsSettled
      BY <2>5 DEF RequestLocks
    <2>6 ASSUME NEW q \in Request, Releases(q) PROVE KeepsSettled
      BY <2>6 DEF Releases, Settles
    <2>7 ASSUME NEW q \in Request, Confirms(q) PROVE KeepsSettled
      BY <2>7 DEF Confirms, Settles
    <2>8 ASSUME NEW q \in Request, RequestFails(q) PROVE KeepsSettled
      BY <2>8 DEF RequestFails
    <2>9 ASSUME SweepBegins PROVE KeepsSettled
      BY <2>9 DEF SweepBegins, Overdue
    <2>10 ASSUME SweepCommits PROVE KeepsSettled
      BY <2>10 DEF SweepCommits, SweepCommitsWith, NoSweep, SweptCoupons
    <2>11 ASSUME SweepFails PROVE KeepsSettled
      BY <2>11 DEF SweepFails, NoSweep
    <2>12 ASSUME NEW r \in Row, SweepLocks(r) PROVE KeepsSettled
      BY <2>12 DEF SweepLocks
    <2>13 ASSUME NEW d \in Drill, DrillPrepares(d) PROVE KeepsSettled
      BY <2>13 DEF DrillPrepares
    <2>14 ASSUME NEW d \in Drill, DrillRemoves(d) PROVE KeepsSettled
      BY <2>14 DEF DrillRemoves
    <2>15 ASSUME NEW w \in Window, ReplenishCounts(w) PROVE KeepsSettled
      BY <2>15 DEF ReplenishCounts, Claimable
    <2>16 ASSUME NEW w \in Window, ReplenishSkips(w) PROVE KeepsSettled
      BY <2>16 DEF ReplenishSkips, ReplenishCommits, Idle
    <2>17 ASSUME NEW w \in Window, ReplenishIssues(w) PROVE KeepsSettled
      BY <2>17 DEF ReplenishIssues, ReplenishCommits, Idle
    <2>18 ASSUME NEW w \in Window, ReplenishFails(w) PROVE KeepsSettled
      BY <2>18 DEF ReplenishFails, Idle
    <2>19 ASSUME NEW c \in Coupon, Lapse(c) PROVE KeepsSettled
      BY <2>19 DEF Lapse
    <2>20 CASE UNCHANGED vars
      BY <2>20 DEF vars
    <2> QED
      BY <2>1, <2>2, <2>3, <2>4, <2>5, <2>6, <2>7, <2>8, <2>9, <2>10, <2>11, <2>12,
         <2>13, <2>14, <2>15, <2>16, <2>17, <2>18, <2>19, <2>20
      DEF Next, OrderStep, RequestStep
  <1> QED
    BY <1>1, Invariance, PTL DEF Spec, SettledStays
=============================================================================
