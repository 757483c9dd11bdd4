------------------------------- MODULE CouponPool -------------------------------
\* The coupons of one customer and promotion, and the reservations on them
\* (promotion-service/.../service/PromotionService.java), beside the drill of
\* CouponReservationConsistencyService.java, which inserts a reservation of its own.
\* Transactions read with FOR UPDATE: what they have locked nobody else changes
\* before they commit. Customers and promotions share nothing; one stands for all.
EXTENDS Integers, FiniteSets

CONSTANTS
  Coupon,               \* coupons ever issued; bounds ReplenishIssues
  Issued,               \* those that exist at first
  Order,                \* orders with a coupon
  Drill,                \* runs of PROMOTION_LOCK_CONTENTION
  DrillCoupon,          \* the coupon that prepare() selects
  Request,              \* release and confirm requests
  Window,               \* windows of the replenishment schedule
  TargetAvailable,      \* targetAvailableCount
  ReplenishBelow,       \* replenishBelowCount
  MaxSweepFailures      \* bound on sweeps that roll back

ASSUME PoolAssumption ==
  /\ Order \cap Drill = {} /\ IsFiniteSet(Coupon)
  /\ DrillCoupon \in Issued /\ Issued \subseteq Coupon
  /\ TargetAvailable \in Nat \ {0} /\ ReplenishBelow \in 0..TargetAvailable
  /\ MaxSweepFailures \in Nat

Row == Order \cup Drill
Settled == {"USED", "RELEASED"}

VARIABLES
  coupon,               \* status of a coupon, "NONE" before it is issued
  lapsed,               \* coupons whose expire_at has passed
  wants,                \* wants[r]: coupon of the order or drill
  reservation,          \* status of the row of coupon_reservations
  due,                  \* rows whose expires_at has passed
  calculate,            \* calculate[o]: the first calculate() of the order
  asks,                 \* asks[q]: what request q asks for
  request,              \* request[q]: how far it is
  sweep,                \* rows that the sweep has found, and those whose coupon it locked
  batch,                \* batch[w] in coupon_issuance_batches
  replenish,            \* replenish[w]: the transaction in window w, and what it counted
  failures,             \* rolled-back sweeps
  drilled               \* history: coupons swept for the row of a drill

couponVars == <<coupon, lapsed>>
rowVars == <<wants, reservation, due>>
requestVars == <<asks, request>>
sweepVars == <<sweep, failures, drilled>>
replenishVars == <<batch, replenish>>
vars == <<couponVars, rowVars, calculate, requestVars, sweepVars, replenishVars>>

\* Besides the types: the sweep locks coupons of rows it has found, and no
\* transaction replenishes in a window that is completed.
TypeOK ==
  /\ coupon \in [Coupon -> {"NONE", "AVAILABLE", "RESERVED", "USED"}]
  /\ lapsed \subseteq Coupon
  /\ wants \in [Row -> Coupon]
  /\ reservation \in [Row -> {"NONE", "RESERVED", "DELETED"} \cup Settled]
  /\ due \subseteq Row
  /\ calculate \in [Order -> {"new", "locked", "done"}]
  /\ asks \in [Request -> [op : {"release", "confirm"}, order : Order]]
  /\ request \in [Request -> {"new", "locked", "done"}]
  /\ sweep \in [found : SUBSET Row, locked : SUBSET Row]
  /\ sweep.locked \subseteq sweep.found
  /\ batch \in [Window -> {"NONE", "COMPLETED"}]
  /\ replenish \in [Window -> [pc : {"idle", "counted"}, available : Nat]]
  /\ \A w \in Window : replenish[w].pc = "counted" => batch[w] = "NONE"
  /\ failures \in Nat
  /\ drilled \subseteq Coupon

Idle == [pc |-> "idle", available |-> 0]
NoSweep == [found |-> {}, locked |-> {}]

Init ==
  /\ coupon = [c \in Coupon |-> IF c \in Issued THEN "AVAILABLE" ELSE "NONE"]
  /\ lapsed = {}
  /\ wants \in [Row -> Coupon] /\ \A d \in Drill : wants[d] = DrillCoupon
  /\ reservation = [r \in Row |-> "NONE"]
  /\ due = {}
  /\ calculate = [o \in Order |-> "new"]
  /\ asks \in [Request -> [op : {"release", "confirm"}, order : Order]]
  /\ request = [q \in Request |-> "new"]
  /\ sweep = NoSweep
  /\ batch = [w \in Window |-> "NONE"]
  /\ replenish = [w \in Window |-> Idle]
  /\ failures = 0
  /\ drilled = {}

-----------------------------------------------------------------------------
\* Row locks of transactions between two statements

\* Defect: the coupon is read without a lock.
CouponAlwaysFree(c) == TRUE

CouponFree(c) ==
  /\ \A o \in Order : calculate[o] = "locked" => wants[o] # c
  /\ \A r \in sweep.locked : wants[r] # c

LockedByRequest(r) == \E q \in Request : request[q] = "locked" /\ asks[q].order = r

-----------------------------------------------------------------------------
\* calculate(): the Redis key promo:calc:<order> lets only the first call lock a
\* coupon, also after a rollback; a repeated call is a preview and changes nothing.

\* Ineligible coupons end the call with an error.
CalculateLocks(o) ==
  /\ calculate[o] = "new"
  /\ CouponFree(wants[o])
  /\ calculate' = [calculate EXCEPT ![o] =
       IF coupon[wants[o]] = "AVAILABLE" /\ wants[o] \notin lapsed THEN "locked" ELSE "done"]
  /\ UNCHANGED <<couponVars, rowVars, requestVars, sweepVars, replenishVars>>

CalculateReserves(o) ==
  /\ calculate[o] = "locked"
  /\ coupon' = [coupon EXCEPT ![wants[o]] = "RESERVED"]
  /\ reservation' = [reservation EXCEPT ![o] = "RESERVED"]
  /\ calculate' = [calculate EXCEPT ![o] = "done"]
  /\ UNCHANGED <<lapsed, wants, due, requestVars, sweepVars, replenishVars>>

\* No active promotion takes the coupon, or the transaction rolls back.
CalculateFails(o) ==
  /\ calculate[o] = "locked"
  /\ calculate' = [calculate EXCEPT ![o] = "done"]
  /\ UNCHANGED <<couponVars, rowVars, requestVars, sweepVars, replenishVars>>

-----------------------------------------------------------------------------
\* releaseReservation() and confirmReservation()

\* What the locked reservation must be for the request to write at all.
Proceeds(q) ==
  /\ reservation[asks[q].order] = "RESERVED"
  /\ asks[q].op = "confirm" => asks[q].order \notin due

RequestLocks(q) ==
  /\ request[q] = "new"
  /\ ~ LockedByRequest(asks[q].order)
  /\ asks[q].order \notin sweep.found
  /\ request' = [request EXCEPT ![q] = IF Proceeds(q) THEN "locked" ELSE "done"]
  /\ UNCHANGED <<couponVars, rowVars, calculate, asks, sweepVars, replenishVars>>

\* The coupon is locked, both rows are written, the transaction commits.
Settles(q, couponStatus, status) ==
  LET o == asks[q].order IN
  /\ request[q] = "locked"
  /\ CouponFree(wants[o])
  /\ coupon' = [coupon EXCEPT ![wants[o]] = couponStatus]
  /\ reservation' = [reservation EXCEPT ![o] = status]
  /\ request' = [request EXCEPT ![q] = "done"]
  /\ UNCHANGED <<lapsed, wants, due, calculate, asks, sweepVars, replenishVars>>

Releases(q) == asks[q].op = "release" /\ Settles(q, "AVAILABLE", "RELEASED")

Confirms(q) == asks[q].op = "confirm" /\ Settles(q, "USED", "USED")

RequestFails(q) ==
  /\ request[q] = "locked"
  /\ request' = [request EXCEPT ![q] = "done"]
  /\ UNCHANGED <<couponVars, rowVars, calculate, asks, sweepVars, replenishVars>>

-----------------------------------------------------------------------------
\* releaseExpiredReservations(), every minute

Overdue == {r \in due : reservation[r] = "RESERVED"}

\* Defect: the coupons' expiry is compared instead of the reservations'.
SweepBeginsByCoupon ==
  /\ sweep.found = {}
  /\ LET rows == {r \in Overdue : wants[r] \in lapsed} IN
     /\ rows # {} /\ \A r \in rows : ~ LockedByRequest(r)
     /\ sweep' = [found |-> rows, locked |-> {}]
  /\ UNCHANGED <<couponVars, rowVars, calculate, requestVars, failures, drilled, replenishVars>>

\* Defect: the rows are found without a lock.
SweepBeginsUnlocked ==
  /\ sweep.found = {} /\ Overdue # {}
  /\ sweep' = [found |-> Overdue, locked |-> {}]
  /\ UNCHANGED <<couponVars, rowVars, calculate, requestVars, failures, drilled, replenishVars>>

\* findExpiredForUpdate: waits for the rows' locks and takes them.
SweepBegins ==
  /\ sweep.found = {} /\ Overdue # {}
  /\ \A r \in Overdue : ~ LockedByRequest(r)
  /\ sweep' = [found |-> Overdue, locked |-> {}]
  /\ UNCHANGED <<couponVars, rowVars, calculate, requestVars, failures, drilled, replenishVars>>

SweepLocks(r) ==
  /\ r \in sweep.found \ sweep.locked
  /\ \A o \in Order : calculate[o] = "locked" => wants[o] # wants[r]
  /\ sweep' = [sweep EXCEPT !.locked = @ \cup {r}]
  /\ UNCHANGED <<couponVars, rowVars, calculate, requestVars, failures, drilled, replenishVars>>

SweptCoupons(rows) == {wants[r] : r \in rows}

SweepCommitsWith(freed) ==
  /\ sweep.found # {} /\ sweep.locked = sweep.found
  /\ coupon' = [c \in Coupon |-> IF c \in freed THEN "AVAILABLE" ELSE coupon[c]]
  /\ reservation' = [r \in Row |-> IF r \in sweep.found THEN "RELEASED" ELSE reservation[r]]
  /\ drilled' = drilled \cup SweptCoupons(sweep.found \cap Drill)
  /\ sweep' = NoSweep
  /\ UNCHANGED <<lapsed, wants, due, calculate, requestVars, failures, replenishVars>>

\* Defect: a coupon that has expired meanwhile is left RESERVED.
SweepCommitsUnlapsed ==
  SweepCommitsWith({c \in SweptCoupons(sweep.found) \ lapsed : coupon[c] = "RESERVED"})

\* Only a coupon that is RESERVED becomes available; every row found is RELEASED.
SweepCommits ==
  SweepCommitsWith({c \in SweptCoupons(sweep.found) : coupon[c] = "RESERVED"})

SweepFails ==
  /\ sweep.found # {} /\ failures < MaxSweepFailures
  /\ failures' = failures + 1
  /\ sweep' = NoSweep
  /\ UNCHANGED <<couponVars, rowVars, calculate, requestVars, drilled, replenishVars>>

-----------------------------------------------------------------------------
\* prepare() and removePreparedReservation() of the drill. Its own two transactions
\* only take locks and roll back: they make others wait or fail.

\* The row is inserted as expired, whatever the status of the coupon.
DrillPrepares(d) ==
  /\ reservation[d] = "NONE"
  /\ reservation' = [reservation EXCEPT ![d] = "RESERVED"]
  /\ due' = due \cup {d}
  /\ UNCHANGED <<couponVars, wants, calculate, requestVars, sweepVars, replenishVars>>

DrillRemoves(d) ==
  /\ reservation[d] \in {"RESERVED", "RELEASED"}
  /\ d \notin sweep.found
  /\ reservation' = [reservation EXCEPT ![d] = "DELETED"]
  /\ UNCHANGED <<couponVars, wants, due, calculate, requestVars, sweepVars, replenishVars>>

-----------------------------------------------------------------------------
\* replenishDemoCouponPool()

Available == {c \in Coupon : coupon[c] = "AVAILABLE" /\ c \notin lapsed}

\* Defect: a batch is claimed again after it was completed.
ClaimableAlways(w) == TRUE

\* INSERT IGNORE. A failed transaction leaves no batch, and FAILED is never written.
Claimable(w) == batch[w] = "NONE"

\* Up to the count. Transactions of one window exclude each other by the row of
\* traffic_replenishment_runs, which each writes first.
ReplenishCounts(w) ==
  /\ replenish[w].pc = "idle"
  /\ Claimable(w)
  /\ replenish' = [replenish EXCEPT ![w] = [pc |-> "counted", available |-> Cardinality(Available)]]
  /\ UNCHANGED <<couponVars, rowVars, calculate, requestVars, sweepVars, batch>>

ReplenishCommits(w) ==
  /\ replenish' = [replenish EXCEPT ![w] = Idle]
  /\ batch' = [batch EXCEPT ![w] = "COMPLETED"]

ReplenishSkips(w) ==
  /\ replenish[w].pc = "counted" /\ replenish[w].available >= ReplenishBelow
  /\ ReplenishCommits(w)
  /\ UNCHANGED <<couponVars, rowVars, calculate, requestVars, sweepVars>>

ReplenishIssues(w) ==
  /\ replenish[w].pc = "counted" /\ replenish[w].available < ReplenishBelow
  /\ \E new \in SUBSET {c \in Coupon : coupon[c] = "NONE"} :
       /\ Cardinality(new) = TargetAvailable - replenish[w].available
       /\ coupon' = [c \in Coupon |-> IF c \in new THEN "AVAILABLE" ELSE coupon[c]]
  /\ ReplenishCommits(w)
  /\ UNCHANGED <<lapsed, rowVars, calculate, requestVars, sweepVars>>

ReplenishFails(w) ==
  /\ replenish[w].pc = "counted"
  /\ replenish' = [replenish EXCEPT ![w] = Idle]
  /\ UNCHANGED <<couponVars, rowVars, calculate, requestVars, sweepVars, batch>>

-----------------------------------------------------------------------------
\* The clock

Due(o) ==
  /\ reservation[o] # "NONE" /\ o \notin due
  /\ due' = due \cup {o}
  /\ UNCHANGED <<couponVars, wants, reservation, calculate, requestVars, sweepVars, replenishVars>>

Lapse(c) ==
  /\ coupon[c] # "NONE" /\ c \notin lapsed
  /\ lapsed' = lapsed \cup {c}
  /\ UNCHANGED <<coupon, rowVars, calculate, requestVars, sweepVars, replenishVars>>

-----------------------------------------------------------------------------
OrderStep(o) == CalculateLocks(o) \/ CalculateReserves(o) \/ CalculateFails(o)
RequestStep(q) == RequestLocks(q) \/ Releases(q) \/ Confirms(q) \/ RequestFails(q)

Next ==
  \/ \E o \in Order : OrderStep(o) \/ Due(o)
  \/ \E q \in Request : RequestStep(q)
  \/ SweepBegins \/ SweepCommits \/ SweepFails
  \/ \E r \in Row : SweepLocks(r)
  \/ \E d \in Drill : DrillPrepares(d) \/ DrillRemoves(d)
  \/ \E w \in Window : \/ ReplenishCounts(w) \/ ReplenishSkips(w)
                       \/ ReplenishIssues(w) \/ ReplenishFails(w)
  \/ \E c \in Coupon : Lapse(c)

Spec == Init /\ [][Next]_vars

\* The scheduler runs the sweep again after every delay; a transaction goes on or is
\* rolled back, also by a lock wait that times out; time passes.
FairSpec ==
  /\ Spec
  /\ WF_vars(SweepBegins) /\ WF_vars(SweepCommits)
  /\ \A r \in Row : WF_vars(SweepLocks(r))
  /\ \A o \in Order : WF_vars(CalculateReserves(o) \/ CalculateFails(o)) /\ WF_vars(Due(o))
  /\ \A q \in Request : WF_vars(Releases(q) \/ Confirms(q) \/ RequestFails(q))

-----------------------------------------------------------------------------
\* Properties

Holding(c) == {o \in Order : wants[o] = c /\ reservation[o] \in {"RESERVED", "USED"}}

\* A coupon serves one order: no two orders hold or have used it, whatever
\* calculations, releases, confirmations and sweeps overlap. The coupons that a drill
\* has had swept are excepted.
OneOrderPerCoupon ==
  \A c \in Coupon \ drilled : \A o, p \in Holding(c) : o = p

\* Coupon and reservation agree: a coupon that is taken has an order that holds or has
\* used it, and an order that holds or has used a coupon has it taken.
CouponsMatch ==
  \A c \in Coupon \ drilled :
    /\ coupon[c] \in {"RESERVED", "USED"} => Holding(c) # {}
    /\ \A o \in Holding(c) : coupon[c] = reservation[o]

\* Unlike the inventory's, a settled reservation keeps its status, and a used coupon
\* without a drill is never offered again.
KeepsSettled ==
  /\ \A o \in Order : reservation[o] \in Settled => reservation'[o] = reservation[o]
  /\ \A c \in Coupon \ drilled' : coupon[c] = "USED" => coupon'[c] = "USED"
SettledStays == [][KeepsSettled]_vars

\* An order that is neither confirmed nor released does not keep its coupon for ever.
OverdueIsSwept == \A o \in Order : reservation[o] = "RESERVED" ~> reservation[o] \in Settled

\* traffic-control-plane/src/content/runbook/en/promotion-lock-contention.md:9 says that
\* the drill's reservation keeps unrelated customer coupons from being selected: no
\* step offers a coupon whose order still holds it.
HeldCouponStaysTaken ==
  \A c \in Coupon : Holding(c) # {} => coupon[c] # "AVAILABLE"
=============================================================================
