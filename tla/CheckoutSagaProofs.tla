--------------------------- MODULE CheckoutSagaProofs ---------------------------
\* What holds of orders, reservations and payments for any checkouts, requests, intents
\* and SKUs, and that the protocol keeps OrderPromise. The argument has three parts: the
\* unique key admits one checkout, the row lock of an order keeps it pending until its
\* holder decides, and what the catch block gives back is what was answered.
EXTENDS CheckoutSaga, TLAPS

\* A checkout that has not ended or met a refusal
Going == {"new", "looked", "frozen", "priced", "screened", "inserted", "consumed"}

\* What a checkout has reserved stays reserved until its order is placed, and after that
\* until a request about the order gives it back.
CheckoutHolds ==
  \A c \in Checkout :
    /\ checkout[c].pc \in Going => \A s \in checkout[c].skus : stock[c][s] = "RESERVED"
    /\ checkout[c].pc \in {"inserted", "consumed"} => checkout[c].skus = Sku
    /\ checkout[c].pc = "placed" =>
         c \in raced \/ \A s \in Sku : stock[c][s] \in {"RESERVED", "CONFIRMED"}

\* One checkout of a key is past its INSERT.
OnePastInsert ==
  \A c, d \in Checkout :
    /\ c # d /\ keyOf[c] = keyOf[d]
    /\ checkout[c].pc \in {"inserted", "consumed", "placed"}
    => checkout[d].pc \notin {"inserted", "consumed", "placed"}

\* A checkout that met no fault remembers what is reserved for it.
RemembersReserved ==
  /\ \A c \in Checkout : couponRow[c] = "RESERVED" => c \in WithCoupon
  /\ \A c \in Checkout \ faulty :
       /\ couponRow[c] = "RESERVED" => checkout[c].coupon
       /\ \A s \in Sku : stock[c][s] = "RESERVED" => s \in checkout[c].skus

\* A request is about an order that can be seen, a confirmation about that of its intent;
\* only a confirmation has an outcome, and SUCCESS was charged.
RequestsAreGrounded ==
  /\ \A p \in Payment : payment[p].status # "NONE" =>
       payment[p].order \in Order /\ status[payment[p].order] # "NONE"
  /\ \A q \in Op :
       /\ op[q].pc # "new" => status[OrderOf(q)] # "NONE"
       /\ Kind(q) = "pay" => OrderOf(q) = payment[Intent(q)].order
       /\ op[q].pc \in {"found", "used", "shipped", "settled"} => Kind(q) = "pay"
       /\ Kind(q) = "pay" /\ op[q].pc \in {"asked", "read", "locked", "used", "shipped", "settled"} =>
            op[q].outcome # "NONE"
       /\ op[q].outcome = "SUCCESS" => charges[Intent(q)] > 0

\* Who has the row of an order has it alone and finds it pending; who leaves it settled,
\* leaves it decided. What a successful confirmation has done stays done.
Holding == {"locked", "used", "shipped"}
RowLockVouches ==
  /\ \A q, r \in Op :
       op[q].pc \in Holding /\ op[r].pc \in Holding /\ OrderOf(q) = OrderOf(r) => q = r
  /\ \A q \in Op :
       /\ op[q].pc \in Holding => status[OrderOf(q)] = "PENDING_PAYMENT"
       /\ op[q].pc = "settled" => status[OrderOf(q)] \in {"PAID", "PAYMENT_FAILED"}
       /\ op[q].pc = "new" => op[q].skus = {}
       /\ Kind(q) = "pay" =>
            OrderOf(q) \in raced \/ \A s \in op[q].skus : stock[OrderOf(q)][s] = "CONFIRMED"
       /\ op[q].pc \in {"used", "shipped"} =>
            Succeeded(q) /\ op[q].skus = Sku /\ couponRow[OrderOf(q)] # "RESERVED"
       /\ op[q].pc = "shipped" => parcel[OrderOf(q)] # "NONE"

IInv ==
  /\ TypeOK /\ CheckoutHolds /\ OnePastInsert /\ RemembersReserved
  /\ RequestsAreGrounded /\ RowLockVouches
  /\ CleanAbort /\ OneOrderPerKey /\ PaidOrderIsBacked /\ SettledPaymentSettlesOrder

-----------------------------------------------------------------------------
\* What the three kinds of steps leave alone

\* A step of a checkout leaves the requests, payments and parcels alone.
LEMMA CheckoutFrame ==
  ASSUME NEW c \in Checkout, CheckoutStep(c) \/ Dies(c)
  PROVE  UNCHANGED <<edits, keyOf, overdue, parcel, payment, charges, asks, op, raced>>
  BY DEF CheckoutStep, LooksUp, Freezes, FreezeRefused, Prices, Screens, Reserves, Inserts,
         Consumes, Commits, StepRefused, Compensates, Dies,
         cartVars, rowVars, payVars, opVars

\* A step of a request about an order leaves the carts and checkouts alone.
LEMMA RequestFrame ==
  ASSUME NEW q \in Op, OpStep(q) \/ OpFails(q)
  PROVE  UNCHANGED <<cart, edits, freeze, keyOf, checkout, overdue, asks>>
  BY DEF OpStep, ReadsOrder, CancelReleasesCoupon, CancelSets, ExpireSets, ExpireCommits,
         ReleasesStock, ExpiresStock, ConfirmsStock, FindsPayment, Authorizes,
         ResultReadsOrder, ResultSets, UsesCoupon, Ships, ResultCommits, PaymentCommits,
         OpFails, cartVars, rowVars, opVars

Elsewhere ==
  \/ \E p \in Payment : CreatesIntent(p) \/ Refunds(p)
  \/ \E o \in Order : BecomesOverdue(o) \/ CouponSwept(o) \/ DeliveryConfirmed(o)
  \/ \E k \in Key : FreezeLapses(k)
  \/ EditsCart \/ UNCHANGED vars

\* What happens elsewhere leaves the rows of orders and stock alone.
LEMMA ElsewhereFrame ==
  ASSUME Elsewhere
  PROVE  UNCHANGED <<keyOf, checkout, status, stock, charges, asks, op, faults, faulty, raced>>
  BY DEF Elsewhere, CreatesIntent, Refunds, BecomesOverdue, CouponSwept, DeliveryConfirmed,
         FreezeLapses, EditsCart, vars, cartVars, rowVars, payVars, opVars, faultVars

\* Every step is one of these three kinds.
LEMMA Steps ==
  ASSUME [Next]_vars
  PROVE  \/ \E c \in Checkout : CheckoutStep(c) \/ Dies(c)
         \/ \E q \in Op : OpStep(q) \/ OpFails(q)
         \/ Elsewhere
  BY DEF Next, Elsewhere
-----------------------------------------------------------------------------
\* Types, one variable or group at a time

\* The state of a checkout stays typed.
LEMMA CheckoutTyped ==
  ASSUME TypeOK, NEW c \in Checkout, CheckoutStep(c) \/ Dies(c)
  PROVE  checkout' \in [Checkout -> CheckoutState]
  <1>a checkout \in [Checkout -> CheckoutState] /\ cart \in [version : Nat, full : BOOLEAN]
       /\ freeze \in [Key -> [token : Checkout \cup {None}, version : Nat]]
       /\ keyOf \in [Checkout -> Key \cup {None}]
    BY DEF TypeOK
  <1>b checkout[c].pc # "new" => keyOf[c] \in Key
    BY DEF TypeOK
  <1>c checkout[c] \in CheckoutState /\ cart.version \in Nat /\ cart.full \in BOOLEAN
    BY <1>a
  <1>1 CASE LooksUp(c)
    <2>1 PICK pc \in {"answered", "looked"} :
           checkout' = [checkout EXCEPT ![c].pc = pc, ![c].version = cart.version]
      BY <1>1 DEF LooksUp
    <2>2 [checkout[c] EXCEPT !.pc = pc, !.version = cart.version] \in CheckoutState
      BY <1>c DEF CheckoutState, Running, Ended
    <2> QED
      BY <2>1, <2>2, <1>a
  <1>2 CASE Freezes(c)
    <2>1 keyOf[c] \in Key
      BY <1>2, <1>b DEF Freezes, At
    <2>2 freeze[keyOf[c]].token \in Checkout \cup {None}
      BY <2>1, <1>a
    <2>3 FreezeToken(c) \in Checkout \cup {None}
      BY <2>2 DEF FreezeToken
    <2>4 [checkout[c] EXCEPT !.pc = "frozen", !.full = cart.full, !.token = FreezeToken(c)]
           \in CheckoutState
      BY <1>c, <2>3 DEF CheckoutState, Running, Ended
    <2>5 [checkout[c] EXCEPT !.pc = "refused"] \in CheckoutState
      BY <1>c DEF CheckoutState, Running, Ended
    <2> QED
      BY <1>2, <1>a, <2>4, <2>5 DEF Freezes, Goes
  <1>3 CASE FreezeRefused(c)
    BY <1>3, <1>a DEF FreezeRefused, Goes, CheckoutState, Running, Ended, At, Fallback
  <1>4 CASE Prices(c)
    <2>1 [checkout[c] EXCEPT !.pc = "priced", !.coupon = c \in WithCoupon] \in CheckoutState
      <3>1 \A b \in BOOLEAN : [checkout[c] EXCEPT !.pc = "priced", !.coupon = b] \in CheckoutState
        BY <1>c DEF CheckoutState, Running, Ended
      <3>2 (c \in WithCoupon) \in BOOLEAN
        BY SMT
      <3> QED
        BY <3>1, <3>2, Zenon
    <2>2 [checkout[c] EXCEPT !.pc = Fallback(c)] \in CheckoutState
      BY <1>c DEF CheckoutState, Running, Ended, Fallback
    <2> QED
      BY <1>4, <1>a, <2>1, <2>2 DEF Prices, Answered, Goes
  <1>5 CASE Screens(c)
    BY <1>5, <1>a DEF Screens, Goes, CheckoutState, Running, Ended, At, Fallback
  <1>6 ASSUME NEW s \in Sku, Reserves(c, s) PROVE checkout' \in [Checkout -> CheckoutState]
    BY <1>6, <1>a DEF Reserves, Answered, Goes, CheckoutState, Running, Ended, At, Fallback
  <1>7 CASE Inserts(c)
    BY <1>7, <1>a DEF Inserts, Goes, CheckoutState, Running, Ended, At, Fallback
  <1>8 CASE Consumes(c)
    BY <1>8, <1>a DEF Consumes, Answered, Goes, CheckoutState, Running, Ended, At, Fallback
  <1>9 CASE Commits(c)
    BY <1>9, <1>a DEF Commits, Goes, CheckoutState, Running, Ended, At, Fallback
  <1>10 CASE StepRefused(c)
    BY <1>10, <1>a DEF StepRefused, Goes, CheckoutState, Running, Ended, At, Fallback
  <1>11 CASE Compensates(c)
    BY <1>11, <1>a DEF Compensates, Goes, CheckoutState, Running, Ended, At, Fallback
  <1>12 CASE Dies(c)
    BY <1>12, <1>a DEF Dies, Goes, CheckoutState, Running, Ended, At, Fallback
  <1> QED
    BY <1>1, <1>2, <1>3, <1>4, <1>5, <1>6, <1>7, <1>8, <1>9, <1>10, <1>11, <1>12 DEF CheckoutStep

\* The state of a request stays typed.
LEMMA OpTyped ==
  ASSUME TypeOK, NEW q \in Op, OpStep(q) \/ OpFails(q)
  PROVE  op' \in [Op -> OpState]
  <1>a op \in [Op -> OpState]
    BY DEF TypeOK
  <1> USE <1>a DEF OpState, StepsTo
  <1>1 CASE ReadsOrder(q)
    BY <1>1 DEF ReadsOrder
  <1>2 CASE CancelReleasesCoupon(q)
    BY <1>2 DEF CancelReleasesCoupon
  <1>3 CASE CancelSets(q)
    BY <1>3 DEF CancelSets
  <1>4 CASE ExpireSets(q)
    BY <1>4 DEF ExpireSets
  <1>5 CASE ExpireCommits(q)
    BY <1>5 DEF ExpireCommits
  <1>6 ASSUME NEW s \in Sku, ReleasesStock(q, s) PROVE op' \in [Op -> OpState]
    BY <1>6 DEF ReleasesStock
  <1>7 ASSUME NEW s \in Sku, ExpiresStock(q, s) PROVE op' \in [Op -> OpState]
    BY <1>7 DEF ExpiresStock
  <1>8 ASSUME NEW s \in Sku, ConfirmsStock(q, s) PROVE op' \in [Op -> OpState]
    BY <1>8 DEF ConfirmsStock
  <1>9 CASE FindsPayment(q)
    BY <1>9 DEF FindsPayment
  <1>10 CASE Authorizes(q)
    BY <1>10 DEF Authorizes
  <1>11 CASE ResultReadsOrder(q)
    BY <1>11 DEF ResultReadsOrder
  <1>12 CASE ResultSets(q)
    BY <1>12 DEF ResultSets
  <1>13 CASE UsesCoupon(q)
    BY <1>13 DEF UsesCoupon, Succeeded
  <1>14 CASE Ships(q)
    BY <1>14 DEF Ships
  <1>15 CASE ResultCommits(q)
    BY <1>15 DEF ResultCommits
  <1>16 CASE PaymentCommits(q)
    BY <1>16 DEF PaymentCommits
  <1>17 CASE OpFails(q)
    BY <1>17 DEF OpFails
  <1> QED
    BY <1>1, <1>2, <1>3, <1>4, <1>5, <1>6, <1>7, <1>8, <1>9, <1>10, <1>11, <1>12, <1>13, <1>14, <1>15, <1>16, <1>17 DEF OpStep
-----------------------------------------------------------------------------
\* What a request does to what the services keep

\* Which requests decide an order.
LEMMA RequestStatus ==
  ASSUME NEW q \in Op, OpStep(q) \/ OpFails(q)
  PROVE  UNCHANGED status \/ CancelSets(q) \/ ExpireCommits(q) \/ ResultCommits(q)
  BY DEF OpStep, ReadsOrder, CancelReleasesCoupon, ExpireSets, ReleasesStock, ExpiresStock,
       ConfirmsStock, FindsPayment, Authorizes, ResultReadsOrder, ResultSets,
       UsesCoupon, Ships, PaymentCommits, OpFails

\* Stock leaves RESERVED for good, and by a cancellation or expiry only noted in raced.
LEMMA RequestStock ==
  ASSUME TypeOK, NEW q \in Op, OpStep(q) \/ OpFails(q)
  PROVE  \/ UNCHANGED <<stock, raced>>
         \/ \E s \in Sku, now \in {"RELEASED", "EXPIRED", "CONFIRMED"} :
              /\ op[q].pc # "new" /\ stock[OrderOf(q)][s] = "RESERVED"
              /\ stock' = [stock EXCEPT ![OrderOf(q)][s] = now]
              /\ raced' = IF now = "CONFIRMED" THEN raced ELSE raced \cup {OrderOf(q)}
  <1>1 \/ UNCHANGED <<stock, raced>>
       \/ \E s \in Sku : ReleasesStock(q, s) \/ ExpiresStock(q, s) \/ ConfirmsStock(q, s)
    BY DEF OpStep, rowVars, ReadsOrder, CancelReleasesCoupon, CancelSets, ExpireSets,
       ExpireCommits, FindsPayment, Authorizes, ResultReadsOrder, ResultSets,
       UsesCoupon, Ships, ResultCommits, PaymentCommits, OpFails
  <1>2 ASSUME NEW s \in Sku, ReleasesStock(q, s) \/ ExpiresStock(q, s)
       PROVE  \/ UNCHANGED <<stock, raced>>
              \/ /\ op[q].pc # "new" /\ stock[OrderOf(q)][s] = "RESERVED"
                 /\ \E now \in {"RELEASED", "EXPIRED"} : stock' = [stock EXCEPT ![OrderOf(q)][s] = now]
                 /\ raced' = raced \cup {OrderOf(q)}
    BY <1>2 DEF ReleasesStock, ExpiresStock
  <1>3 ASSUME NEW s \in Sku, ConfirmsStock(q, s)
       PROVE  \/ UNCHANGED <<stock, raced>>
              \/ /\ op[q].pc # "new" /\ stock[OrderOf(q)][s] = "RESERVED"
                 /\ stock' = [stock EXCEPT ![OrderOf(q)][s] = "CONFIRMED"]
                 /\ UNCHANGED raced
    <2>1 asks[q].order \in Order /\ stock \in [Order -> [Sku -> {"NONE", "RESERVED", "CONFIRMED", "RELEASED", "EXPIRED"}]]
      BY DEF TypeOK
    <2> QED
      BY <1>3, <2>1 DEF ConfirmsStock, OrderOf
  <1> QED
    BY <1>1, <1>2, <1>3

\* A request settles the coupon row of its own order.
LEMMA RequestCoupon ==
  ASSUME TypeOK, NEW q \in Op, OpStep(q) \/ OpFails(q)
  PROVE  \/ UNCHANGED couponRow
         \/ \E now \in {"RELEASED", "USED"} :
              /\ op[q].pc # "new" /\ couponRow[OrderOf(q)] = "RESERVED"
              /\ couponRow' = [couponRow EXCEPT ![OrderOf(q)] = now]
  <1>1 UNCHANGED couponRow \/ CancelReleasesCoupon(q) \/ ExpireCommits(q) \/ UsesCoupon(q)
    BY DEF OpStep, rowVars, ReadsOrder, CancelSets, ExpireSets, ReleasesStock, ExpiresStock,
       ConfirmsStock, FindsPayment, Authorizes, ResultReadsOrder, ResultSets, Ships,
       ResultCommits, PaymentCommits, OpFails
  <1>2 couponRow \in [Order -> {"NONE", "RESERVED", "USED", "RELEASED"}] /\ OrderOf(q) \in Order
    BY DEF TypeOK, OrderOf
  <1>3 CASE CancelReleasesCoupon(q)
    BY <1>2, <1>3 DEF CancelReleasesCoupon, StepsTo
  <1>4 CASE ExpireCommits(q)
    BY <1>2, <1>4 DEF ExpireCommits, StepsTo
  <1>5 CASE UsesCoupon(q)
    BY <1>2, <1>5 DEF UsesCoupon, StepsTo
  <1> QED
    BY <1>1, <1>3, <1>4, <1>5

\* Only shipping touches the parcels.
LEMMA RequestParcel ==
  ASSUME NEW q \in Op, OpStep(q) \/ OpFails(q)
  PROVE  UNCHANGED parcel \/ Ships(q)
  BY DEF OpStep, rowVars, ReadsOrder, CancelReleasesCoupon, CancelSets, ExpireSets, ExpireCommits, ReleasesStock,
       ExpiresStock, ConfirmsStock, FindsPayment, Authorizes, ResultReadsOrder, ResultSets,
       UsesCoupon, Ships, ResultCommits, PaymentCommits, OpFails

\* What a request does to payments and charges.
LEMMA RequestPayment ==
  ASSUME NEW q \in Op, OpStep(q) \/ OpFails(q)
  PROVE  /\ UNCHANGED payment \/ PaymentCommits(q)
         /\ UNCHANGED charges \/ charges' = [charges EXCEPT ![Intent(q)] = @ + 1]
  BY DEF OpStep, payVars, ReadsOrder, CancelReleasesCoupon, CancelSets, ExpireSets, ExpireCommits, ReleasesStock,
       ExpiresStock, ConfirmsStock, FindsPayment, Authorizes, ResultReadsOrder, ResultSets,
       UsesCoupon, Ships, ResultCommits, PaymentCommits, OpFails

\* What a request marks as hit by a fault is the order it is about.
LEMMA RequestFaults ==
  ASSUME NEW q \in Op, OpStep(q) \/ OpFails(q)
  PROVE  UNCHANGED faultVars \/ Fault(OrderOf(q))
  BY DEF OpStep, ReadsOrder, CancelReleasesCoupon, CancelSets, ExpireSets, ExpireCommits, ReleasesStock,
       ExpiresStock, ConfirmsStock, FindsPayment, Authorizes, ResultReadsOrder, ResultSets,
       UsesCoupon, Ships, ResultCommits, PaymentCommits, OpFails
-----------------------------------------------------------------------------
\* What a checkout does

\* Where a checkout may go from where it is; the others stay where they are.
LEMMA CheckoutPc ==
  ASSUME TypeOK, NEW c \in Checkout, CheckoutStep(c) \/ Dies(c)
  PROVE  /\ \A d \in Checkout \ {c} : checkout'[d] = checkout[d]
         /\ keyOf[c] \in Key
         /\ checkout[c].pc \in {"new"} \cup Running /\ checkout'[c].pc # "new"
         /\ checkout'[c].pc = "placed" => Commits(c)
         /\ checkout'[c].pc = "aborted" => Compensates(c)
         /\ checkout'[c].pc \in {"inserted", "consumed"} =>
              checkout[c].pc \in {"inserted", "consumed"}
              \/ (checkout'[c].pc = "inserted" /\ Inserts(c))
         /\ checkout'[c].pc \in Going => checkout[c].pc \in Going
         /\ checkout'[c].skus = checkout[c].skus \/ \E s \in Sku : Reserves(c, s)
         /\ checkout'[c].coupon = checkout[c].coupon \/ Prices(c)
         /\ checkout'[c].token = checkout[c].token \/ Freezes(c)
  <1>a checkout \in [Checkout -> CheckoutState] /\ keyOf \in [Checkout -> Key \cup {None}]
       /\ (checkout[c].pc # "new" => keyOf[c] \in Key)
    BY DEF TypeOK
  <1> DEFINE P == /\ \A d \in Checkout \ {c} : checkout'[d] = checkout[d]
                  /\ keyOf[c] \in Key
                  /\ checkout[c].pc \in {"new"} \cup Running /\ checkout'[c].pc # "new"
                  /\ checkout'[c].pc = "placed" => Commits(c)
                  /\ checkout'[c].pc = "aborted" => Compensates(c)
                  /\ checkout'[c].pc \in {"inserted", "consumed"} =>
                       checkout[c].pc \in {"inserted", "consumed"}
                       \/ (checkout'[c].pc = "inserted" /\ Inserts(c))
                  /\ checkout'[c].pc \in Going => checkout[c].pc \in Going
                  /\ checkout'[c].skus = checkout[c].skus \/ \E s \in Sku : Reserves(c, s)
                  /\ checkout'[c].coupon = checkout[c].coupon \/ Prices(c)
                  /\ checkout'[c].token = checkout[c].token \/ Freezes(c)
  <1> USE <1>a DEF CheckoutState, Running, Going, Goes, At, Fallback
  <1>1 ASSUME LooksUp(c) PROVE P
    BY <1>1 DEF LooksUp
  <1>2 ASSUME Freezes(c) PROVE P
    <2>1 checkout' = [checkout EXCEPT ![c] =
           [@ EXCEPT !.pc = "frozen", !.full = cart.full, !.token = FreezeToken(c)]]
         \/ checkout' = [checkout EXCEPT ![c].pc = "refused"]
      BY <1>2 DEF Freezes
    <2>2 /\ \A d \in Checkout \ {c} : checkout'[d] = checkout[d]
         /\ checkout'[c].pc \in {"frozen", "refused"}
         /\ checkout'[c].skus = checkout[c].skus /\ checkout'[c].coupon = checkout[c].coupon
      <3>1 CASE checkout' = [checkout EXCEPT ![c] =
             [@ EXCEPT !.pc = "frozen", !.full = cart.full, !.token = FreezeToken(c)]]
        <4>1 checkout'[c] = [checkout[c] EXCEPT !.pc = "frozen", !.full = cart.full, !.token = FreezeToken(c)]
          BY <3>1
        <4>2 \A d \in Checkout \ {c} : checkout'[d] = checkout[d]
          BY <3>1
        <4> QED
          BY <4>1, <4>2
      <3>2 CASE checkout' = [checkout EXCEPT ![c].pc = "refused"]
        BY <3>2
      <3> QED
        BY <2>1, <3>1, <3>2
    <2>3 checkout[c].pc = "looked"
      BY <1>2 DEF Freezes
    <2> QED
      BY <1>2, <2>2, <2>3
  <1>3 ASSUME FreezeRefused(c) PROVE P
    BY <1>3 DEF FreezeRefused
  <1>4 ASSUME Prices(c) PROVE P
    <2>1 checkout' = [checkout EXCEPT ![c] = [checkout[c] EXCEPT !.pc = "priced", !.coupon = c \in WithCoupon]]
         \/ checkout' = [checkout EXCEPT ![c].pc = "aborting"]
      BY <1>4 DEF Prices, Answered
    <2>2 /\ \A d \in Checkout \ {c} : checkout'[d] = checkout[d]
         /\ checkout'[c].pc \in {"priced", "aborting"}
         /\ checkout'[c].skus = checkout[c].skus /\ checkout'[c].token = checkout[c].token
      <3>1 CASE checkout' = [checkout EXCEPT ![c] = [checkout[c] EXCEPT !.pc = "priced", !.coupon = c \in WithCoupon]]
        <4>1 checkout'[c] = [checkout[c] EXCEPT !.pc = "priced", !.coupon = c \in WithCoupon]
          BY <3>1
        <4>2 \A d \in Checkout \ {c} : checkout'[d] = checkout[d]
          BY <3>1
        <4> QED
          BY <4>1, <4>2
      <3>2 CASE checkout' = [checkout EXCEPT ![c].pc = "aborting"]
        BY <3>2
      <3> QED
        BY <2>1, <3>1, <3>2
    <2>3 checkout[c].pc = "frozen"
      BY <1>4 DEF Prices
    <2> QED
      BY <1>4, <2>2, <2>3
  <1>5 ASSUME Screens(c) PROVE P
    BY <1>5 DEF Screens
  <1>6 ASSUME NEW s \in Sku, Reserves(c, s) PROVE P
    <2>1 checkout' = [checkout EXCEPT ![c] = [checkout[c] EXCEPT !.skus = @ \cup {s}]]
         \/ checkout' = [checkout EXCEPT ![c].pc = "aborting"]
      BY <1>6 DEF Reserves, Answered
    <2>2 /\ \A d \in Checkout \ {c} : checkout'[d] = checkout[d]
         /\ checkout'[c].pc \in {checkout[c].pc, "aborting"}
         /\ checkout'[c].coupon = checkout[c].coupon /\ checkout'[c].token = checkout[c].token
      BY <2>1
    <2>3 checkout[c].pc = "screened"
      BY <1>6 DEF Reserves
    <2> QED
      BY <1>6, <2>2, <2>3
  <1>7 ASSUME Inserts(c) PROVE P
    BY <1>7 DEF Inserts
  <1>8 ASSUME Consumes(c) PROVE P
    <2>1 checkout' = [checkout EXCEPT ![c] = [checkout[c] EXCEPT !.pc = "consumed"]]
         \/ checkout' = [checkout EXCEPT ![c].pc = "rolling"]
      BY <1>8 DEF Consumes, Answered
    <2>2 /\ \A d \in Checkout \ {c} : checkout'[d] = checkout[d]
         /\ checkout'[c].pc \in {"consumed", "rolling"} /\ checkout'[c].skus = checkout[c].skus
         /\ checkout'[c].coupon = checkout[c].coupon /\ checkout'[c].token = checkout[c].token
      BY <2>1
    <2>3 checkout[c].pc = "inserted"
      BY <1>8 DEF Consumes
    <2> QED
      BY <2>2, <2>3
  <1>9 ASSUME Commits(c) PROVE P
    BY <1>9 DEF Commits
  <1>10 ASSUME StepRefused(c) PROVE P
    BY <1>10 DEF StepRefused
  <1>11 ASSUME Compensates(c) PROVE P
    BY <1>11 DEF Compensates
  <1>12 ASSUME Dies(c) PROVE P
    BY <1>12 DEF Dies
  <1> HIDE DEF P
  <1>13 P
    BY <1>1, <1>2, <1>3, <1>4, <1>5, <1>6, <1>7, <1>8, <1>9, <1>10, <1>11, <1>12 DEF CheckoutStep
  <1> HIDE <1>a DEF CheckoutState, Running, Going, Goes, At, Fallback
  <1> QED
    BY <1>13 DEF P

\* Only the commit makes an order visible.
LEMMA CheckoutStatus ==
  ASSUME NEW c \in Checkout, CheckoutStep(c) \/ Dies(c)
  PROVE  UNCHANGED status \/ Commits(c)
  BY DEF CheckoutStep, LooksUp, Freezes, FreezeRefused, Prices, Screens, Reserves, Inserts,
       Consumes, StepRefused, Compensates, Dies

\* Of a checkout only reserving and the catch block change the stock.
LEMMA CheckoutStockBy ==
  ASSUME NEW c \in Checkout, CheckoutStep(c) \/ Dies(c)
  PROVE  UNCHANGED stock \/ Compensates(c) \/ \E s \in Sku : Reserves(c, s)
  BY DEF CheckoutStep, rowVars, LooksUp, Freezes, FreezeRefused, Prices, Screens, Inserts,
         Consumes, Commits, StepRefused, Dies

\* A checkout changes the reservations of its own order only.
LEMMA CheckoutStock ==
  ASSUME TypeOK, NEW c \in Checkout, CheckoutStep(c) \/ Dies(c)
  PROVE  \E row \in [Sku -> {"NONE", "RESERVED", "CONFIRMED", "RELEASED", "EXPIRED"}] :
           stock' = [stock EXCEPT ![c] = row]
  <1>a stock \in [Order -> [Sku -> {"NONE", "RESERVED", "CONFIRMED", "RELEASED", "EXPIRED"}]]
    BY DEF TypeOK
  <1>1 UNCHANGED stock \/ Compensates(c) \/ \E s \in Sku : Reserves(c, s)
    BY CheckoutStockBy
  <1>2 CASE UNCHANGED stock
    BY <1>a, <1>2 DEF Order
  <1>3 CASE Compensates(c)
    <2>1 PICK skus : stock' = [stock EXCEPT ![c] =
           [s \in Sku |-> IF s \in skus /\ @[s] = "RESERVED" THEN "RELEASED" ELSE @[s]]]
      BY <1>3 DEF Compensates, GivesBack
    <2> QED
      BY <1>a, <2>1 DEF Order
  <1>4 ASSUME NEW s \in Sku, Reserves(c, s)
       PROVE  \E row \in [Sku -> {"NONE", "RESERVED", "CONFIRMED", "RELEASED", "EXPIRED"}] :
                stock' = [stock EXCEPT ![c] = row]
    BY <1>a, <1>4 DEF Reserves, Order
  <1> QED
    BY <1>1, <1>2, <1>3, <1>4

\* Of a checkout only pricing and the catch block change its coupon.
LEMMA CheckoutCouponBy ==
  ASSUME NEW c \in Checkout, CheckoutStep(c) \/ Dies(c)
  PROVE  UNCHANGED couponRow \/ Prices(c) \/ Compensates(c)
  BY DEF CheckoutStep, rowVars, LooksUp, Freezes, FreezeRefused, Screens, Reserves, Inserts,
         Consumes, Commits, StepRefused, Dies

\* Of a checkout only freezing, its end and the catch block change the freeze of the cart.
LEMMA CheckoutFreezeBy ==
  ASSUME NEW c \in Checkout, CheckoutStep(c) \/ Dies(c)
  PROVE  \/ UNCHANGED freeze \/ Freezes(c)
         \/ freeze' = [freeze EXCEPT ![keyOf[c]] = NoFreeze]
         \/ Compensates(c)
  BY DEF CheckoutStep, cartVars, LooksUp, FreezeRefused, Prices, Screens, Reserves, Inserts,
         Consumes, Commits, StepRefused, Dies

\* A checkout changes no coupon but its own, and leaves it reserved, released or as it was.
LEMMA CheckoutCoupon ==
  ASSUME NEW c \in Checkout, CheckoutStep(c) \/ Dies(c)
  PROVE  UNCHANGED couponRow
         \/ \E now \in {couponRow[c], "RESERVED", "RELEASED"} : couponRow' = [couponRow EXCEPT ![c] = now]
  BY DEF CheckoutStep, rowVars, GivesBack, LooksUp, Freezes, FreezeRefused, Prices, Screens, Reserves, Inserts, Consumes,
       Commits, StepRefused, Compensates, Dies

\* What a checkout marks as hit by a fault is itself.
LEMMA CheckoutFaults ==
  ASSUME NEW c \in Checkout, CheckoutStep(c) \/ Dies(c)
  PROVE  UNCHANGED faultVars \/ Fault(c)
  BY DEF CheckoutStep, Answered, LooksUp, Freezes, FreezeRefused, Prices, Screens, Reserves, Inserts, Consumes,
       Commits, StepRefused, Compensates, Dies

\* A checkout keeps the cart and its freezes well typed.
LEMMA CheckoutCart ==
  ASSUME TypeOK, NEW c \in Checkout, CheckoutStep(c) \/ Dies(c)
  PROVE  /\ cart' \in [version : Nat, full : BOOLEAN]
         /\ freeze' \in [Key -> [token : Checkout \cup {None}, version : Nat]]
  <1>a cart \in [version : Nat, full : BOOLEAN]
       /\ freeze \in [Key -> [token : Checkout \cup {None}, version : Nat]]
    BY DEF TypeOK
  <1>b keyOf[c] \in Key
    BY CheckoutPc
  <1>1 UNCHANGED <<cart, freeze>> \/ Freezes(c) \/ Consumes(c) \/ Compensates(c)
    BY DEF CheckoutStep, cartVars, LooksUp, FreezeRefused, Prices, Screens, Reserves, Inserts,
         Commits, StepRefused, Dies
  <1>2 CASE Freezes(c)
    BY <1>a, <1>b, <1>2 DEF Freezes, FreezeToken
  <1>3 CASE Consumes(c)
    BY <1>a, <1>b, <1>3 DEF Consumes, NoFreeze
  <1>4 CASE Compensates(c)
    BY <1>a, <1>b, <1>4 DEF Compensates, GivesBack, NoFreeze
  <1> QED
    BY <1>a, <1>1, <1>2, <1>3, <1>4
-----------------------------------------------------------------------------
\* Types

\* A checkout keeps the state well typed.
LEMMA CheckoutTypes ==
  ASSUME TypeOK, NEW c \in Checkout, CheckoutStep(c) \/ Dies(c)
  PROVE  TypeOK'
  <1>1 checkout' \in [Checkout -> CheckoutState]
    BY CheckoutTyped
  <1>2 UNCHANGED <<edits, keyOf, overdue, parcel, payment, charges, asks, op, raced>>
    BY CheckoutFrame
  <1>3 \A d \in Checkout : checkout'[d].pc # "new" => keyOf[d] \in Key
    BY CheckoutPc DEF TypeOK
  <1>4 /\ status' \in [Order -> {"NONE", "PENDING_PAYMENT", "PAID", "PAYMENT_FAILED", "CANCELLED"}]
       /\ \A o \in Order : status'[o] # "NONE" <=> checkout'[o].pc = "placed"
    <2>a /\ status \in [Order -> {"NONE", "PENDING_PAYMENT", "PAID", "PAYMENT_FAILED", "CANCELLED"}]
         /\ \A o \in Order : status[o] # "NONE" <=> checkout[o].pc = "placed"
         /\ checkout \in [Checkout -> CheckoutState]
      BY DEF TypeOK
    <2>b /\ \A d \in Checkout \ {c} : checkout'[d] = checkout[d]
         /\ checkout[c].pc \in {"new"} \cup Running
         /\ checkout'[c].pc = "placed" => Commits(c)
      BY CheckoutPc
    <2>1 CASE Commits(c)
      BY <2>a, <2>b, <2>1 DEF Commits, Goes, CheckoutState, Order
    <2>2 CASE UNCHANGED status /\ ~ Commits(c)
      BY <2>a, <2>b, <2>2 DEF Order, Running
    <2> QED
      BY <2>1, <2>2, CheckoutStatus
  <1>5 stock' \in [Order -> [Sku -> {"NONE", "RESERVED", "CONFIRMED", "RELEASED", "EXPIRED"}]]
    BY CheckoutStock DEF TypeOK, Order
  <1>6 couponRow' \in [Order -> {"NONE", "RESERVED", "USED", "RELEASED"}]
    <2>1 couponRow \in [Order -> {"NONE", "RESERVED", "USED", "RELEASED"}]
      BY DEF TypeOK
    <2> QED
      BY <2>1, CheckoutCoupon DEF Order
  <1>7 faults' \in 0..MaxFaults /\ faulty' \subseteq Order
    BY CheckoutFaults, SagaAssumption DEF TypeOK, Fault, faultVars, Order
  <1>8 /\ cart' \in [version : Nat, full : BOOLEAN]
       /\ freeze' \in [Key -> [token : Checkout \cup {None}, version : Nat]]
    BY CheckoutCart
  <1> QED
    BY <1>1, <1>2, <1>3, <1>4, <1>5, <1>6, <1>7, <1>8 DEF TypeOK

\* A request about an order keeps the state well typed.
LEMMA RequestTypes ==
  ASSUME TypeOK, RequestsAreGrounded, NEW q \in Op, OpStep(q) \/ OpFails(q)
  PROVE  TypeOK'
  <1>1 UNCHANGED <<cart, edits, freeze, keyOf, checkout, overdue, asks>>
    BY RequestFrame
  <1>2 op' \in [Op -> OpState]
    BY OpTyped
  <1>3 OrderOf(q) \in Order /\ Intent(q) \in Payment /\ (op[q].pc # "new" => status[OrderOf(q)] # "NONE")
    BY DEF TypeOK, OrderOf, Intent, RequestsAreGrounded
  <1>a /\ status \in [Order -> {"NONE", "PENDING_PAYMENT", "PAID", "PAYMENT_FAILED", "CANCELLED"}]
       /\ stock \in [Order -> [Sku -> {"NONE", "RESERVED", "CONFIRMED", "RELEASED", "EXPIRED"}]]
       /\ couponRow \in [Order -> {"NONE", "RESERVED", "USED", "RELEASED"}]
       /\ parcel \in [Order -> {"NONE", "SHIPPED", "COMPLETED"}]
       /\ charges \in [Payment -> Nat] /\ raced \subseteq Order
    BY DEF TypeOK
  <1>4 /\ status' \in [Order -> {"NONE", "PENDING_PAYMENT", "PAID", "PAYMENT_FAILED", "CANCELLED"}]
       /\ \A o \in Order : status'[o] # "NONE" <=> status[o] # "NONE"
    <2>1 \/ UNCHANGED status
         \/ /\ op[q].pc # "new"
            /\ \E now \in {"PAID", "PAYMENT_FAILED", "CANCELLED", status[OrderOf(q)]} : status' = [status EXCEPT ![OrderOf(q)] = now]
      BY RequestStatus DEF CancelSets, ExpireCommits, ResultCommits, StepsTo
    <2>2 CASE UNCHANGED status
      BY <1>a, <2>2
    <2>3 ASSUME NEW now \in {"PAID", "PAYMENT_FAILED", "CANCELLED", status[OrderOf(q)]}, op[q].pc # "new",
                status' = [status EXCEPT ![OrderOf(q)] = now]
         PROVE  /\ status' \in [Order -> {"NONE", "PENDING_PAYMENT", "PAID", "PAYMENT_FAILED", "CANCELLED"}]
                /\ \A o \in Order : status'[o] # "NONE" <=> status[o] # "NONE"
      BY <1>a, <1>3, <2>3
    <2> QED
      BY <2>1, <2>2, <2>3
  <1>5 /\ stock' \in [Order -> [Sku -> {"NONE", "RESERVED", "CONFIRMED", "RELEASED", "EXPIRED"}]]
       /\ raced' \subseteq Order
    <2>1 CASE UNCHANGED <<stock, raced>>
      BY <2>1, <1>a
    <2>2 ASSUME NEW s \in Sku, NEW now \in {"RELEASED", "EXPIRED", "CONFIRMED"},
                stock' = [stock EXCEPT ![OrderOf(q)][s] = now],
                raced' = IF now = "CONFIRMED" THEN raced ELSE raced \cup {OrderOf(q)}
         PROVE  /\ stock' \in [Order -> [Sku -> {"NONE", "RESERVED", "CONFIRMED", "RELEASED", "EXPIRED"}]]
                /\ raced' \subseteq Order
      BY <2>2, <1>a, <1>3
    <2> QED
      BY <2>1, <2>2, RequestStock
  <1>6 couponRow' \in [Order -> {"NONE", "RESERVED", "USED", "RELEASED"}]
    BY <1>a, <1>3, RequestCoupon
  <1>7 parcel' \in [Order -> {"NONE", "SHIPPED", "COMPLETED"}]
    BY <1>a, <1>3, RequestParcel DEF Ships
  <1>8 charges' \in [Payment -> Nat] /\ \A p \in Payment : charges'[p] >= charges[p]
    BY <1>a, <1>3, RequestPayment
  <1>9 /\ payment' \in [Payment -> PaymentState]
       /\ \A p \in Payment : payment'[p].status \in {"SUCCESS", "REFUNDED"} => charges[p] > 0
    <2>a /\ payment \in [Payment -> PaymentState] /\ op \in [Op -> OpState]
         /\ \A p \in Payment : payment[p].status \in {"SUCCESS", "REFUNDED"} => charges[p] > 0
      BY DEF TypeOK
    <2>1 CASE UNCHANGED payment
      BY <2>a, <2>1
    <2>2 CASE PaymentCommits(q)
      <3>1 op[q].outcome \in {"SUCCESS", "FAILED"} /\ (op[q].outcome = "SUCCESS" => charges[Intent(q)] > 0)
        BY <2>a, <2>2 DEF PaymentCommits, StepsTo, RequestsAreGrounded, OpState
      <3>2 payment' = [payment EXCEPT ![Intent(q)].status = op[q].outcome]
        BY <2>2 DEF PaymentCommits, SetPayment
      <3> QED
        BY <1>3, <2>a, <3>1, <3>2 DEF PaymentState
    <2> QED
      BY <2>1, <2>2, RequestPayment
  <1>10 faults' \in 0..MaxFaults /\ faulty' \subseteq Order
    BY <1>3, RequestFaults, SagaAssumption DEF TypeOK, Fault, faultVars
  <1>11 \A r \in Op : op'[r].outcome # "NONE" => asks[r].kind = "pay"
    <2>a op \in [Op -> OpState] /\ \A r \in Op : op[r].outcome # "NONE" => asks[r].kind = "pay"
      BY DEF TypeOK
    <2>1 op[q].pc = "found" => asks[q].kind = "pay"
      BY DEF RequestsAreGrounded, Kind
    <2>2 \A r \in Op : op'[r].outcome = op[r].outcome \/ (r = q /\ op[q].pc = "found")
      <3> USE <2>a DEF OpState, StepsTo
      <3>1 CASE ReadsOrder(q)
        BY <3>1 DEF ReadsOrder
      <3>2 CASE CancelReleasesCoupon(q)
        BY <3>2 DEF CancelReleasesCoupon
      <3>3 CASE CancelSets(q)
        BY <3>3 DEF CancelSets
      <3>4 CASE ExpireSets(q)
        BY <3>4 DEF ExpireSets
      <3>5 CASE ExpireCommits(q)
        BY <3>5 DEF ExpireCommits
      <3>6 ASSUME NEW s \in Sku, ReleasesStock(q, s) PROVE \A r \in Op : op'[r].outcome = op[r].outcome \/ (r = q /\ op[q].pc = "found")
        BY <3>6 DEF ReleasesStock
      <3>7 ASSUME NEW s \in Sku, ExpiresStock(q, s) PROVE \A r \in Op : op'[r].outcome = op[r].outcome \/ (r = q /\ op[q].pc = "found")
        BY <3>7 DEF ExpiresStock
      <3>8 ASSUME NEW s \in Sku, ConfirmsStock(q, s) PROVE \A r \in Op : op'[r].outcome = op[r].outcome \/ (r = q /\ op[q].pc = "found")
        BY <3>8 DEF ConfirmsStock
      <3>9 CASE FindsPayment(q)
        BY <3>9 DEF FindsPayment
      <3>10 CASE Authorizes(q)
        BY <3>10 DEF Authorizes
      <3>11 CASE ResultReadsOrder(q)
        BY <3>11 DEF ResultReadsOrder
      <3>12 CASE ResultSets(q)
        BY <3>12 DEF ResultSets
      <3>13 CASE UsesCoupon(q)
        BY <3>13 DEF UsesCoupon
      <3>14 CASE Ships(q)
        BY <3>14 DEF Ships
      <3>15 CASE ResultCommits(q)
        BY <3>15 DEF ResultCommits
      <3>16 CASE PaymentCommits(q)
        BY <3>16 DEF PaymentCommits
      <3>17 CASE OpFails(q)
        BY <3>17 DEF OpFails
      <3> QED
        BY <3>1, <3>2, <3>3, <3>4, <3>5, <3>6, <3>7, <3>8, <3>9, <3>10, <3>11, <3>12, <3>13, <3>14, <3>15, <3>16, <3>17 DEF OpStep
    <2> QED
      BY <1>2, <2>a, <2>1, <2>2
  <1>12 \A p \in Payment : payment'[p].status \in {"SUCCESS", "REFUNDED"} => charges'[p] > 0
    BY <1>8, <1>9 DEF TypeOK
  <1> QED
    BY <1>1, <1>2, <1>4, <1>5, <1>6, <1>7, <1>8, <1>9, <1>10, <1>11, <1>12 DEF TypeOK, Order

\* What happens beside checkouts and requests keeps the state well typed.
LEMMA ElsewhereTypes ==
  ASSUME TypeOK, RequestsAreGrounded, Elsewhere
  PROVE  TypeOK'
  <1>1 UNCHANGED <<keyOf, checkout, status, stock, charges, asks, op, faults, faulty, raced>>
    BY ElsewhereFrame
  <1>2 ASSUME NEW p \in Payment, CreatesIntent(p) \/ Refunds(p) PROVE TypeOK'
    <2>1 /\ payment' \in [Payment -> PaymentState]
         /\ \A r \in Payment : payment'[r].status \in {"SUCCESS", "REFUNDED"} => charges[r] > 0
      <3>1 /\ payment \in [Payment -> PaymentState]
           /\ \A r \in Payment : payment[r].status \in {"SUCCESS", "REFUNDED"} => charges[r] > 0
        BY DEF TypeOK
      <3> QED
        BY <1>2, <3>1 DEF CreatesIntent, Refunds, SetPayment, PaymentState
    <2> QED
      BY <1>1, <1>2, <2>1 DEF TypeOK, CreatesIntent, Refunds, cartVars, rowVars
  <1>3 ASSUME NEW o \in Order, BecomesOverdue(o) \/ CouponSwept(o) \/ DeliveryConfirmed(o) PROVE TypeOK'
    <2>1 CASE BecomesOverdue(o)
      BY <1>1, <2>1 DEF TypeOK, BecomesOverdue, cartVars, payVars
    <2>2 CASE CouponSwept(o)
      BY <1>1, <2>2 DEF TypeOK, CouponSwept, cartVars, payVars
    <2>3 CASE DeliveryConfirmed(o)
      BY <1>1, <2>3 DEF TypeOK, DeliveryConfirmed, cartVars, payVars
    <2> QED
      BY <1>3, <2>1, <2>2, <2>3
  <1>4 ASSUME NEW k \in Key, FreezeLapses(k) PROVE TypeOK'
    BY <1>1, <1>4 DEF TypeOK, FreezeLapses, NoFreeze, rowVars, payVars
  <1>5 ASSUME EditsCart PROVE TypeOK'
    BY <1>1, <1>5, SagaAssumption DEF TypeOK, EditsCart, rowVars, payVars
  <1>6 CASE UNCHANGED vars
    BY <1>1, <1>6 DEF TypeOK, vars, cartVars, rowVars, payVars
  <1> QED
    BY <1>2, <1>3, <1>4, <1>5, <1>6 DEF Elsewhere

\* Every step keeps the state well typed.
LEMMA TypeStep ==
  ASSUME TypeOK, RequestsAreGrounded, [Next]_vars
  PROVE  TypeOK'
  BY Steps, CheckoutTypes, RequestTypes, ElsewhereTypes

-----------------------------------------------------------------------------
\* A checkout and what it has reserved

\* CheckoutHolds is kept by every step.
LEMMA HoldsStep ==
  ASSUME TypeOK, CheckoutHolds, RequestsAreGrounded, [Next]_vars
  PROVE  CheckoutHolds'
  <1>a /\ checkout \in [Checkout -> CheckoutState]
       /\ stock \in [Order -> [Sku -> {"NONE", "RESERVED", "CONFIRMED", "RELEASED", "EXPIRED"}]]
       /\ \A o \in Order : status[o] # "NONE" <=> checkout[o].pc = "placed"
    BY DEF TypeOK
  <1>1 ASSUME NEW c \in Checkout, CheckoutStep(c) \/ Dies(c) PROVE CheckoutHolds'
    <2>1 /\ \A d \in Checkout \ {c} : checkout'[d] = checkout[d] /\ stock'[d] = stock[d]
         /\ raced' = raced
      BY <1>1, <1>a, CheckoutPc, CheckoutStock, CheckoutFrame DEF Order
    <2> DEFINE Holds == /\ checkout'[c].pc \in Going => \A s \in checkout'[c].skus : stock'[c][s] = "RESERVED"
                        /\ checkout'[c].pc \in {"inserted", "consumed"} => checkout'[c].skus = Sku
                        /\ checkout'[c].pc = "placed" =>
                             c \in raced \/ \A s \in Sku : stock'[c][s] \in {"RESERVED", "CONFIRMED"}
    <2>2 ASSUME Compensates(c) PROVE Holds
      BY <2>1, <2>2, <1>a DEF Compensates, Goes, CheckoutHolds, CheckoutState, Going
    <2>3 ASSUME NEW s \in Sku, Reserves(c, s) PROVE Holds
      <3>1 stock'[c] = [stock[c] EXCEPT ![s] = "RESERVED"] /\ checkout[c].pc = "screened"
        BY <2>3, <1>a DEF Reserves, At, Order
      <3>2 /\ checkout'[c].pc \in {"screened", "aborting"}
           /\ checkout'[c].skus \in {checkout[c].skus, checkout[c].skus \cup {s}}
        BY <2>3, <1>a DEF Reserves, Answered, Goes, Fallback, At, CheckoutState
      <3> QED
        BY <3>1, <3>2, <1>a DEF CheckoutHolds, Going, CheckoutState, Order
    <2>4 ASSUME UNCHANGED stock, ~ \E s \in Sku : Reserves(c, s) PROVE Holds
      <3>1 /\ checkout'[c].pc = "placed" => checkout[c].pc = "consumed"
           /\ checkout'[c].pc \in {"inserted", "consumed"} =>
                checkout[c].pc \in {"inserted", "consumed"} \/ checkout[c].skus = Sku
           /\ checkout'[c].pc \in Going => checkout[c].pc \in Going
           /\ checkout'[c].skus = checkout[c].skus
        BY <1>1, <2>4, CheckoutPc DEF Commits, Inserts, At
      <3>2 /\ checkout[c].pc \in Going => \A s \in checkout[c].skus : stock'[c][s] = "RESERVED"
           /\ checkout[c].pc \in {"inserted", "consumed"} => checkout[c].skus = Sku
        BY <2>4 DEF CheckoutHolds
      <3>3 checkout'[c].pc \in Going => \A s \in checkout'[c].skus : stock'[c][s] = "RESERVED"
        BY <3>1, <3>2
      <3>4 checkout'[c].pc = "placed" => \A s \in Sku : stock'[c][s] \in {"RESERVED", "CONFIRMED"}
        BY <3>1, <3>2 DEF Going
      <3> QED
        BY <3>1, <3>2, <3>3, <3>4
    <2> HIDE DEF Holds
    <2>5 UNCHANGED stock \/ Compensates(c) \/ \E s \in Sku : Reserves(c, s)
      BY <1>1, CheckoutStockBy
    <2>6 Holds
      BY <2>2, <2>3, <2>4, <2>5
    <2> QED
      BY <2>1, <2>6 DEF Holds, CheckoutHolds
  <1>2 ASSUME NEW q \in Op, OpStep(q) \/ OpFails(q) PROVE CheckoutHolds'
    <2>1 UNCHANGED checkout
      BY <1>2, RequestFrame
    <2>2 OrderOf(q) \in Order /\ (op[q].pc # "new" => checkout[OrderOf(q)].pc = "placed")
      BY <1>a DEF TypeOK, RequestsAreGrounded, OrderOf
    <2> QED
      BY <1>2, <1>a, <2>1, <2>2, RequestStock DEF CheckoutHolds, Order, Going
  <1>3 CASE Elsewhere
    BY <1>3, ElsewhereFrame DEF CheckoutHolds
  <1> QED
    BY <1>1, <1>2, <1>3, Steps

\* The unique key admits one checkout past its INSERT.
LEMMA InsertStep ==
  ASSUME TypeOK, OnePastInsert, [Next]_vars
  PROVE  OnePastInsert'
  <1>1 ASSUME NEW c \in Checkout, CheckoutStep(c) \/ Dies(c) PROVE OnePastInsert'
    <2>1 /\ \A d \in Checkout \ {c} : checkout'[d] = checkout[d]
         /\ UNCHANGED keyOf
      BY <1>1, CheckoutPc, CheckoutFrame
    <2>2 checkout'[c].pc \in {"inserted", "consumed", "placed"} =>
           \/ checkout[c].pc \in {"inserted", "consumed"}
           \/ (checkout'[c].pc = "inserted" /\ Inserts(c))
      BY <1>1, CheckoutPc DEF Commits, At
    <2>3 \A o \in Checkout : status[o] # "NONE" <=> checkout[o].pc = "placed"
      BY DEF TypeOK, Order
    <2>4 Inserts(c) => ~ HoldsKey(keyOf[c])
      BY DEF Inserts
    <2>5 Inserts(c) /\ checkout'[c].pc = "inserted" => ~ OrderOfKey(keyOf[c])
      <3>1 checkout \in [Checkout -> CheckoutState]
        BY DEF TypeOK
      <3> QED
        BY <3>1 DEF Inserts, Goes, CheckoutState
    <2> QED
      BY <2>1, <2>2, <2>3, <2>4, <2>5 DEF OnePastInsert, HoldsKey, OrderOfKey
  <1>2 ASSUME NEW q \in Op, OpStep(q) \/ OpFails(q) PROVE OnePastInsert'
    BY <1>2, RequestFrame DEF OnePastInsert
  <1>3 CASE Elsewhere
    BY <1>3, ElsewhereFrame DEF OnePastInsert
  <1> QED
    BY <1>1, <1>2, <1>3, Steps

\* What the catch block does when nothing fails, and what it may do.
LEMMA CompensatesFacts ==
  ASSUME TypeOK, NEW c \in Checkout, Compensates(c)
  PROVE  /\ \A s \in Sku : stock'[c][s] = "RESERVED" => stock[c][s] = "RESERVED"
         /\ couponRow'[c] = "RESERVED" => couponRow[c] = "RESERVED"
         /\ \A d \in Checkout \ {c} : stock'[d] = stock[d] /\ couponRow'[d] = couponRow[d]
         /\ \A k \in Key : freeze'[k] \in {freeze[k], NoFreeze}
         /\ c \notin faulty' =>
              /\ \A s \in checkout[c].skus : stock'[c][s] # "RESERVED"
              /\ checkout[c].coupon => couponRow'[c] # "RESERVED"
              /\ freeze'[keyOf[c]].token # None => freeze'[keyOf[c]].token # checkout[c].token
  <1>a /\ stock \in [Order -> [Sku -> {"NONE", "RESERVED", "CONFIRMED", "RELEASED", "EXPIRED"}]]
       /\ couponRow \in [Order -> {"NONE", "RESERVED", "USED", "RELEASED"}]
       /\ freeze \in [Key -> [token : Checkout \cup {None}, version : Nat]]
       /\ checkout[c].skus \subseteq Sku
    BY DEF TypeOK, CheckoutState
  <1>b keyOf[c] \in Key
    BY DEF TypeOK, Compensates
  <1>1 ASSUME NEW skus, NEW coupon, NEW thaw, GivesBack(c, skus, coupon, thaw)
       PROVE  /\ \A s \in Sku : stock'[c][s] = "RESERVED" => stock[c][s] = "RESERVED" /\ s \notin skus
              /\ couponRow'[c] = "RESERVED" => couponRow[c] = "RESERVED" /\ ~ coupon
              /\ \A d \in Checkout \ {c} : stock'[d] = stock[d] /\ couponRow'[d] = couponRow[d]
              /\ \A k \in Key : freeze'[k] \in {freeze[k], NoFreeze}
              /\ thaw = TRUE /\ freeze'[keyOf[c]].token # None => freeze'[keyOf[c]].token # checkout[c].token
    <2>1 \A s \in Sku : stock'[c][s] = "RESERVED" => stock[c][s] = "RESERVED" /\ s \notin skus
      BY <1>1, <1>a DEF GivesBack, Order
    <2>2 couponRow'[c] = "RESERVED" => couponRow[c] = "RESERVED" /\ ~ coupon
      BY <1>1, <1>a DEF GivesBack, Order
    <2>3 \A d \in Checkout \ {c} : stock'[d] = stock[d] /\ couponRow'[d] = couponRow[d]
      BY <1>1, <1>a DEF GivesBack, Order
    <2>4 /\ \A k \in Key : freeze'[k] \in {freeze[k], NoFreeze}
         /\ thaw = TRUE /\ freeze'[keyOf[c]].token # None => freeze'[keyOf[c]].token # checkout[c].token
      BY <1>1, <1>a, <1>b DEF GivesBack, FreezeValid, NoFreeze
    <2> QED
      BY <2>1, <2>2, <2>3, <2>4
  <1>2 CASE GivesBack(c, checkout[c].skus, checkout[c].coupon, TRUE)
    <2> DEFINE coupon == checkout[c].coupon
    <2>1 /\ \A s \in Sku : stock'[c][s] = "RESERVED" => stock[c][s] = "RESERVED" /\ s \notin checkout[c].skus
         /\ couponRow'[c] = "RESERVED" => couponRow[c] = "RESERVED" /\ ~ coupon
         /\ \A d \in Checkout \ {c} : stock'[d] = stock[d] /\ couponRow'[d] = couponRow[d]
         /\ \A k \in Key : freeze'[k] \in {freeze[k], NoFreeze}
         /\ freeze'[keyOf[c]].token # None => freeze'[keyOf[c]].token # checkout[c].token
      <3>1 GivesBack(c, checkout[c].skus, coupon, TRUE)
        BY <1>2
      <3> HIDE DEF coupon
      <3>2 \A skus, thaw : GivesBack(c, skus, coupon, thaw) =>
             /\ \A s \in Sku : stock'[c][s] = "RESERVED" => stock[c][s] = "RESERVED" /\ s \notin skus
             /\ couponRow'[c] = "RESERVED" => couponRow[c] = "RESERVED" /\ ~ coupon
             /\ \A d \in Checkout \ {c} : stock'[d] = stock[d] /\ couponRow'[d] = couponRow[d]
             /\ \A k \in Key : freeze'[k] \in {freeze[k], NoFreeze}
             /\ thaw = TRUE /\ freeze'[keyOf[c]].token # None => freeze'[keyOf[c]].token # checkout[c].token
        BY <1>1, Zenon
      <3> QED
        BY <3>1, <3>2, Zenon
    <2> QED
      BY <2>1, <1>a
  <1>3 CASE /\ \E skus \in SUBSET checkout[c].skus, coupon \in BOOLEAN, thaw \in BOOLEAN :
                 GivesBack(c, skus, coupon /\ checkout[c].coupon, thaw)
            /\ Fault(c)
    BY <1>1, <1>3 DEF Fault
  <1> QED
    BY <1>2, <1>3 DEF Compensates

\* Nobody but a checkout reserves coupons or stock.
LEMMA OnlyCheckoutsReserve ==
  ASSUME TypeOK, Elsewhere \/ \E q \in Op : OpStep(q) \/ OpFails(q), NEW o \in Order
  PROVE  /\ couponRow'[o] = "RESERVED" => couponRow[o] = "RESERVED"
         /\ \A s \in Sku : stock'[o][s] = "RESERVED" => stock[o][s] = "RESERVED"
  <1>a /\ stock \in [Order -> [Sku -> {"NONE", "RESERVED", "CONFIRMED", "RELEASED", "EXPIRED"}]]
       /\ couponRow \in [Order -> {"NONE", "RESERVED", "USED", "RELEASED"}]
    BY DEF TypeOK
  <1>1 ASSUME NEW q \in Op, OpStep(q) \/ OpFails(q)
       PROVE  /\ couponRow'[o] = "RESERVED" => couponRow[o] = "RESERVED"
              /\ \A s \in Sku : stock'[o][s] = "RESERVED" => stock[o][s] = "RESERVED"
    <2>1 OrderOf(q) \in Order
      BY DEF TypeOK, OrderOf
    <2>2 couponRow'[o] = "RESERVED" => couponRow[o] = "RESERVED"
      BY <1>1, <1>a, <2>1, RequestCoupon
    <2>3 \A s \in Sku : stock'[o][s] = "RESERVED" => stock[o][s] = "RESERVED"
      BY <1>1, <1>a, <2>1, RequestStock
    <2> QED
      BY <2>2, <2>3
  <1>2 CASE Elsewhere
    <2>1 couponRow'[o] = "RESERVED" => couponRow[o] = "RESERVED"
      BY <1>2, <1>a DEF Elsewhere, CreatesIntent, Refunds, BecomesOverdue, CouponSwept,
         DeliveryConfirmed, FreezeLapses, EditsCart, vars, rowVars
    <2> QED
      BY <1>2, <2>1, ElsewhereFrame
  <1> QED
    BY <1>1, <1>2

\* What is reserved for an order that is not visible yet, its checkout remembers.
LEMMA RemembersStep ==
  ASSUME TypeOK, RemembersReserved, [Next]_vars
  PROVE  RemembersReserved'
  <1>a /\ checkout \in [Checkout -> CheckoutState]
       /\ stock \in [Order -> [Sku -> {"NONE", "RESERVED", "CONFIRMED", "RELEASED", "EXPIRED"}]]
       /\ couponRow \in [Order -> {"NONE", "RESERVED", "USED", "RELEASED"}]
    BY DEF TypeOK
  <1>1 ASSUME NEW c \in Checkout, CheckoutStep(c) \/ Dies(c) PROVE RemembersReserved'
    <2>1 /\ \A d \in Checkout \ {c} : /\ checkout'[d] = checkout[d] /\ stock'[d] = stock[d]
                                      /\ couponRow'[d] = couponRow[d]
         /\ faulty \subseteq faulty'
      <3>1 \A d \in Checkout \ {c} : checkout'[d] = checkout[d] /\ stock'[d] = stock[d]
        BY <1>1, <1>a, CheckoutPc, CheckoutStock DEF Order
      <3>2 \A d \in Checkout \ {c} : couponRow'[d] = couponRow[d]
        BY <1>1, <1>a, CheckoutCoupon DEF Order
      <3>3 faulty \subseteq faulty'
        BY <1>1, CheckoutFaults DEF Fault, faultVars
      <3> QED
        BY <3>1, <3>2, <3>3
    <2>2 /\ couponRow'[c] = "RESERVED" => c \in WithCoupon
         /\ c \notin faulty' /\ couponRow'[c] = "RESERVED" => checkout'[c].coupon
      <3>1 ASSUME Prices(c)
           PROVE  /\ couponRow'[c] = "RESERVED" => c \in WithCoupon
                  /\ c \notin faulty' /\ couponRow'[c] = "RESERVED" => checkout'[c].coupon
        <4>1 couponRow'[c] = IF c \in WithCoupon THEN "RESERVED" ELSE couponRow[c]
          BY <3>1, <1>a DEF Prices, Order
        <4>2 c \in faulty'
             \/ checkout'[c] = [checkout[c] EXCEPT !.pc = "priced", !.coupon = c \in WithCoupon]
          BY <3>1, <1>a DEF Prices, Answered, Fault
        <4>3 c \in faulty' \/ (c \in WithCoupon => checkout'[c].coupon)
          <5>1 ASSUME c \in WithCoupon,
                      checkout'[c] = [checkout[c] EXCEPT !.pc = "priced", !.coupon = c \in WithCoupon]
               PROVE  checkout'[c].coupon
            <6>1 (c \in WithCoupon) = TRUE
              BY <5>1
            <6>2 checkout'[c] = [checkout[c] EXCEPT !.pc = "priced", !.coupon = TRUE]
              BY <5>1, <6>1, Zenon
            <6>3 checkout[c] \in CheckoutState
              BY <1>a
            <6> HIDE <5>1
            <6> QED
              BY <6>2, <6>3 DEF CheckoutState
          <5> QED
            BY <4>2, <5>1
        <4> QED
          BY <4>1, <4>3 DEF RemembersReserved
      <3>2 ASSUME Compensates(c)
           PROVE  /\ couponRow'[c] = "RESERVED" => couponRow[c] = "RESERVED"
                  /\ checkout'[c].coupon = checkout[c].coupon
        <4>1 couponRow'[c] = "RESERVED" => couponRow[c] = "RESERVED"
          BY <3>2, CompensatesFacts
        <4>2 checkout'[c].coupon = checkout[c].coupon
          BY <3>2, <1>a DEF Compensates, Goes, CheckoutState
        <4> QED
          BY <4>1, <4>2
      <3>3 CASE ~ Prices(c)
        BY <1>1, <2>1, <3>2, <3>3, CheckoutPc, CheckoutCouponBy DEF RemembersReserved
      <3> QED
        BY <3>1, <3>3
    <2>3 c \notin faulty' => \A s \in Sku : stock'[c][s] = "RESERVED" => s \in checkout'[c].skus
      <3>1 ASSUME NEW s \in Sku, Reserves(c, s), c \notin faulty'
           PROVE  \A t \in Sku : stock'[c][t] = "RESERVED" => t \in checkout'[c].skus
        <4>1 checkout' = [checkout EXCEPT ![c] = [checkout[c] EXCEPT !.skus = @ \cup {s}]]
          BY <3>1 DEF Reserves, Answered, Fault
        <4>2 checkout'[c].skus = checkout[c].skus \cup {s}
          BY <4>1, <1>a DEF CheckoutState
        <4>3 \A t \in Sku \ {s} : stock'[c][t] = stock[c][t]
          BY <3>1, <1>a DEF Reserves, Order
        <4> QED
          BY <2>1, <3>1, <4>2, <4>3 DEF RemembersReserved
      <3>2 ASSUME ~ \E s \in Sku : Reserves(c, s), c \notin faulty'
           PROVE  \A s \in Sku : stock'[c][s] = "RESERVED" => s \in checkout'[c].skus
        BY <1>1, <2>1, <3>2, CheckoutStockBy, CheckoutPc, CompensatesFacts DEF RemembersReserved
      <3> QED
        BY <3>1, <3>2
    <2> QED
      BY <2>1, <2>2, <2>3 DEF RemembersReserved
  <1>2 CASE Elsewhere \/ \E q \in Op : OpStep(q) \/ OpFails(q)
    <2>1 UNCHANGED checkout /\ faulty \subseteq faulty'
      BY <1>2, RequestFrame, RequestFaults, ElsewhereFrame DEF Fault, faultVars
    <2> QED
      BY <1>2, <2>1, OnlyCheckoutsReserve DEF RemembersReserved, Order
  <1> QED
    BY <1>1, <1>2, Steps

-----------------------------------------------------------------------------
\* How requests proceed

\* How a request moves: it does not begin anew, and the others stay where they are.
LEMMA OpMoves ==
  ASSUME TypeOK, NEW q \in Op, OpStep(q) \/ OpFails(q)
  PROVE  /\ \A r \in Op \ {q} : op'[r] = op[r]
         /\ op[q].pc # "done" /\ op'[q].pc # "new"
         /\ op[q].pc = "new" =>
              status[OrderOf(q)] # "NONE" \/ (Kind(q) = "pay" /\ payment[Intent(q)].status # "NONE")
         /\ op'[q].pc \in {"found", "used", "shipped", "settled"} => Kind(q) = "pay" \/ op[q].pc = "used"
         /\ Kind(q) = "pay" /\ op'[q].pc \in {"asked", "read", "locked", "used", "shipped", "settled"} =>
              op'[q].outcome # "NONE" \/ op[q].pc \in {"asked", "read", "locked", "used", "shipped"}
         /\ op'[q].outcome = op[q].outcome \/ Authorizes(q)
         /\ op'[q].pc \in Holding => op[q].pc \in Holding \/ (~ RowLocked(OrderOf(q)) /\ Wins(q) /\ op[q].pc = "read")
         /\ op'[q].pc = "used" => UsesCoupon(q)
         /\ op'[q].pc = "shipped" => Ships(q)
         /\ op'[q].pc = "settled" => ResultReadsOrder(q) \/ ResultCommits(q)
         /\ op'[q].skus = op[q].skus
              \/ \E s \in Sku : ReleasesStock(q, s) \/ ExpiresStock(q, s) \/ ConfirmsStock(q, s)
  <1>a op \in [Op -> OpState]
    BY DEF TypeOK
  <1> DEFINE P == /\ \A r \in Op \ {q} : op'[r] = op[r]
                  /\ op[q].pc # "done" /\ op'[q].pc # "new"
                  /\ op[q].pc = "new" =>
                       status[OrderOf(q)] # "NONE" \/ (Kind(q) = "pay" /\ payment[Intent(q)].status # "NONE")
                  /\ op'[q].pc \in {"found", "used", "shipped", "settled"} => Kind(q) = "pay" \/ op[q].pc = "used"
                  /\ Kind(q) = "pay" /\ op'[q].pc \in {"asked", "read", "locked", "used", "shipped", "settled"} =>
                       op'[q].outcome # "NONE" \/ op[q].pc \in {"asked", "read", "locked", "used", "shipped"}
                  /\ op'[q].outcome = op[q].outcome \/ Authorizes(q)
                  /\ op'[q].pc \in Holding => op[q].pc \in Holding \/ (~ RowLocked(OrderOf(q)) /\ Wins(q) /\ op[q].pc = "read")
                  /\ op'[q].pc = "used" => UsesCoupon(q)
                  /\ op'[q].pc = "shipped" => Ships(q)
                  /\ op'[q].pc = "settled" => ResultReadsOrder(q) \/ ResultCommits(q)
                  /\ op'[q].skus = op[q].skus
                       \/ \E s \in Sku : ReleasesStock(q, s) \/ ExpiresStock(q, s) \/ ConfirmsStock(q, s)
  <1> USE <1>a DEF OpState, StepsTo, Holding
  <1>1 ASSUME ReadsOrder(q) PROVE P
    BY <1>1 DEF ReadsOrder
  <1>2 ASSUME CancelReleasesCoupon(q) PROVE P
    BY <1>2 DEF CancelReleasesCoupon
  <1>3 ASSUME CancelSets(q) PROVE P
    BY <1>3 DEF CancelSets
  <1>4 ASSUME ExpireSets(q) PROVE P
    BY <1>4 DEF ExpireSets
  <1>5 ASSUME ExpireCommits(q) PROVE P
    BY <1>5 DEF ExpireCommits
  <1>6 ASSUME NEW s \in Sku, ReleasesStock(q, s) PROVE P
    BY <1>6 DEF ReleasesStock
  <1>7 ASSUME NEW s \in Sku, ExpiresStock(q, s) PROVE P
    BY <1>7 DEF ExpiresStock
  <1>8 ASSUME NEW s \in Sku, ConfirmsStock(q, s) PROVE P
    BY <1>8 DEF ConfirmsStock
  <1>9 ASSUME FindsPayment(q) PROVE P
    BY <1>9 DEF FindsPayment
  <1>10 ASSUME Authorizes(q) PROVE P
    BY <1>10 DEF Authorizes
  <1>11 ASSUME ResultReadsOrder(q) PROVE P
    BY <1>11 DEF ResultReadsOrder
  <1>12 ASSUME ResultSets(q) PROVE P
    BY <1>12 DEF ResultSets
  <1>13 ASSUME UsesCoupon(q) PROVE P
    BY <1>13 DEF UsesCoupon, Succeeded
  <1>14 ASSUME Ships(q) PROVE P
    BY <1>14 DEF Ships
  <1>15 ASSUME ResultCommits(q) PROVE P
    BY <1>15 DEF ResultCommits
  <1>16 ASSUME PaymentCommits(q) PROVE P
    BY <1>16 DEF PaymentCommits
  <1>17 ASSUME OpFails(q) PROVE P
    BY <1>17 DEF OpFails
  <1> HIDE DEF P
  <1>18 P
    BY <1>1, <1>2, <1>3, <1>4, <1>5, <1>6, <1>7, <1>8, <1>9, <1>10, <1>11, <1>12, <1>13, <1>14, <1>15, <1>16, <1>17 DEF OpStep
  <1> HIDE <1>a DEF OpState, StepsTo, Holding
  <1> QED
    BY <1>18 DEF P

\* A visible order stays visible.
LEMMA VisibleStays ==
  ASSUME TypeOK, RequestsAreGrounded, [Next]_vars
  PROVE  \A o \in Order : status[o] # "NONE" => status'[o] # "NONE"
  <1>a status \in [Order -> {"NONE", "PENDING_PAYMENT", "PAID", "PAYMENT_FAILED", "CANCELLED"}]
    BY DEF TypeOK
  <1>1 ASSUME NEW c \in Checkout, CheckoutStep(c) \/ Dies(c)
       PROVE  \A o \in Order : status[o] # "NONE" => status'[o] # "NONE"
    BY <1>1, <1>a, CheckoutStatus DEF Commits, Order
  <1>2 ASSUME NEW q \in Op, OpStep(q) \/ OpFails(q)
       PROVE  \A o \in Order : status[o] # "NONE" => status'[o] # "NONE"
    <2>1 OrderOf(q) \in Order
      BY DEF TypeOK, OrderOf
    <2> QED
      BY <1>2, <1>a, <2>1, RequestStatus DEF CancelSets, ExpireCommits, ResultCommits
  <1>3 CASE Elsewhere
    BY <1>3, ElsewhereFrame
  <1> QED
    BY <1>1, <1>2, <1>3, Steps

\* RequestsAreGrounded is kept by every step.
LEMMA GroundedStep ==
  ASSUME TypeOK, RequestsAreGrounded, [Next]_vars
  PROVE  RequestsAreGrounded'
  <1>a /\ payment \in [Payment -> PaymentState] /\ charges \in [Payment -> Nat]
       /\ op \in [Op -> OpState]
       /\ \A q \in Op : OrderOf(q) \in Order /\ Intent(q) \in Payment
    BY DEF TypeOK, OrderOf, Intent
  <1>b \A o \in Order : status[o] # "NONE" => status'[o] # "NONE"
    BY VisibleStays
  <1>c asks' = asks
    BY Steps, CheckoutFrame, RequestFrame, ElsewhereFrame
  <1>1 ASSUME NEW c \in Checkout, CheckoutStep(c) \/ Dies(c) PROVE RequestsAreGrounded'
    <2>1 UNCHANGED <<payment, charges, asks, op>>
      BY <1>1, CheckoutFrame
    <2> QED
      BY <1>a, <1>b, <2>1 DEF RequestsAreGrounded, OrderOf, Kind, Intent
  <1>2 ASSUME NEW q \in Op, OpStep(q) \/ OpFails(q) PROVE RequestsAreGrounded'
    <2>1 \A p \in Payment : /\ payment'[p].order = payment[p].order
                            /\ payment'[p].status # "NONE" => payment[p].status # "NONE" \/ (p = Intent(q) /\ op[q].pc = "settled")
      <3>1 CASE UNCHANGED payment
        BY <3>1
      <3>2 CASE PaymentCommits(q)
        BY <3>2, <1>a DEF PaymentCommits, SetPayment, StepsTo, PaymentState
      <3> QED
        BY <1>2, <3>1, <3>2, RequestPayment
    <2>2 \A p \in Payment : payment'[p].status # "NONE" =>
           payment'[p].order \in Order /\ status'[payment'[p].order] # "NONE"
      BY <1>a, <1>b, <2>1 DEF RequestsAreGrounded
    <2>3 \A p \in Payment : charges[p] > 0 => charges'[p] > 0
      BY <1>2, <1>a, RequestPayment
    <2>4 \A r \in Op : op'[r].pc # "new" => status'[OrderOf(r)] # "NONE"
      <3>1 op[q].pc = "new" => status[OrderOf(q)] # "NONE"
        BY <1>2, <1>a, OpMoves DEF RequestsAreGrounded
      <3> QED
        BY <1>2, <1>a, <1>b, <3>1, OpMoves DEF RequestsAreGrounded
    <2>5 \A r \in Op : Kind(r) = "pay" => OrderOf(r) = payment'[Intent(r)].order
      BY <1>a, <2>1 DEF RequestsAreGrounded
    <2>6 \A r \in Op : op'[r].pc \in {"found", "used", "shipped", "settled"} => Kind(r) = "pay"
      BY <1>2, OpMoves DEF RequestsAreGrounded
    <2>7 \A r \in Op : Kind(r) = "pay" /\ op'[r].pc \in {"asked", "read", "locked", "used", "shipped", "settled"} =>
           op'[r].outcome # "NONE"
      <3>1 op[q].pc \in {"asked", "read", "locked", "used", "shipped"} => ~ Authorizes(q)
        BY DEF Authorizes
      <3> QED
        BY <1>2, <3>1, OpMoves DEF RequestsAreGrounded
    <2>8 \A r \in Op : op'[r].outcome = "SUCCESS" => charges'[Intent(r)] > 0
      <3>1 op'[q].outcome = "SUCCESS" /\ Authorizes(q) => charges'[Intent(q)] > 0
        <4>1 ASSUME Authorizes(q), op'[q].outcome = "SUCCESS", op[q].outcome # "SUCCESS"
             PROVE  charges' = [charges EXCEPT ![Intent(q)] = @ + 1]
          BY <4>1, <1>a DEF Authorizes, OpState
        <4>2 op[q].outcome = "SUCCESS" => charges'[Intent(q)] > 0
          BY <1>a, <2>3 DEF RequestsAreGrounded
        <4> QED
          BY <1>a, <4>1, <4>2
      <3> QED
        BY <1>2, <1>a, <2>3, <3>1, OpMoves DEF RequestsAreGrounded
    <2> QED
      BY <1>c, <2>2, <2>4, <2>5, <2>6, <2>7, <2>8 DEF RequestsAreGrounded, OrderOf, Kind, Intent
  <1>3 CASE Elsewhere
    <2>1 UNCHANGED <<status, charges, asks, op>>
      BY <1>3, ElsewhereFrame
    <2>2 \A p \in Payment : /\ payment'[p].order = payment[p].order
                            /\ payment'[p].status # "NONE" => payment[p].status # "NONE"
                                 \/ (payment[p].order # None /\ status[payment[p].order] # "NONE")
      <3>1 ASSUME NEW r \in Payment, CreatesIntent(r) \/ Refunds(r)
           PROVE  /\ \A p \in Payment : payment'[p].order = payment[p].order
                  /\ \A p \in Payment : payment'[p].status # "NONE" => payment[p].status # "NONE"
                       \/ (payment[p].order # None /\ status[payment[p].order] # "NONE")
        BY <3>1, <1>a DEF CreatesIntent, Refunds, SetPayment, PaymentState
      <3>2 UNCHANGED payment \/ \E r \in Payment : CreatesIntent(r) \/ Refunds(r)
        BY <1>3 DEF Elsewhere, BecomesOverdue, CouponSwept, DeliveryConfirmed, FreezeLapses,
           EditsCart, vars, payVars
      <3> QED
        BY <3>1, <3>2
    <2>3 \A p \in Payment : payment[p].order \in Order \cup {None}
      BY <1>a DEF PaymentState
    <2>4 \A p \in Payment : payment'[p].status # "NONE" =>
           payment'[p].order \in Order /\ status'[payment'[p].order] # "NONE"
      BY <2>1, <2>2, <2>3 DEF RequestsAreGrounded
    <2> QED
      BY <1>a, <2>1, <2>2, <2>4 DEF RequestsAreGrounded, OrderOf, Kind, Intent
  <1> QED
    BY <1>1, <1>2, <1>3, Steps
-----------------------------------------------------------------------------
\* The row lock

\* What no step takes from an order that can be seen.
LEMMA VisibleOrders ==
  ASSUME TypeOK, RequestsAreGrounded, [Next]_vars, NEW o \in Order, status[o] # "NONE"
  PROVE  /\ couponRow'[o] = "RESERVED" => couponRow[o] = "RESERVED"
         /\ \A s \in Sku : stock[o][s] = "CONFIRMED" => stock'[o][s] = "CONFIRMED"
         /\ o \in raced => o \in raced'
         /\ parcel[o] # "NONE" => parcel'[o] # "NONE"
  <1>a /\ stock \in [Order -> [Sku -> {"NONE", "RESERVED", "CONFIRMED", "RELEASED", "EXPIRED"}]]
       /\ couponRow \in [Order -> {"NONE", "RESERVED", "USED", "RELEASED"}]
       /\ parcel \in [Order -> {"NONE", "SHIPPED", "COMPLETED"}]
       /\ \A q \in Op : OrderOf(q) \in Order
    BY DEF TypeOK, OrderOf
  <1> DEFINE P == /\ couponRow'[o] = "RESERVED" => couponRow[o] = "RESERVED"
                  /\ \A s \in Sku : stock[o][s] = "CONFIRMED" => stock'[o][s] = "CONFIRMED"
                  /\ o \in raced => o \in raced'
                  /\ parcel[o] # "NONE" => parcel'[o] # "NONE"
  <1>1 ASSUME NEW c \in Checkout, CheckoutStep(c) \/ Dies(c) PROVE P
    <2>1 o # c
      <3>1 checkout[o].pc = "placed" /\ checkout[c].pc \in {"new"} \cup Running
        BY <1>1, CheckoutPc DEF TypeOK
      <3> QED
        BY <3>1 DEF Running
    <2> QED
      BY <1>1, <1>a, <2>1, CheckoutFrame, CheckoutStock, CheckoutCoupon DEF Order
  <1>2 ASSUME NEW q \in Op, OpStep(q) \/ OpFails(q) PROVE P
    <2>1 couponRow'[o] = "RESERVED" => couponRow[o] = "RESERVED"
      BY <1>2, <1>a, RequestCoupon
    <2>2 /\ \A s \in Sku : stock[o][s] = "CONFIRMED" => stock'[o][s] = "CONFIRMED"
         /\ o \in raced => o \in raced'
      BY <1>2, <1>a, RequestStock
    <2>3 parcel[o] # "NONE" => parcel'[o] # "NONE"
      BY <1>2, <1>a, RequestParcel DEF Ships
    <2> QED
      BY <2>1, <2>2, <2>3
  <1>3 ASSUME Elsewhere PROVE P
    <2>1 UNCHANGED <<stock, raced>>
      BY <1>3, ElsewhereFrame
    <2>2 couponRow'[o] = "RESERVED" => couponRow[o] = "RESERVED"
      BY <1>3, <1>a DEF Elsewhere, CreatesIntent, Refunds, BecomesOverdue, CouponSwept,
         DeliveryConfirmed, FreezeLapses, EditsCart, vars, rowVars
    <2>3 parcel[o] # "NONE" => parcel'[o] # "NONE"
      BY <1>3, <1>a DEF Elsewhere, CreatesIntent, Refunds, BecomesOverdue, CouponSwept,
         DeliveryConfirmed, FreezeLapses, EditsCart, vars, rowVars
    <2> QED
      BY <2>1, <2>2, <2>3
  <1> HIDE DEF P
  <1>4 P
    BY <1>1, <1>2, <1>3, Steps
  <1> QED
    BY <1>4 DEF P

\* The status of an order moves only from NONE, by its commit, and from PENDING_PAYMENT.
LEMMA StatusMoves ==
  ASSUME TypeOK, RequestsAreGrounded, RowLockVouches, [Next]_vars, NEW o \in Order
  PROVE  \/ status'[o] = status[o]
         \/ Commits(o) /\ status[o] = "NONE" /\ status'[o] = "PENDING_PAYMENT"
         \/ /\ status[o] = "PENDING_PAYMENT"
            /\ \E q \in Op :
                 /\ OrderOf(q) = o
                 /\ \/ CancelSets(q) /\ status'[o] = "CANCELLED"
                    \/ ExpireCommits(q) /\ status'[o] = "PAYMENT_FAILED"
                    \/ ResultCommits(q) /\ status'[o] = IF Succeeded(q) THEN "PAID" ELSE "PAYMENT_FAILED"
  <1>a /\ status \in [Order -> {"NONE", "PENDING_PAYMENT", "PAID", "PAYMENT_FAILED", "CANCELLED"}]
       /\ \A q \in Op : OrderOf(q) \in Order
    BY DEF TypeOK, OrderOf
  <1> DEFINE P == \/ status'[o] = status[o]
                  \/ Commits(o) /\ status[o] = "NONE" /\ status'[o] = "PENDING_PAYMENT"
                  \/ /\ status[o] = "PENDING_PAYMENT"
                     /\ \E q \in Op :
                          /\ OrderOf(q) = o
                          /\ \/ CancelSets(q) /\ status'[o] = "CANCELLED"
                             \/ ExpireCommits(q) /\ status'[o] = "PAYMENT_FAILED"
                             \/ ResultCommits(q) /\ status'[o] = IF Succeeded(q) THEN "PAID" ELSE "PAYMENT_FAILED"
  <1>1 ASSUME NEW c \in Checkout, CheckoutStep(c) \/ Dies(c) PROVE P
    <2>1 CASE Commits(c)
      <3>1 status[c] = "NONE"
        BY <2>1, <1>a DEF Commits, At, TypeOK, Order
      <3>2 status' = [status EXCEPT ![c] = "PENDING_PAYMENT"]
        BY <2>1 DEF Commits
      <3> QED
        BY <2>1, <3>1, <3>2, <1>a DEF Order
    <2> QED
      BY <1>1, <2>1, CheckoutStatus
  <1>2 ASSUME NEW q \in Op, OpStep(q) \/ OpFails(q) PROVE P
    <2>1 CASE CancelSets(q)
      <3>1 status' = [status EXCEPT ![OrderOf(q)] = IF Wins(q) THEN "CANCELLED" ELSE @]
        BY <2>1 DEF CancelSets
      <3> QED
        BY <2>1, <3>1, <1>a DEF Wins
    <2>2 CASE ExpireCommits(q)
      <3>1 status' = [status EXCEPT ![OrderOf(q)] = "PAYMENT_FAILED"] /\ op[q].pc = "locked"
        BY <2>2 DEF ExpireCommits, StepsTo
      <3> QED
        BY <2>2, <3>1, <1>a DEF RowLockVouches, Holding
    <2>3 CASE ResultCommits(q)
      <3>1 /\ status' = [status EXCEPT ![OrderOf(q)] = IF Succeeded(q) THEN "PAID" ELSE "PAYMENT_FAILED"]
           /\ op[q].pc \in {"shipped", "locked"}
        BY <2>3 DEF ResultCommits, StepsTo
      <3> QED
        BY <2>3, <3>1, <1>a DEF RowLockVouches, Holding
    <2> QED
      BY <1>2, <2>1, <2>2, <2>3, RequestStatus
  <1>3 ASSUME Elsewhere PROVE P
    BY <1>3, ElsewhereFrame
  <1> HIDE DEF P
  <1>4 P
    BY <1>1, <1>2, <1>3, Steps
  <1> QED
    BY <1>4 DEF P

\* While a request holds the row of its order, nobody else decides the order.
LEMMA RowLockStep ==
  ASSUME TypeOK, CheckoutHolds, RequestsAreGrounded, RowLockVouches, [Next]_vars
  PROVE  RowLockVouches'
  <1>a /\ op \in [Op -> OpState] /\ \A q \in Op : OrderOf(q) \in Order
       /\ stock \in [Order -> [Sku -> {"NONE", "RESERVED", "CONFIRMED", "RELEASED", "EXPIRED"}]]
       /\ couponRow \in [Order -> {"NONE", "RESERVED", "USED", "RELEASED"}]
       /\ parcel \in [Order -> {"NONE", "SHIPPED", "COMPLETED"}]
       /\ \A o \in Order : status[o] # "NONE" <=> checkout[o].pc = "placed"
    BY DEF TypeOK, OrderOf
  <1>b asks' = asks
    BY Steps, CheckoutFrame, RequestFrame, ElsewhereFrame
  <1>c \A q \in Op : op[q].pc # "new" => status[OrderOf(q)] # "NONE"
    BY DEF RequestsAreGrounded
  <1>d \A q \in Op : op[q].pc = "new" => op[q].skus = {}
    BY DEF RowLockVouches
  \* A request that does not move
  <1>1 ASSUME NEW r \in Op, op'[r] = op[r],
              op[r].pc \in Holding \cup {"settled"} => status'[OrderOf(r)] = status[OrderOf(r)]
       PROVE  /\ op'[r].pc \in Holding => status'[OrderOf(r)] = "PENDING_PAYMENT"
              /\ op'[r].pc = "settled" => status'[OrderOf(r)] \in {"PAID", "PAYMENT_FAILED"}
              /\ op'[r].pc = "new" => op'[r].skus = {}
              /\ Kind(r) = "pay" => OrderOf(r) \in raced'
                   \/ \A s \in op'[r].skus : stock'[OrderOf(r)][s] = "CONFIRMED"
              /\ op'[r].pc \in {"used", "shipped"} =>
                   /\ Kind(r) = "pay" /\ op'[r].outcome = "SUCCESS"
                   /\ op'[r].skus = Sku /\ couponRow'[OrderOf(r)] # "RESERVED"
              /\ op'[r].pc = "shipped" => parcel'[OrderOf(r)] # "NONE"
    <2>1 CASE op[r].pc = "new"
      BY <1>1, <2>1, <1>d DEF Holding
    <2>2 CASE op[r].pc # "new"
      <3>1 status[OrderOf(r)] # "NONE"
        BY <2>2, <1>c
      <3>2 /\ couponRow'[OrderOf(r)] = "RESERVED" => couponRow[OrderOf(r)] = "RESERVED"
           /\ \A s \in Sku : stock[OrderOf(r)][s] = "CONFIRMED" => stock'[OrderOf(r)][s] = "CONFIRMED"
           /\ OrderOf(r) \in raced => OrderOf(r) \in raced'
           /\ parcel[OrderOf(r)] # "NONE" => parcel'[OrderOf(r)] # "NONE"
        BY <3>1, <1>a, VisibleOrders
      <3>3 op[r].skus \subseteq Sku
        BY <1>a DEF OpState
      <3> QED
        BY <1>1, <2>2, <3>2, <3>3 DEF RowLockVouches, Succeeded, Holding
    <2> QED
      BY <2>1, <2>2
  <1>2 ASSUME UNCHANGED op, \A r \in Op : op[r].pc # "new" => status'[OrderOf(r)] = status[OrderOf(r)]
       PROVE  RowLockVouches'
    <2>1 \A q, r \in Op : op'[q].pc \in Holding /\ op'[r].pc \in Holding /\ OrderOf(q) = OrderOf(r) => q = r
      BY <1>2 DEF RowLockVouches
    <2>2 \A r \in Op : op[r].pc \in Holding \cup {"settled"} => status'[OrderOf(r)] = status[OrderOf(r)]
      BY <1>2 DEF Holding
    <2> QED
      BY <1>b, <1>1, <1>2, <2>1, <2>2 DEF RowLockVouches, OrderOf, Kind, Succeeded
  <1>3 ASSUME NEW c \in Checkout, CheckoutStep(c) \/ Dies(c) PROVE RowLockVouches'
    <2>1 UNCHANGED op
      BY <1>3, CheckoutFrame
    <2>2 ASSUME NEW r \in Op, op[r].pc # "new" PROVE status'[OrderOf(r)] = status[OrderOf(r)]
      <3>1 status[OrderOf(r)] # "NONE"
        BY <2>2, <1>c
      <3>2 Commits(c) => status[c] = "NONE"
        BY <1>a DEF Commits, At, Order
      <3>3 Commits(c) => status' = [status EXCEPT ![c] = "PENDING_PAYMENT"]
        BY DEF Commits
      <3>4 status \in [Order -> {"NONE", "PENDING_PAYMENT", "PAID", "PAYMENT_FAILED", "CANCELLED"}]
        BY DEF TypeOK
      <3> QED
        BY <1>3, <1>a, <3>1, <3>2, <3>3, <3>4, CheckoutStatus
    <2> QED
      BY <1>2, <2>1, <2>2
  <1>4 CASE Elsewhere
    BY <1>2, <1>4, ElsewhereFrame
  <1>5 ASSUME NEW q \in Op, OpStep(q) \/ OpFails(q) PROVE RowLockVouches'
    <2> DEFINE o == OrderOf(q)
    <2>a o \in Order /\ op[q] \in OpState /\ op'[q] \in OpState
      BY <1>5, <1>a, OpTyped
    <2>1 \A r \in Op \ {q} : op'[r] = op[r]
      BY <1>5, OpMoves
    <2>2 ASSUME NEW r \in Op \ {q}, op[r].pc \in Holding \cup {"settled"}
         PROVE  status'[OrderOf(r)] = status[OrderOf(r)]
      <3>1 CASE CancelSets(q)
        <4>1 /\ status' = [status EXCEPT ![o] = IF Wins(q) THEN "CANCELLED" ELSE @]
             /\ ~ RowLocked(o)
          BY <3>1 DEF CancelSets
        <4> QED
          BY <1>a, <2>a, <2>2, <4>1 DEF RowLocked, Holding, RowLockVouches, Wins
      <3>2 CASE ExpireCommits(q) \/ ResultCommits(q)
        <4>1 /\ op[q].pc \in Holding
             /\ \E to \in {"PAID", "PAYMENT_FAILED"} : status' = [status EXCEPT ![o] = to]
          BY <3>2 DEF ExpireCommits, ResultCommits, StepsTo, Holding
        <4>2 OrderOf(r) # o
          BY <2>2, <4>1 DEF RowLockVouches, Holding
        <4> QED
          BY <1>a, <2>a, <4>1, <4>2
      <3> QED
        BY <1>5, <3>1, <3>2, RequestStatus
    <2>3 ASSUME NEW r1 \in Op, NEW r2 \in Op, op'[r1].pc \in Holding, op'[r2].pc \in Holding,
                OrderOf(r1) = OrderOf(r2)
         PROVE  r1 = r2
      <3>1 op'[q].pc \in Holding => op[q].pc \in Holding \/ ~ RowLocked(o)
        BY <1>5, OpMoves
      <3> QED
        BY <2>1, <2>3, <3>1 DEF RowLockVouches, RowLocked, Holding
    <2>4 op'[q].pc \in Holding => status'[o] = "PENDING_PAYMENT"
      <3>1 op'[q].pc \in Holding => status[o] = "PENDING_PAYMENT"
        BY <1>5, OpMoves DEF RowLockVouches, Wins
      <3>2 CancelSets(q) \/ ExpireCommits(q) \/ ResultCommits(q) => op'[q].pc \notin Holding
        BY <1>a DEF CancelSets, ExpireCommits, ResultCommits, StepsTo, OpState, Holding
      <3> QED
        BY <1>5, <3>1, <3>2, RequestStatus
    <2>5 op'[q].pc = "settled" => status'[o] \in {"PAID", "PAYMENT_FAILED"}
      <3>1 op'[q].pc = "settled" /\ ResultReadsOrder(q) => status'[o] \in {"PAID", "PAYMENT_FAILED"}
        BY <1>a DEF ResultReadsOrder, StepsTo, OpState
      <3>2 ResultCommits(q) => status'[o] \in {"PAID", "PAYMENT_FAILED"}
        <4>1 ResultCommits(q) =>
               \E to \in {"PAID", "PAYMENT_FAILED"} : status' = [status EXCEPT ![o] = to]
          BY DEF ResultCommits
        <4>2 status \in [Order -> {"NONE", "PENDING_PAYMENT", "PAID", "PAYMENT_FAILED", "CANCELLED"}]
          BY DEF TypeOK
        <4> QED
          BY <2>a, <4>1, <4>2
      <3> QED
        BY <1>5, <3>1, <3>2, OpMoves
    <2>6 op'[q].pc # "new"
      BY <1>5, OpMoves
    <2>7 ASSUME Kind(q) = "pay"
         PROVE  o \in raced' \/ \A s \in op'[q].skus : stock'[o][s] = "CONFIRMED"
      <3>1 /\ op[q].pc = "new" => op[q].skus = {}
           /\ o \in raced \/ \A s \in op[q].skus : stock[o][s] = "CONFIRMED"
           /\ op[q].skus \subseteq Sku /\ op'[q].skus \subseteq Sku
        BY <2>7, <2>a DEF RowLockVouches, OpState
      <3>2 op[q].pc # "new" =>
             /\ o \in raced => o \in raced'
             /\ \A s \in Sku : stock[o][s] = "CONFIRMED" => stock'[o][s] = "CONFIRMED"
        BY <1>c, <2>a, VisibleOrders
      <3>3 CASE op'[q].skus = op[q].skus
        BY <3>1, <3>2, <3>3
      <3>4 ASSUME NEW s \in Sku, ConfirmsStock(q, s)
           PROVE  o \in raced' \/ \A t \in op'[q].skus : stock'[o][t] = "CONFIRMED"
        <4>1 /\ op[q].pc = "locked" /\ UNCHANGED raced
             /\ op'[q].skus = op[q].skus \cup {s}
             /\ stock[o][s] \in {"RESERVED", "CONFIRMED"} => stock'[o][s] = "CONFIRMED"
          BY <3>4, <1>a, <2>a DEF ConfirmsStock, OpState
        <4>2 o \in raced \/ stock[o][s] \in {"RESERVED", "CONFIRMED"}
          BY <4>1, <1>a, <1>c, <2>a DEF CheckoutHolds, Order
        <4> QED
          BY <3>1, <3>2, <4>1, <4>2
      <3> QED
        BY <1>5, <2>7, <3>3, <3>4, OpMoves DEF ReleasesStock, ExpiresStock
    <2>8 op'[q].pc \in {"used", "shipped"} =>
           /\ Kind(q) = "pay" /\ op'[q].outcome = "SUCCESS"
           /\ op'[q].skus = Sku /\ couponRow'[o] # "RESERVED"
      <3>1 ASSUME UsesCoupon(q), op'[q].pc = "used"
           PROVE  /\ Kind(q) = "pay" /\ op'[q].outcome = "SUCCESS"
                  /\ op'[q].skus = Sku /\ couponRow'[o] # "RESERVED"
        <4>1 /\ Kind(q) = "pay" /\ op'[q].outcome = "SUCCESS" /\ op'[q].skus = Sku
             /\ couponRow[o] = "RESERVED" => o \notin overdue
          BY <3>1, <1>a DEF UsesCoupon, Succeeded, StepsTo, OpState
        <4>2 couponRow' = [couponRow EXCEPT ![o] = IF @ = "RESERVED" /\ o \notin overdue THEN "USED" ELSE @]
          BY <3>1 DEF UsesCoupon
        <4> QED
          BY <1>a, <2>a, <4>1, <4>2
      <3>2 ASSUME Ships(q)
           PROVE  /\ Kind(q) = "pay" /\ op'[q].outcome = "SUCCESS"
                  /\ op'[q].skus = Sku /\ couponRow'[o] # "RESERVED"
        <4>1 /\ op[q].pc = "used" /\ op'[q].outcome = op[q].outcome /\ op'[q].skus = op[q].skus
             /\ UNCHANGED couponRow
          BY <3>2, <1>a DEF Ships, StepsTo, OpState
        <4> QED
          BY <4>1 DEF RowLockVouches, Succeeded
      <3> QED
        BY <1>5, <3>1, <3>2, OpMoves
    <2>9 op'[q].pc = "shipped" => parcel'[o] # "NONE"
      <3>1 Ships(q) => parcel'[o] # "NONE"
        BY <1>a, <2>a DEF Ships
      <3> QED
        BY <1>5, <3>1, OpMoves
    <2>10 ASSUME NEW r \in Op
          PROVE  /\ op'[r].pc \in Holding => status'[OrderOf(r)] = "PENDING_PAYMENT"
                 /\ op'[r].pc = "settled" => status'[OrderOf(r)] \in {"PAID", "PAYMENT_FAILED"}
                 /\ op'[r].pc = "new" => op'[r].skus = {}
                 /\ Kind(r) = "pay" => OrderOf(r) \in raced'
                      \/ \A s \in op'[r].skus : stock'[OrderOf(r)][s] = "CONFIRMED"
                 /\ op'[r].pc \in {"used", "shipped"} =>
                      /\ Kind(r) = "pay" /\ op'[r].outcome = "SUCCESS"
                      /\ op'[r].skus = Sku /\ couponRow'[OrderOf(r)] # "RESERVED"
                 /\ op'[r].pc = "shipped" => parcel'[OrderOf(r)] # "NONE"
      <3>1 CASE r = q
        BY <3>1, <2>4, <2>5, <2>6, <2>7, <2>8, <2>9
      <3>2 CASE r # q
        BY <3>2, <1>1, <2>1, <2>2
      <3> QED
        BY <3>1, <3>2
    <2> HIDE DEF o
    <2> QED
      BY <1>b, <2>3, <2>10 DEF RowLockVouches, OrderOf, Kind, Succeeded
  <1> QED
    BY <1>3, <1>4, <1>5, Steps
-----------------------------------------------------------------------------
\* The four invariants of the protocol

\* The catch block gives back all that its checkout remembers.
LEMMA AbortStep ==
  ASSUME TypeOK, RemembersReserved, CleanAbort, [Next]_vars
  PROVE  CleanAbort'
  <1>a /\ checkout \in [Checkout -> CheckoutState]
       /\ freeze \in [Key -> [token : Checkout \cup {None}, version : Nat]]
       /\ \A c \in Checkout : checkout[c].pc # "new" => keyOf[c] \in Key
    BY DEF TypeOK
  <1>1 ASSUME NEW d \in Checkout, CheckoutStep(d) \/ Dies(d), NEW c \in Checkout,
              checkout'[c].pc = "aborted", c \notin faulty'
       PROVE  /\ couponRow'[c] # "RESERVED"
              /\ \A s \in Sku : stock'[c][s] # "RESERVED"
              /\ freeze'[keyOf[c]].token # None => freeze'[keyOf[c]].token # checkout'[c].token
                   \/ \E e \in Checkout \ {c} : keyOf[e] = keyOf[c]
    <2>1 c \notin faulty
      BY <1>1, CheckoutFaults DEF Fault, faultVars
    <2>2 CASE c = d
      <3>1 Compensates(c)
        BY <1>1, <2>2, CheckoutPc
      <3>2 checkout'[c].token = checkout[c].token
        BY <3>1, <1>a DEF Compensates, Goes, CheckoutState
      <3>3 couponRow'[c] # "RESERVED" /\ \A s \in Sku : stock'[c][s] # "RESERVED"
        BY <1>1, <2>1, <3>1, CompensatesFacts DEF RemembersReserved
      <3>4 freeze'[keyOf[c]].token # None => freeze'[keyOf[c]].token # checkout[c].token
        BY <1>1, <3>1, CompensatesFacts
      <3> QED
        BY <3>2, <3>3, <3>4
    <2>3 CASE c # d
      <3>1 checkout'[c] = checkout[c]
        BY <1>1, <2>3, CheckoutPc
      <3>2 stock'[c] = stock[c] /\ couponRow'[c] = couponRow[c]
        <4>1 stock \in [Order -> [Sku -> {"NONE", "RESERVED", "CONFIRMED", "RELEASED", "EXPIRED"}]]
             /\ couponRow \in [Order -> {"NONE", "RESERVED", "USED", "RELEASED"}]
          BY DEF TypeOK
        <4>2 stock'[c] = stock[c]
          BY <1>1, <2>3, <4>1, CheckoutStock DEF Order
        <4>3 couponRow'[c] = couponRow[c]
          BY <1>1, <2>3, <4>1, CheckoutCoupon DEF Order
        <4> QED
          BY <4>2, <4>3
      <3>3 keyOf[c] \in Key
        BY <1>1, <1>a, <3>1
      <3>4 freeze'[keyOf[c]] \in {freeze[keyOf[c]], NoFreeze} \/ keyOf[d] = keyOf[c]
        <4>1 Freezes(d) => freeze'[keyOf[c]] = freeze[keyOf[c]] \/ keyOf[d] = keyOf[c]
          BY <1>a, <3>3 DEF Freezes
        <4>2 Compensates(d) => freeze'[keyOf[c]] \in {freeze[keyOf[c]], NoFreeze}
          BY <3>3, CompensatesFacts
        <4>3 freeze' = [freeze EXCEPT ![keyOf[d]] = NoFreeze] =>
               freeze'[keyOf[c]] \in {freeze[keyOf[c]], NoFreeze}
          BY <1>a, <3>3
        <4> QED
          BY <1>1, <4>1, <4>2, <4>3, CheckoutFreezeBy
      <3> QED
        BY <1>1, <2>1, <2>3, <3>1, <3>2, <3>4 DEF CleanAbort, At, NoFreeze
    <2> QED
      BY <2>2, <2>3
  <1>2 ASSUME Elsewhere \/ \E q \in Op : OpStep(q) \/ OpFails(q), NEW c \in Checkout,
              checkout'[c].pc = "aborted", c \notin faulty'
       PROVE  /\ couponRow'[c] # "RESERVED"
              /\ \A s \in Sku : stock'[c][s] # "RESERVED"
              /\ freeze'[keyOf[c]].token # None => freeze'[keyOf[c]].token # checkout'[c].token
                   \/ \E e \in Checkout \ {c} : keyOf[e] = keyOf[c]
    <2>1 UNCHANGED checkout /\ faulty \subseteq faulty'
      BY <1>2, RequestFrame, RequestFaults, ElsewhereFrame DEF Fault, faultVars
    <2>2 keyOf[c] \in Key
      BY <1>2, <1>a, <2>1
    <2>3 freeze'[keyOf[c]] \in {freeze[keyOf[c]], NoFreeze}
      <3>1 ASSUME Elsewhere PROVE freeze'[keyOf[c]] \in {freeze[keyOf[c]], NoFreeze}
        BY <3>1, <1>a, <2>2 DEF Elsewhere, CreatesIntent, Refunds, BecomesOverdue, CouponSwept,
           DeliveryConfirmed, FreezeLapses, EditsCart, vars, cartVars
      <3> QED
        BY <1>2, <3>1, RequestFrame
    <2>4 /\ couponRow'[c] = "RESERVED" => couponRow[c] = "RESERVED"
         /\ \A s \in Sku : stock'[c][s] = "RESERVED" => stock[c][s] = "RESERVED"
      BY <1>2, OnlyCheckoutsReserve DEF Order
    <2> QED
      BY <1>2, <2>1, <2>3, <2>4 DEF CleanAbort, At, NoFreeze
  <1>3 UNCHANGED keyOf
    BY Steps, CheckoutFrame, RequestFrame, ElsewhereFrame
  <1> QED
    BY <1>1, <1>2, <1>3, Steps DEF CleanAbort, At

\* PaidOrderIsBacked is kept by every step.
LEMMA PaidStep ==
  ASSUME TypeOK, RequestsAreGrounded, RowLockVouches, PaidOrderIsBacked, [Next]_vars
  PROVE  PaidOrderIsBacked'
  <1>1 SUFFICES ASSUME NEW o \in Order, status'[o] = "PAID"
                PROVE  /\ o \in raced' \/ \A s \in Sku : stock'[o][s] = "CONFIRMED"
                       /\ couponRow'[o] # "RESERVED"
    BY DEF PaidOrderIsBacked
  <1>2 o \in raced \/ \A s \in Sku : stock[o][s] = "CONFIRMED"
    <2>1 ASSUME NEW q \in Op, OrderOf(q) = o, ResultCommits(q), Succeeded(q)
         PROVE  o \in raced \/ \A s \in Sku : stock[o][s] = "CONFIRMED"
      <3>1 op[q].pc = "shipped"
        BY <2>1 DEF ResultCommits, StepsTo
      <3> QED
        BY <2>1, <3>1 DEF RowLockVouches, Succeeded
    <2> QED
      BY <1>1, <2>1, StatusMoves DEF PaidOrderIsBacked
  <1>3 couponRow[o] # "RESERVED" /\ status[o] # "NONE"
    <2>1 ASSUME NEW q \in Op, OrderOf(q) = o, ResultCommits(q), Succeeded(q)
         PROVE  couponRow[o] # "RESERVED"
      <3>1 op[q].pc = "shipped"
        BY <2>1 DEF ResultCommits, StepsTo
      <3> QED
        BY <2>1, <3>1 DEF RowLockVouches
    <2> QED
      BY <1>1, <2>1, StatusMoves DEF PaidOrderIsBacked
  <1> QED
    BY <1>2, <1>3, VisibleOrders

\* SettledPaymentSettlesOrder is kept by every step.
LEMMA SettledStep ==
  ASSUME TypeOK, RequestsAreGrounded, RowLockVouches, SettledPaymentSettlesOrder, [Next]_vars
  PROVE  SettledPaymentSettlesOrder'
  <1>a /\ payment \in [Payment -> PaymentState] /\ \A q \in Op : Intent(q) \in Payment
    BY DEF TypeOK, Intent
  <1>1 \A p \in Payment :
         /\ payment'[p].order = payment[p].order
         /\ payment'[p].status \in {"SUCCESS", "FAILED", "REFUNDED"} =>
              \/ payment[p].status \in {"SUCCESS", "FAILED", "REFUNDED"}
              \/ \E q \in Op : p = Intent(q) /\ op[q].pc = "settled"
    <2>1 ASSUME NEW q \in Op, PaymentCommits(q)
         PROVE  \A p \in Payment : /\ payment'[p].order = payment[p].order
                                   /\ payment'[p].status = payment[p].status \/ (p = Intent(q) /\ op[q].pc = "settled")
      BY <2>1, <1>a DEF PaymentCommits, SetPayment, StepsTo, PaymentState
    <2>2 ASSUME NEW r \in Payment, CreatesIntent(r) \/ Refunds(r)
         PROVE  \A p \in Payment :
                  /\ payment'[p].order = payment[p].order
                  /\ payment'[p].status \in {"SUCCESS", "FAILED", "REFUNDED"} =>
                       payment[p].status \in {"SUCCESS", "FAILED", "REFUNDED"}
      BY <2>2, <1>a DEF CreatesIntent, Refunds, SetPayment, PaymentState
    <2>3 Elsewhere => UNCHANGED payment \/ \E r \in Payment : CreatesIntent(r) \/ Refunds(r)
      BY DEF Elsewhere, BecomesOverdue, CouponSwept, DeliveryConfirmed, FreezeLapses, EditsCart,
         vars, payVars
    <2>4 \/ UNCHANGED payment \/ \E q \in Op : PaymentCommits(q)
         \/ \E r \in Payment : CreatesIntent(r) \/ Refunds(r)
      BY <2>3, Steps, CheckoutFrame, RequestPayment
    <2> QED
      BY <2>1, <2>2, <2>4
  <1>2 \A q \in Op : op[q].pc = "settled" =>
         status[payment[Intent(q)].order] \in {"PAID", "PAYMENT_FAILED"}
    BY DEF RequestsAreGrounded, RowLockVouches
  <1>3 \A p \in Payment : payment[p].status # "NONE" => payment[p].order \in Order
    BY DEF RequestsAreGrounded
  <1>4 \A q \in Op : op[q].pc = "settled" => payment[Intent(q)].order \in Order
    BY DEF RequestsAreGrounded, TypeOK, OrderOf
  <1>5 \A o \in Order : status[o] \in {"PAID", "PAYMENT_FAILED"} => status'[o] = status[o]
    BY StatusMoves
  <1> QED
    BY <1>1, <1>2, <1>3, <1>4, <1>5 DEF SettledPaymentSettlesOrder
-----------------------------------------------------------------------------
\* The invariant

\* The invariant holds at the start.
LEMMA InitInv ==
  ASSUME Init
  PROVE  IInv
  <1> USE DEF Init
  <1>1 TypeOK
    <2>1 checkout \in [Checkout -> CheckoutState]
      BY DEF Fresh, CheckoutState
    <2>2 freeze \in [Key -> [token : Checkout \cup {None}, version : Nat]]
      BY DEF NoFreeze
    <2>3 op \in [Op -> OpState]
      BY DEF OpState
    <2>4 payment \in [Payment -> PaymentState]
      BY DEF PaymentState
    <2>5 faults \in 0..MaxFaults
      BY SagaAssumption
    <2>6 cart \in [version : Nat, full : BOOLEAN]
      OBVIOUS
    <2> QED
      BY <2>1, <2>2, <2>3, <2>4, <2>5, <2>6 DEF TypeOK, Fresh, Order
  <1>2 CheckoutHolds
    BY DEF CheckoutHolds, Fresh
  <1>3 OnePastInsert
    BY DEF OnePastInsert, Fresh
  <1>4 RemembersReserved
    BY DEF RemembersReserved, Order
  <1>5 RequestsAreGrounded
    BY DEF RequestsAreGrounded, OrderOf, Kind, Intent
  <1>6 RowLockVouches
    BY DEF RowLockVouches, Holding
  <1>7 CleanAbort
    BY DEF CleanAbort, At, Fresh
  <1>8 OneOrderPerKey
    BY DEF OneOrderPerKey, Order
  <1>9 PaidOrderIsBacked
    BY DEF PaidOrderIsBacked
  <1>10 SettledPaymentSettlesOrder
    BY DEF SettledPaymentSettlesOrder
  <1> HIDE DEF Init
  <1> QED
    BY <1>1, <1>2, <1>3, <1>4, <1>5, <1>6, <1>7, <1>8, <1>9, <1>10 DEF IInv

\* The invariant is inductive.
LEMMA InvStep ==
  ASSUME IInv, [Next]_vars
  PROVE  IInv'
  <1>1 TypeOK' /\ OnePastInsert'
    BY TypeStep, InsertStep DEF IInv
  <1>2 OneOrderPerKey'
    BY <1>1 DEF TypeOK, OnePastInsert, OneOrderPerKey, Order
  <1> QED
    BY <1>1, <1>2, HoldsStep, RemembersStep, GroundedStep, RowLockStep, AbortStep, PaidStep,
       SettledStep DEF IInv

\* What the protocol keeps, for any checkouts, keys, SKUs, requests, intents and faults.
THEOREM SagaInvariant == Spec => []IInv
  <1>1 Init => IInv
    BY InitInv
  <1>2 IInv /\ [Next]_vars => IInv'
    BY InvStep
  <1> QED
    BY <1>1, <1>2, PTL DEF Spec

\* Every variable keeps its type; a visible order is a committed checkout, and a settled
\* payment was answered (the record sets of CheckoutSaga).
THEOREM TypeCorrect == Spec => []TypeOK
  BY SagaInvariant, PTL DEF IInv

\* A checkout that gave up and met no fault holds no stock, no coupon and no freeze
\* (the catch block of createPendingCheckout).
THEOREM AbortIsClean == Spec => []CleanAbort
  BY SagaInvariant, PTL DEF IInv

\* One idempotency key makes one order (checkout() and the unique key of orders).
THEOREM KeyMakesOneOrder == Spec => []OneOrderPerKey
  BY SagaInvariant, PTL DEF IInv

\* A paid order has its stock and its coupon, unless a request about it had given the
\* stock back (applyPaymentResult).
THEOREM PaidIsBacked == Spec => []PaidOrderIsBacked
  BY SagaInvariant, PTL DEF IInv

\* A payment is not settled before its order is decided (executePayment).
THEOREM PaymentSettlesOrder == Spec => []SettledPaymentSettlesOrder
  BY SagaInvariant, PTL DEF IInv
-----------------------------------------------------------------------------
\* The refinement: orders with a charge and orders with a parcel are what OrderPromise
\* calls charged and shipped.

Charged == {payment[p].order : p \in {p \in Payment : charges[p] > 0}}
Shipped == {o \in Order : parcel[o] # "NONE"}

\* Charges are made by confirmations, which are about orders that can be seen.
LEMMA ChargedMoves ==
  ASSUME TypeOK, RequestsAreGrounded, [Next]_vars
  PROVE  \/ Charged' = Charged
         \/ \E q \in Op : /\ Authorizes(q) /\ status[OrderOf(q)] # "NONE" /\ OrderOf(q) \in Order
                          /\ Charged' = Charged \cup {OrderOf(q)}
  <1>a /\ payment \in [Payment -> PaymentState] /\ charges \in [Payment -> Nat]
       /\ \A q \in Op : Intent(q) \in Payment /\ OrderOf(q) \in Order
    BY DEF TypeOK, Intent, OrderOf
  <1>1 \A p \in Payment : payment'[p].order = payment[p].order
    <2>1 \A q \in Op : PaymentCommits(q) => \A p \in Payment : payment'[p].order = payment[p].order
      BY <1>a DEF PaymentCommits, SetPayment, PaymentState
    <2>2 \A r \in Payment : CreatesIntent(r) \/ Refunds(r) =>
           \A p \in Payment : payment'[p].order = payment[p].order
      BY <1>a DEF CreatesIntent, Refunds, SetPayment, PaymentState
    <2>3 Elsewhere => UNCHANGED payment \/ \E r \in Payment : CreatesIntent(r) \/ Refunds(r)
      BY DEF Elsewhere, BecomesOverdue, CouponSwept, DeliveryConfirmed, FreezeLapses, EditsCart,
         vars, payVars
    <2> QED
      BY <2>1, <2>2, <2>3, Steps, CheckoutFrame, RequestPayment
  <1>2 CASE UNCHANGED charges
    BY <1>1, <1>2 DEF Charged
  <1>3 ASSUME NEW q \in Op, OpStep(q) \/ OpFails(q), ~ UNCHANGED charges
       PROVE  /\ Authorizes(q) /\ status[OrderOf(q)] # "NONE"
              /\ Charged' = Charged \cup {OrderOf(q)}
    <2>1 Authorizes(q)
      BY <1>3 DEF OpStep, payVars, ReadsOrder, CancelReleasesCoupon, CancelSets, ExpireSets,
         ExpireCommits, ReleasesStock, ExpiresStock, ConfirmsStock, FindsPayment,
         ResultReadsOrder, ResultSets, UsesCoupon, Ships, ResultCommits, PaymentCommits, OpFails
    <2>2 charges' = [charges EXCEPT ![Intent(q)] = @ + 1] /\ op[q].pc = "found"
      BY <1>3, <2>1 DEF Authorizes
    <2>3 payment[Intent(q)].order = OrderOf(q) /\ status[OrderOf(q)] # "NONE"
      BY <2>2 DEF RequestsAreGrounded
    <2>4 \A p \in Payment : charges'[p] > 0 <=> charges[p] > 0 \/ p = Intent(q)
      BY <1>a, <2>2
    <2> QED
      BY <1>1, <1>a, <2>1, <2>3, <2>4 DEF Charged
  <1>4 UNCHANGED charges \/ \E q \in Op : OpStep(q) \/ OpFails(q)
    BY Steps, CheckoutFrame, ElsewhereFrame
  <1> QED
    BY <1>2, <1>3, <1>4, <1>a

\* Parcels appear one at a time, for orders that are charged and still pending.
LEMMA ShippedMoves ==
  ASSUME TypeOK, RequestsAreGrounded, RowLockVouches, [Next]_vars
  PROVE  \/ Shipped' = Shipped
         \/ \E q \in Op : /\ Ships(q) /\ OrderOf(q) \in Order \cap Charged
                          /\ status[OrderOf(q)] = "PENDING_PAYMENT"
                          /\ Shipped' = Shipped \cup {OrderOf(q)}
  <1>a /\ parcel \in [Order -> {"NONE", "SHIPPED", "COMPLETED"}]
       /\ \A q \in Op : OrderOf(q) \in Order /\ Intent(q) \in Payment
    BY DEF TypeOK, OrderOf, Intent
  <1>1 CASE UNCHANGED parcel
    BY <1>1 DEF Shipped
  <1>2 ASSUME NEW q \in Op, Ships(q)
       PROVE  /\ OrderOf(q) \in Order \cap Charged /\ status[OrderOf(q)] = "PENDING_PAYMENT"
              /\ Shipped' = Shipped \cup {OrderOf(q)}
    <2>1 op[q].pc = "used"
      BY <1>2 DEF Ships, StepsTo
    <2>2 status[OrderOf(q)] = "PENDING_PAYMENT" /\ Kind(q) = "pay" /\ op[q].outcome = "SUCCESS"
      BY <2>1 DEF RowLockVouches, Holding, Succeeded
    <2>3 charges[Intent(q)] > 0 /\ OrderOf(q) = payment[Intent(q)].order
      BY <2>2 DEF RequestsAreGrounded
    <2>4 Shipped' = Shipped \cup {OrderOf(q)}
      BY <1>2, <1>a DEF Ships, Shipped
    <2> QED
      BY <1>a, <2>2, <2>3, <2>4 DEF Charged
  <1>3 ASSUME NEW o \in Order, DeliveryConfirmed(o) PROVE Shipped' = Shipped
    BY <1>3, <1>a DEF DeliveryConfirmed, Shipped
  <1>4 UNCHANGED parcel \/ (\E q \in Op : Ships(q)) \/ \E o \in Order : DeliveryConfirmed(o)
    <2>1 Elsewhere => UNCHANGED parcel \/ \E o \in Order : DeliveryConfirmed(o)
      BY DEF Elsewhere, CreatesIntent, Refunds, BecomesOverdue, CouponSwept, FreezeLapses,
         EditsCart, vars, rowVars
    <2> QED
      BY <2>1, Steps, CheckoutFrame, RequestParcel
  <1> QED
    BY <1>1, <1>2, <1>3, <1>4

\* Only one of the three moves in a step.
LEMMA OneMoves ==
  ASSUME [Next]_vars
  PROVE  /\ status' # status => UNCHANGED <<payment, charges, parcel>>
         /\ \A q \in Op : Authorizes(q) => UNCHANGED <<status, parcel>>
         /\ \A q \in Op : Ships(q) => UNCHANGED <<status, payment, charges>>
  <1>1 \A q \in Op : CancelSets(q) \/ ExpireCommits(q) \/ ResultCommits(q) =>
         UNCHANGED <<payment, charges, parcel>>
    BY DEF CancelSets, ExpireCommits, ResultCommits, payVars, rowVars
  <1>2 status' # status => UNCHANGED <<payment, charges, parcel>>
    BY <1>1, Steps, CheckoutFrame, RequestStatus, ElsewhereFrame
  <1>3 \A q \in Op : Authorizes(q) => UNCHANGED <<status, parcel>>
    BY DEF Authorizes, rowVars
  <1>4 \A q \in Op : Ships(q) => UNCHANGED <<status, payment, charges>>
    BY DEF Ships, payVars
  <1> QED
    BY <1>2, <1>3, <1>4

\* Every step is a step of the promise or leaves what customers see alone.
LEMMA PromiseStep ==
  ASSUME IInv, [Next]_vars
  PROVE  [Promise!PromiseNext]_(Promise!promiseVars)
  <1>a /\ status \in [Order -> {"NONE", "PENDING_PAYMENT", "PAID", "PAYMENT_FAILED", "CANCELLED"}]
       /\ status' \in [Order -> {"NONE", "PENDING_PAYMENT", "PAID", "PAYMENT_FAILED", "CANCELLED"}]
    BY TypeStep DEF IInv, TypeOK
  <1>1 CASE status' # status
    <2>1 Charged' = Charged /\ Shipped' = Shipped
      BY <1>1, OneMoves DEF Charged, Shipped
    <2>2 PICK o \in Order : status'[o] # status[o]
      BY <1>1, <1>a
    <2>3 PICK to : status' = [status EXCEPT ![o] = to]
      <3>1 \A q \in Op : CancelSets(q) \/ ExpireCommits(q) \/ ResultCommits(q) =>
             \E to : status' = [status EXCEPT ![OrderOf(q)] = to]
        BY DEF CancelSets, ExpireCommits, ResultCommits
      <3>2 \A c \in Checkout : Commits(c) => \E to : status' = [status EXCEPT ![c] = to]
        BY DEF Commits
      <3>3 \E x, to : status' = [status EXCEPT ![x] = to]
        BY <1>1, <3>1, <3>2, Steps, CheckoutStatus, RequestStatus, ElsewhereFrame
      <3> QED
        BY <1>a, <2>2, <3>3
    <2>4 CASE status[o] = "NONE" /\ status'[o] = "PENDING_PAYMENT"
      BY <1>a, <2>1, <2>3, <2>4
         DEF Promise!PromiseNext, Promise!Place, Promise!promiseVars, Charged, Shipped
    <2>5 CASE status[o] = "PENDING_PAYMENT" /\ status'[o] \in {"PAID", "PAYMENT_FAILED", "CANCELLED"}
      <3>1 status'[o] = "PAID" => o \in Charged \cap Shipped
        <4>1 ASSUME NEW q \in Op, OrderOf(q) = o, ResultCommits(q), Succeeded(q)
             PROVE  o \in Charged \cap Shipped
          <5>1 op[q].pc = "shipped" /\ Kind(q) = "pay" /\ op[q].outcome = "SUCCESS"
            BY <4>1 DEF ResultCommits, StepsTo, Succeeded
          <5>2 charges[Intent(q)] > 0 /\ o = payment[Intent(q)].order /\ parcel[o] # "NONE"
            BY <4>1, <5>1 DEF IInv, RequestsAreGrounded, RowLockVouches
          <5>3 Intent(q) \in Payment
            BY DEF IInv, TypeOK, Intent
          <5> QED
            BY <5>2, <5>3 DEF Charged, Shipped
        <4> QED
          BY <2>5, <4>1, StatusMoves DEF IInv
      <3> QED
        BY <1>a, <2>1, <2>3, <2>5, <3>1
           DEF Promise!PromiseNext, Promise!Decide, Promise!Decided, Promise!promiseVars, Charged, Shipped
    <2> QED
      BY <2>2, <2>4, <2>5, StatusMoves DEF IInv
  <1>2 CASE UNCHANGED status
    <2>1 ASSUME NEW q \in Op, Authorizes(q), status[OrderOf(q)] # "NONE", OrderOf(q) \in Order,
                Charged' = Charged \cup {OrderOf(q)}
         PROVE  Promise!PromiseNext
      <3>1 Shipped' = Shipped
        BY <2>1, OneMoves DEF Shipped
      <3> QED
        BY <1>2, <2>1, <3>1 DEF Promise!PromiseNext, Promise!Charge, Charged, Shipped
    <2>2 ASSUME NEW q \in Op, Ships(q), OrderOf(q) \in Order \cap Charged,
                status[OrderOf(q)] = "PENDING_PAYMENT", Shipped' = Shipped \cup {OrderOf(q)}
         PROVE  Promise!PromiseNext
      <3>1 Charged' = Charged
        BY <2>2, OneMoves DEF Charged
      <3> QED
        BY <1>2, <2>2, <3>1 DEF Promise!PromiseNext, Promise!Ship, Charged, Shipped
    <2>3 CASE Charged' = Charged /\ Shipped' = Shipped
      BY <1>2, <2>3 DEF Promise!promiseVars, Charged, Shipped
    <2> QED
      BY <2>1, <2>2, <2>3, ChargedMoves, ShippedMoves DEF IInv
  <1> QED
    BY <1>1, <1>2

\* What customers see of orders, charges and parcels is what OrderPromise allows: decided
\* once, paid only when charged and shipped, shipped only when charged.
THEOREM KeepsThePromise == Spec => KeepsPromise
  <1>1 Init => Promise!PromiseInit
    BY DEF Init, Promise!PromiseInit
  <1>2 IInv /\ [Next]_vars => [Promise!PromiseNext]_(Promise!promiseVars)
    BY PromiseStep
  <1> QED
    BY <1>1, <1>2, SagaInvariant, PTL DEF Spec, KeepsPromise, Promise!PromiseSpec
=============================================================================
