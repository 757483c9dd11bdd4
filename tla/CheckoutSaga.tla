------------------------------ MODULE CheckoutSaga ------------------------------
\* Checkout, payment, cancellation and expiry of one customer's orders across the
\* order, cart, promotion, inventory, payment and fulfilment services (OrderService,
\* DownstreamClients, CartService, PaymentService, RiskService, FulfillmentService).
\* There is no distributed transaction: every call of another service commits there
\* at once, the order commits when the caller's transaction does. An order and what
\* is reserved for it are named after the checkout that makes them.
EXTENDS Integers, FiniteSets

CONSTANTS
  Checkout,             \* checkout requests, each with an order number of its own
  Key,                  \* idempotency keys
  Sku,                  \* what is in the cart
  WithCoupon,           \* checkouts that name a coupon
  Blacklisted,          \* checkouts that the risk service rejects
  Payment,              \* payment intents
  Op,                   \* requests about orders and payments
  MaxFaults,            \* bound on crashes, lost answers and failing calls
  MaxEdits,             \* bound on changes of the cart by the customer
  None

ASSUME SagaAssumption ==
  /\ WithCoupon \cup Blacklisted \subseteq Checkout
  /\ None \notin Checkout
  /\ MaxFaults \in Nat /\ MaxEdits \in Nat

VARIABLES
  cart,                 \* version of the cart, and whether anything is in it
  edits,                \* changes of the cart that the customer still makes
  freeze,               \* freeze[k]: token and cart version under the Redis key of k
  keyOf,                \* idempotency key of a checkout, None if it is not asked for
  checkout,             \* checkout[c]: progress, and the answers it has received
  status,               \* committed status of the order
  stock,                \* stock[o][s] in inventory_reservations
  couponRow,            \* couponRow[o] in coupon_reservations
  overdue,              \* orders whose reservations are older than 15 minutes
  parcel,               \* status of the fulfilment
  payment,              \* payment[p]: order, if it is asked for, and status of the intent
  charges,              \* charges[p]: what the provider has charged
  asks,                 \* asks[q]: kind of request q, its order and payment
  op,                   \* op[q]: progress, answer of the provider, and SKUs done
  faults,
  faulty,               \* history: checkouts and orders that met a fault
  raced                 \* history: orders whose stock a request about them gave back

cartVars == <<cart, edits, freeze>>
rowVars == <<stock, couponRow, overdue, parcel>>
payVars == <<payment, charges>>
opVars == <<asks, op>>
faultVars == <<faults, faulty>>
vars == <<cartVars, keyOf, checkout, status, rowVars, payVars, opVars, faultVars, raced>>

Order == Checkout
Kinds == {"none", "cancel", "drop", "expire", "pay"}
NoFreeze == [token |-> None, version |-> 0]
Running == {"looked", "frozen", "priced", "screened", "inserted", "consumed", "aborting", "rolling"}
Ended == {"answered", "refused", "placed", "aborted", "died"}

CheckoutState ==
  [pc : {"new"} \cup Running \cup Ended, version : Nat, full : BOOLEAN,
   token : Checkout \cup {None}, coupon : BOOLEAN, skus : SUBSET Sku]
PaymentState ==
  [order : Order \cup {None}, status : {"NONE", "CREATED", "SUCCESS", "FAILED", "REFUNDED"}]
OpState ==
  [pc : {"new", "found", "asked", "read", "locked", "used", "shipped", "settled", "done"},
   outcome : {"NONE", "SUCCESS", "FAILED"}, skus : SUBSET Sku]

\* Besides the types: only a request with a key has begun, an order is visible exactly
\* when its checkout has committed, and a payment that is settled was not settled without an answer of the provider.
TypeOK ==
  /\ cart \in [version : Nat, full : BOOLEAN]
  /\ edits \in 0..MaxEdits
  /\ freeze \in [Key -> [token : Checkout \cup {None}, version : Nat]]
  /\ keyOf \in [Checkout -> Key \cup {None}]
  /\ checkout \in [Checkout -> CheckoutState]
  /\ \A c \in Checkout : checkout[c].pc # "new" => keyOf[c] \in Key
  /\ status \in [Order -> {"NONE", "PENDING_PAYMENT", "PAID", "PAYMENT_FAILED", "CANCELLED"}]
  /\ \A o \in Order : status[o] # "NONE" <=> checkout[o].pc = "placed"
  /\ stock \in [Order -> [Sku -> {"NONE", "RESERVED", "CONFIRMED", "RELEASED", "EXPIRED"}]]
  /\ couponRow \in [Order -> {"NONE", "RESERVED", "USED", "RELEASED"}]
  /\ overdue \subseteq Order
  /\ parcel \in [Order -> {"NONE", "SHIPPED", "COMPLETED"}]
  /\ payment \in [Payment -> PaymentState]
  /\ charges \in [Payment -> Nat]
  /\ \A p \in Payment : payment[p].status \in {"SUCCESS", "REFUNDED"} => charges[p] > 0
  /\ asks \in [Op -> [kind : Kinds, order : Order, payment : Payment]]
  /\ op \in [Op -> OpState]
  /\ \A q \in Op : op[q].outcome # "NONE" => asks[q].kind = "pay"
  /\ faults \in 0..MaxFaults /\ faulty \subseteq Order
  /\ raced \subseteq Order

Fresh == [pc |-> "new", version |-> 0, full |-> FALSE, token |-> None, coupon |-> FALSE, skus |-> {}]

Init ==
  /\ cart = [version |-> 0, full |-> TRUE]
  /\ edits \in 0..MaxEdits
  /\ freeze = [k \in Key |-> NoFreeze]
  /\ keyOf \in [Checkout -> Key \cup {None}]
  /\ checkout = [c \in Checkout |-> Fresh]
  /\ status = [o \in Order |-> "NONE"]
  /\ stock = [o \in Order |-> [s \in Sku |-> "NONE"]]
  /\ couponRow = [o \in Order |-> "NONE"]
  /\ overdue = {}
  /\ parcel = [o \in Order |-> "NONE"]
  /\ payment \in [Payment -> [order : Order \cup {None}, status : {"NONE"}]]
  /\ charges = [p \in Payment |-> 0]
  /\ asks \in [Op -> [kind : Kinds, order : Order, payment : Payment]]
  /\ \A q \in Op : asks[q].kind = "pay" => asks[q].order = payment[asks[q].payment].order
  /\ op = [q \in Op |-> [pc |-> "new", outcome |-> "NONE", skus |-> {}]]
  /\ faults = 0 /\ faulty = {} /\ raced = {}

\* A crash, a lost answer or a failing call; what has been done elsewhere stays.
Fault(o) ==
  /\ faults < MaxFaults
  /\ faults' = faults + 1
  /\ faulty' = faulty \cup {o}

Goes(c, pc) == checkout' = [checkout EXCEPT ![c].pc = pc]
At(c, pc) == checkout[c].pc = pc

\* After the INSERT the transaction holds the unique key until it has rolled back.
Fallback(c) == IF At(c, "inserted") THEN "rolling" ELSE "aborting"
HoldsKey(k) == \E c \in Checkout : keyOf[c] = k /\ checkout[c].pc \in {"inserted", "consumed", "rolling"}
OrderOfKey(k) == \E c \in Checkout : keyOf[c] = k /\ status[c] # "NONE"

\* An answer is received, or lost after the other service has committed.
Answered(c, got) ==
  \/ /\ checkout' = [checkout EXCEPT ![c] = got] /\ UNCHANGED faultVars
  \/ /\ Goes(c, Fallback(c)) /\ Fault(c)

-----------------------------------------------------------------------------
\* checkout(): a repeated key is answered from its order. The request names the
\* cart version that the customer has seen.

LooksUp(c) ==
  /\ At(c, "new") /\ keyOf[c] # None
  /\ checkout' = [checkout EXCEPT ![c].pc = IF OrderOfKey(keyOf[c]) THEN "answered" ELSE "looked",
                                  ![c].version = cart.version]
  /\ UNCHANGED <<cartVars, keyOf, status, rowVars, payVars, opVars, faultVars, raced>>

\* The freeze of a key is shared by requests for the same cart version.
FreezeToken(c) == IF freeze[keyOf[c]].token = None THEN c ELSE freeze[keyOf[c]].token

Freezable(c) ==
  /\ checkout[c].version = cart.version
  /\ freeze[keyOf[c]].token # None => freeze[keyOf[c]].version = cart.version

\* A freeze whose answer is lost is not released by anyone: the call is before the try.
Freezes(c) ==
  /\ At(c, "looked")
  /\ Freezable(c)
  /\ freeze' = [freeze EXCEPT ![keyOf[c]] = [token |-> FreezeToken(c), version |-> cart.version]]
  /\ \/ /\ checkout' = [checkout EXCEPT ![c] =
             [@ EXCEPT !.pc = "frozen", !.full = cart.full, !.token = FreezeToken(c)]]
        /\ UNCHANGED faultVars
     \/ Goes(c, "refused") /\ Fault(c)
  /\ UNCHANGED <<cart, edits, keyOf, status, rowVars, payVars, opVars, raced>>

FreezeRefused(c) ==
  /\ At(c, "looked")
  /\ ~ Freezable(c)
  /\ Goes(c, "refused")
  /\ UNCHANGED <<cartVars, keyOf, status, rowVars, payVars, opVars, faultVars, raced>>

\* calculatePromotion() reserves the coupon; an empty cart is refused there.
Prices(c) ==
  /\ At(c, "frozen")
  /\ checkout[c].full
  /\ couponRow' = [couponRow EXCEPT ![c] = IF c \in WithCoupon THEN "RESERVED" ELSE @]
  /\ Answered(c, [checkout[c] EXCEPT !.pc = "priced", !.coupon = c \in WithCoupon])
  /\ UNCHANGED <<cartVars, keyOf, status, stock, overdue, parcel, payVars, opVars, raced>>

\* RiskResultDTO answers in the field pass; the order service looks for passed.
PreCheck(c) == [pass |-> c \notin Blacklisted]
Refuses(answer) == "passed" \in DOMAIN answer /\ ~ answer.passed

Screens(c) ==
  /\ At(c, "priced")
  /\ Goes(c, IF Refuses(PreCheck(c)) THEN "aborting" ELSE "screened")
  /\ UNCHANGED <<cartVars, keyOf, status, rowVars, payVars, opVars, faultVars, raced>>

\* reserveInventory() for the next item; only an answered call is remembered.
Reserves(c, s) ==
  /\ At(c, "screened")
  /\ s \notin checkout[c].skus
  /\ stock' = [stock EXCEPT ![c][s] = "RESERVED"]
  /\ Answered(c, [checkout[c] EXCEPT !.skus = @ \cup {s}])
  /\ UNCHANGED <<cartVars, keyOf, status, couponRow, overdue, parcel, payVars, opVars, raced>>

\* Defect: orders have no unique key.
InsertsUnchecked(c) ==
  /\ At(c, "screened")
  /\ checkout[c].skus = Sku
  /\ Goes(c, "inserted")
  /\ UNCHANGED <<cartVars, keyOf, status, rowVars, payVars, opVars, faultVars, raced>>

\* The INSERT waits for a transaction that holds the key, then takes it or fails.
Inserts(c) ==
  /\ At(c, "screened")
  /\ checkout[c].skus = Sku
  /\ ~ HoldsKey(keyOf[c])
  /\ Goes(c, IF OrderOfKey(keyOf[c]) THEN "aborting" ELSE "inserted")
  /\ UNCHANGED <<cartVars, keyOf, status, rowVars, payVars, opVars, faultVars, raced>>

\* verifyFreeze()
FreezeValid(c) == freeze[keyOf[c]].token = checkout[c].token

\* consumeFreeze() leaves a cart alone that has changed since it was frozen.
Consumes(c) ==
  /\ At(c, "inserted")
  /\ FreezeValid(c)
  /\ cart' = IF cart.version = freeze[keyOf[c]].version
             THEN [version |-> cart.version + 1, full |-> FALSE] ELSE cart
  /\ freeze' = [freeze EXCEPT ![keyOf[c]] = NoFreeze]
  /\ Answered(c, [checkout[c] EXCEPT !.pc = "consumed"])
  /\ UNCHANGED <<edits, keyOf, status, rowVars, payVars, opVars, raced>>

Commits(c) ==
  /\ At(c, "consumed")
  /\ Goes(c, "placed")
  /\ status' = [status EXCEPT ![c] = "PENDING_PAYMENT"]
  /\ UNCHANGED <<cartVars, keyOf, rowVars, payVars, opVars, faultVars, raced>>

\* A product, coupon, SKU or address is refused, or the freeze is no longer valid.
StepRefused(c) ==
  /\ \/ checkout[c].pc \in {"frozen", "priced", "inserted"}
     \/ At(c, "screened") /\ checkout[c].skus # Sku
  /\ Goes(c, Fallback(c))
  /\ UNCHANGED <<cartVars, keyOf, status, rowVars, payVars, opVars, faultVars, raced>>

\* The catch block gives back what has been answered, each as far as the call succeeds.
GivesBack(c, skus, coupon, thaw) ==
  /\ stock' = [stock EXCEPT ![c] =
       [s \in Sku |-> IF s \in skus /\ @[s] = "RESERVED" THEN "RELEASED" ELSE @[s]]]
  /\ couponRow' = [couponRow EXCEPT ![c] = IF coupon /\ @ = "RESERVED" THEN "RELEASED" ELSE @]
  /\ freeze' = [freeze EXCEPT ![keyOf[c]] = IF thaw /\ FreezeValid(c) THEN NoFreeze ELSE @]

\* Defect: nothing is given back for an order that was refused as a duplicate.
CompensatesOnce(c) ==
  /\ checkout[c].pc \in {"aborting", "rolling"}
  /\ Goes(c, "aborted")
  /\ GivesBack(c, checkout[c].skus, checkout[c].coupon /\ At(c, "rolling"), TRUE)
  /\ UNCHANGED <<cart, edits, keyOf, status, overdue, parcel, payVars, opVars, faultVars, raced>>

Compensates(c) ==
  /\ checkout[c].pc \in {"aborting", "rolling"}
  /\ Goes(c, "aborted")
  /\ \/ GivesBack(c, checkout[c].skus, checkout[c].coupon, TRUE) /\ UNCHANGED faultVars
     \/ /\ \E skus \in SUBSET checkout[c].skus, coupon \in BOOLEAN, thaw \in BOOLEAN :
             GivesBack(c, skus, coupon /\ checkout[c].coupon, thaw)
        /\ Fault(c)
  /\ UNCHANGED <<cart, edits, keyOf, status, overdue, parcel, payVars, opVars, raced>>

\* The process stops, or the commit fails after the method has returned.
Dies(c) ==
  /\ checkout[c].pc \in Running
  /\ Goes(c, "died")
  /\ Fault(c)
  /\ UNCHANGED <<cartVars, keyOf, status, rowVars, payVars, opVars, raced>>

-----------------------------------------------------------------------------
\* The cart, and the passing of time

\* addItem(), updateItem(), removeItem(), clear()
EditsCart ==
  /\ edits > 0
  /\ edits' = edits - 1
  /\ \E full \in BOOLEAN : cart' = [version |-> cart.version + 1, full |-> full]
  /\ UNCHANGED <<freeze, keyOf, checkout, status, rowVars, payVars, opVars, faultVars, raced>>

\* The Redis key of a freeze lives for 10 minutes.
FreezeLapses(k) ==
  /\ freeze[k].token # None
  /\ freeze' = [freeze EXCEPT ![k] = NoFreeze]
  /\ UNCHANGED <<cart, edits, keyOf, checkout, status, rowVars, payVars, opVars, faultVars, raced>>

\* One flag for stock and coupon: both are reserved within the same few calls.
BecomesOverdue(o) ==
  /\ o \notin overdue
  /\ checkout[o].pc \notin {"frozen", "priced", "screened"}
  /\ couponRow[o] = "RESERVED" \/ \E s \in Sku : stock[o][s] = "RESERVED"
  /\ overdue' = overdue \cup {o}
  /\ UNCHANGED <<cartVars, keyOf, checkout, status, stock, couponRow, parcel, payVars, opVars, faultVars, raced>>

\* Defect: the sweep looks only at reservations of orders.
CouponSweptByOrder(o) ==
  /\ o \in overdue /\ status[o] # "NONE"
  /\ couponRow[o] = "RESERVED"
  /\ couponRow' = [couponRow EXCEPT ![o] = "RELEASED"]
  /\ UNCHANGED <<cartVars, keyOf, checkout, status, stock, overdue, parcel, payVars, opVars, faultVars, raced>>

\* releaseExpiredReservations() of the promotion service
CouponSwept(o) ==
  /\ o \in overdue
  /\ couponRow[o] = "RESERVED"
  /\ couponRow' = [couponRow EXCEPT ![o] = "RELEASED"]
  /\ UNCHANGED <<cartVars, keyOf, checkout, status, stock, overdue, parcel, payVars, opVars, faultVars, raced>>

-----------------------------------------------------------------------------
\* Requests about an order, if any. Kinds: "cancel" by the customer, "drop" the internal
\* cancelOrder(id), "expire", and "pay", the confirmation of a payment intent.
\* They compare status and version when they set the status; every change leaves
\* PENDING_PAYMENT for good, so that the status alone decides.

Kind(q) == asks[q].kind
OrderOf(q) == asks[q].order
StepsTo(q, from, to) == op[q].pc = from /\ op' = [op EXCEPT ![q].pc = to]

\* The compare-and-set locks the row until the transaction ends.
RowLocked(o) == \E q \in Op : OrderOf(q) = o /\ op[q].pc \in {"locked", "used", "shipped"}
\* Defect: the update names only the status that it must not overwrite.
WinsUnlessPaid(q) == status[OrderOf(q)] # "PAID"

Wins(q) == status[OrderOf(q)] = "PENDING_PAYMENT"

ReadsOrder(q) ==
  /\ Kind(q) \in {"cancel", "drop", "expire"}
  /\ status[OrderOf(q)] # "NONE"
  /\ StepsTo(q, "new", IF Wins(q) THEN "read" ELSE "done")
  /\ UNCHANGED <<cartVars, keyOf, checkout, status, rowVars, payVars, asks, faultVars, raced>>

\* Cancellation gives the stock back first, item by item, whether the call succeeds or not.
ReleasesStock(q, s) ==
  /\ Kind(q) \in {"cancel", "drop"}
  /\ op[q].pc = "read" /\ s \notin op[q].skus
  /\ op' = [op EXCEPT ![q].skus = @ \cup {s}]
  /\ \/ /\ IF stock[OrderOf(q)][s] = "RESERVED"
             THEN stock' = [stock EXCEPT ![OrderOf(q)][s] = "RELEASED"] /\ raced' = raced \cup {OrderOf(q)}
             ELSE UNCHANGED <<stock, raced>>
        /\ UNCHANGED faultVars
     \/ Fault(OrderOf(q)) /\ UNCHANGED <<stock, raced>>
  /\ UNCHANGED <<cartVars, keyOf, checkout, status, couponRow, overdue, parcel, payVars, asks>>

\* ... then the customer's cancellation the coupon, likewise;
CancelReleasesCoupon(q) ==
  /\ Kind(q) = "cancel"
  /\ op[q].skus = Sku
  /\ StepsTo(q, "read", "asked")
  /\ \/ /\ couponRow' = [couponRow EXCEPT ![OrderOf(q)] = IF @ = "RESERVED" THEN "RELEASED" ELSE @]
        /\ UNCHANGED faultVars
     \/ Fault(OrderOf(q)) /\ UNCHANGED couponRow
  /\ UNCHANGED <<cartVars, keyOf, checkout, status, stock, overdue, parcel, payVars, asks, raced>>

\* ... only then is the order compared and set. What a loser gave back stays given back.
CancelSets(q) ==
  /\ Kind(q) \in {"cancel", "drop"}
  /\ op[q].skus = Sku
  /\ ~ RowLocked(OrderOf(q))
  /\ StepsTo(q, IF Kind(q) = "cancel" THEN "asked" ELSE "read", "done")
  /\ status' = [status EXCEPT ![OrderOf(q)] = IF Wins(q) THEN "CANCELLED" ELSE @]
  /\ UNCHANGED <<cartVars, keyOf, checkout, rowVars, payVars, asks, faultVars, raced>>

\* expireOrder() sets the order first, and has the row from then on.
ExpireSets(q) ==
  /\ Kind(q) = "expire"
  /\ ~ RowLocked(OrderOf(q))
  /\ StepsTo(q, "read", IF Wins(q) THEN "locked" ELSE "done")
  /\ UNCHANGED <<cartVars, keyOf, checkout, status, rowVars, payVars, asks, faultVars, raced>>

\* Only overdue stock expires; a failing call is passed over.
ExpiresStock(q, s) ==
  /\ Kind(q) = "expire"
  /\ op[q].pc = "locked" /\ s \notin op[q].skus
  /\ op' = [op EXCEPT ![q].skus = @ \cup {s}]
  /\ \/ /\ IF stock[OrderOf(q)][s] = "RESERVED" /\ OrderOf(q) \in overdue
             THEN stock' = [stock EXCEPT ![OrderOf(q)][s] = "EXPIRED"] /\ raced' = raced \cup {OrderOf(q)}
             ELSE UNCHANGED <<stock, raced>>
        /\ UNCHANGED faultVars
     \/ Fault(OrderOf(q)) /\ UNCHANGED <<stock, raced>>
  /\ UNCHANGED <<cartVars, keyOf, checkout, status, couponRow, overdue, parcel, payVars, asks>>

\* The coupon must be given back for the order to commit.
ExpireCommits(q) ==
  /\ Kind(q) = "expire"
  /\ op[q].skus = Sku
  /\ StepsTo(q, "locked", "done")
  /\ couponRow' = [couponRow EXCEPT ![OrderOf(q)] = IF @ = "RESERVED" THEN "RELEASED" ELSE @]
  /\ status' = [status EXCEPT ![OrderOf(q)] = "PAYMENT_FAILED"]
  /\ UNCHANGED <<cartVars, keyOf, checkout, stock, overdue, parcel, payVars, asks, faultVars, raced>>

-----------------------------------------------------------------------------
\* Payment: createIntent(), confirmIntent() with the provider and the order service
\* called inside its transaction, and refund()

Intent(q) == asks[q].payment
SetPayment(p, s) == payment' = [payment EXCEPT ![p].status = s]

\* An intent is made for any order of the customer, whatever its status.
CreatesIntent(p) ==
  /\ payment[p].status = "NONE"
  /\ payment[p].order # None /\ status[payment[p].order] # "NONE"
  /\ SetPayment(p, "CREATED")
  /\ UNCHANGED <<cartVars, keyOf, checkout, status, rowVars, charges, opVars, faultVars, raced>>

FindsPayment(q) ==
  /\ Kind(q) = "pay"
  /\ payment[Intent(q)].status # "NONE"
  /\ StepsTo(q, "new", IF payment[Intent(q)].status = "CREATED" THEN "found" ELSE "done")
  /\ UNCHANGED <<cartVars, keyOf, checkout, status, rowVars, payVars, asks, faultVars, raced>>

\* An answer that is lost or late ends the confirmation: nothing of it is recorded.
Authorizes(q) ==
  /\ op[q].pc = "found"
  /\ \E outcome \in {"SUCCESS", "FAILED"} :
       /\ charges' = IF outcome = "SUCCESS" THEN [charges EXCEPT ![Intent(q)] = @ + 1] ELSE charges
       /\ \/ /\ op' = [op EXCEPT ![q].pc = "asked", ![q].outcome = outcome]
             /\ UNCHANGED faultVars
          \/ op' = [op EXCEPT ![q].pc = "done"] /\ Fault(OrderOf(q))
  /\ UNCHANGED <<cartVars, keyOf, checkout, status, rowVars, payment, asks, raced>>

\* Defect: every order that is no longer pending is answered as it is.
ResultReadsDecided(q) ==
  /\ Kind(q) = "pay"
  /\ StepsTo(q, "asked", IF Wins(q) THEN "read" ELSE "settled")
  /\ UNCHANGED <<cartVars, keyOf, checkout, status, rowVars, payVars, asks, faultVars, raced>>

\* applyPaymentResult(): an order that is PAID or PAYMENT_FAILED is answered as it is.
ResultReadsOrder(q) ==
  /\ Kind(q) = "pay"
  /\ StepsTo(q, "asked", IF status[OrderOf(q)] \in {"PAID", "PAYMENT_FAILED"} THEN "settled" ELSE "read")
  /\ UNCHANGED <<cartVars, keyOf, checkout, status, rowVars, payVars, asks, faultVars, raced>>

\* ORDER_STATE_CONFLICT rolls the payment back to CREATED.
ResultSets(q) ==
  /\ Kind(q) = "pay"
  /\ ~ RowLocked(OrderOf(q))
  /\ StepsTo(q, "read", IF Wins(q) THEN "locked" ELSE "done")
  /\ UNCHANGED <<cartVars, keyOf, checkout, status, rowVars, payVars, asks, faultVars, raced>>

Succeeded(q) == Kind(q) = "pay" /\ op[q].outcome = "SUCCESS"

\* Stock that is no longer reserved is answered without an error.
ConfirmsStock(q, s) ==
  /\ Succeeded(q)
  /\ op[q].pc = "locked" /\ s \notin op[q].skus
  /\ op' = [op EXCEPT ![q].skus = @ \cup {s}]
  /\ stock' = [stock EXCEPT ![OrderOf(q)][s] = IF @ = "RESERVED" THEN "CONFIRMED" ELSE @]
  /\ UNCHANGED <<cartVars, keyOf, checkout, status, couponRow, overdue, parcel, payVars, asks, faultVars, raced>>

\* Defect: only one item is confirmed.
UsesCouponEarly(q) ==
  /\ Succeeded(q)
  /\ op[q].skus # {}
  /\ StepsTo(q, "locked", "used")
  /\ couponRow' = [couponRow EXCEPT ![OrderOf(q)] = IF @ = "RESERVED" THEN "USED" ELSE @]
  /\ UNCHANGED <<cartVars, keyOf, checkout, status, stock, overdue, parcel, payVars, asks, faultVars, raced>>

\* confirmCoupon(): a reservation that is overdue and not yet swept is an error.
UsesCoupon(q) ==
  /\ Succeeded(q)
  /\ op[q].skus = Sku
  /\ StepsTo(q, "locked", IF couponRow[OrderOf(q)] = "RESERVED" /\ OrderOf(q) \in overdue
                          THEN "done" ELSE "used")
  /\ couponRow' = [couponRow EXCEPT ![OrderOf(q)] =
       IF @ = "RESERVED" /\ OrderOf(q) \notin overdue THEN "USED" ELSE @]
  /\ UNCHANGED <<cartVars, keyOf, checkout, status, stock, overdue, parcel, payVars, asks, faultVars, raced>>

\* postPayCheck() passes and has the parcel made, once for an order.
Ships(q) ==
  /\ StepsTo(q, "used", "shipped")
  /\ parcel' = [parcel EXCEPT ![OrderOf(q)] = IF @ = "NONE" THEN "SHIPPED" ELSE @]
  /\ UNCHANGED <<cartVars, keyOf, checkout, status, stock, couponRow, overdue, payVars, asks, faultVars, raced>>

\* A declined order fails without giving back its stock or its coupon.
ResultCommits(q) ==
  /\ Kind(q) = "pay"
  /\ StepsTo(q, IF Succeeded(q) THEN "shipped" ELSE "locked", "settled")
  /\ status' = [status EXCEPT ![OrderOf(q)] = IF Succeeded(q) THEN "PAID" ELSE "PAYMENT_FAILED"]
  /\ UNCHANGED <<cartVars, keyOf, checkout, rowVars, payVars, asks, faultVars, raced>>

\* The payment commits last, without a version: it overwrites what is there.
PaymentCommits(q) ==
  /\ StepsTo(q, "settled", "done")
  /\ SetPayment(Intent(q), op[q].outcome)
  /\ UNCHANGED <<cartVars, keyOf, checkout, status, rowVars, charges, asks, faultVars, raced>>

\* A call fails, a service stops or a lock wait times out: the local transactions
\* roll back, and what other services have committed stays.
OpFails(q) ==
  /\ op[q].pc \notin {"new", "done"}
  /\ op' = [op EXCEPT ![q].pc = "done"]
  /\ Fault(OrderOf(q))
  /\ UNCHANGED <<cartVars, keyOf, checkout, status, rowVars, payVars, asks, raced>>

Refunds(p) ==
  /\ payment[p].status = "SUCCESS"
  /\ SetPayment(p, "REFUNDED")
  /\ UNCHANGED <<cartVars, keyOf, checkout, status, rowVars, charges, opVars, faultVars, raced>>

\* confirmDelivery()
DeliveryConfirmed(o) ==
  /\ parcel[o] = "SHIPPED"
  /\ parcel' = [parcel EXCEPT ![o] = "COMPLETED"]
  /\ UNCHANGED <<cartVars, keyOf, checkout, status, stock, couponRow, overdue, payVars, opVars, faultVars, raced>>

-----------------------------------------------------------------------------
CheckoutStep(c) ==
  \/ LooksUp(c) \/ Freezes(c) \/ FreezeRefused(c) \/ Prices(c) \/ Screens(c)
  \/ \E s \in Sku : Reserves(c, s)
  \/ Inserts(c) \/ Consumes(c) \/ Commits(c) \/ StepRefused(c) \/ Compensates(c)

OpStep(q) ==
  \/ ReadsOrder(q) \/ CancelReleasesCoupon(q) \/ CancelSets(q)
  \/ ExpireSets(q) \/ ExpireCommits(q)
  \/ \E s \in Sku : ReleasesStock(q, s) \/ ExpiresStock(q, s) \/ ConfirmsStock(q, s)
  \/ FindsPayment(q) \/ Authorizes(q) \/ ResultReadsOrder(q) \/ ResultSets(q)
  \/ UsesCoupon(q) \/ Ships(q) \/ ResultCommits(q) \/ PaymentCommits(q)

Next ==
  \/ \E c \in Checkout : CheckoutStep(c) \/ Dies(c)
  \/ \E q \in Op : OpStep(q) \/ OpFails(q)
  \/ \E p \in Payment : CreatesIntent(p) \/ Refunds(p)
  \/ \E o \in Order : BecomesOverdue(o) \/ CouponSwept(o) \/ DeliveryConfirmed(o)
  \/ \E k \in Key : FreezeLapses(k)
  \/ EditsCart

Spec == Init /\ [][Next]_vars

\* Time passes and the promotion service sweeps; no request needs to go on.
Fairness == \A o \in Order : WF_vars(BecomesOverdue(o)) /\ WF_vars(CouponSwept(o))

FairSpec == Spec /\ Fairness

-----------------------------------------------------------------------------
\* Properties

\* What customers see of orders, charges and parcels is what the order service
\* promises: the detailed protocol implements OrderPromise.
Promise == INSTANCE OrderPromise WITH
  status <- status,
  charged <- {payment[p].order : p \in {p \in Payment : charges[p] > 0}},
  shipped <- {o \in Order : parcel[o] # "NONE"}
KeepsPromise == Promise!PromiseSpec

\* A checkout that gave up without meeting a fault leaves nothing behind: no stock,
\* no coupon and no freeze is held for it, although every step committed elsewhere
\* (the catch block of createPendingCheckout).
CleanAbort ==
  \A c \in Checkout : At(c, "aborted") /\ c \notin faulty =>
    /\ couponRow[c] # "RESERVED"
    /\ \A s \in Sku : stock[c][s] # "RESERVED"
    /\ freeze[keyOf[c]].token # None => freeze[keyOf[c]].token # checkout[c].token
         \/ \E d \in Checkout \ {c} : keyOf[d] = keyOf[c]

\* Repeated checkouts with one idempotency key make at most one order, also when
\* they run at once (the lookup in checkout() and the unique key of orders).
OneOrderPerKey ==
  \A c, d \in Checkout :
    c # d /\ keyOf[c] = keyOf[d] => status[c] = "NONE" \/ status[d] = "NONE"

\* A paid order has all its stock confirmed, whatever was retried, unless a cancellation
\* or an expiry had given the stock back and then lost the race or failed; and its coupon,
\* used or come back meanwhile, is not left reserved (applyPaymentResult).
PaidOrderIsBacked ==
  \A o \in Order : status[o] = "PAID" =>
    /\ o \in raced \/ \A s \in Sku : stock[o][s] = "CONFIRMED"
    /\ couponRow[o] # "RESERVED"

\* A settled payment was charged, and its order no longer waits for a payment
\* (executePayment commits after the order service has answered).
SettledPaymentSettlesOrder ==
  \A p \in Payment : payment[p].status \in {"SUCCESS", "FAILED", "REFUNDED"} =>
    status[payment[p].order] \in {"PAID", "PAYMENT_FAILED"}

\* Whatever was lost, a coupon is not held for ever by an order that will never be
\* paid: the sweep finds it (releaseExpiredReservations).
CouponComesBack ==
  \A o \in Order :
    checkout[o].pc \in Ended /\ status[o] # "PENDING_PAYMENT" ~> couponRow[o] # "RESERVED"
=============================================================================
