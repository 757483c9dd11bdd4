------------------------------ MODULE TrafficRunner ------------------------------
\* The runner of the worker process: a timer that has one customer after another log
\* in, shop, and pay or cancel (runner-engine.ts, traffic-action-orchestrator.ts), the
\* customer's session and requests (customer-session-manager.ts, gateway-client.ts),
\* and the shutdown of the process. The shop is what CheckoutSaga promises of it: an
\* order that waits for its payment until it is paid, cancelled or expired. Products,
\* carts, coupons, counters and records for display are left out.
EXTENDS Integers

CONSTANTS
  MaxLifecycles,        \* bound on lifecycles
  StorageTarget,        \* appends that reach totalBytes
  MaxFailures           \* bound on failing statements of the engine

Lifecycle == 1..MaxLifecycles
Run == {"storage", "heap"}         \* fault runs that the runner takes part in
Nobody == 0

VARIABLES
  faultRun,             \* the active fault run, those that are over, appends
  engine,               \* the engine: progress of tick(), what it has read
  shutdown,             \* progress of stop(), and lifecycles begun before it
  trafficRun,           \* traffic_runs: status, and whether ensureTrafficRun is over
  lifecycle,            \* the lifecycle that is executed
  order,                \* order[l]: the order under the checkout key of l
  inFlight,             \* requests given up by their sender that may still arrive
  result,               \* result[l]: what executeLifecycle has returned
  failures

engineVars == <<engine, shutdown, trafficRun>>
shopVars == <<order, inFlight>>
runnerVars == <<faultRun, engineVars, lifecycle, shopVars, result, failures>>

CustomerStep == {"LOGIN", "BROWSE_CATALOG", "PRODUCT_DETAIL_READ", "CART_READ_INITIAL",
  "ADD_CART_ITEM", "CART_READ_READY", "ADDRESS_READ", "ADDRESS_CREATE", "COUPON_SELECT",
  "CHECKOUT", "QUERY_CREATED_ORDER", "PAYMENT_INTENT", "PAYMENT_CONFIRM",
  "QUERY_BEFORE_CANCEL", "CANCEL_PENDING_ORDER", "QUERY_FINAL_ORDER"}
Resting == [id |-> Nobody, at |-> "NONE", aborted |-> FALSE, known |-> FALSE, retained |-> FALSE]
NoResult == [status |-> "NONE", known |-> FALSE, retained |-> FALSE]

TypeOK ==
  /\ faultRun \in [active : Run \cup {"none"}, over : SUBSET Run,
       appended : 0..StorageTarget]
  /\ faultRun.active \notin faultRun.over
  /\ engine \in [running : BOOLEAN, at : {"timer", "reading", "loading", "loaded", "lifecycle", "ended"},
       loaded : Run \cup {"none"}, storageDone : BOOLEAN, started : 0..MaxLifecycles]
  /\ shutdown \in [at : {"no", "draining", "completing", "exited"}, begun : 0..MaxLifecycles]
  /\ trafficRun \in [status : {"NONE", "RUNNING", "COMPLETED"}, persisted : BOOLEAN]
  /\ lifecycle \in [id : 0..MaxLifecycles, at : CustomerStep \cup {"NONE", "APPEND", "CLOSING"},
       aborted : BOOLEAN, known : BOOLEAN, retained : BOOLEAN]
  /\ lifecycle.id # Nobody <=> engine.at = "lifecycle"
  /\ order \in [Lifecycle -> {"NONE", "PENDING_PAYMENT", "SETTLED"}]
  /\ inFlight \subseteq Lifecycle \X {"CHECKOUT", "PAYMENT_CONFIRM", "CANCEL_PENDING_ORDER"}
  /\ result \in [Lifecycle -> [status : {"NONE", "SUCCESS", "NOOP", "FAILED", "INTERRUPTED"},
       known : BOOLEAN, retained : BOOLEAN]]
  /\ failures \in 0..MaxFailures

Init ==
  /\ faultRun = [active |-> "none", over |-> {}, appended |-> 0]
  /\ engine = [running |-> TRUE, at |-> "timer", loaded |-> "none", storageDone |-> FALSE, started |-> 0]
  /\ shutdown = [at |-> "no", begun |-> 0]
  /\ trafficRun = [status |-> "NONE", persisted |-> FALSE]
  /\ lifecycle = Resting
  /\ order = [l \in Lifecycle |-> "NONE"] /\ inFlight = {}
  /\ result = [l \in Lifecycle |-> NoResult]
  /\ failures = 0

Alive == shutdown.at # "exited"
EngineAt(pc) == engine.at = pc /\ Alive
Fails == failures < MaxFailures /\ failures' = failures + 1

-----------------------------------------------------------------------------
\* What surrounds the runner. A fault run that is over does not return.

FaultRunStarts(r) ==
  /\ faultRun.active = "none" /\ r \notin faultRun.over
  /\ faultRun' = [faultRun EXCEPT !.active = r]
  /\ UNCHANGED <<engineVars, lifecycle, shopVars, result, failures>>

EndedBy(f, r) == IF f.active = r THEN [f EXCEPT !.active = "none", !.over = @ \cup {r}] ELSE f

FaultRunEnds(r) ==
  /\ faultRun.active = r
  /\ faultRun' = EndedBy(faultRun, r)
  /\ UNCHANGED <<engineVars, lifecycle, shopVars, result, failures>>

\* What a request does to the order; the checkout key makes one order of many checkouts.
Served(l, step) ==
  CASE step = "CHECKOUT" /\ order[l] = "NONE" -> [order EXCEPT ![l] = "PENDING_PAYMENT"]
    [] step \in {"PAYMENT_CONFIRM", "CANCEL_PENDING_ORDER"} /\ order[l] = "PENDING_PAYMENT" ->
         [order EXCEPT ![l] = "SETTLED"]
    [] OTHER -> order

OrderExpires(l) ==
  /\ order[l] = "PENDING_PAYMENT"
  /\ order' = [order EXCEPT ![l] = "SETTLED"]
  /\ UNCHANGED <<faultRun, engineVars, lifecycle, inFlight, result, failures>>

LateRequestArrives(l, step) ==
  /\ <<l, step>> \in inFlight
  /\ inFlight' = inFlight \ {<<l, step>>}
  /\ order' = Served(l, step)
  /\ UNCHANGED <<faultRun, engineVars, lifecycle, result, failures>>

-----------------------------------------------------------------------------
\* The engine.

\* ensureTrafficRun goes on in the background; a failure is logged.
PersistsRun ==
  /\ ~ trafficRun.persisted /\ Alive
  /\ \/ trafficRun' = [persisted |-> TRUE, status |-> "RUNNING"] /\ UNCHANGED failures
     \/ trafficRun' = [trafficRun EXCEPT !.persisted = TRUE] /\ Fails
  /\ UNCHANGED <<faultRun, engine, shutdown, lifecycle, shopVars, result>>

\* The timer of a stopped engine is cleared.
Ticks ==
  /\ EngineAt("timer") /\ engine.running
  /\ engine' = [engine EXCEPT !.at = "reading"]
  /\ UNCHANGED <<faultRun, shutdown, trafficRun, lifecycle, shopVars, result, failures>>

\* Operators may have paused or disabled the runner. Nobody looks at that again, nor
\* whether the engine runs, before the lifecycle begins.
Checks ==
  /\ EngineAt("reading")
  /\ \E wanted \in BOOLEAN :
       engine' = [engine EXCEPT !.at = IF wanted /\ engine.running THEN "loading" ELSE "timer"]
  /\ UNCHANGED <<faultRun, shutdown, trafficRun, lifecycle, shopVars, result, failures>>

\* loadActiveFaultRun, after the traffic run has been persisted; a failing statement
\* ends the tick.
LoadsFaultRun ==
  /\ EngineAt("loading") /\ trafficRun.persisted
  /\ \/ engine' = [engine EXCEPT !.at = "loaded", !.loaded = faultRun.active] /\ UNCHANGED failures
     \/ engine' = [engine EXCEPT !.at = "timer"] /\ Fails
  /\ UNCHANGED <<faultRun, shutdown, trafficRun, lifecycle, shopVars, result>>

\* Defect: the timer is set again beside a lifecycle.
BeginsUnawaited ==
  /\ EngineAt("loaded") /\ engine.started + 1 \in Lifecycle
  /\ engine' = [engine EXCEPT !.at = "timer", !.started = @ + 1]
  /\ lifecycle' = [Resting EXCEPT !.id = engine.started + 1, !.at = "LOGIN"]
  /\ UNCHANGED <<faultRun, shutdown, trafficRun, shopVars, result, failures>>

\* The tick goes on in one piece to the first request. The files of a storage run are
\* filled up once; when that is done its ticks do nothing.
Begins ==
  /\ EngineAt("loaded")
  /\ LET storage == engine.loaded = "storage"
         l == engine.started + 1 IN
     IF storage /\ engine.storageDone
     THEN engine' = [engine EXCEPT !.at = "timer"] /\ UNCHANGED lifecycle
     ELSE /\ l \in Lifecycle
          /\ engine' = [engine EXCEPT !.at = "lifecycle", !.started = l,
                                      !.storageDone = storage /\ @]
          /\ lifecycle' = [Resting EXCEPT !.id = l, !.at = IF storage THEN "APPEND" ELSE "LOGIN"]
  /\ UNCHANGED <<faultRun, shutdown, trafficRun, shopVars, result, failures>>

\* After the lifecycle: a failed one counts as the end of the service that a heap run
\* works on, whatever made it fail.
Summarises ==
  /\ EngineAt("ended")
  /\ engine' = [engine EXCEPT !.at = "timer"]
  /\ LET heap == engine.loaded = "heap" /\ result[engine.started].status = "FAILED" IN
     \/ faultRun' = (IF heap THEN EndedBy(faultRun, "heap") ELSE faultRun) /\ UNCHANGED failures
     \/ heap /\ Fails /\ UNCHANGED faultRun
  /\ UNCHANGED <<shutdown, trafficRun, lifecycle, shopVars, result>>

\* stop(): the timer is cleared and the lifecycle of the moment told to abort.
Stops ==
  /\ shutdown.at = "no"
  /\ shutdown' = [at |-> "draining", begun |-> engine.started]
  /\ engine' = [engine EXCEPT !.running = FALSE]
  /\ lifecycle' = [lifecycle EXCEPT !.aborted = lifecycle.id # Nobody]
  /\ UNCHANGED <<faultRun, trafficRun, shopVars, result, failures>>

\* It waits for that lifecycle, and for no other,
Drains ==
  /\ shutdown.at = "draining" /\ (lifecycle.id = Nobody \/ lifecycle.id > shutdown.begun)
  /\ shutdown' = [shutdown EXCEPT !.at = "completing"]
  /\ UNCHANGED <<faultRun, engine, trafficRun, lifecycle, shopVars, result, failures>>

\* then for ensureTrafficRun, closes the traffic run, and the process exits.
Exits ==
  /\ shutdown.at = "completing" /\ trafficRun.persisted
  /\ shutdown' = [shutdown EXCEPT !.at = "exited"]
  /\ \/ trafficRun' = (IF trafficRun.status = "RUNNING"
                       THEN [trafficRun EXCEPT !.status = "COMPLETED"] ELSE trafficRun) /\ UNCHANGED failures
     \/ UNCHANGED trafficRun /\ Fails
  /\ UNCHANGED <<faultRun, engine, lifecycle, shopVars, result>>

-----------------------------------------------------------------------------
\* The lifecycle of a customer: executeLifecycle.

Busy == lifecycle.id # Nobody /\ Alive
LifecycleAt(steps) == Busy /\ lifecycle.at \in steps
Me == lifecycle.id

\* finish(): the result, as it is recorded and counted; the session is still open.
Ends(status, retained) ==
  /\ result' = [result EXCEPT ![Me] = [status |-> status, known |-> lifecycle.known, retained |-> retained]]
  /\ lifecycle' = [lifecycle EXCEPT !.at = "CLOSING", !.retained = retained]
GivesUp(status) == Ends(status, lifecycle.retained)

\* The steps that may follow one, and those before which throwIfInterrupted is asked.
Following(step) ==
  CASE step = "LOGIN" -> {"BROWSE_CATALOG"}
    [] step = "BROWSE_CATALOG" -> {"PRODUCT_DETAIL_READ"}
    [] step = "PRODUCT_DETAIL_READ" -> {"CART_READ_INITIAL"}
    [] step \in {"CART_READ_INITIAL", "ADD_CART_ITEM"} -> {"ADD_CART_ITEM", "CART_READ_READY"}
    [] step = "CART_READ_READY" -> {"ADDRESS_READ"}
    [] step = "ADDRESS_READ" -> {"ADDRESS_CREATE", "COUPON_SELECT", "CHECKOUT"}
    [] step = "ADDRESS_CREATE" -> {"COUPON_SELECT", "CHECKOUT"}
    [] step = "COUPON_SELECT" -> {"CHECKOUT"}
    [] step = "CHECKOUT" -> {"QUERY_CREATED_ORDER"}
    [] step = "QUERY_CREATED_ORDER" -> {"PAYMENT_INTENT", "QUERY_BEFORE_CANCEL"}
    [] step = "PAYMENT_INTENT" -> {"PAYMENT_CONFIRM"}
    [] step = "QUERY_BEFORE_CANCEL" -> {IF order[Me] = "PENDING_PAYMENT" THEN "CANCEL_PENDING_ORDER" ELSE "QUERY_FINAL_ORDER"}
    [] step \in {"PAYMENT_CONFIRM", "CANCEL_PENDING_ORDER"} -> {"QUERY_FINAL_ORDER"}
Checked(from, to) ==
  \/ to \in {"BROWSE_CATALOG", "PRODUCT_DETAIL_READ", "ADD_CART_ITEM", "PAYMENT_INTENT", "QUERY_BEFORE_CANCEL"}
  \/ from \in {"ADDRESS_READ", "ADDRESS_CREATE"} /\ to # "ADDRESS_CREATE"

\* The answers that a step takes for success.
Accepted(step) ==
  CASE step \in {"CHECKOUT", "QUERY_CREATED_ORDER"} -> order'[Me] = "PENDING_PAYMENT"
    [] step \in {"PAYMENT_CONFIRM", "CANCEL_PENDING_ORDER"} -> order[Me] = "PENDING_PAYMENT"
    [] OTHER -> TRUE
Effect(step) == IF step \in {"PAYMENT_CONFIRM", "CANCEL_PENDING_ORDER"} THEN "settles"
                ELSE IF step = "CHECKOUT" THEN "orders" ELSE "none"

\* Defect: the order counts as paid from the payment intent on.
RetainedEarly(step) ==
  IF step = "CHECKOUT" THEN TRUE
  ELSE lifecycle.retained /\ step \notin {"PAYMENT_INTENT", "CANCEL_PENDING_ORDER"}

\* pendingPaymentRetained
Retained(step) ==
  IF step = "CHECKOUT" THEN TRUE ELSE lifecycle.retained /\ Effect(step) # "settles"

\* A request is answered, the step recorded, and the next request sent, which an
\* abort turns down at once. A token about to run out is refreshed first; a request
\* refused as unauthorised did nothing and is sent once more with a new token.
Answered(step) ==
  /\ LifecycleAt({step}) /\ step # "QUERY_FINAL_ORDER"
  /\ order' = Served(Me, step) /\ Accepted(step)
  /\ \E next \in Following(step) :
       LET going == [lifecycle EXCEPT !.at = next, !.known = @ \/ step = "CHECKOUT", !.retained = Retained(step)]
           status == IF Checked(step, next) THEN "INTERRUPTED" ELSE "FAILED" IN
       IF lifecycle.aborted
       THEN /\ lifecycle' = [going EXCEPT !.at = "CLOSING"]
            /\ result' = [result EXCEPT ![Me] =
                 [status |-> status, known |-> going.known, retained |-> going.retained]]
       ELSE lifecycle' = going /\ UNCHANGED result
  /\ UNCHANGED <<faultRun, engineVars, inFlight, failures>>

FinishesLifecycle ==
  /\ \/ LifecycleAt({"QUERY_FINAL_ORDER"}) /\ GivesUp("SUCCESS")
     \/ LifecycleAt({"BROWSE_CATALOG"}) /\ GivesUp("NOOP")
  /\ UNCHANGED <<faultRun, engineVars, shopVars, failures>>

\* openSession: no account is enabled, the login is refused or names another customer.
LoginFails ==
  /\ LifecycleAt({"LOGIN"})
  /\ GivesUp("FAILED")
  /\ UNCHANGED <<faultRun, engineVars, shopVars, failures>>

\* A request is refused, cannot be authorised, is aborted or breaks off: without an
\* effect, after it, or before it.
RequestFails(step) ==
  \/ UNCHANGED shopVars
  \/ Effect(step) # "none" /\ order' = Served(Me, step) /\ UNCHANGED inFlight
  \/ Effect(step) # "none" /\ inFlight' = inFlight \cup {<<Me, step>>} /\ UNCHANGED order

\* Only the reads of the products say, once aborted, that they were interrupted.
SaysInterrupted == {"BROWSE_CATALOG", "PRODUCT_DETAIL_READ"}

\* The request of a step fails, or its answer is not what was expected.
StepFails(step) ==
  /\ LifecycleAt({step}) /\ step # "LOGIN"
  /\ RequestFails(step)
  /\ \/ GivesUp("INTERRUPTED") /\ lifecycle.aborted /\ step \in SaysInterrupted
     \/ GivesUp("FAILED") /\ ~ (lifecycle.aborted /\ step = "PRODUCT_DETAIL_READ")
  /\ UNCHANGED <<faultRun, engineVars, failures>>

\* executeStorageGrowth: appends until the target is reached or the run expires.
Grown == [faultRun EXCEPT !.appended = IF @ < StorageTarget THEN @ + 1 ELSE @]

Appends ==
  /\ LifecycleAt({"APPEND"}) /\ ~ lifecycle.aborted /\ faultRun.active = "storage"
  /\ faultRun' = Grown
  /\ IF Grown.appended = StorageTarget
     THEN GivesUp("SUCCESS") /\ engine' = [engine EXCEPT !.storageDone = TRUE]
     ELSE UNCHANGED <<lifecycle, result, engine>>
  /\ UNCHANGED <<shutdown, trafficRun, shopVars, failures>>

StopsAppending ==
  /\ LifecycleAt({"APPEND"})
  /\ \/ faultRun.active # "storage" /\ ~ lifecycle.aborted /\ GivesUp("SUCCESS") /\ UNCHANGED faultRun
     \/ /\ GivesUp(IF lifecycle.aborted THEN "INTERRUPTED" ELSE "FAILED")
        /\ faultRun' \in {faultRun} \cup {f \in {Grown} : f.active = "storage"}
  /\ UNCHANGED <<engineVars, shopVars, failures>>

\* closeSession: logout is best effort; then tick() goes on.
ClosesSession ==
  /\ LifecycleAt({"CLOSING"})
  /\ lifecycle' = Resting
  /\ engine' = [engine EXCEPT !.at = "ended"]
  /\ UNCHANGED <<faultRun, shutdown, trafficRun, shopVars, result, failures>>

-----------------------------------------------------------------------------
EngineStep ==
  \/ PersistsRun \/ Ticks \/ Checks \/ LoadsFaultRun \/ Begins \/ Summarises
  \/ Stops \/ Drains \/ Exits

LifecycleStep ==
  \/ \E step \in CustomerStep : Answered(step) \/ StepFails(step)
  \/ LoginFails \/ FinishesLifecycle \/ Appends \/ StopsAppending \/ ClosesSession

Next ==
  \/ EngineStep \/ LifecycleStep
  \/ \E r \in Run : FaultRunStarts(r) \/ FaultRunEnds(r)
  \/ \E l \in Lifecycle : OrderExpires(l)
  \/ \E l \in Lifecycle, step \in CustomerStep : LateRequestArrives(l, step)

Spec == Init /\ [][Next]_runnerVars

\* A lifecycle that knows its order and does not report it as left unpaid leaves none:
\* whatever was lost on the way, the order is paid, cancelled or expired
\* (pendingPaymentRetained in executeLifecycle).
SettledWhenSaid ==
  \A l \in Lifecycle : result[l].known /\ ~ result[l].retained => order[l] = "SETTLED"

\* docs/traffic-optimize/task-list.md:174: a traffic run is completed after what it has
\* begun: the lifecycle that stop() found has returned, its session closed.
DrainsStarted ==
  trafficRun.status = "COMPLETED" =>
    /\ lifecycle.id \notin 1..shutdown.begun
    /\ \A l \in 1..shutdown.begun : result[l].status # "NONE"
=============================================================================
