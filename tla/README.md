# Verification of mall-chaos

mall-chaos is a demonstration shop (Java microservices behind a gateway) with a
traffic control plane (Next.js/TypeScript) that generates customer traffic and
runs *fault runs*: bounded faults that an operator starts on one service, that
must stop at their expiry or on request, and that must never outlive their record.
This directory holds TLA+ models of the parts where that can go wrong, the TLC runs
that check them and TLAPS proofs of what matters most.

## 1. Inventory

| Part | State | Operations | Hard behaviour |
|---|---|---|---|
| Fault-run store (`lib/fault-run-repository.ts`, `001-fault-runs.sql`) | rows of `fault_runs`, `fault_run_sequence` | create, compare-and-set transition, lists, retention | two processes, unique indexes, deleted rows |
| Fault-run coordinator (`lib/fault-run-coordinator.ts`), in the API and in the worker process | timers, recovery promises, drains, all in memory | create, stop, recover, poll, start of the worker, service unavailable / recovered | lost answers, crashes between statements, two recoveries at once |
| Scenario workers (`worker/scenario-workers.ts`, `controlled-scenario-worker.ts`) | list of the last scan, running workers, registered drains | scan, start, drain, end | lists that are old when applied |
| Operation guard (`common/.../OperationRunGuard.java`) | fence key in Redis, registered cleanups, one expiry thread | acceptStart, registerCleanup, release, shutdown | expiry against release, Redis failures, restarts |
| Inventory fault targets (`InventoryAvailabilityService`, `InventoryReservationService`) | dedicated connection, its table or row lock, active run | prepare, release, remove, expiry cleanup | lock waits, late prepare, failing prepare |
| Notification target (`notification/.../chaos`) and its manual cleanup in the console | retained heap, growth file, active run | prepare, retain, append, release, expiry, restart, cleanup of a run or the scenario | requests that arrive after the run, restarts under an active run |
| Other fault targets (catalog cache, PSP outcome) | their active run and resource | prepare, release, cleanup | the same guard, other resources |
| Order service | orders, items, version column | checkout, cancel, payment result, retry, expiry, risk rejection | a saga over six services with best-effort compensation |
| Inventory ledger | stock, reservations, replenishment batches | reserve, confirm, release, expire, replenish, reset | version checks, idempotency, races with expiry |
| Promotion | coupons, coupon reservations, batches | calculate (reserves), confirm, release, sweep, replenish; the lock drill's own reservation | sweep against late confirmation, row locks, the drill's row among the orders' |
| Payment | payments | intent, confirm, retry, refund | provider answer lost, result event not delivered |
| Cart | carts, items, freeze in Redis | mutate, freeze, consume, release | freeze expiry, lost answer of consume |
| Fulfilment, risk | parcels, decisions | ship, confirm delivery, pre-check, reject an order | called from within the saga |
| Replenishment schedulers | lock and completion keys, published status, records | scheduled and manual windows, retries, stop | lock TTL shorter than the work, late requests |
| Data warm-up | lease, fencing mark, progress, manual jobs | acquire, renew, fill, claim, append, roll over, release | a lease lost while writing, interrupted jobs |
| Traffic runner | traffic run, current lifecycle, pause flag, profile, published status | tick, lifecycle, heartbeat, pause, save, stop | stop against a running lifecycle, status of a stopped engine |
| Worker process with surge and report executors | scans, senders, sessions | boot, scan, send, drain, shutdown, crash | lists that are old when applied, shutdown beside a scan |
| User sessions (`user-service`, storefront routes, `gateway-client.ts`) | tokens in Redis, cookies, the session of a surge | login, refresh, logout, authorised request | shared by concurrent requests, lost answers |
| Alert configuration (`lib/alert-config.ts`) | rules and receivers under a version, two files, two services that load them | load with import, save from form or source, render, reload | two operators, failure between commit and rename |
| Runner settings and accounts | versioned profile, whitelist of accounts | update, enable, disable | read-modify-write of two consoles |
| Consoles | copies of what the pages loaded | load, poll, change and reload, leave | answers out of order, flags left set |
| Product detail cache; operator authentication; notifications and profiles; gateway; deployment | see `PROJECT.json` | requests on one table, routing | little concurrency of their own |

The coordinator in the API process serves create and stop requests; the one in the
worker process polls for expired runs and repairs after a restart. They share
nothing but the store. Both call the target service through the gateway; the target
compares the fencing token of each request with its fence in Redis and registers a
cleanup for the expiry. Scenario workers load the target of an ACTIVE run and
register a drain with the coordinator of their own process.

What makes each part correct:

- store: one active run; tokens that order the runs for ever; a fixed set of moves;
- coordinator: every run ends; the recorded evidence is true; no run is activated
  that its target did not accept;
- workers: load ceases once the run has ended;
- guard and targets: a resource always has somebody who will free it, only its own
  run ends it, and the newest run keeps the fence;
- inventory ledger: nothing is sold that is not there; stock agrees with the
  reservations and with what replenishments report;
- coupons: a coupon serves one order, agrees with its reservation, and an order that
  neither pays nor cancels does not keep it;
- order saga: stock and coupons agree with the orders, whatever step fails; an order
  is paid only after it was charged and nothing is shipped that was not charged;
- replenishment: completed means replenished; one execution at a time holds the lock;
- warm-up: every row is written once, and no job is left running without a worker;
- traffic runner: an order that a lifecycle gives up is either settled or reported;
  the runner follows its operator;
- worker process: one sender per run, none after the shutdown;
- notification target: an active run keeps the target until it ends, and what was
  cleaned up stays away;
- sessions: the tokens at hand work, and what is given up is revoked;
- alerts and settings: nobody overwrites what he has not seen, and the services run
  what was saved last;
- consoles: a guarded view does not go back and is not stuck.

`PROJECT.json` lists under "hazards" where in the code each of these can break.

## 2. Plan

In this order, from the most important behaviour on:

1. Fault runs: `FaultRunLifecycle`, `FaultRunStore`, `FaultRun`, `ScenarioWorkers`.
   **Done, with proofs.**
2. Target side: `OperationRunGuard`, `InventoryTargets`. **Done, with proofs.**
3. `InventoryLedger` and `CouponPool`. **Done, with proofs.**
4. `CheckoutSaga` with orders, cart freeze, payment, risk and fulfilment, as a refinement of
   `OrderPromise`. **Done, with proofs.**
5. Background jobs: `Replenishment`, `DataWarmup`, `TrafficRunner`, `WorkerProcess`. **Done,
   with proofs.**
6. Settings and the rest of the control plane: `AlertConfig`, `RunnerSettings`,
   `NotificationTarget`, `RunnerControl`, `CustomerSession`, `ConsoleViews`. **Done,
   model-checked and, in item 7, proved.**
7. Proofs about 6, in one module `ConsoleProofs`: every invariant and action property of the
   `console` run. **Done.**
8. The holders of the catalogue cache and of the PSP outcome on `OperationRunGuard`, as far
   as they differ from those of `InventoryTargets`.

## 3. Modules

| Module | Models | Role |
|---|---|---|
| `FaultRunLifecycle` | the promise of the store | abstract specification: Admit, Advance |
| `FaultRunStore` | SQL statements | one operator per committed transaction |
| `FaultRun` (extends the store) | both coordinators, the network, one fenced target | actions, fairness, properties |
| `ScenarioWorkers` (extends `FaultRun`) | load of the worker process | composition: `Beside(ControlStep)` and the workload's own steps |
| `OperationRunGuard` | Redis scripts, registrations, expiry thread | used by the holders |
| `InventoryTargets` (extends the guard) | two holders, their connections and locks | composition of holders and guard |
| `InventoryLedger` | stock row, reservations, replenishment batches, reset | transactions of one SKU |
| `CouponPool` | coupons and their reservations, sweep, replenishment, lock drill | transactions of one customer and promotion |
| `OrderPromise` | what customers may see of orders, charges and parcels | abstract specification: Place, Charge, Ship, Decide |
| `CheckoutSaga` | order, cart, promotion, inventory, payment, risk and fulfilment around one order | composition of the services' committed steps; refines `OrderPromise` |
| `Replenishment` | both replenishment schedulers | processes around a lock with a TTL |
| `DataWarmup` | two services that fill the history tables | lease, fencing mark, jobs |
| `TrafficRunner` | engine, one lifecycle with its requests, late requests | stop against work under way |
| `RunnerControl` | tick and heartbeat of the engine, pause, profile, status | the engine and its operator |
| `WorkerProcess` | boot, shutdown, scans and senders of the surge and report executors | processes of one worker |
| `NotificationTarget` (extends the guard) | both notification holders, cleanup and restart | holders, guard and operator composed |
| `AlertConfig` | table, files and services of the alert rules | requests of two operators |
| `RunnerSettings` | profile and accounts | requests of two consoles |
| `CustomerSession` | session shared by the requests of a browser or surge | callers and the user service |
| `ConsoleViews` | one view of a console page | page and server |
| `MCFaultRun`, `MCScenarioWorkers`, `MCInventoryTargets`, `MCInventoryLedger`, `MCCouponPool`, `MCCheckoutSaga` | | values for TLC |
| `MCJobs`, `MCConsole` | `Replenishment`, `DataWarmup`, `TrafficRunner`, `WorkerProcess`; `AlertConfig`, `RunnerSettings`, `NotificationTarget`, `RunnerControl`, `CustomerSession`, `ConsoleViews` | values for TLC; the parts of each share no state, and each behaviour picks one (`focus`) |
| `FaultRunProofs`, `ScenarioWorkersProofs`, `InventoryTargetsProofs`, `InventoryLedgerProofs`, `CouponPoolProofs`, `CheckoutSagaProofs`, `JobsProofs`, `ConsoleProofs` | | theorems, the last two of all parts of `MCJobs` and of `MCConsole` |

### State and actions

In `FaultRun` an action is the code between two awaits. `call[r]` is the create request
that drew UUID `r`, with its program counter: insert, prepare, confirm, arm, or
compensate and record the failure. `rec[p][r]` is the entry of `recoveryPromises` in
process `p`: mark RECOVERING, drain, release, record. `timer[p]` holds armed timeouts,
`boot` the start of the worker. `prep`, `stray`, `fence` and `held` are the target:
its prepare request, delayed releases, the Redis key and the runs whose effect is in
place. `released` is a history of how far releases got. `Creating`, `Recovering`,
`WorkerStep` and `Surroundings` group the actions.

`InventoryTargets` takes the target apart: `prepare[r]` and `release[r]` are requests
inside the monitor of their holder (`synchronized`), the guard's scheduler is a
process of its own, and the database grants the table or row lock only when no other
session has one. A run is its fencing token.

In `InventoryLedger` a request is one transaction in two steps: `Reads`, the SELECTs, which
see one snapshot, and a write step that stands for the time from taking the lock of the
stock row to the commit. That much may be one step because other writers wait for the
lock and readers see the state before the commit. What was read, the version above
all, is kept in `request[q]`, `replenish[w]` and `reset[x]` from the first step to the
second. `stock`, `status` and `batch` are the three tables, `asks` is what each request asks
for, and `reported`, `additions` and `raced` are histories.

In `CouponPool` transactions read FOR UPDATE, so the model has their row locks instead of
versions: `calculate[o] = "locked"` holds the coupon of order `o`, `request[q] = "locked"` a
reservation, `sweep` the rows it found and, one by one, their coupons. Waiting for the
second lock is the time between two steps; taking it, writing and committing is one.
`reservation` has the orders' rows and those of `CouponReservationConsistencyService`
(`Drill`), which the sweep cannot tell apart. `calculate[o]` leaves "new" for good: the key
`promo:calc:<order>` in Redis is set before the transaction and survives its rollback.
`drilled` is a history of the coupons that the sweep handled for a drill.

In `CheckoutSaga` `checkout[c]` is one checkout request with its program counter and what it
remembers of answered calls; `op[q]` is a cancellation, an expiry or the confirmation of a
payment. A call of another service commits there in the step that makes it, and the
answer may be lost in the same step (`Answered`); the order itself appears when the
request commits. The compare-and-set on the order locks its row (`RowLocked`). `raced` and
`faulty` are histories: orders whose stock a losing or failed cancellation or expiry
gave back, and requests that met a fault.

The modules of `MCJobs` and `MCConsole` follow the same pattern: a program counter per
process or request, one action from one await to the next, and Redis, the database and
files as variables of their own. In `Replenishment` `execution[e]` is a scheduled or
triggered execution and `inFlight` the requests whose caller no longer waits. In
`DataWarmup` `service[w]` is the loop that holds the lease, `queue[w]` and `manual[w]`
its two activities, `mark` the fencing token in the progress row. In `TrafficRunner`
`lifecycle` is the one that runs and `result[l]` what each one reported. In
`WorkerProcess` `scan[e, i]` is a list on its way and `sender[r][i]` a surge or report
worker. In `AlertConfig` `draft[o]` is an operator's form and the save made from it. In
`RunnerControl` `task["tick"]` and `task["heartbeat"]` are the engine's two timers. In
`CustomerSession` `held` is the token pair at hand and `call[c]` a request. In
`ConsoleViews` `truth` counts the changes of the server's state and `shown` the count
that the page shows.

Abstractions, all on the side of more behaviour unless stated:

- Time is the set `expired`; it grows at any moment, and all processes read it.
- `stop()`'s read of the run and the begin of `recover()` are one step; that the run may
  change before the next statement is the separate step "mark" or "drain".
- A commit and the read-back after it are one step, except where an error between
  them matters (`InsertReadbackFails`, `Arm`, `ConfirmErrors`).
- One prepare request is sent per run, as the code does; the idempotent branch of
  `prepare()` for a repeated request is therefore never taken.
- `FaultRun` has one target service for all runs, the worst case, and lets a release on
  it be atomic; `InventoryTargets` splits that release.
- Retention waits seven days, in which requests about the run have long been answered
  (`Settled`). This removes behaviour and is the one timing assumption.
- Overlapping scans and the map of starting workers are one scan at a time.
- A failing `UNLOCK TABLES` counts as closing. What a pooled session keeps after
  `close()` and when the pool retires it is HikariCP's, marked external.
- `Init` has the worker up; its start is reached through a crash.
- The ledger runs on MySQL's default isolation, REPEATABLE READ; the repository sets no
  other. `operationId` equals `reservationId`, as in every caller, so that the two
  lookups of a request find one row. An absent SKU, a switched-off replenishment and
  the checks of arguments, which end a request before it changes anything, are left out.
- The Redis lock of `reset` is asked for after the first read and given back before the
  commit; it orders no two snapshots and is left out, which only adds behaviour.
- The 24 hours of the Redis key are taken as longer than an order lasts. Locks that
  InnoDB takes beyond the rows named (gaps, scans) only delay or fail a transaction.
- Replenishments of one window exclude each other through the row of
  `traffic_replenishment_runs` that each writes first: `replenish[w]` is one transaction.
- Saga: what is overdue is one flag for stock and coupon. Amounts, quantities and
  addresses are left out. `applyRiskRejected` saves an entity under `@Version`, which is a
  compare-and-set of the version read. `retryIntent`, `retryCustomerPayment`, `markPaid` and the
  `/expire` route are left out: the first two need the status UNKNOWN, which is rolled
  back before anybody sees it, the others have no caller.
- `Replenishment` is one module for both schedulers, which differ in names.
- `DataWarmup` counts rows in batches; row generation, partition arithmetic and figures
  for display are left out. One table stands for both.
- `TrafficRunner` leaves out products, carts, coupons and counters; `CART_TOTAL_READ` and
  `COUPON_SELECT` are one step, a refresh or a retry after 401 has no effect on the order,
  and whether a tick finds the runner enabled is free here and modelled in `RunnerControl`.
- `RunnerControl` keeps one heartbeat under way; five seconds may pass, and the key of the
  status may expire, at any time. `Publishes` reads the status of the engine and writes it
  in one step although `connect()` is awaited in between: on one connected client, or with
  the command queued, statuses arrive in the order in which they were read. Less behaviour
  than the code's in one case: a connection that is remade exactly when the engine stops
  could let an older status arrive last, for the 30 seconds of its key.
- `WorkerProcess` leaves statistics out, except that failing to write one ends a report.
- `NotificationTarget` writes STOPPED as RECOVERED; the dialogs of the page and the routes
  that check again are one step; answers that nobody waits for are dropped; disk errors
  and bad parameters are left out.
- `AlertConfig`: a form with an old version only differs in being refused. The first load
  inside `saveAlertSource` is merged with the save; the source of Alertmanager is handled
  like that of the rules; the import of receivers is left out; one edit per form.
- `CustomerSession`: sessions do not expire (seven days), access tokens do; which page
  made a request is left out, any page may be old.
- `ConsoleViews` follows one view at a time; a write of accounts and the read-back in the
  same request are one step; the details of a run, loaded on demand, are left out.

### Defects kept as operators

Operators marked "Defect:" are plausible bugs of the operation defined after them. They
are in no next-state relation; `PROJECT.json` pairs each with the property that must
fail when it takes the operation's place.

## 4. Runs

| Run | Instance | Shows |
|---|---|---|
| `fault_run_pair` | 2 runs with 2 keys and 1 stray release and no faults, or 1 run of any kind with a fault (`PairOrFaults`); symmetry in runs and keys (no liveness) | `SingleActive`, `NewestTokenActive`, `ActiveOwnsTarget`, refinement of the lifecycle |
| `scenario_workers` | 1 run of each kind in turn beside the workload, 2 faults, 2 recoveries at once, no stray release; 266,700 states | `EvidenceHonest`, `ActiveWasPrepared`, `WorkloadQuiesces`, `EveryRunEnds` |
| `inventory_targets` | tokens 1 and 2, any holder each, 2 faults, 2 releases per run | `HeldIsGuarded`, `ActiveHasResource`, `FenceKept`, `OnlyOwnEnd`, `ResourceFreed` |
| `inventory_ledger` | 2 reservations (1 and 2 pieces), 3 requests, 2 windows, 1 reset; stock 2, target 4, baseline 3; symmetry in requests | `NeverOversold`, `StockMatchesReports`, `ReplenishedOnce`, `ReservedMatches` |
| `coupon_pool` | 2 orders, each for any of 2 coupons, 1 release or confirm, 1 drill, 1 window, 1 failing sweep | `OneOrderPerCoupon`, `CouponsMatch`, `SettledStays`, `OverdueIsSwept` |
| `checkout_saga` | 2 checkouts (one with a coupon), 2 keys, 2 SKUs, 2 payments, 2 requests about orders, 1 fault, 1 edit of the cart; 303,535 states | `CleanAbort`, `OneOrderPerKey`, `PaidOrderIsBacked`, `SettledPaymentSettlesOrder`, `CouponComesBack`, refinement `KeepsPromise` |
| `jobs` | the four parts of `MCJobs` (below); 1,621,506 states | six properties (below) |
| `console` | the six parts of `MCConsole` (below); 1,800,613 states | seven properties (below) |
| `drill_swept` | as `coupon_pool` | a coupon is freed while an order holds it (violation) |
| `late_operation` | 2 runs, no faults | a late prepare is accepted (violation) |
| `drain_order` | 1 run, no faults | release before drain (violation) |
| `table_lock_left` | 2 tokens, no faults | a table lock without owner (violation) |

The parts of `jobs` (the first four) and `console`, and what they show:

| `focus` | Instance | States | Properties of the run |
|---|---|---|---|
| replenishment | 1 scheduler, 1 triggered execution, 2 windows, 2 attempts, 1 stop, 2 failures | 443,463 | `ReplenishmentIsSafe` (`CompletionIsReal`, `OwnLockKept`), `StatusSettles` |
| warmup | 2 services, 2 jobs, 2 days, 1 fault; begins once the first service has the lease | 540,331 | `WarmupIsSafe` (`RowsExact`, `NoJobStranded`) |
| runner | 2 lifecycles, 2 fault runs of which the second may grow the storage, growth of 2 | 454,852 | `RunnerIsSafe` (`SettledWhenSaid`, `DrainsStarted`) |
| process | 2 fault runs, a surge and a report; 2 scans, 2 senders of each | 182,860 | `SendersEnd` |
| alerts | 2 operators, one of whom also edits the source, 2 rules, 3 versions | 404,108 | `EditsAreSeen` (`ReplacesWhatWasSeen`), `SettingsHold` (`FilesFollow`) |
| settings | 2 consoles, 2 accounts, 2 updates | 56,613 | `EditsAreSeen` (`KeepsUnnamed`), `SettingsHold` (`AccountsRemain`) |
| notification | 2 fault runs, of either kind | 648,327 | `TargetFollows` (`ActiveIsServed`, `FilesScoped`) |
| control | 2 versions of the profile, 1 crash | 243,702 | `ControlFollows` (`PauseIsHeeded`, `ConfigAdvances`, `StoppedIsShown`) |
| session | 2 callers, 3 tokens, 1 lost answer | 186,081 | `SessionsHold` (`HeldIsLive`, `ClosedIsRevoked`) |
| views | 3 requests at once, 3 changes, 2 visits, 1 failure | 261,782 | `ViewsAdvance` (`GuardedAdvances`, `BusyStandsForLoad`, `UnpolledIsCurrent`) |

`TypeOK` of `MCJobs` and of `MCConsole` checks the types of their parts. The other type
invariants are proved for all constants and are not part of a run.

Every run sets CHECK_DEADLOCK FALSE: runs, requests and jobs are bounded in number, so
the system really stops when all have ended.

Bounds. `MaxFaults` counts crashes and failing statements, `MaxRecoveries` recoveries in
progress over both processes, `MaxStray` delayed release requests, `MaxReleases` release
requests per run. In `fault_run_pair` a state constraint separates the two instances,
and the fault that is never used (`LastFaultUnused`) tells them apart; no property of
the run is a liveness property. Two runs are enough for every race between an old and a
new run, since at most one is active; two recoveries are enough for API against worker;
one stray release is one more than the code sends at once. Two runs meet without faults,
and stray releases are left to them, for the size of the instances; the safety
properties of fault runs are proved for all bounds, so that there the runs' bounds
matter for liveness only. In the liveness runs faults are finite: a system whose
database fails for ever does not end its runs.

In the saga two checkouts with one key, or with two keys on one cart, race each other;
two requests about orders are enough for a payment against a cancellation or an expiry,
and for two payments of one order; the fault is a crash or an answer lost at any step.
In `jobs` and `console` each instance has two of whatever competes: two executions for a
lock, two services for the lease, an old and a new fault run, two operators, two callers
of a session; in the views three requests let one be late, one be asked for again, and
one follow a change. One or two faults let each recovery path be taken once, and be
taken while another process is active.

In the ledger the two reservations cannot both be served from the initial stock of 2, but
can after a replenishment; three requests are a reservation and two that settle it, or
two reservations and a release between them. Each of the pairs that conflict
(request and request, request and replenishment, two windows, reset and any) overlaps.

In `coupon_pool` two orders compete for one coupon, and a request for one of them races the
sweep. One request keeps the liveness check small; that two requests on one
reservation do no harm is proved.

Fairness. In `FaultRun` weak fairness is given to the clock, the restart of the worker by
its Deployment, its one-second poll and the steps of its own recoveries, whose calls
are answered or time out. Nothing is assumed of operators, the API process or the
target. The drain has strong fairness in `ScenarioWorkers`: a scan that was already on
its way may start a worker again, and then the awaited `Promise` of the drain that
was registered first still resolves. In `InventoryTargets` fairness covers the expiry
thread, the threads inside a request, and the end of lock waits, which
`infra/mysql/my.cnf` bounds (`innodb_lock_wait_timeout`, `lock_wait_timeout`). The ledger
has no liveness properties and no fairness: nothing in the service retries by itself. In
`CouponPool` the scheduler repeats the sweep (`@Scheduled`),
a started transaction commits or fails (`innodb_lock_wait_timeout`), and time passes;
sweeps fail finitely often. Nothing is assumed of orders, requests, drills or windows.
In `CheckoutSaga` only time (`BecomesOverdue`) and the scheduled sweep of coupons
(`CouponSwept`) are fair: no request needs to go on for a coupon to come back. The parts
of `jobs` and `console` have safety properties only, and no fairness.

The exceptions in properties (`raced`, `faulty`, `missed`, `left`, `lost`, `revived`, `slow`,
`undone`, `doubled`, `beside`, `settled`) are histories of the one situation in which the
code does break the property; the comment at the property names it, and "What the code
does differently" below lists those that a reader would not expect.

### What the violations show

- `late_operation`: create, prepare sent, timeout, compensation (nothing to release),
  FAILED; then the prepare arrives. No newer run has raised the fence and the run has
  not expired, so the target accepts. It stays held until the expiry cleanup.
  `docs/architecture-overview.md:457` says late operations are refused.
- `drain_order`: the stop request is served by the API process, which has no drain for
  the run. The same line of the document fixes drain before release.
- `table_lock_left`: the lock statement returns after the expiry, `registerCleanup` throws,
  and the connection is closed without `UNLOCK TABLES`. The runbook
  `inventory-table-exclusive.md:42` ends the lock with the resource.
- `drill_swept`: an order reserves the coupon that the drill selects; the drill inserts its
  expired row on it; the sweep frees the coupon. The runbook
  `promotion-lock-contention.md:9` says that unrelated coupons are not selected.
  `OneOrderPerCoupon` and `CouponsMatch` therefore except coupons in `drilled`.

### What the code does differently

Met while modelling, and part of the models; none has a run of its own.

- A cancellation's release and a payment's confirm (or an expiry) may both read a
  reservation RESERVED; the second to commit overwrites the first, although
  `docs/architecture-overview.md:243` says that newer states are not overwritten
  (`raced` in `InventoryLedger` and `CheckoutSaga`).
- The pre-check of the risk service answers in the field `pass`, the order service looks
  for `passed`: no checkout is refused by it.
- A report worker goes on until its run expires, also when the run was stopped;
  the runbook `browse-report-sql.md:30` says otherwise. A report task
  that is rejected ends the worker.
- A heap run is marked unavailable when its service shuts down. A restart of a healthy
  service marks its run RECOVERED while the target may still hold it.
- A save of the alert source replaces a save that was committed while it was edited.
  Two renderings at once may leave the files of the older one; `FilesFollow` bounds what
  can come back to the saves that were rendering when the last one committed, and a save
  that nothing overlaps always leaves its own.
- Two operators may disable the last two accounts at once. `AccountsRemain` says that
  nothing else does, and that the exception is over once an account is enabled after that.
- A triggered replenishment publishes a copy of the status that was read before.
- The engine may go back to an older profile when two reads of it overlap, and a
  heartbeat may undo a pause that came after its read. A crash between HSET and EXPIRE
  leaves a status without expiry.
- After a 409 the runner page keeps its old version until it is loaded again. A reload of
  the warm-up after a job is queued is swallowed by a poll under way. Polls without a
  guard may go back.
- The answer of a refresh that arrives after a sign-out signs the browser in again; a
  401 clears the cookie without revoking the session; a lost answer leaves a surge with
  a revoked token; two refreshes at once may leave a session behind for seven days.
- Never reached: the status UNKNOWN of payments and with it `retryIntent` and
  `retryCustomerPayment`; `markPaid` and `/expire`; PROCESSING as others see it; the
  cancellation of a parcel; the refresh before expiry (`expiresAt` is that of the session).

## 5. Proofs

`FaultRunProofs` proves, for all sets of runs and keys and all bounds:

- `TypeCorrect`; one case per action.
- `StoreStep`: every step changes the store by an insertion, a transition along the
  lifecycle's moves, a purge, or not at all (`StoreMove`). All theorems about the store
  rest on this lemma and no longer mention the processes.
- `TokensOrdered`: `TokenInv` (tokens at most `lastToken`, pairwise different, the active
  run has the last) is inductive under `StoreMove`. `SingleActive` alone is not inductive
  in a useful way for tokens; with `TokenInv`, `OneRunAtATime` and `ActiveIsNewest` follow.
- `ImplementsLifecycle`: each `StoreMove` is Admit, Advance or a stutter.
- `EvidenceIsHonest`: strengthened by what a call, a recovery or the starting worker has
  yet to write: one that is about to record success already has a confirmed release.
- `ActiveIsPrepared`: strengthened by "a call about to confirm has its acceptance".
- `ActiveOwnsItsTarget`: strengthened by the fence: while a prepared run is active or about
  to be confirmed, unexpired and unreleased, the fence is its token, and delayed releases
  exist only for runs that were released. `TokensOrdered` gives that no other run's
  token can pass the fence.

`ScenarioWorkersProofs` proves that the composition refines `FaultRun`
(`WorkloadKeepsControl`), which carries every theorem over, and its own typing.

`InventoryTargetsProofs` proves, for all sets of tokens and all bounds, that the invariant
`IInv` is inductive, and from it `TypeCorrect`, `PreparedIsGuarded`, `ActiveHoldsItsLock`,
`NewestKeepsFence` and `RunsEndTheirOwn`. None of the checked properties is inductive
alone. `IInv` adds what `synchronized` gives (`Monitor`: one request of a holder between two
of its steps), who may have the connection (`ConnectionOwned`, `ActiveOwned`: the preparing
run or the active one, and the active one may lack it only when it expired while it
waited for its lock), that whoever releases had a reason (`EndsAreDue`), and the fence from
the acceptance on rather than from the registration (`FenceTaken`). Each part has a
lemma with one step per action.

`InventoryLedgerProofs` proves, for any reservations, quantities, requests, windows and resets,
`TypeCorrect`, `NothingOversold`, `ReportsAreExact` and `WindowsAddOnce`. `ReportsAreExact` needs
`ReadsVouched`: until a reset, the version of the stock row counts every change of it, so a
replenishment that still finds the version it read finds the stock it read. `WindowsAddOnce`
needs `AddedIsCompleted`: a window that has added is COMPLETED and not claimable.

`CouponPoolProofs` proves, for any orders, drills, requests and windows, `TypeCorrect`,
`CouponServesOneOrder`, `CouponsAgree` and `SettledIsFinal`. The invariant adds `LocksVouch`: no
two transactions hold the same lock, and what was read under a lock (a coupon
AVAILABLE, a reservation RESERVED) is still so when its holder writes. The same action
property that `CouponPool` has by its locks, `SettledStays`, is the one that
`InventoryLedger` violates, which reads without locks.

`CheckoutSagaProofs` proves, for any checkouts, keys, SKUs, payments, requests, edits and faults,
that `IInv` is inductive (`SagaInvariant`), and from it `TypeCorrect`, `AbortIsClean`,
`KeyMakesOneOrder`, `PaidIsBacked`, `PaymentSettlesOrder` and `KeepsThePromise`. The proof
first says, for each variable, which steps change it and how, and then goes through
those steps only. The parts of `IInv` are what the code relies on:

- `OnePastInsert`: the unique key of `orders` admits one checkout of an idempotency key past
  its INSERT, so that `OneOrderPerKey` holds without the earlier lookup.
- `RemembersReserved`: what is reserved for an order that no fault has hit is what its
  checkout remembers, so that the catch block, which gives back what it remembers,
  leaves nothing behind.
- `CheckoutHolds`: until the commit nobody else gives back what the checkout has reserved,
  since requests are about visible orders only.
- `RequestsAreGrounded`: a request is about a visible order, a confirmation about that of its
  intent, and an answer SUCCESS was charged.
- `RowLockVouches`: the row of an order has one holder, who finds it pending until it
  decides, and what a confirmation has done in the other services meanwhile stays done.

`KeepsThePromise` is the refinement of `OrderPromise`: every step is Place, Charge, Ship or
Decide, or leaves unchanged what customers see. A parcel is shipped for an order that is
charged and pending because the shipping request holds the row (`ShippedMoves`).

`JobsProofs` proves, for any values of the constants of `MCJobs`, the properties of the four
background jobs and, as `JobsTyped`, the types of all of them:

- `ReplenishmentSafe`. `CompletionIsReal` needs `AnswersAreReal`: an execution that is about to
  write its completion has had the answer. `OwnLockKept` needs `FreeLockIsNobodys`: a lock that
  has expired or was deleted belongs to nobody, so that a late deletion, which
  compares the owner, finds another value or none.
- `StatusSettled`, under the hypothesis that there is one scheduler. That is how the worker is
  deployed (one container in docker-compose.yml, `replicas: 1` in
  k8s/services/traffic-control-plane/worker-deployment.yaml). `StatusInv`: the status and
  what is still going to be published of it agree with the worker, unless a change was missed.
- `WarmupSafe`, the longest one. `RowsExact` is not inductive: `WarmupInv` adds that a
  thread that works on its own job has read its true progress (`UpToDate`). It has, because
  it selects jobs while it has the fencing mark, keeps the mark from its selection on or
  never has it again, and nobody else can have come to work on that job meanwhile. `Locked`
  says that an insertion holds the lock of the progress row, so that the rows that it
  counted are still those that are there; `JobInv` and `DayLeft` bound the rows of a job by its
  days. A thread between sessions has ended and has no job (`Rested`, `HasJob`). The run
  begins once the first service has the lease; `WarmupSafeFromStart` proves the same from
  the start of the services on, when none of them has it.
- `RunnerSafe`: what a lifecycle reports is true of its order (`ReportsTruth`), lifecycles before
  the current one have ended (`OthersHaveEnded`), and the run is completed only when those
  that `stop()` found have ended (`DrainedBefore`).
- `SendersEndAlways`: a sender is registered with its run and has its session only while it
  lives (`SenderInv`), and the shutdown waits for all surges that can still send (`SurgesInv`).

The four parts share no state, so each has an invariant of its own under its `focus`.

`ConsoleProofs` proves, for any values of the constants of `MCConsole`, all that the `console`
run checks, again with one inductive invariant per part and `ConsoleTyped` for the types:

- `SettingsAlwaysHold` and `EditsAlwaysSeen` about accounts and profile: `ReadsAreCurrent` says
  that an update was filled up from the profile of the version that it names, so that the
  comparison of versions vouches for it, and that what a console has seen of the accounts is
  still enabled while no two disable at once. Then the account it disables is one of two.
- The same theorems about the alert rules: `DraftsAreRead` says, of every point between two
  statements of a request, what the request has read and of which version. `SavesInOrder`
  follows a rendering through its plan: each save is at one place of it, and the temporary
  files, files and services that the steps before it have written hold a version that the
  save may leave (`May`): its own, a later one, or one of a save that was rendering when it
  committed. Whoever renders now is among these, so that another save may overtake but not
  undo. At its end this holds for both files and both services. The plan has no recursion, so that its
  nine or six steps are facts about a sequence (`PlanIs`).
- `TargetAlwaysFollows`: `ActiveIsServed` alone is not inductive. `RequestsInOrder` says that a run
  whose preparation was accepted is told of it before its release is asked for, and
  `TargetIsKept` that whatever can take the target away (a cleanup request that has looked at
  the run, the thread of the guard, a restart) is about a run that has ended or
  expired, or is on record.
- `ControlAlwaysFollows`: `PauseIsCarried` follows the flag from the read of a tick into the engine,
  `ProfileIsFollowed` says that reads that were not slow come one at a time and bring nothing
  older than the engine has, `EndIsSaid` that an engine that has said it stops has no task left
  that could say otherwise. The proof first says what each action makes of a task
  (`TaskSteps`) and of the engine (`EngineSteps`).
- `SessionsAlwaysHold`: `TokensInOrder` says that a token which a call has brought is active and
  nowhere else, `RevokerIsUnderWay` that what has revoked the token at hand is an answer
  still on its way to its holder, `OneActive` that a surge whose refreshes have not met has one
  active token, at hand or on its way. `WorkerStages` says which calls a session of the
  worker may have under way at which stage.
- `ViewsAlwaysAdvance`: `OneGuardedLoad` says that the flag of a guarded view stands for one load of
  the present visit, answered with nothing older than the page shows, and
  `UnpolledIsFollowed` that a view which is not polled and which nothing has disturbed has only
  answers of the present state.

Assumptions are those named in the modules: `NoKeyAssumption`, `FaultRunAssumption`,
`GuardAssumption`, `TargetsAssumption`, `LedgerAssumption`, `PoolAssumption`, `SagaAssumption`,
`JobsAssumption`, `WarmupAssumption` and `ConsoleAssumption`. They say that counters and bounds are natural numbers,
that different kinds of values are different, that the chosen subsets are subsets, and that
accounts and request slots are finitely many, the accounts at least one.
TLC evaluates them in the runs. The one hypothesis beside them is that of `StatusSettled`.

Only model-checked: the liveness properties `EveryRunEnds`, `WorkloadQuiesces`,
`ResourceFreed`, `OverdueIsSwept` and `CouponComesBack` (liveness under fairness is outside
what the prover supports), and `ReservedMatches`, a sum over reservations, whose proof would
need induction over data.

## 6. Not modelled

- Product detail cache: one key per product, read and written through. The fault that
  fills it, and the fault that decides what the payment provider answers, are holders on
  `OperationRunGuard` like those of `InventoryTargets`, without a connection or lock.
- Operator authentication: signed cookies, no state at the server.
- Notifications, user profiles and addresses, product catalogue: single statements on one
  table each.
- Gateway: stateless routing. Its effect, requests that are lost or arrive late, is in
  every module that calls through it; its check of sessions is in `CustomerSession`.
- Pages beyond what `ConsoleViews`, `AlertConfig`, `RunnerSettings`, `NotificationTarget` and
  `CustomerSession` say of them: layout, styles, translations, texts, the operations manual.
- Metrics, logging, audit and event rows, manifests and configuration.
- Within modelled parts: partition arithmetic and row generation of the warm-up, the
  contents of reports, the conversion of alert rules to YAML, amounts and prices.
