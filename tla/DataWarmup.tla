------------------------------- MODULE DataWarmup -------------------------------
\* Filling of the history tables by the worker processes (data-warmup.ts). A lease in
\* Redis says who may write, a mark in the progress row fences the writes of those who
\* do not know yet that they have lost it. Beside the daily filling, the service that
\* holds the lease works off the jobs that operators queue. One table stands for both:
\* each has its own queue, they share the lease and the jobs. Rows are counted in
\* batches; their values, figures for display and the configuration are left out.
EXTENDS Integers, Sequences, FiniteSetsExt

CONSTANTS
  Owner,                \* services, one for each start of a worker process
  Job,                  \* ids of queued jobs
  Injects,              \* jobs that add rows, the others remove days
  JobDays,              \* JobDays[j]: the dates of job j, in order
  JobRows,              \* batches that a job adds to each of its days
  DayRows,              \* batches of a day that is filled
  WindowDays,           \* days before today that are kept, with today
  LastDay,              \* bound on days
  MaxFaults,            \* bound on crashes, pauses and failing commands
  None

Day == 0..LastDay

VARIABLES
  today,
  lease,                \* Redis: who holds the lease
  mark,                 \* lease_owner of the progress row
  rowLock,              \* the thread whose transaction holds that row
  service,              \* service[w]: progress of runLoop, leaseHeld, stopped
  queue,                \* queue[w]: progress of the table queue, days still to be filled
  manual,               \* manual[w]: progress of the manual loop, its job as it was read
  job,                  \* rows of data_warmup_manual_jobs
  stale,                \* running jobs without a sign of life for two minutes
  rows,                 \* rows[d]: batches of day d, from filling and from jobs
  partitions,           \* days with a partition
  excluded,             \* days that a job has excluded from filling
  inserted,             \* history: batches each job has committed
  left,                 \* history: jobs left running by a crash or a failing statement
  faults

leaseVars == <<lease, mark>>
tableVars == <<rows, partitions, excluded>>
jobVars == <<job, stale, inserted, left>>
warmupVars == <<today, leaseVars, rowLock, service, queue, manual, jobVars, tableVars, faults>>

Idle == [pc |-> "ended", todo |-> {}]
NoJob == [pc |-> "ended", job |-> None, days |-> 0, rows |-> 0]
NoFault == UNCHANGED <<left, faults>>

TypeOK ==
  /\ today \in Day
  /\ lease \in Owner \cup {None} /\ mark \in Owner \cup {None}
  /\ rowLock \in ({"queue", "manual"} \X Owner) \cup {None}
  /\ service \in [Owner -> [pc : {"contending", "acquired", "renewed", "marked", "session",
       "failing", "failingLost", "off", "dead"}, held : BOOLEAN, stopped : BOOLEAN]]
  /\ queue \in [Owner -> [pc : {"rest", "partition", "filling", "counted", "renewing",
       "dropping", "ended", "failed"}, todo : SUBSET Day]]
  /\ manual \in [Owner -> [pc : {"rest", "selected", "working", "unexcluding", "prepared", "partition",
       "filling", "inserting", "renewing", "progress", "excluding", "excluded", "dropping",
       "requeuing", "losing", "failing", "ended"}, job : Job \cup {None}, days : Nat, rows : Nat]]
  /\ job \in [Job -> [status : {"NONE", "QUEUED", "RUNNING", "COMPLETED", "FAILED"},
       owner : Owner \cup {None}, days : Nat, rows : Nat]]
  /\ \A j \in Job : job[j].owner # None <=> job[j].status = "RUNNING"
  /\ stale \subseteq Job /\ left \subseteq Job
  /\ rows \in [Day -> [filled : Nat, injected : Nat]]
  /\ partitions \subseteq Day /\ excluded \subseteq Day
  /\ inserted \in [Job -> Nat] /\ faults \in 0..MaxFaults

Init ==
  /\ today \in WindowDays - 1..LastDay
  /\ lease = None /\ mark = None /\ rowLock = None
  /\ service = [w \in Owner |-> [pc |-> "contending", held |-> FALSE, stopped |-> FALSE]]
  /\ queue = [w \in Owner |-> Idle] /\ manual = [w \in Owner |-> NoJob]
  /\ job = [j \in Job |-> [status |-> "NONE", owner |-> None, days |-> 0, rows |-> 0]]
  /\ stale = {} /\ left = {}
  /\ rows = [d \in Day |-> [filled |-> 0, injected |-> 0]]
  /\ partitions = today - WindowDays + 1..today /\ excluded = {}
  /\ inserted = [j \in Job |-> 0] /\ faults = 0

Fault == faults < MaxFaults /\ faults' = faults + 1 /\ UNCHANGED left

\* A session is active until its table queue has ended.
CanProcess(w) ==
  service[w].held /\ ~ service[w].stopped /\ queue[w].pc \notin {"ended", "failed"}
ServiceAt(w, pc) == service[w].pc = pc
QueueAt(w, pc) == queue[w].pc = pc
ManualAt(w, pc) == manual[w].pc = pc
ServiceGoes(w, pc) == service' = [service EXCEPT ![w].pc = pc]
QueueGoes(w, pc) == queue' = [queue EXCEPT ![w].pc = pc]
ManualGoes(w, pc) == manual' = [manual EXCEPT ![w].pc = pc]

-----------------------------------------------------------------------------
\* The lease: runLoop, its heartbeat, and stop.

Acquires(w) ==
  /\ ServiceAt(w, "contending") /\ ~ service[w].stopped
  /\ lease = None
  /\ lease' = w
  /\ service' = [service EXCEPT ![w].pc = "acquired", ![w].held = TRUE]
  /\ UNCHANGED <<today, mark, rowLock, queue, manual, jobVars, tableVars, faults>>

\* The catch block: whether the lease was held is read before it is given up.
Catches(w) ==
  service' = [service EXCEPT ![w].pc = IF service[w].held THEN "failing" ELSE "failingLost",
                             ![w].held = FALSE]

\* Renews the lease at once; a lease that is gone, or a failing command, ends the try.
RenewsFirst(w) ==
  /\ ServiceAt(w, "acquired")
  /\ \/ lease = w /\ ServiceGoes(w, "renewed") /\ NoFault
     \/ lease # w /\ Catches(w) /\ NoFault
     \/ Catches(w) /\ Fault
  /\ UNCHANGED <<today, leaseVars, rowLock, queue, manual, job, stale, inserted, tableVars>>

\* markWarmupLeaseOwner looks neither at the lease nor at the mark that is there.
Marks(w) ==
  /\ ServiceAt(w, "renewed") /\ rowLock = None
  /\ \/ mark' = w /\ ServiceGoes(w, "marked") /\ NoFault
     \/ Catches(w) /\ Fault /\ UNCHANGED mark
  /\ UNCHANGED <<today, lease, rowLock, queue, manual, job, stale, inserted, tableVars>>

Requeued(jobs) == [j \in Job |-> IF j \in jobs
  THEN [job[j] EXCEPT !.status = "QUEUED", !.owner = None] ELSE job[j]]

\* Stale jobs are queued again, now and never later in the session, which begins.
Reclaims(w) ==
  /\ ServiceAt(w, "marked")
  /\ ServiceGoes(w, "session")
  /\ job' = Requeued(stale) /\ stale' = {} /\ left' = left \ stale
  /\ queue' = [queue EXCEPT ![w].pc = "rest"]
  /\ manual' = [manual EXCEPT ![w].pc = "rest"]
  /\ UNCHANGED <<today, leaseVars, rowLock, inserted, tableVars, faults>>

SessionEnds(w) ==
  /\ ServiceAt(w, "session")
  /\ queue[w].pc \in {"ended", "failed"} /\ ManualAt(w, "ended")
  /\ IF QueueAt(w, "failed") THEN Catches(w) ELSE ServiceGoes(w, "contending")
  /\ queue' = [queue EXCEPT ![w] = Idle]
  /\ UNCHANGED <<today, leaseVars, rowLock, manual, jobVars, tableVars, faults>>

\* The mark is taken back; who has lost the lease takes back the mark of anyone.
ReportsError(w) ==
  /\ service[w].pc \in {"failing", "failingLost"} /\ rowLock = None
  /\ \/ mark' = (IF mark = w \/ ServiceAt(w, "failingLost") THEN None ELSE mark) /\ NoFault
     \/ UNCHANGED mark /\ Fault
  /\ ServiceGoes(w, "contending")
  /\ UNCHANGED <<today, lease, rowLock, queue, manual, job, stale, inserted, tableVars>>

\* A renewal that fails, for whatever reason, makes the session end.
Heartbeat(w) ==
  /\ service[w].held
  /\ IF lease = w THEN Fault ELSE NoFault
  /\ service' = [service EXCEPT ![w].held = FALSE]
  /\ UNCHANGED <<today, leaseVars, rowLock, queue, manual, job, stale, inserted, tableVars>>

Stops(w) ==
  /\ service[w].pc \notin {"off", "dead"} /\ ~ service[w].stopped
  /\ service' = [service EXCEPT ![w].stopped = TRUE]
  /\ Fault
  /\ UNCHANGED <<today, leaseVars, rowLock, queue, manual, job, stale, inserted, tableVars>>

\* releaseLease: only a lease that is believed to be held, and only one's own.
Releases(w) ==
  /\ ServiceAt(w, "contending") /\ service[w].stopped /\ rowLock = None
  /\ lease' = (IF service[w].held /\ lease = w THEN None ELSE lease)
  /\ mark' = (IF service[w].held /\ mark = w THEN None ELSE mark)
  /\ service' = [service EXCEPT ![w].pc = "off", ![w].held = FALSE]
  /\ UNCHANGED <<today, rowLock, queue, manual, jobVars, tableVars, faults>>

\* The lease lasts 30 s: it lapses when nobody renews it, or during a pause of its holder.
LeaseLapses ==
  /\ lease # None
  /\ IF service[lease].held THEN Fault ELSE NoFault
  /\ lease' = None
  /\ UNCHANGED <<today, mark, rowLock, service, queue, manual, job, stale, inserted, tableVars>>

\* The database rolls back what the process had open.
Crashes(w) ==
  /\ service[w].pc \notin {"off", "dead"}
  /\ faults < MaxFaults /\ faults' = faults + 1
  /\ service' = [service EXCEPT ![w].pc = "dead", ![w].held = FALSE]
  /\ queue' = [queue EXCEPT ![w] = Idle] /\ manual' = [manual EXCEPT ![w] = NoJob]
  /\ rowLock' = (IF rowLock \in {<<"queue", w>>, <<"manual", w>>} THEN None ELSE rowLock)
  /\ left' = left \cup {j \in Job : job[j].owner = w}
  /\ UNCHANGED <<today, leaseVars, job, stale, inserted, tableVars>>

-----------------------------------------------------------------------------
\* The table. A row is stored in the partition of its day, or the next one there is.

HasPartition(d) == \E p \in partitions : p >= d
Extends(d) == \A p \in partitions : p < d
PartitionOf(d) == Min({p \in partitions : p >= d})
Rows(d) == rows[d].filled + rows[d].injected

\* runWarmupMutation: one mutation of a table at a time in a process.
QueueMutates(w) == queue[w].pc \in {"partition", "counted", "dropping"}
ManualMutates(w) == manual[w].pc \in {"unexcluding", "partition", "inserting", "excluding", "dropping"}

\* assertWarmupLeaseOwner; FOR UPDATE waits for the row and holds it for a transaction.
MayWrite(w) == rowLock = None /\ mark = w
LostMark(w) == rowLock = None /\ mark # w

AddPartition(d) == partitions' = partitions \cup {d}
DropPartition(d) ==
  /\ partitions' = partitions \ {d}
  /\ rows' = [e \in Day |-> IF d \in partitions /\ HasPartition(e) /\ PartitionOf(e) = d
                            THEN [filled |-> 0, injected |-> 0] ELSE rows[e]]

-----------------------------------------------------------------------------
\* The table queue: processTable, over and over while the session lasts. In each
\* round the lease is looked at again between its steps.

QueueEnds(w) ==
  /\ queue[w].pc \in {"rest", "filling"} /\ ~ CanProcess(w)
  /\ queue' = [queue EXCEPT ![w] = Idle]
  /\ UNCHANGED <<today, leaseVars, rowLock, service, manual, jobVars, tableVars, faults>>

NextDay(w) == Min(queue[w].todo)

\* Any statement may fail, and the mark may be gone: the rejection ends the session.
QueueFails(w) ==
  /\ queue[w].pc \notin {"ended", "failed"}
  /\ \/ queue[w].pc \in {"rest", "filling"} /\ CanProcess(w) /\ LostMark(w) /\ NoFault
     \/ QueueAt(w, "renewing") /\ lease # w /\ NoFault
     \/ QueueAt(w, "counted") /\ ~ HasPartition(NextDay(w)) /\ NoFault
     \/ Fault
  /\ queue' = [queue EXCEPT ![w] = [Idle EXCEPT !.pc = "failed"]]
  /\ rowLock' = (IF rowLock = <<"queue", w>> THEN None ELSE rowLock)
  /\ UNCHANGED <<today, leaseVars, service, manual, job, stale, inserted, tableVars>>

\* findMissingDays: rows of excluded days are not counted, so that those are tried too.
Missing == {d \in Day : d \in today - WindowDays + 1..today /\ (d \in excluded \/ Rows(d) < DayRows)}
Expired == partitions \cap {today - WindowDays}
Fills(w) == queue' = [queue EXCEPT ![w].pc = "filling", ![w].todo = Missing]

\* ensureCurrentPartition and dropExpiredPartition look at the mark in a statement of
\* its own, and change the table in a later one.
QueueChecks(w) ==
  /\ CanProcess(w) /\ MayWrite(w) /\ ~ ManualMutates(w)
  /\ \/ QueueAt(w, "rest") /\ IF Extends(today) THEN QueueGoes(w, "partition") ELSE Fills(w)
     \/ /\ QueueAt(w, "filling") /\ queue[w].todo = {}
        /\ QueueGoes(w, IF Expired = {} THEN "rest" ELSE "dropping")
  /\ UNCHANGED <<today, leaseVars, rowLock, service, manual, jobVars, tableVars, faults>>

QueueAddsPartition(w) ==
  /\ QueueAt(w, "partition")
  /\ Fills(w)
  /\ IF Extends(today) THEN AddPartition(today) ELSE UNCHANGED partitions
  /\ UNCHANGED <<today, leaseVars, rowLock, service, manual, jobVars, rows, excluded, faults>>

\* insertDailyWarmupRows: looks at mark, exclusion and count under the lock of the
\* progress row; a day that is excluded or full is left.
QueueCounts(w) ==
  /\ QueueAt(w, "filling") /\ CanProcess(w) /\ queue[w].todo # {}
  /\ MayWrite(w) /\ ~ ManualMutates(w)
  /\ IF NextDay(w) \in excluded \/ Rows(NextDay(w)) >= DayRows
     THEN queue' = [queue EXCEPT ![w].todo = @ \ {NextDay(w)}] /\ UNCHANGED rowLock
     ELSE QueueGoes(w, "counted") /\ rowLock' = <<"queue", w>>
  /\ UNCHANGED <<today, leaseVars, service, manual, jobVars, tableVars, faults>>

QueueInserts(w) ==
  /\ QueueAt(w, "counted") /\ HasPartition(NextDay(w))
  /\ rows' = [rows EXCEPT ![NextDay(w)].filled = @ + 1]
  /\ rowLock' = (IF rowLock = <<"queue", w>> THEN None ELSE rowLock)
  /\ queue' = [queue EXCEPT ![w].pc = "renewing"]
  /\ UNCHANGED <<today, leaseVars, service, manual, jobVars, partitions, excluded, faults>>

QueueRenews(w) ==
  /\ QueueAt(w, "renewing") /\ lease = w
  /\ QueueGoes(w, "filling")
  /\ UNCHANGED <<today, leaseVars, rowLock, service, manual, jobVars, tableVars, faults>>

QueueDropsExpired(w) ==
  /\ QueueAt(w, "dropping")
  /\ queue' = [queue EXCEPT ![w] = [Idle EXCEPT !.pc = "rest"]]
  /\ DropPartition(today - WindowDays)
  /\ UNCHANGED <<today, leaseVars, rowLock, service, manual, jobVars, excluded, faults>>

-----------------------------------------------------------------------------
\* Jobs: the manual loop and processManualWarmupJobs. Every statement about a job
\* asks for it to be running for this owner.

\* validateManualWarmupRequest: the days are in the window when the job is queued.
Valid(j) == \A i \in DOMAIN JobDays[j] : JobDays[j][i] \in today - WindowDays + 1..today

Enqueues(j) ==
  /\ job[j].status = "NONE" /\ Valid(j)
  /\ job' = [job EXCEPT ![j].status = "QUEUED"]
  /\ UNCHANGED <<today, leaseVars, rowLock, service, queue, manual, stale, inserted, left, tableVars, faults>>

Queued == {j \in Job : job[j].status = "QUEUED"}
Own(w) == job[manual[w].job].owner = w

ManualEnds(w) ==
  /\ ManualAt(w, "rest") /\ ~ CanProcess(w)
  /\ ManualGoes(w, "ended")
  /\ UNCHANGED <<today, leaseVars, rowLock, service, queue, jobVars, tableVars, faults>>

\* claimManualWarmupJob reads the oldest queued job,
Selects(w) ==
  /\ ManualAt(w, "rest") /\ CanProcess(w)
  /\ \E j \in Queued :
       /\ \A i \in Queued : j <= i
       /\ manual' = [manual EXCEPT ![w] = [pc |-> "selected", job |-> j, days |-> job[j].days, rows |-> job[j].rows]]
  /\ UNCHANGED <<today, leaseVars, rowLock, service, queue, jobVars, tableVars, faults>>

Rest(w) == manual' = [manual EXCEPT ![w] = [NoJob EXCEPT !.pc = "rest"]]

\* and takes it if it is still queued, to go on from the progress that was read.
Claims(w) ==
  /\ ManualAt(w, "selected")
  /\ IF manual[w].job \in Queued
     THEN /\ job' = [job EXCEPT ![manual[w].job].status = "RUNNING", ![manual[w].job].owner = w]
          /\ ManualGoes(w, "working")
     ELSE Rest(w) /\ UNCHANGED job
  /\ UNCHANGED <<today, leaseVars, rowLock, service, queue, stale, inserted, left, tableVars, faults>>

Finished(w) == manual[w].days = Len(JobDays[manual[w].job])
ThisDay(w) == JobDays[manual[w].job][manual[w].days + 1]

\* A statement of the job fails, be it the one that queues it again, or finds the mark gone.
Disturbed(w, pcs) ==
  /\ \/ manual[w].pc \in pcs /\ LostMark(w) /\ ManualGoes(w, "losing") /\ NoFault
     \/ manual[w].pc \in pcs \cup {"requeuing"} /\ ManualGoes(w, "failing") /\ Fault
  /\ UNCHANGED <<today, leaseVars, rowLock, service, queue, job, stale, inserted, tableVars>>

\* The next day, its first statement: the mark is looked at, and the exclusion is
\* changed in a later statement.
StartsDay(w) ==
  /\ ManualAt(w, "working") /\ ~ Finished(w)
  /\ IF ~ CanProcess(w) THEN ManualGoes(w, "requeuing")
     ELSE /\ MayWrite(w) /\ ~ QueueMutates(w)
          /\ ManualGoes(w, IF manual[w].job \in Injects THEN "unexcluding" ELSE "excluding")
  /\ UNCHANGED <<today, leaseVars, rowLock, service, queue, jobVars, tableVars, faults>>

Excludes(w) ==
  /\ \/ ManualAt(w, "unexcluding") /\ excluded' = excluded \ {ThisDay(w)} /\ ManualGoes(w, "prepared")
     \/ ManualAt(w, "excluding") /\ excluded' = excluded \cup {ThisDay(w)} /\ ManualGoes(w, "excluded")
  /\ UNCHANGED <<today, leaseVars, rowLock, service, queue, jobVars, rows, partitions, faults>>

\* The same for the partition, which is added or dropped.
ManualChecks(w) ==
  /\ MayWrite(w) /\ ~ QueueMutates(w)
  /\ \/ ManualAt(w, "prepared") /\ ManualGoes(w, "partition")
     \/ ManualAt(w, "excluded") /\ ManualGoes(w, "dropping")
  /\ UNCHANGED <<today, leaseVars, rowLock, service, queue, jobVars, tableVars, faults>>

\* A partition can be added after all others only: for a day whose partition was
\* dropped earlier the job fails.
ManualAddsPartition(w) ==
  /\ ManualAt(w, "partition")
  /\ IF ThisDay(w) \in partitions \/ Extends(ThisDay(w))
     THEN AddPartition(ThisDay(w)) /\ ManualGoes(w, "filling")
     ELSE UNCHANGED partitions /\ ManualGoes(w, "failing")
  /\ UNCHANGED <<today, leaseVars, rowLock, service, queue, jobVars, rows, excluded, faults>>

ManualDrops(w) ==
  /\ ManualAt(w, "dropping")
  /\ DropPartition(ThisDay(w)) /\ ManualGoes(w, "progress")
  /\ UNCHANGED <<today, leaseVars, rowLock, service, queue, jobVars, excluded, faults>>

\* What the job has already added of this day, by the progress it was claimed with.
Added(w) ==
  IF manual[w].rows > manual[w].days * JobRows THEN manual[w].rows - manual[w].days * JobRows ELSE 0

\* insertManualWarmupBatch: rows and progress in one transaction, under the lock.
ManualBegins(w) ==
  /\ ManualAt(w, "filling")
  /\ CASE Added(w) >= JobRows -> ManualGoes(w, "progress") /\ UNCHANGED rowLock
       [] Added(w) < JobRows /\ ~ CanProcess(w) -> ManualGoes(w, "requeuing") /\ UNCHANGED rowLock
       [] OTHER -> /\ MayWrite(w) /\ ~ QueueMutates(w)
                   /\ rowLock' = <<"manual", w>> /\ ManualGoes(w, "inserting")
  /\ UNCHANGED <<today, leaseVars, service, queue, jobVars, tableVars, faults>>

Progressed(w, days, done) ==
  /\ job' = [job EXCEPT ![manual[w].job].days = days, ![manual[w].job].rows = done]
  /\ stale' = stale \ {manual[w].job}

\* Defect: the rows are committed before the progress of their job.
ManualInsertsFirst(w) ==
  /\ ManualAt(w, "inserting") /\ Own(w) /\ HasPartition(ThisDay(w))
  /\ rows' = [rows EXCEPT ![ThisDay(w)].injected = @ + 1]
  /\ inserted' = [inserted EXCEPT ![manual[w].job] = @ + 1]
  /\ manual' = [manual EXCEPT ![w].pc = "renewing", ![w].rows = manual[w].days * JobRows + Added(w) + 1]
  /\ rowLock' = None
  /\ UNCHANGED <<today, leaseVars, service, queue, partitions, excluded, job, stale, left, faults>>

ManualInserts(w) ==
  /\ ManualAt(w, "inserting")
  /\ IF Own(w) /\ HasPartition(ThisDay(w))
     THEN LET done == manual[w].days * JobRows + Added(w) + 1 IN
          /\ rows' = [rows EXCEPT ![ThisDay(w)].injected = @ + 1]
          /\ Progressed(w, manual[w].days, done)
          /\ inserted' = [inserted EXCEPT ![manual[w].job] = @ + 1]
          /\ manual' = [manual EXCEPT ![w].pc = "renewing", ![w].rows = done]
     ELSE /\ ManualGoes(w, IF Own(w) THEN "failing" ELSE "losing")
          /\ UNCHANGED <<rows, job, stale, inserted>>
  /\ rowLock' = None
  /\ UNCHANGED <<today, leaseVars, service, queue, partitions, excluded, left, faults>>

ManualRenews(w) ==
  /\ ManualAt(w, "renewing")
  /\ ManualGoes(w, IF lease # w THEN "losing" ELSE IF CanProcess(w) THEN "filling" ELSE "requeuing")
  /\ UNCHANGED <<today, leaseVars, rowLock, service, queue, jobVars, tableVars, faults>>

\* updateManualWarmupJobProgress after each day
ManualDayDone(w) ==
  /\ ManualAt(w, "progress")
  /\ LET days == manual[w].days + 1
         done == IF manual[w].job \in Injects THEN days * JobRows ELSE 0 IN
     IF Own(w)
     THEN /\ Progressed(w, days, done)
          /\ manual' = [manual EXCEPT ![w].pc = "working", ![w].days = days, ![w].rows = done]
     ELSE ManualGoes(w, "losing") /\ UNCHANGED <<job, stale>>
  /\ UNCHANGED <<today, leaseVars, rowLock, service, queue, inserted, left, tableVars, faults>>

\* The status a job is left with, if it is still one's own.
Leaves(w, status) ==
  /\ job' = (IF Own(w) THEN [job EXCEPT ![manual[w].job].status = status, ![manual[w].job].owner = None] ELSE job)
  /\ stale' = (IF Own(w) THEN stale \ {manual[w].job} ELSE stale)
  /\ Rest(w) /\ NoFault
  /\ UNCHANGED <<today, leaseVars, rowLock, queue, inserted, tableVars>>

\* The statement of the catch block fails: the job stays as it is, with nobody to go on.
Strands(w) ==
  /\ faults < MaxFaults /\ faults' = faults + 1
  /\ left' = (IF Own(w) THEN left \cup {manual[w].job} ELSE left)
  /\ Rest(w)
  /\ UNCHANGED <<today, leaseVars, rowLock, service, queue, job, stale, inserted, tableVars>>

Completes(w) == ManualAt(w, "working") /\ Finished(w) /\ Leaves(w, "COMPLETED") /\ UNCHANGED service

\* requeueManualWarmupJob; who has lost the lease tells the session so, once the job is
\* queued again.
Requeues(w) ==
  \/ ManualAt(w, "requeuing") /\ Leaves(w, "QUEUED") /\ UNCHANGED service
  \/ ManualAt(w, "losing") /\ Leaves(w, "QUEUED") /\ service' = [service EXCEPT ![w].held = FALSE]
  \/ ManualAt(w, "losing") /\ Strands(w)

FailsJob(w) ==
  /\ ManualAt(w, "failing")
  /\ \/ Leaves(w, IF CanProcess(w) THEN "FAILED" ELSE "QUEUED") /\ UNCHANGED service
     \/ Strands(w)

\* Two minutes have passed since the last progress of a running job.
GrowsStale(j) ==
  /\ job[j].status = "RUNNING" /\ j \notin stale
  /\ stale' = stale \cup {j}
  /\ UNCHANGED <<today, leaseVars, rowLock, service, queue, manual, job, inserted, left, tableVars, faults>>

DayPasses ==
  /\ today < LastDay
  /\ today' = today + 1
  /\ UNCHANGED <<leaseVars, rowLock, service, queue, manual, jobVars, tableVars, faults>>

-----------------------------------------------------------------------------
ServiceStep(w) ==
  \/ Acquires(w) \/ RenewsFirst(w) \/ Marks(w) \/ Reclaims(w) \/ SessionEnds(w)
  \/ ReportsError(w) \/ Releases(w)

QueueStep(w) ==
  \/ QueueEnds(w) \/ QueueFails(w) \/ QueueChecks(w) \/ QueueAddsPartition(w)
  \/ QueueCounts(w) \/ QueueInserts(w) \/ QueueRenews(w) \/ QueueDropsExpired(w)

Statements == {"working", "prepared", "excluded", "filling"}
ManualStep(w) ==
  \/ ManualEnds(w) \/ Selects(w) \/ Claims(w) \/ Disturbed(w, Statements) \/ StartsDay(w)
  \/ Excludes(w) \/ ManualChecks(w) \/ ManualAddsPartition(w) \/ ManualDrops(w)
  \/ ManualBegins(w) \/ ManualInserts(w) \/ ManualRenews(w) \/ ManualDayDone(w)
  \/ Completes(w) \/ Requeues(w) \/ FailsJob(w)

Next ==
  \/ \E w \in Owner : ServiceStep(w) \/ QueueStep(w) \/ ManualStep(w)
       \/ Heartbeat(w) \/ Stops(w) \/ Crashes(w)
  \/ \E j \in Job : Enqueues(j) \/ GrowsStale(j)
  \/ LeaseLapses \/ DayPasses

Spec == Init /\ [][Next]_warmupVars

\* A job has added exactly the rows that its progress says, however often it was
\* interrupted, reclaimed and taken up by another service (insertManualWarmupBatch);
\* and two services that both believe to hold the lease do not fill a day twice:
\* filling adds no more than what the day lacks (insertDailyWarmupRows).
RowsExact ==
  /\ \A j \in Job : /\ job[j].rows = inserted[j]
                    /\ job[j].status = "COMPLETED" /\ j \in Injects =>
                         inserted[j] = Len(JobDays[j]) * JobRows
  /\ \A d \in Day : rows[d].filled <= DayRows

\* A job that is running is worked on by the thread of its owner, unless a crash or a
\* failing statement has left it running: an interrupted job is queued again before
\* the session ends, and reclaiming takes no job twice (processManualWarmupJobs).
NoJobStranded ==
  \A j \in Job : job[j].status = "RUNNING" /\ j \notin left =>
    manual[job[j].owner].job = j /\ manual[job[j].owner].pc # "selected"
=============================================================================
