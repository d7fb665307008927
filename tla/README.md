# GreenShift: models, model checking and proofs

GreenShift schedules batch workloads into hours of low carbon intensity. A
workload is registered, a scheduler proposes an execution window, a human
approves it, replicated dispatcher workers hand it to Kubernetes when the
window begins, and every step is written to a hash-chained audit ledger.

This directory holds TLA+ models of the parts of the backend that keep state or
decide, the TLC configurations that check them on small instances, and TLAPS
proofs of the main invariants for instances of any size. All definitions are
translated from `app/` and `alembic/`; `PROJECT.json` maps each to the lines it
stands for, and lists the hazards that the properties are about.

## 1. The system

| Component (`app/`) | State it keeps | Operations |
|---|---|---|
| Job registry, cancellation (`ingest/jobs.py`, `ingest/service.py`, `api/routers/ingest.py`) | rows of `jobs` | register (or merge into an existing id), load a file, cancel, list |
| Decide loop and schedule storage (`decide/service.py`, `api/routers/schedule.py`, `scheduler.py`) | `schedule_decisions`, `jobs.status` | background pass over SUBMITTED jobs, `POST /schedule/{id}`, `POST /schedule/batch` |
| Candidate scheduler, batch scheduler, slot capacity, policies (`decide/`, `settings/`) | the hourly slots of one batch, `optimization_policies` | generate, evaluate, rank, allocate; change a policy |
| Approval gate (`approval/service.py`) | `approvals`, `jobs.status`, deletes decisions | approve, decline, resubmit |
| Dispatcher workers (`dispatch/`) | claims and leases in `jobs`, `kubernetes_executions` | a tick: recover, promote, claim, dispatch, poll; by hand: dispatch, refresh |
| Kubernetes (external) | batch/v1 Jobs, nodes, pods | read, create, run, remove after TTL; snapshot of free resources |
| Trust ledger (`trust/`) | `audit_events`, `audit_anchors`, anchor file | append, verify, anchor |
| Company registration (`companies/service.py`) | tenants, teams, users | register, own users and teams |
| Notifications, mail worker (`notify/`) | `notifications`, preferences, streams | announce once per key, push, read; mail with retries |
| Carbon cache and API (`shared/carbon_cache.py`, `ingest/carbon_api.py`) | Redis keys, a refresh lock, `carbon_data` | get in tiers, store, lock, fall back |
| Tariffs, regions, time zones (`shared/tariff_service.py`, `ingest/*tariff*`) | memo of the master file, `regional_tariffs` | price an hour, a curve, a table |
| Arrival (`arrival/`, `ingest/job_csv_loader.py`) | simulated clock, states of arrivals | load the data set, step the clock, submit |
| Accounts and access (`shared/auth.py`, `api/routers/auth.py`, `admin_router.py`, `api/tenant_scope.py`) | users, companies, keys | register, log in, admit a request, administer, filter |
| Startup (`shared/database.py`, `alembic/`) | schema, `alembic_version`, roles | create, upgrade, fall back, downgrade |
| Forecaster, impact, reports, dashboards, health, metrics | none, or counters | read-only views, a regression model |

**How they interact.** The services are separate processes and share database
rows; there are no messages between them. A service loads rows in an ORM
session, computes, and commits; the session factory sets `autoflush=False` and
`expire_on_commit=False` (`shared/database.py:73-78`), so rows once loaded are
not read again, and a flush writes only the columns the session has changed.
Nearly every operation ends in `append_event`, which *commits or rolls back the
session it is given*. Kubernetes, the carbon provider and the mail server are
called synchronously between two commits. Scheduling reads curves, the policy
of the company and a snapshot of the cluster; a proposal is announced to those
who may decide on it, and the mail worker finds the announcements in the table.

**What is hard.** Everything read before a commit may be stale at the commit:
two replicas of the dispatcher, two deciders, two API processes (each with a
mail worker, `k8s/deployments.yaml:12`), two administrators, a human and a loop.
A worker may die between any two steps. Kubernetes calls may fail with or
without effect, and finished Jobs disappear. Audit appends of concurrent
sessions collide, and take the changes of their callers with them. What an
outage made up is stored beside what was measured. Slots, windows and tariffs
meet at full hours in zones that are off by half of one.

**What correctness means**, per component:

- *Dispatcher*: a job starts only in its window and under an approval, at most
  once; a job that counts as queued has its execution row; a claim can be
  recovered; nothing is stuck; a reported completion is true.
- *Approval gate*: one verdict per schedule; approval and schedule go together.
- *Decide loop*: a job waiting for approval has a schedule to approve; a new
  schedule never inherits the execution of an old approval.
- *Schedulers*: a deadline is missed only when it cannot be met; slots are not
  overbooked and a less urgent job displaces nobody; the company's policy is
  what its jobs are ranked by; both schedulers agree.
- *Ledger*: an append-only chain that always verifies, whose appends end, and in
  which no event is repeated without cause.
- *Registration*: all or nothing, one company per name, with its audit events.
- *Notifications*: an event is pushed once; who is asked to approve may; a mail
  is sent or given up, and the row says which.
- *Carbon, tariffs*: what is served as measured is; an outage leaves nothing
  behind; a price is that of the file, the local hour and the season in force.
- *Accounts*: rights do not leave the company; a lost access is noticed by the
  request that takes it; all checks agree.
- *Arrival*: every row of the file that can be read and run becomes a job.
- *Startup*: whoever serves finds the tables its models declare.

## 2. Modules

| Module | Models | Extends |
|---|---|---|
| `JobTable` | the shared rows, `Flush` (what an ORM session writes), leases, time | |
| `Dispatcher` | `dispatch/`, the dispatch endpoints, the cluster, crashes | `JobTable` |
| `DecideLoop` | the three kinds of scheduling pass | `JobTable` |
| `ApprovalGate` | approve, decline, resubmit, cancel, register | `JobTable` |
| `Lifecycle` | composition of the three above | all three |
| `GatedExecution` | abstract: authorised before started, started once | refined by `Lifecycle` |
| `AuditLedger` | `append_event`, `verify_chain`, anchors, the trust loop | |
| `AppendOnlyLog` | abstract: a log that only grows, an event repeated only while its caller has no answer | refined by `AuditLedger` |
| `Registration` | `register_company`, same sessions and commits | `AuditLedger` |
| `SlotCapacity` | the registry of hourly slots | |
| `ClusterState` | the snapshot of nodes and pods | `SlotCapacity` |
| `OptimizationPolicy` | the three rankings | |
| `PolicySettings` | the policy rows and their concurrent updates | `OptimizationPolicy` |
| `CandidateScheduler` | `schedule_job` | both of the above lines |
| `BatchScheduler` | `schedule_batch` while policies change | `CandidateScheduler`, `PolicySettings` |
| `Tariffs` | the master file and its memo, curves, `regional_tariffs` | `CandidateScheduler` |
| `Notifications` | announcing, pushing, reading, preferences, `MayDecide` | |
| `EmailDelivery` | the mail workers | `Notifications` |
| `CarbonCache` | `get_resilient_carbon_curve`, `fetch_and_store_carbon` | |
| `WorkloadArrival` | the data set, the bulk loader, the simulator | |
| `Membership` | accounts, companies, keys, gates, tenant scope | |
| `Startup` | `init_db`, migrations, the operator | |
| `MCDispatcher`, `MCLifecycle`, `MCAuditLedger`, `MCRegistration`, `MCPlanning` | instances for TLC | |
| `MCRequests`, `MCBackground` | instances of several components, a scene each | |
| `Dispatcher_proofs`, `Lifecycle_proofs`, `AuditLedger_proofs`, `EmailDelivery_proofs`, `CarbonCache_proofs` | theorems about the module of that name | |
| `Planning_proofs` | theorems about batches and prices | `BatchScheduler`, `Tariffs` |
| `Accounts_proofs` | theorems about registration and accounts | `Registration`, `Membership`, `AuditLedger_proofs` |
| `Provisioning_proofs` | theorems about the arrival of the data set and startup | `WorkloadArrival`, `Startup` |

### The job tables

`job[j]` is the status and the claim of a row of `jobs`; `decision[j]` the row
of `schedule_decisions` (its primary key, and how many ticks are left until
`selected_start`); `approvals[j]` the verdicts recorded for that decision;
`execution[j]` the row of `kubernetes_executions`. `Flush(row, loaded, new)`
writes the status only if it differs from the loaded one: that is how SQLAlchemy
decides whether a column is dirty, and it is what makes some stale writes
harmless and others not. Time is a countdown: `Elapse` lets one tick pass for
all windows and leases. SCHEDULED, VALIDATED and REJECTED are never assigned by
the code and do not occur.

### The dispatcher

`session[s]` is what a worker or an API request is doing: its step, the jobs
still to do, the copy of the row it has loaded. The steps of a tick are those
of `dispatch_loop_tick`: `RecoverRead`/`RecoverWrite`, `PromoteRead`/
`PromoteWrite`, `ClaimReady` (one transaction, `FOR UPDATE SKIP LOCKED`), then
for each job `Validate`, `MarkDispatching`, `ReadCluster`, `CreateInCluster`,
and `RecordExecution` or `MarkJobFailed`, then `PollRead`, and for each active
execution `Observe` and `SyncStatus`. The manual endpoints enter at `Validate`
and at `Observe`. `Faults` switches on failing calls, an unreachable cluster
(which `dispatch_job` answers with a simulated dispatch) and removal after TTL.

A tick normally validates the in-memory copy it has just claimed; when an audit
append collided, the rollback expires it and the row is read anew. `Validate`
allows both.

### Approval, cancellation, registration of jobs, and decide passes

A request or pass keeps what it loaded. Approve and decline are conditional
updates in SQL; resubmit, cancel and register are flushes of a loaded row.
Deleting a decision that is already gone deletes nothing; inserting a second
one, or updating a deleted one, fails the flush and with it the whole pass.
The result of scheduling (no feasible window, or some start) is chosen freely,
so what is shown holds for any scheduler.

### The ledger and registration

SHA-256 is modelled as injective: `CurrentHash(payload, previous)` is the
sequence of all payloads. `call[s]` is where a session is in `append_event`:
read the tip, insert (refused by the unique constraint if the number is taken),
refresh. A collision or a database error rolls back, which discards what the
caller has flushed (`unsaved`), and retries; the commit of the event makes the
caller's rows permanent (`saved`). An error after the commit (its answer is
lost, or the refresh fails) is retried as well: `outcome` is then "lost" until
the call ends. `since` and `failed` are kept for `CollisionsMeanProgress` only:
the tip when the call began, and its attempts that ended in an error.
`create_anchor` reads the tip for the row, and again for the line of the file,
and records an event of its own; the trust loop writes lines by itself.

### Planning

Time is in ticks, `PerHour` to the hour, so that starts, windows and curves do
not all fall on full hours. `ScheduleJob` and the batch's `Place...` operators
are two translations, of `decide/scheduler.py` and `decide/batch_scheduler.py`;
they share only what the code shares. A candidate is a record of start, end,
carbon and cost, and `Unset` stands for missing data. A registry is a function
on the slots created so far. The batch is a process: it takes its snapshot,
places one job per step, reads the policy of a company at its first job, and
administrators commit policies in between. What the forecaster predicts is the
constant `Pressure`, and whether its model was loaded is free.

### Tariffs

A process has a memo of the file (modification time and content); the time is
read before the content, and the operator may replace the file in between, or
between two hours of a curve, each of which is looked up on its own. `Offset`
gives the local time of a tick, so that zones off by half an hour, a change of
clock and a change of season inside one window are ordinary cases. Rows of
`regional_tariffs` are checked in one step and stored in the next.

### Notifications and mail

A row is identified by recipient and de-duplication key. An announcement walks
through its audience: read the preferences, look for the key, insert (the
unique constraint may refuse), push to open streams. A mail worker selects due
rows and keeps *copies* of them: what it writes is computed from the copy. A
rollback in `append_event` expires the copies, and takes the count of the
attempt with it. `accepted` counts what the mail server took, `failures` is the
set of EMAIL_DELIVERY_FAILED events.

### Carbon

One hour of one region is followed. A curve is marked by what the code cannot
see: whether the provider supplied it (`live`), and its true age; and by what
the code does see, the age it states. A request is a process that goes through
the tiers; every call to Redis may fail on its own.

### Arrival, startup, accounts

`WorkloadArrival` keeps the rows as values (submit, earliest, deadline, runtime,
slack, soundness), since whether a moved window still holds its job is the
point. The loader and the simulator keep one session each, and neither rolls it
back: after a collision it is unusable, and the remaining rows fail. Both may
collide at the insert of a job (`CommitRow`), the simulator also at the decision
that it stores right after (`ScheduleRow`, `DecideRow`: `auto_schedule` is on by
default, `arrival/simulator.py:93`), with a decider or somebody who resubmits.
`broken` says which it was, and each row of `decision` has its own number.

`Startup` describes the schema as a set of `<<table, part>>` and each of the
fifteen migrations by the tables and parts it adds, unconditionally or only when
missing, and what it drops; `strict` parts are made by statements that fail when
the part is there (004, and 009 on folded roles). A process inspects, creates,
upgrades in one transaction, and falls back if that fails; others do the same at
the same time, may stop at any step, and an operator upgrades and downgrades in
between.

`Membership` has a handler per request: admitted under the rights its caller has
at that moment, it loads, checks, saves and reports in separate steps. A report
may fail, or its process die after the commit: the event is then in `missed` and
not in `told`. Only accepted requests are steps. `LoginGate`, `IdentityGate`,
`UserGate` and `Listed`/`Opened` are separate translations of checks that stand
in the code more than once.

## 3. Runs

Every cfg fixes a small instance.

| Run | Instance | Checks |
|---|---|---|
| `dispatch_workers` | 1 job, 2 workers, 1 manual dispatch, one crash at any step, API errors, TTL; at most two sessions busy | `QueuedHasExecution`, `ExecutionBacked`, `ClaimsResolve`, `NotBeforeWindow` |
| `dispatch_progress` | 2 jobs, batch of 1, 1 worker, 1 status caller, 1 crash before DISPATCHING | `CompletedIsTruthful`, `ApprovedJobsResolve`, `PolledRunsSettle` |
| `life` | 1 job, 2 users with every operation, both scheduling endpoints, worker, manual dispatch; at most two sessions busy | `ApprovedIsBacked`, `PendingHasDecision`, `OneVerdictWins` |
| `life_gated` | 2 jobs, user, decide loop, worker, a crash before DISPATCHING | `ImplementsGate`, `OnlyDueStarts` |
| `ledger` | 2 writers, trust loop, 2 events, 2 attempts, all faults | `VerifyAnchors`, `CollisionsMeanProgress`, `ImplementsLog`, `AppendsEnd` |
| `requests` | five scenes, below | 15 properties |
| `background` | four scenes, below | 9 properties |

The components in `requests` share no table that is modelled, nor do those in
`background`, except that the mail worker finds the notifications. Each run
starts in one of its *scenes* and stays there; the other components keep their
initial state. What a property says of a component holds in every scene, and is
tested in its own.

| Scene of `requests` | Instance | Checks |
|---|---|---|
| planning | a batch of 3 jobs of five shapes (two companies; urgent, late, over budget, too large), four states of the cluster, one policy update by an admin | `SlotsAreAccounted`, `OnlyTheUrgentDisplace`, `PolicyIsKept`, `AgreesWithSingle`, `DeadlineIsKept` |
| tariffs | one pricing process, a file that is replaced, two regions (half-hour zone; change of clock and season), two windows | `PricesAreCurrent`, `PricesFollowTheClock` |
| announcements | 2 sessions, the submitter's and the approvers' event, a viewer | `PushedOnce` |
| accounts | 2 handlers, 3 requests of 16 kinds, 5 people of 3 companies, 1 key; any report may fail | `DeactivationIsNoticed`, `ChecksAgree`, `ChangesStayHome` |
| registration | 2 requests, 2 names, database errors, 2 attempts of an append | `VerifyChain`, `RegisteredIsSaved`, `OneCompanyPerName`, `SavedIsAudited` |

| Scene of `background` | Instance | Checks |
|---|---|---|
| startup | 2 processes, 3 starts, databases that are empty or were left by release 8 or 12, stamped or not, downgrades, one revision at a time, down to 7 | `StartedHasModels`, `VersionIsTruthful`, `AdminsKeepTheirReach` |
| arrival | a loader (twice), a simulator, 6 rows, one of them without slack, one too tight, one past, one unreadable, one unsound; one row without a feasible window, one decision withdrawn | `EveryRowIsStored` |
| mail | one announcement of either kind, 2 workers, 2 attempts, 1 crash or lost record | `OutcomeIsTruthful`, `OnlyApproversAreAsked`, `MailsSettle` |
| carbon | a reader and an ingester, a provider that fails and recovers at any time, lifetimes 1 and 2 | `AnswersAreFresh`, `HealsAfterOutage` |

Deadlock is checked, except in `ledger`, `requests`, `background` and the
findings about registration and carbon, where the system stops when the bounded
number of events, requests or starts has been handled.

The inductive invariants (`DispatcherInv`, `LifecycleInv`, `OneHandInv`,
`LedgerInv`, `LogInv`, `RegistrationInv`, `MembersInv`, `PlanInv`, `TariffInv`,
`HoursInv`, `DeliveryInv`, `CarbonInv`, `ArrivalInv`, `StartupInv`), which
contain the type invariants, are proved for all constants (section 4); no run
repeats them.

**Bounds.** Jobs interact only through the batch of a tick and the batch of a
pass, so that one job suffices for everything about a job's own rows, and two
for batches. Every race in the code is between two sessions, one that is stale
and one that has moved on; `AtMostTwoBusy` says so in `life` and
`dispatch_workers`. `LeaseTicks` = 1
lets a lease run out while its owner works; `MaxDelay` = 1 distinguishes a
window that has come from one that has not; `MaxDecisions` = 2 lets a schedule
be withdrawn and replaced once. `MaxCrashes` = 1: a second crash meets the same
states. `MaxRetries` of `append_event` is 15 in the code and 2 in the runs; that
the safety properties do not depend on it is proved. `ANCHOR_INTERVAL_EVENTS` is
100 in the code and 1 in the run. `runs` of a cluster Job saturates at 2.

In planning, three jobs are one that fills a slot, one that must yield and one
that has a choice; jobs are given in one order of their priorities, since an id
only breaks ties. `MaxUpdates` = 1 puts one policy change between any two jobs
of a batch. Curves have four hours, with equal, better and worse ones. Two
`Files` and two `Windows` are one replacement, and windows that contain the
change of clock and of season. `MaxOccasions` is 2 where two sessions meet and 1
where two workers do; `MaxAttempts` is 5 in the code and 2 in the run.
`MaxOrders` = 3: one request that is stale, one that overtakes it and one that
finds what is left. `MaxFaults` = 1 crash or lost record. `MaxAge` = 2
lifetimes: older is not told apart by any tier. `MaxLoads`, `MaxUnscheduled` and
`MaxWithdrawn` = 1: one job that is not scheduled, and one decision that is gone
when the simulator commits its update. `FewEvents` stops a registration scene
after four audit events, repetitions included. `MaxStarts` = 3 is two processes
at once, and one after an operator was there.

**What the configurations leave out.** `life_gated` excludes cancellation, an
unreachable cluster, a second worker, decider and human, and a lease that ends
while its owner works, because with them the gate does not hold (section 4).
`dispatch_progress` excludes a second status request, TTL removal and a crash
while a job is DISPATCHING, for the same reason. `dispatch_workers` excludes an
unreachable cluster: the code then records a simulated execution with nothing
behind it, and `ExecutionBacked` is not meant for that mode. `MailsSettle` has
no announcements after the first. Three properties name the exception that the
code makes, which the findings below describe: `StartedHasModels` the databases
that no upgrade gets through (`Stranded`; a start still does not fail on them),
`EveryRowIsStored` the simulator whose session was lost to a collision of
decisions, and `DeactivationIsNoticed` the event whose append failed.

**Fairness** (`dispatch_workers`, `dispatch_progress`, `ledger`, `background`
and the liveness finding). Workers and requests are weakly fair: the loops run
for ever, and a request that was begun is carried on. Time passes and a pod that
was started ends. Crashes, new requests and TTL removal are not fair.
`append_event` is carried on by its session; because attempts are bounded, no
stronger assumption is needed. The mail worker is called every five seconds, and
backoff elapses. In `CarbonCache` nobody has to ask; a request under way goes
on, and the clock advances for ever unless nothing is left whose age a tick
would change (a strong enough form of "time is not Zeno": requests that take
less than a tick each do not keep it from moving). `MCBackground` states one
weak fairness condition for a mail worker and a carbon request together, since
they never play in one scene.

### Findings

Each is a run in which TLC finds the stated promise violated.

| Run | What happens |
|---|---|
| `finding_untracked` | a new execution has a NULL `k8s_status` and is never polled |
| `finding_unapproved` | promotion reads APPROVED; the job is cancelled, resubmitted and scheduled anew; the promotion writes READY: the job runs although its schedule awaits approval |
| `finding_registration` | a collision in the first audit append discards the company; its COMPANY_CREATED event is recorded |
| `finding_spill` | a job is reported as spilled because its window "reached capacity" although the window has room: what is left is ranked by itself, and the tolerance of the policy is measured from another best window |
| `finding_carbon` | in an outage the configured fallback is stored with a fresh `fetched_at`; the next reader is served it as measured data, and it is copied to Redis |

The same models, and the reading they are made from, show other behaviours that
a reader may not expect. They are described here, and no run is kept for them.

*Dispatcher and lifecycle*

- A worker that dies between DISPATCHING and the execution row leaves the job
  DISPATCHING for ever: only CLAIMING is recovered, while `docs/DECISIONS.md:254`
  says that crashed workers don't block jobs.
- Two replicas promote one job, and both claim it in turn: the second promotion
  writes READY over CLAIMING.
- A manual dispatch of a DISPATCHING job creates the Job again once the
  finished one was removed after its TTL.
- The window is checked on a schedule that may be replaced by a later one
  before the Job is created.
- Two status requests that land out of order may leave an execution that the
  loop does not poll again.
- `POST /schedule/batch` with explicit ids puts jobs that were dispatched back
  to PENDING_APPROVAL.
- `README.md:19` and `:282` speak of approval for every workload. Jobs that are
  not deferrable are approved by the scheduler (`decide/service.py:218-222`,
  `:278-280`), and `GatedExecution` counts them as authorised.
- `create_namespaced_job` may fail although the Job exists: the job is FAILED,
  runs, and has no execution row.
- The cancel endpoint accepts more statuses than its docstring lists.
- An event whose commit took effect and was not answered is recorded twice.

*Planning and tariffs*

- `Cause` says "carbon budget" also when no window has carbon data, for then
  every window that has some is over it (`scheduler.py:513-520`).
- The batch scheduler does not call `is_resource_feasible`, although
  `slot_capacity.py:5-8` says that it validates each job. Aggregates of the snapshot
  count nodes that are not ready. A disconnected snapshot has nothing free, so
  that every job of a batch is placed without room.
- A job that is placed without room ignores its carbon budget.
- The batch scheduler places a job whose `submit_time` is ahead of now no
  earlier than that (`batch_scheduler.py:181`), the single scheduler begins at
  now (`scheduler.py:417`). A baseline tariff of 0 counts as missing in the
  batch (`or`, `batch_scheduler.py:349-350`) and not in the single scheduler
  (`scheduler.py:640-644`). `AgreesWithSingle` states where the two agree.
- The span of a job is counted from the start of its first hour: one that begins
  half past is not allocated in its last. The registry is new for each batch:
  two batches do not know of each other.
- Two policy updates from one copy leave the policy of one with the tolerance of
  the other; CARBON_CONSTRAINED may have none, and the default stands in.
- `get_tariff_data` finds every region in the master file, so that its tiers 2
  to 4 are not reached. A row of `regional_tariffs` keeps its first price when
  the file is replaced; two writers may add one hour twice.
- Two threads of one process assign time and content of the memo in turn, and
  may leave the new time with the old content (`tariff_service.py:165`).

- `batch_scheduler.py:386-397` formats carbon and cost for the log. Where one is
  missing that raises, and the batch fails; `PlaceNext` places the job.
- `ScheduleJob` checks the demand for GPUs as `schedule_job` does, although
  `decide/service.py:72-91` never passes one.

*Notifications and mail*

- Two workers send one mail twice; a late failure overwrites SENT; attempts may
  go back. `OutcomeIsTruthful` is what remains true.
- A second announcement of an event with the same key is absorbed, whatever its
  text.

*Carbon*

- The answer to "did I get the refresh lock" is not acted on: whoever loses
  fetches as well (`carbon_cache.py:357` says that it prevents stampedes).
- A copy of rows lives for a full lifetime in Redis, not for what is left of
  theirs (`carbon_api.py:535`), hence the bound of two lifetimes.
- One fresh row makes all rows of the answer fresh (`carbon_api.py:324`).
- `README.md:137` names the data set first; the code asks the provider first.

*Startup, accounts, arrival*

- On an empty PostgreSQL database `create_all` makes the `ck_*` constraints, and
  migration 004 fails on them: the upgrade rolls back, the error is logged, and
  the database is served without a stamp. A database without a stamp never gets
  the columns of 012, 013 and 015.
- On a database stamped at revision 1, `create_all` makes `approvals` with its
  checks, 002 finds the table there, and 004 fails on them at every start, if
  009 would not.
- `run_schema_migrations` compares roles with values that the three-valued type
  does not have; the statement aborts, and its columns are lost with it.
- Revision 009 does the same (`009_consolidate_user_roles.py:38-50`). Its
  downgrade leaves the type as it is (`:142-147`), so that after a downgrade
  below 9 no upgrade goes through on PostgreSQL, neither an operator's nor that
  of a start; nor on a database stamped below 5, where `create_all` makes
  `users` with three roles. The error is swallowed (`database.py:106`), and
  processes serve without the later columns.
- The audit event of a changed account is appended after the commit of the
  change, and an append that fails is swallowed (`admin_router.py:386-392`,
  `:445-448`); a process that dies in between appends none. An account may be
  deactivated without a record of it.
- An account that was rejected is told at login that it awaits approval. A
  rejection that overtakes an approval may leave a row REJECTED and active.
- DELETE of a user does not notify, PATCH does. A company may lose its last
  administrator. An administrator without a company is listed keys of
  "tenant-default" that it cannot revoke.
- The simulator takes a job that is already further on back to SUBMITTED, and
  counts a job as FAILED_INGEST when only its automatic scheduling failed.
- When the decide loop stores the decision for a job before the simulator does,
  the commit of the simulator violates the unique `job_id`
  (`decide/service.py:224`, `shared/models.py:427`). The error is caught without
  a rollback (`simulator.py:284-288`), and the one session of the run
  (`simulator.py:379-400`) fails for all later rows: with no loader at work they
  are never stored.

## 4. Proofs

`tlapm` checks the eight `_proofs` modules of section 2. They assume only the
named assumptions on the constants (`JobTableAssumption` and its like), which
TLC evaluates in every run, and where a theorem has a further condition it is in
its statement.

**Dispatcher.** `DispatcherInv` strengthens the two safety invariants by what a
session's copies can be. `QueuedHasExecution` is not inductive: a flush of
QUEUED writes the status and the row together, but the flush of a *poll* writes
a status alone, and is harmless because an execution that is polled exists and
rows are never deleted (`PollOK`). Its part `ClaimHasLease` needs that a session
which nulls the claim also writes the status; a flush might skip the status if
the loaded copy were equal to the new value, and it is not, because from
`MarkDispatching` on the copy is DISPATCHING (`HandOK`). `CreatesOnlyWhenDue`
follows from an invariant that a session past `Validate` holds a job whose
window has begun; `ExecutionsAreBacked` from one that `record` is only reached
when the Job was seen or created, which needs the cluster within reach.
`CompletionsAreTruthful` assumes that Jobs stay in the API until they were seen
(no "unreachable", no "ttl": `refresh_job_status` takes a Job that is gone for
one that ended). Its invariant `Observed` ties what a session is about to write
to the pod, and a pod that has succeeded stays so, hence the order in which
stale answers are written does not matter.

**Lifecycle.** `LifecycleInv` adds to this the statuses of the other services.
The argument for `ApprovedIsBacked`: only a verdict (in the step that also
records it) and a pass over a job that is not deferrable set APPROVED; only a
resubmission deletes a decision, and it writes SUBMITTED in the same commit,
since the status it loaded was not SUBMITTED (`RequestOK`). `VerdictsExclude` is
an action property of the composed specification.

**The gate.** `StartsAreApproved` holds for any number of deciders, users and
workers, with cancellation and crashes, if nobody resubmits: `GrantInv` says
that the deferrable jobs which a worker has in hand or is about to promote, and
those past APPROVED, have an approved schedule, and only a resubmission takes
one away. With resubmission the code breaks it (`finding_unapproved`).

`GateIsImplemented` shows step by step that the composed system implements
`GatedExecution`, in which each job starts once, while it is authorised, and
`StartsAreDue` that it starts in the window of its standing decision. The
condition `OneHand` is one worker, one decider, one human who neither cancels
nor registers again, no batch endpoint or manual dispatch, and a cluster within
reach that keeps its Jobs; the worker may die anywhere and its lease may end.
The parts are there because the code needs them: of two workers the one whose
lease ended goes on beside the other; two deciders or two humans act on copies
of which one is stale; a job may be cancelled and resubmitted while a worker
holds it; a cluster that forgets a Job is given it again. `OneHandInv` says that
a job which has not started is in one hand at a time, and that its status tells
in whose. What several hands may do is the content of the other theorems.

**Ledger.** `LedgerInv` says that what a session is about to insert follows a
row that is there (`CallOK`); rows are never changed or removed, hence this
stays true while others append, and the unique constraint decides whether the
number is free. `ChainVerifies` and `AnchorsVerify` are its conjuncts, with all
faults. `ContentionIsProgress` needs its own strengthening (`ContentionInv`):
the number about to be inserted is past every number that caused a retry.

`LedgerImplementsLog` is the refinement of `AppendOnlyLog`: a commit is an
append of the log, everything else stutters. The abstract log repeats an event
only while its caller has no answer, so that the invariant `LogInv` ties the
table to the calls: an event that is there while a session is still to insert it
is one whose caller has had no answer, and no two sessions are appending the
same event.

**Registration.** `RegistrationInv` holds for any number of requests, with all
faults. Its core is `FlushedOK`: a request has flushed rows only between the
flush and the end of its first append, whatever that end is. A rollback takes
them, a commit makes them permanent; the only commit that can find them is the
one that inserts COMPANY_CREATED, and until then no other request holds or has
stored the name. `AnswersAreSaved`, `NamesAreUnique` and `CompaniesAreAudited`
follow. The steps of `append_event` inside a request are covered by the lemmas
of `AuditLedger_proofs`, which do not depend on who calls it.

**Accounts.** `MembersInv` says what the copies of a request are worth by the
time it writes. `DeactivationIsAlwaysNoticed` needs that whoever lost the access
and is neither on record nor among those whose report failed is about to be
reported by a request that is under way (`LossIsTold`): of two requests about
one account, from copies of any age, the one that takes the access is one that
knows it. `ChangesStayHome` rests on the company of an account being fixed: what
was checked of a row when it was loaded (`MayChange`) is true of it when it is
saved. `ChecksAgree` compares the copies of the login, identity and user gates,
and the scopes of lists, single reads, submission and administration, in every
reachable state.

**Planning.** The lemmas go from the outside in: finite sets have least members
in total orders; each of the three rankings is one, so that a non-empty set of
windows has a best; `Windows` are in range and end by the deadline; what the
choice of one job returns; how many of the placed jobs cover a slot, before and
after one more; and one turn of the loop. `PlanInv` then says that slots hold
what the jobs placed so far take of them and that each decision was, at its
turn, among the windows of its job under a policy the company had. The five
properties are consequences. They hold for any jobs, curves, clusters and number
of slots, and for any forecaster. `AlwaysAgreesWithSingle` compares the two
translations for a job that competes with nobody.

**Prices.** `TariffInv` says that the content in the memo is at least as new as
the time noted with it, because the time is read before the content. Hence a
reader who finds its time in the memo serves prices that were in the file after
the request began (`PricesStayCurrent`). `HoursInv` says that the points of a
curve are the full hours from the start of its window on, so that a finished one
has a point in the hour of each start; the nearest point is that one or the
next, if nearer (`NearHour`). The hours of a date are looked up at noon of UTC;
that this is the right day everywhere (`NoonIsOfItsDay`) needs zones within
twelve hours of UTC, which is `ZoneAssumption`: the regions lie between UTC-8
and UTC+11 (`shared/timezone.py:32-89`). A region of New Zealand would break it.
`PricesAlwaysFollowTheClock` then holds for any files, offsets of such zones,
changes of clock and season, and windows.

**Mail.** `DeliveryInv` holds for any number of sessions, workers, users and
events. `PushedOnce` needs that a session at its push has stored the row
(`SenderOK`: rows are not deleted and keep their occasion). `OutcomeIsTruthful`
needs that a worker which goes to record `sent` has a mail that was taken
(`MailerOK`) and that a flush writes a status only if it differs from the copy
(`FlushedRow`), so that a stale copy never brings a status back.
`OnlyApproversAreAsked` follows from whom a row was made for (`RowOK`) and from
the category each copy of the event is announced under, an assumption on
`Topics` that stands for the two calls in `decide/service.py:250-275`.

**Carbon.** `CarbonInv` holds for any lifetimes and any number of requests. Its
core is `CopyInTime`: the stated age of the copy in Redis and its remaining time
add up to at most two lifetimes, since a curve is put there with an age of at
most one; so a copy that is found is younger than two. A request holds an
untagged curve of more than one lifetime only when it is done (`HoldsAt`). The
age is the one the rows state: a fallback that was stored as if fetched is
within it (`finding_carbon`).

**Arrival.** `ArrivalInv` says that what a loader or a simulator with a working
session has left behind is a job, or was refused by the table itself. A session
after a collision is useless for the rest of the file. A collision at an insert
needs somebody who has stored that row on a working session, so that of all who
have begun one remains sound (`Sound`), and the rows it passes are stored. A
collision of decisions needs no other writer, only a decider or somebody who
resubmits: a simulator that met one is `Lost`, and the invariant keeps a sound
writer unless there is one. `EveryRowIsStored` has the same two parts: whoever
ends with a working session has left all rows stored, and at rest they are,
unless somebody is lost. `ReanchoredFits` shows that a window which was moved
forward to today still holds its job, so that moving it never makes the table
refuse it.

**Startup.** A recursive definition cannot be reasoned about by induction here,
but the chain has fifteen revisions, so it is unrolled: a lemma for each
migration says what it makes, `UpPathIs` and `Climb` walk the path step by step,
and `ChainIs` gives the closed form, `Closed(v)`: a part is there from the
revision that adds it (`Added`), except the reports, which 014 removes. Hence an
upgrade of whatever is truthfully at a revision ends with exactly the parts of
the models (`UpgradedIs`), only 004 and 009 can fail on the way
(`UpgradeGoesThrough`), and one revision down stays truthful (`DownIsTruthful`),
which is `VersionTellsTheTruth`. `StartupInv` adds what a start knows of the
schema while others change it: what it found missing is missing still, or
another process has made all the tables at once; then its second attempt finds
nothing missing, so that 2 attempts suffice for any number of processes (the
code has 15). That is the condition `MaxRetries > 1` of
`StartedAlwaysHasModels`, its only one. The exception `Stranded` is in the
property: a database without a stamp never gets the later parts, and below
revision 9 an upgrade fails on roles of three values. Every other database is
`Complete` when it is served. 004 fails only where `create_all` has made tables
ahead of it: on an empty database, where it has made everything, and on one
stamped below 4, where it has made `users` with three roles.
`AdminsAlwaysKeepTheirReach` holds because converting a role twice is converting
it once (`CanonicalTwice`), and because nobody serves before one of the two
conversions has been done.

**Only model-checked.** Liveness: `ClaimsResolve`, `ApprovedJobsResolve`,
`PolledRunsSettle`, `AppendsEnd`, `MailsSettle`, `HealsAfterOutage`, because the
prover does not handle fairness and ENABLED. Every safety property of the
passing runs is a theorem, where it needs a condition (a cluster that can be
reached, one hand, a start that may be repeated) under one that is in its
statement and is explained above.

## 5. Not modelled, and why

- Names, messages, logs, formats, figures that no decision reads; hashing and
  tokens beyond their being injective; passwords.
- The demand forecaster (a trained regression), percentages and rounding of the
  impact, analytics and reports: numeric and without control state.
- Rate limits, metrics, health probes, wiring, dashboards and the frontend.
- Deadlines in the decide loop's selection, and a second registration of a job
  that changes the deferrable flag.
- In a refresh: pod names and timestamps; a copy of the job kept from the same
  tick's dispatch; changes left pending by a later error of the pod query.
- The record_* wrappers of `trust/service.py`, which differ in the payload.
- The counters of the circuit breaker around Redis and the provider: a call may
  fail at any time instead. Spellings of regions and currencies. The older tiers
  of `tariff_api.py`, which are not reached.
- SQLite databases, the seeding of accounts and data, downgrades below revision
  5 (they drop the accounts).
- A user's own profile, and changes of a company's profile.

## 6. Plan

1. *Done*: all components named in section 2.
2. *Then, modelling*: rate limits; the companies' profile.
