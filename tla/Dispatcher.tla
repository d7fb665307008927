----------------------------- MODULE Dispatcher -----------------------------
(***************************************************************************)
(* DISPATCH: the replicated dispatcher workers (dispatch_loop_tick), the   *)
(* API sessions that dispatch a job or refresh its status by hand, and the *)
(* Kubernetes cluster they talk to.                                        *)
(*                                                                         *)
(* A session advances from one database commit or Kubernetes call to the   *)
(* next; what it read before a step is kept in its own record and may be   *)
(* stale when it is used.  Rows are loaded once: the session factory sets  *)
(* expire_on_commit = False.                                               *)
(***************************************************************************)
EXTENDS JobTable

CONSTANTS
  Callers,      \* API sessions that dispatch or refresh by hand
  CallerOps,    \* what they may do: "dispatch", "status"
  Rank,         \* Rank[j]: position by (priority, deadline), smaller first
  BatchSize,    \* CLAIM_BATCH_SIZE
  Faults,       \* what Kubernetes may do: fail a call ("api_error"), be out of
                \* reach ("unreachable"), remove a finished Job ("ttl")
  CrashPoints,  \* the steps at which a worker process may die
  MaxCrashes    \* bound: how often a worker dies

ASSUME DispatcherAssumption ==
  /\ Rank \in [Jobs -> Nat] /\ BatchSize \in Nat \ {0}
  /\ Faults \subseteq {"api_error", "unreachable", "ttl"}
  /\ MaxCrashes \in Nat
  /\ CallerOps \subseteq {"dispatch", "status"}
  /\ Workers \cap Callers = {}

VARIABLES
  session,  \* what each worker or API session is doing
  cluster,  \* the batch/v1 Job gs-<job_id> and how often it was created
  crashes   \* worker crashes so far

dispatch == <<session, cluster, crashes>>
dispatcherVars == <<store, dispatch>>

Sessions == Workers \cup Callers

Steps == {"idle", "recover", "promote_read", "promote", "claim", "dispatch", "mark",
          "read", "create", "record", "fail", "poll_read", "poll", "sync"}

Phases == {"absent", "pending", "active", "succeeded", "failed"}

\* What a status query may answer.
Observation == Phases \cup {"unreachable", None}

\* What a session remembers of the jobs row it loaded.
Loaded == [status: Status, claimed: BOOLEAN]

Load(j) == [status |-> job[j].status, claimed |-> job[j].claim # None]

\* The columns of an execution that a refresh compares and writes.
LoadedRun == [gs_status: ExecutionStatus, k8s_status: K8sStatus]

\* batch: the jobs still to dispatch or to poll; cur: the one in hand, with the
\* job row loaded for it and what Kubernetes answered; runs: the executions
\* loaded to be polled.
SessionRow ==
  [pc: Steps, batch: SUBSET Jobs, cur: Jobs \cup {None},
   loaded: {None} \cup Loaded, runs: [Jobs -> {None} \cup LoadedRun], seen: Observation]

NoRuns == [j \in Jobs |-> None]

\* A session between jobs.
At(pc, batch) == [pc |-> pc, batch |-> batch, cur |-> None,
                  loaded |-> None, runs |-> NoRuns, seen |-> None]

Idle == At("idle", {})

\* runs = 2 stands for two or more.
ClusterRow == [phase: Phases, runs: 0 .. 2]

DispatcherTypeOK ==
  /\ StoreTypeOK
  /\ session \in [Sessions -> SessionRow]
  /\ cluster \in [Jobs -> ClusterRow]
  /\ crashes \in 0 .. MaxCrashes

-----------------------------------------------------------------------------
(* The steps of dispatch_loop_tick before it dispatches.                   *)

\* Start of a tick: the CLAIMING rows whose lease has expired.
RecoverRead(w) ==
  /\ session[w].pc = "idle"
  /\ LET expired == {j \in Jobs : job[j].status = "CLAIMING" /\ LeaseExpired(j)}
     IN session' = [session EXCEPT ![w] =
          At(IF expired = {} THEN "promote_read" ELSE "recover", expired)]
  /\ UNCHANGED <<store, cluster, crashes>>

\* The flush of the recovered rows: every column it sets was changed.
RecoverWrite(w) ==
  /\ session[w].pc = "recover"
  /\ job' = [j \in Jobs |->
       IF j \in session[w].batch THEN [status |-> "READY", claim |-> None] ELSE job[j]]
  /\ session' = [session EXCEPT ![w] = At("promote_read", {})]
  /\ UNCHANGED <<decision, approvals, execution, issued, cluster, crashes>>

\* Mutant: promotes SCHEDULED jobs only, a status that nothing sets.
PromoteRead_ScheduledOnly(w) ==
  /\ session[w].pc = "promote_read"
  /\ session' = [session EXCEPT ![w] = At("claim", {})]
  /\ UNCHANGED <<store, cluster, crashes>>

PromoteRead(w) ==
  /\ session[w].pc = "promote_read"
  /\ LET due == {j \in Jobs : job[j].status = "APPROVED" /\ Due(j)}
     IN session' = [session EXCEPT ![w] =
          At(IF due = {} THEN "claim" ELSE "promote", due)]
  /\ UNCHANGED <<store, cluster, crashes>>

\* Only the status column was changed; claim columns stay as they are.
PromoteWrite(w) ==
  /\ session[w].pc = "promote"
  /\ job' = [j \in Jobs |->
       IF j \in session[w].batch THEN [job[j] EXCEPT !.status = "READY"] ELSE job[j]]
  /\ session' = [session EXCEPT ![w] = At("claim", {})]
  /\ UNCHANGED <<decision, approvals, execution, issued, cluster, crashes>>

\* b is what ORDER BY priority, deadline LIMIT BatchSize may select from ready.
FirstByRank(b, ready) ==
  /\ b \subseteq ready
  /\ \/ b = ready /\ Cardinality(b) <= BatchSize
     \/ Cardinality(b) = BatchSize
  /\ \A i \in b, k \in ready \ b : Rank[i] <= Rank[k]

\* SELECT ... FOR UPDATE SKIP LOCKED and the bulk UPDATE, in one transaction.
ClaimReady(w) ==
  /\ session[w].pc = "claim"
  /\ LET ready == {j \in Jobs : job[j].status = "READY"}
     IN IF ready = {}
        THEN /\ session' = [session EXCEPT ![w] = At("poll_read", {})]
             /\ UNCHANGED job
        ELSE \E b \in SUBSET ready :
             /\ FirstByRank(b, ready)
             /\ job' = [j \in Jobs |->
                  IF j \in b
                  THEN [status |-> "CLAIMING", claim |-> [by |-> w, left |-> LeaseTicks]]
                  ELSE job[j]]
             /\ session' = [session EXCEPT ![w] =
                  [At("dispatch", b) EXCEPT
                     !.loaded = [status |-> "CLAIMING", claimed |-> TRUE]]]
  /\ UNCHANGED <<decision, approvals, execution, issued, cluster, crashes>>

-----------------------------------------------------------------------------
(* dispatch_job, called by a tick for each claimed job and by the API.     *)

\* POST /dispatch/{job_id}: the API session loads the job.
RequestDispatch(c, j) ==
  /\ "dispatch" \in CallerOps
  /\ session[c].pc = "idle"
  /\ session' = [session EXCEPT ![c] =
       [At("dispatch", {j}) EXCEPT !.loaded = Load(j)]]
  /\ UNCHANGED <<store, cluster, crashes>>

\* The session after it has finished with its current job: a worker goes on
\* with its batch and then with step idleStep of its tick.
After(s, j, again, idleStep) ==
  LET rest == session[s].batch \ {j}
  IN IF rest # {}
     THEN [session[s] EXCEPT !.pc = again, !.batch = rest, !.cur = None, !.seen = None,
                             !.loaded = IF again = "dispatch"
                               THEN [status |-> "CLAIMING", claimed |-> TRUE] ELSE None,
                             !.runs[j] = None]
     ELSE At(IF s \in Workers THEN idleStep ELSE "idle", {})

AfterDispatch(s, j) == After(s, j, "dispatch", "poll_read")

DispatchableStatus == {"APPROVED", "READY", "CLAIMING", "QUEUED", "DISPATCHING"}

\* Mutant: the manual endpoint does not look at the execution window.
Validate_IgnoresWindow(s) ==
  /\ session[s].pc = "dispatch"
  /\ \E j \in session[s].batch : \E row \in {session[s].loaded, Load(j)} :
       session' = [session EXCEPT ![s] =
         IF row.status \in DispatchableStatus /\ decision[j] # None
         THEN [@ EXCEPT !.pc = "mark", !.cur = j, !.loaded = row]
         ELSE AfterDispatch(s, j)]
  /\ UNCHANGED <<store, cluster, crashes>>

\* validate_job_for_dispatch on the loaded row.  A collision in the audit
\* append that precedes it rolls the session back, and the row is read anew.
\* A blocked job keeps the status it has.
Validate(s) ==
  /\ session[s].pc = "dispatch"
  /\ \E j \in session[s].batch : \E row \in {session[s].loaded, Load(j)} :
       session' = [session EXCEPT ![s] =
         IF row.status \in DispatchableStatus /\ Due(j)
         THEN [@ EXCEPT !.pc = "mark", !.cur = j, !.loaded = row]
         ELSE AfterDispatch(s, j)]
  /\ UNCHANGED <<store, cluster, crashes>>

\* Mutant: the job is QUEUED before its execution row exists.
MarkDispatching_AsQueued(s) ==
  /\ session[s].pc = "mark"
  /\ job' = [job EXCEPT ![session[s].cur] =
       Flush(@, session[s].loaded.status, "QUEUED")]
  /\ session' = [session EXCEPT ![s].pc = "read", ![s].loaded.status = "QUEUED"]
  /\ UNCHANGED <<decision, approvals, execution, issued, cluster, crashes>>

MarkDispatching(s) ==
  /\ session[s].pc = "mark"
  /\ job' = [job EXCEPT ![session[s].cur] =
       Flush(@, session[s].loaded.status, "DISPATCHING")]
  /\ session' = [session EXCEPT ![s].pc = "read", ![s].loaded.status = "DISPATCHING"]
  /\ UNCHANGED <<decision, approvals, execution, issued, cluster, crashes>>

\* read_namespaced_job: found, 404, an API error, or no connection (which
\* dispatch_job treats as a simulated dispatch).
ReadCluster(s) ==
  /\ session[s].pc = "read"
  /\ LET j == session[s].cur IN
     \E next \in {"record", "create", "fail"} :
       /\ \/ next = "record" /\ cluster[j].phase # "absent"
          \/ next = "create" /\ cluster[j].phase = "absent"
          \/ next = "fail" /\ "api_error" \in Faults
          \/ next = "record" /\ "unreachable" \in Faults
       /\ session' = [session EXCEPT ![s].pc = next]
  /\ UNCHANGED <<store, cluster, crashes>>

CreateJob(j) ==
  cluster' = [cluster EXCEPT ![j].phase = "pending",
                                ![j].runs = IF @ = 0 THEN 1 ELSE 2]

\* Mutant: an API error on creation is taken for success.
CreateInCluster_SwallowsError(s) ==
  /\ session[s].pc = "create"
  /\ LET j == session[s].cur IN
     \/ cluster[j].phase = "absent" /\ CreateJob(j)
     \/ "api_error" \in Faults /\ UNCHANGED cluster
  /\ session' = [session EXCEPT ![s].pc = "record"]
  /\ UNCHANGED <<store, crashes>>

\* create_namespaced_job: created, 409 because another session created it
\* meanwhile, an API error (with or without effect), or no connection.
CreateInCluster(s) ==
  /\ session[s].pc = "create"
  /\ LET j == session[s].cur IN
     \/ /\ cluster[j].phase = "absent"
        /\ CreateJob(j)
        /\ \/ session' = [session EXCEPT ![s].pc = "record"]
           \/ "api_error" \in Faults /\ session' = [session EXCEPT ![s].pc = "fail"]
     \/ /\ cluster[j].phase # "absent" \/ "api_error" \in Faults
        /\ session' = [session EXCEPT ![s].pc = "fail"]
        /\ UNCHANGED cluster
     \/ /\ "unreachable" \in Faults
        /\ session' = [session EXCEPT ![s].pc = "record"]
        /\ UNCHANGED cluster
  /\ UNCHANGED <<store, crashes>>

MarkJobFailed(s) ==
  /\ session[s].pc = "fail"
  /\ LET j == session[s].cur IN
     /\ job' = [job EXCEPT ![j] =
          Release(Flush(@, session[s].loaded.status, "FAILED"), session[s].loaded.claimed)]
     /\ execution' = [execution EXCEPT ![j] =
          IF @ = None THEN None ELSE [@ EXCEPT !.gs_status = "FAILED"]]
     /\ session' = [session EXCEPT ![s] = AfterDispatch(s, j)]
  /\ UNCHANGED <<decision, approvals, issued, cluster, crashes>>

\* The execution row and the job's QUEUED in one commit.  job_id is unique: a
\* second row aborts the commit, and with it the whole tick or request.
\* k8s_status stays NULL; how much of the window is left is free, because
\* the countdown of a due window has stopped at 0.
RecordExecution(s) ==
  /\ session[s].pc = "record"
  /\ LET j == session[s].cur IN
     IF execution[j] = None
     THEN /\ \E left \in 0 .. RuntimeTicks :
               execution' = [execution EXCEPT ![j] =
                 [gs_status |-> "QUEUED", k8s_status |-> None, left |-> left]]
          /\ job' = [job EXCEPT ![j] =
               Release(Flush(@, session[s].loaded.status, "QUEUED"), session[s].loaded.claimed)]
          /\ session' = [session EXCEPT ![s] = AfterDispatch(s, j)]
     ELSE /\ session' = [session EXCEPT ![s] = Idle]
          /\ UNCHANGED <<job, execution>>
  /\ UNCHANGED <<decision, approvals, issued, cluster, crashes>>

-----------------------------------------------------------------------------
(* refresh_job_status, called by a tick for active executions and by the   *)
(* status endpoint.                                                        *)

LoadRuns(active) == [j \in Jobs |->
  IF j \in active THEN [gs_status |-> execution[j].gs_status,
                        k8s_status |-> execution[j].k8s_status] ELSE None]

\* Mutant: only Pending executions are polled.
PollRead_PendingOnly(w) ==
  /\ session[w].pc = "poll_read"
  /\ LET active == {j \in Jobs : execution[j] # None
                                 /\ execution[j].k8s_status = "Pending"}
     IN session' = [session EXCEPT ![w] =
          IF active = {} THEN Idle
          ELSE [At("poll", active) EXCEPT !.runs = LoadRuns(active)]]
  /\ UNCHANGED <<store, cluster, crashes>>

\* The executions a tick polls; a NULL k8s_status matches no IN list.
PollRead(w) ==
  /\ session[w].pc = "poll_read"
  /\ LET active == {j \in Jobs : execution[j] # None
                                 /\ execution[j].k8s_status \in {"Pending", "Running"}}
     IN session' = [session EXCEPT ![w] =
          IF active = {} THEN Idle
          ELSE [At("poll", active) EXCEPT !.runs = LoadRuns(active)]]
  /\ UNCHANGED <<store, cluster, crashes>>

\* GET /dispatch/{job_id}/status: 404 unless the job has an execution.
RequestStatus(c, j) ==
  /\ "status" \in CallerOps
  /\ session[c].pc = "idle"
  /\ execution[j] # None
  /\ session' = [session EXCEPT ![c] =
       [At("poll", {j}) EXCEPT !.loaded = Load(j), !.runs = LoadRuns({j})]]
  /\ UNCHANGED <<store, cluster, crashes>>

\* Ask Kubernetes; the loop loads the job now, the endpoint did before.  An API
\* error other than 404 leaves everything as it was.
Observe(s) ==
  /\ session[s].pc = "poll"
  /\ \E j \in session[s].batch :
       \/ \E answer \in {cluster[j].phase} \cup (Faults \cap {"unreachable"}) :
            session' = [session EXCEPT ![s] =
              [session[s] EXCEPT
                 !.pc = "sync", !.cur = j, !.seen = answer,
                 !.loaded = IF s \in Workers THEN Load(j) ELSE session[s].loaded]]
       \/ /\ "api_error" \in Faults
          /\ session' = [session EXCEPT ![s] = After(s, j, "poll", "idle")]
  /\ UNCHANGED <<store, cluster, crashes>>

\* Mutant: a Job that has ended is taken for a success.
StatusOf_EndedIsSuccess(phase) ==
  CASE phase = "absent"    -> [k8s_status |-> None,        gs_status |-> "FAILED"]
    [] phase = "pending"   -> [k8s_status |-> "Pending",   gs_status |-> "QUEUED"]
    [] phase = "active"    -> [k8s_status |-> "Running",   gs_status |-> "RUNNING"]
    [] phase \in {"succeeded", "failed"} ->
                              [k8s_status |-> "Succeeded", gs_status |-> "COMPLETED"]

\* get_job_status: the (k8s_status, gs_status) that a Job's counters mean.
StatusOf(phase) ==
  CASE phase = "absent"    -> [k8s_status |-> None,        gs_status |-> "FAILED"]
    [] phase = "pending"   -> [k8s_status |-> "Pending",   gs_status |-> "QUEUED"]
    [] phase = "active"    -> [k8s_status |-> "Running",   gs_status |-> "RUNNING"]
    [] phase = "succeeded" -> [k8s_status |-> "Succeeded", gs_status |-> "COMPLETED"]
    [] phase = "failed"    -> [k8s_status |-> "Failed",    gs_status |-> "FAILED"]

\* With no connection the planned window stands in for the cluster (the window
\* of an execution has always started), and an unchanged status writes nothing.
Simulated(j, run) ==
  LET status == IF execution[j].left = 0 THEN "COMPLETED" ELSE "RUNNING"
  IN IF status = run.gs_status THEN run
     ELSE [k8s_status |-> "Simulated", gs_status |-> status]

\* The commit of a refresh: the execution's columns that changed and, without
\* looking at what the job is doing by now, the job's status.
SyncStatus(s) ==
  /\ session[s].pc = "sync"
  /\ LET j == session[s].cur
         run == session[s].runs[j]
         new == IF session[s].seen = "unreachable" THEN Simulated(j, run)
                ELSE StatusOf(session[s].seen)
     IN /\ execution' = [execution EXCEPT
             ![j].gs_status = IF new.gs_status = run.gs_status THEN @ ELSE new.gs_status,
             ![j].k8s_status = IF new.k8s_status = run.k8s_status THEN @ ELSE new.k8s_status]
        /\ job' = [job EXCEPT ![j] =
             IF session[s].seen = "unreachable" /\ new = run THEN @
             ELSE Flush(@, session[s].loaded.status, new.gs_status)]
        /\ session' = [session EXCEPT ![s] = After(s, j, "poll", "idle")]
  /\ UNCHANGED <<decision, approvals, issued, cluster, crashes>>

-----------------------------------------------------------------------------
(* Kubernetes, crashes and time.                                           *)

StartPod(j) ==
  /\ cluster[j].phase = "pending"
  /\ cluster' = [cluster EXCEPT ![j].phase = "active"]
  /\ UNCHANGED <<store, session, crashes>>

FinishPod(j) ==
  /\ cluster[j].phase = "active"
  /\ \E end \in {"succeeded", "failed"} :
       cluster' = [cluster EXCEPT ![j].phase = end]
  /\ UNCHANGED <<store, session, crashes>>

\* ttl_seconds_after_finished: Kubernetes removes a finished Job.
RemoveFinished(j) ==
  /\ "ttl" \in Faults
  /\ cluster[j].phase \in {"succeeded", "failed"}
  /\ cluster' = [cluster EXCEPT ![j].phase = "absent"]
  /\ UNCHANGED <<store, session, crashes>>

\* A worker process dies and is restarted; its session is gone.
Crash(w) ==
  /\ session[w].pc \in CrashPoints
  /\ crashes < MaxCrashes
  /\ crashes' = crashes + 1
  /\ session' = [session EXCEPT ![w] = Idle]
  /\ UNCHANGED <<store, cluster>>

Tick == Elapse /\ UNCHANGED dispatch

WorkerStep(w) ==
  \/ RecoverRead(w) \/ RecoverWrite(w) \/ PromoteRead(w) \/ PromoteWrite(w)
  \/ ClaimReady(w) \/ PollRead(w)

SessionStep(s) ==
  \/ Validate(s) \/ MarkDispatching(s) \/ ReadCluster(s) \/ CreateInCluster(s)
  \/ MarkJobFailed(s) \/ RecordExecution(s) \/ Observe(s) \/ SyncStatus(s)

ClusterStep(j) == StartPod(j) \/ FinishPod(j) \/ RemoveFinished(j)

DispatchNext ==
  \/ \E w \in Workers : WorkerStep(w) \/ Crash(w)
  \/ \E s \in Sessions : SessionStep(s)
  \/ \E c \in Callers, j \in Jobs : RequestDispatch(c, j) \/ RequestStatus(c, j)
  \/ \E j \in Jobs : ClusterStep(j)
  \/ Tick

(***************************************************************************)
(* The dispatcher on its own: every job has been approved for some window. *)
(***************************************************************************)
DispatchInit ==
  /\ session = [s \in Sessions |-> Idle]
  /\ cluster = [j \in Jobs |-> [phase |-> "absent", runs |-> 0]]
  /\ crashes = 0

DispatcherInit ==
  /\ job = [j \in Jobs |-> [status |-> "APPROVED", claim |-> None]]
  /\ decision \in [Jobs -> [id: {1}, in: 0 .. MaxDelay]]
  /\ approvals = [j \in Jobs |-> IF j \in Deferrable THEN {"APPROVED"} ELSE {}]
  /\ execution = [j \in Jobs |-> None]
  /\ issued = [j \in Jobs |-> 1]
  /\ DispatchInit

DispatcherSpec == DispatcherInit /\ [][DispatchNext]_dispatcherVars

\* The loops and the API run; requests and crashes need never come.  Time
\* passes and a pod that Kubernetes started ends.
DispatchFairness ==
  /\ \A w \in Workers : WF_dispatcherVars(WorkerStep(w))
  /\ \A s \in Sessions : WF_dispatcherVars(SessionStep(s))
  /\ \A j \in Jobs : WF_dispatcherVars(StartPod(j) \/ FinishPod(j))
  /\ WF_dispatcherVars(Tick)

FairDispatcherSpec == DispatcherSpec /\ DispatchFairness

-----------------------------------------------------------------------------
(* Safety.                                                                 *)

\* A job is QUEUED, RUNNING or COMPLETED only once its execution row exists:
\* the status API and the poll loop find every job that got that far, whatever
\* sessions interleave (dispatch_job commits the row and the status together).
QueuedHasExecution ==
  \A j \in Jobs :
    job[j].status \in {"QUEUED", "RUNNING", "COMPLETED"} => execution[j] # None

\* A CLAIMING job has a claim with a lease, so that recover_expired_claims can
\* find it once its worker is gone; no concurrent promotion, recovery, failure
\* or completion leaves CLAIMING behind while it nulls the claim.
ClaimHasLease ==
  \A j \in Jobs : job[j].status = "CLAIMING" => job[j].claim # None

\* When the cluster can be reached, an execution row stands for a Job that was
\* created: no error, 409 or lost answer lets dispatch_job record one.
ExecutionBacked ==
  \A j \in Jobs : execution[j] # None => cluster[j].runs > 0

\* A job is COMPLETED only if its pod succeeded, with several sessions polling
\* and writing what they saw earlier (the cluster reachable, no TTL removal).
CompletedIsTruthful ==
  \A j \in Jobs : job[j].status = "COMPLETED" => cluster[j].phase = "succeeded"

\* No Kubernetes Job is created before selected_start, on the loop's path or
\* on the manual one (validate_job_for_dispatch checks long before the create).
NotBeforeWindow ==
  [][\A j \in Jobs : cluster'[j].runs > cluster[j].runs => Due(j)]_dispatcherVars

-----------------------------------------------------------------------------
(***************************************************************************)
(* Why the writes of a session are harmless however stale its copies are:  *)
(* from MarkDispatching on, its copy of the job is DISPATCHING, so that    *)
(* the flush of QUEUED or FAILED does write the status column; and an      *)
(* execution that it polls exists, because rows are never deleted.         *)
(***************************************************************************)
Holding == {"mark", "read", "create", "record", "fail"}

HandOK(row) ==
  /\ row.pc \in Holding => row.cur \in Jobs
  /\ row.pc \in Holding \cup {"dispatch"} => row.loaded \in Loaded
  /\ row.pc \in Holding \ {"mark"} => row.loaded.status = "DISPATCHING"

PollOK(row) ==
  /\ row.pc \in {"poll", "sync"} =>
       \A j \in row.batch : execution[j] # None /\ row.runs[j] \in LoadedRun
  /\ row.pc = "sync" =>
       row.cur \in row.batch /\ row.seen \in Phases \cup {"unreachable"}

DispatcherInv ==
  /\ DispatcherTypeOK
  /\ QueuedHasExecution
  /\ ClaimHasLease
  /\ \A s \in Sessions : HandOK(session[s]) /\ PollOK(session[s])

-----------------------------------------------------------------------------
(* Liveness.                                                               *)

\* DECISIONS.md: claim leases auto-expire so crashed workers don't block jobs:
\* no job stays CLAIMING, wherever a worker dies.
ClaimsResolve ==
  \A j \in Jobs : job[j].status = "CLAIMING" ~> job[j].status # "CLAIMING"

\* An approved job is dispatched or FAILED in the end: promotion, claiming and
\* recovery bring every approved job there, past crashes of the worker.
ApprovedJobsResolve ==
  \A j \in Jobs : <>(execution[j] # None \/ job[j].status = "FAILED")

Ended(j) == execution[j] # None /\ execution[j].gs_status \in {"COMPLETED", "FAILED"}

\* Once an execution is polled, its record does not stay active for ever: the
\* loop goes on until it has seen the end, past stale writes by other sessions.
PolledRunsSettle ==
  \A j \in Jobs :
    (execution[j] # None /\ execution[j].k8s_status \in {"Pending", "Running"})
      ~> Ended(j)

\* README.md: execution status is tracked from dispatch through completion.
RunsAreTracked ==
  \A j \in Jobs :
    (execution[j] # None /\ cluster[j].phase = "succeeded")
      ~> (execution[j] # None /\ execution[j].gs_status = "COMPLETED")
=============================================================================
