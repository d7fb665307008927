------------------------------ MODULE JobTable ------------------------------
(***************************************************************************)
(* The rows that the GreenShift services share through PostgreSQL: jobs,   *)
(* schedule_decisions, approvals and kubernetes_executions.  The decide    *)
(* loop, the API and the dispatcher workers have no other channel: each    *)
(* loads rows into an ORM session, works on the copies and commits.        *)
(*                                                                         *)
(* Time is kept as countdowns (ticks until a selected start, until a lease *)
(* expires, until a planned end), so that it needs no bound.               *)
(***************************************************************************)
EXTENDS Naturals, FiniteSets

CONSTANTS
  Jobs,           \* job ids
  Deferrable,     \* the jobs submitted with deferrable = True
  Workers,        \* dispatcher processes (values of WORKER_ID)
  LeaseTicks,     \* CLAIM_LEASE_SECONDS
  RuntimeTicks,   \* planned_end - planned_start
  MaxDelay,       \* bound: ticks between scheduling and selected_start
  MaxDecisions,   \* bound: schedule_decisions rows ever created for a job
  None            \* SQL NULL, and the absence of a row

VARIABLES
  job,        \* jobs: status and claim of each job
  decision,   \* schedule_decisions: at most one row per job (job_id is unique)
  approvals,  \* approvals: the verdicts recorded for the current decision
  execution,  \* kubernetes_executions: at most one row per job (unique)
  issued      \* the primary keys handed out to schedule_decisions of each job

store == <<job, decision, approvals, execution, issued>>

Status ==
  {"SUBMITTED", "PENDING_APPROVAL", "APPROVED", "READY", "CLAIMING", "DECLINED",
   "QUEUED", "DISPATCHING", "RUNNING", "COMPLETED", "FAILED", "CANCELLED"}

\* The statuses that ck_k8s_executions_status_valid lets an execution take.
ExecutionStatus == {"QUEUED", "RUNNING", "COMPLETED", "FAILED"}

K8sStatus ==
  {None, "Pending", "Running", "Succeeded", "Failed", "Simulated"}

Claim == [by: Workers, left: 0 .. LeaseTicks]
JobRow == [status: Status, claim: {None} \cup Claim]
DecisionRow == [id: 1 .. MaxDecisions, in: 0 .. MaxDelay]
ExecutionRow ==
  [gs_status: ExecutionStatus, k8s_status: K8sStatus, left: 0 .. RuntimeTicks]

ASSUME JobTableAssumption ==
  /\ Deferrable \subseteq Jobs
  /\ LeaseTicks \in Nat /\ RuntimeTicks \in Nat
  /\ MaxDelay \in Nat /\ MaxDecisions \in Nat \ {0}
  /\ None \notin Jobs \cup Workers \cup Nat \cup Status
  /\ None \notin Claim \cup DecisionRow \cup ExecutionRow

StoreTypeOK ==
  /\ job \in [Jobs -> JobRow]
  /\ decision \in [Jobs -> {None} \cup DecisionRow]
  /\ approvals \in [Jobs -> SUBSET {"APPROVED", "DECLINED"}]
  /\ execution \in [Jobs -> {None} \cup ExecutionRow]
  /\ issued \in [Jobs -> 0 .. MaxDecisions]

-----------------------------------------------------------------------------
(***************************************************************************)
(* An ORM flush updates exactly the columns whose value in the session     *)
(* differs from the value the session loaded, WHERE job_id = ... and with  *)
(* no other condition: a column the session did not change keeps whatever  *)
(* another transaction put there, and one it did change is overwritten.    *)
(* A write that nulls the claim columns does so if they were not null when *)
(* the row was loaded.                                                     *)
(***************************************************************************)
Flush(row, was, status) ==
  IF status = was THEN row ELSE [row EXCEPT !.status = status]

Release(row, claimed) == IF claimed THEN [row EXCEPT !.claim = None] ELSE row

DecisionId(j) == IF decision[j] = None THEN None ELSE decision[j].id

\* Whose execution window has opened: selected_start <= now.
Due(j) == decision[j] # None /\ decision[j].in = 0

\* Mutant: the comparison is the wrong way round.
LeaseExpired_Swapped(j) == job[j].claim # None /\ job[j].claim.left > 0

\* lease_expires_at < now; a lease column that is NULL never compares.
LeaseExpired(j) == job[j].claim # None /\ job[j].claim.left = 0

CountDown(n) == IF n = 0 THEN 0 ELSE n - 1

\* The leases, windows and plans one tick later.
Elapse ==
  /\ job' = [j \in Jobs |->
       IF job[j].claim = None THEN job[j]
       ELSE [job[j] EXCEPT !.claim.left = CountDown(@)]]
  /\ decision' = [j \in Jobs |->
       IF decision[j] = None THEN None
       ELSE [decision[j] EXCEPT !.in = CountDown(@)]]
  /\ execution' = [j \in Jobs |->
       IF execution[j] = None THEN None
       ELSE [execution[j] EXCEPT !.left = CountDown(@)]]
  /\ UNCHANGED <<approvals, issued>>
=============================================================================
