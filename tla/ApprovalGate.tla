---------------------------- MODULE ApprovalGate ----------------------------
(***************************************************************************)
(* APPROVE and the other human operations on a job: approve or decline the *)
(* proposed schedule, resubmit, cancel, and submit again under a job id    *)
(* that exists.  Each is one API request with a database session of its    *)
(* own: it loads the rows and checks them (Begin...), and commits later    *)
(* (Commit...), when the rows may have changed.  A request that its checks *)
(* reject changes nothing and is not modelled.                             *)
(***************************************************************************)
EXTENDS JobTable

CONSTANTS
  Users,  \* the API sessions of human users
  Ops     \* the operations that users perform in this instance

ASSUME ApprovalGateAssumption ==
  Ops \subseteq {"APPROVED", "DECLINED", "RESUBMIT", "CANCEL", "REGISTER"}

VARIABLE request  \* the request each user has begun and not yet committed

approvalVars == <<store, request>>

\* was: the status the request has loaded; sd: the primary key of the schedule
\* decision it has loaded.
Request ==
  [op: Ops, job: Jobs, was: Status, sd: {None} \cup (1 .. MaxDecisions)]

ApprovalTypeOK == request \in [Users -> {None} \cup Request]

Verdicts == {"APPROVED", "DECLINED"}

Terminal == {"COMPLETED", "FAILED", "CANCELLED"}

Begin(u, op, j, sd) ==
  /\ op \in Ops
  /\ request[u] = None
  /\ request' = [request EXCEPT ![u] =
       [op |-> op, job |-> j, was |-> job[j].status, sd |-> sd]]
  /\ UNCHANGED store

-----------------------------------------------------------------------------
(* POST /approvals/...: approve_schedule and decline_schedule.             *)

\* A verdict that is already there for this schedule returns the old record.
BeginVerdict(u, verdict, j) ==
  /\ decision[j] # None
  /\ \/ job[j].status = "PENDING_APPROVAL"
     \/ job[j].status = verdict /\ verdict \notin approvals[j]
  /\ Begin(u, verdict, j, decision[j].id)

\* Mutant: the status is set without the condition on the old one.
CommitVerdict_Unconditional(u) ==
  /\ request[u] # None
  /\ request[u].op \in Verdicts
  /\ LET j == request[u].job
         verdict == request[u].op
     IN IF DecisionId(j) = request[u].sd
        THEN /\ job' = [job EXCEPT ![j].status = verdict]
             /\ approvals' = [approvals EXCEPT ![j] = @ \cup {verdict}]
        ELSE UNCHANGED <<job, approvals>>
  /\ request' = [request EXCEPT ![u] = None]
  /\ UNCHANGED <<decision, execution, issued>>

\* UPDATE jobs ... WHERE status = 'PENDING_APPROVAL' and the insert of the
\* verdict, in one transaction.  No row updated is a 409; a schedule decision
\* deleted meanwhile is a foreign key violation.  Both roll back.
CommitVerdict(u) ==
  /\ request[u] # None
  /\ request[u].op \in Verdicts
  /\ LET j == request[u].job
         verdict == request[u].op
     IN IF job[j].status = "PENDING_APPROVAL" /\ DecisionId(j) = request[u].sd
        THEN /\ job' = [job EXCEPT ![j].status = verdict]
             /\ approvals' = [approvals EXCEPT ![j] = @ \cup {verdict}]
        ELSE UNCHANGED <<job, approvals>>
  /\ request' = [request EXCEPT ![u] = None]
  /\ UNCHANGED <<decision, execution, issued>>

-----------------------------------------------------------------------------
(* POST /approvals/.../resubmit: resubmit_workload.                        *)

\* Mutant: the check of the status is dropped.
BeginResubmit_AnyStatus(u, j) == Begin(u, "RESUBMIT", j, DecisionId(j))

BeginResubmit(u, j) ==
  /\ job[j].status \in {"DECLINED", "CANCELLED", "FAILED"}
  /\ Begin(u, "RESUBMIT", j, DecisionId(j))

\* Mutant: the stale decision goes, the status stays for the scheduler to set.
CommitResubmit_KeepsStatus(u) ==
  /\ request[u] # None
  /\ request[u].op = "RESUBMIT"
  /\ LET j == request[u].job
         deletes == request[u].sd # None /\ request[u].sd = DecisionId(j)
     IN /\ decision' = [decision EXCEPT ![j] = IF deletes THEN None ELSE @]
        /\ approvals' = [approvals EXCEPT ![j] = IF deletes THEN {} ELSE @]
  /\ request' = [request EXCEPT ![u] = None]
  /\ UNCHANGED <<job, execution, issued>>

\* The loaded schedule decision is deleted, and its approvals with it; when
\* it is gone already no row is deleted.  The execution row stays.
CommitResubmit(u) ==
  /\ request[u] # None
  /\ request[u].op = "RESUBMIT"
  /\ LET j == request[u].job
         deletes == request[u].sd # None /\ request[u].sd = DecisionId(j)
     IN /\ job' = [job EXCEPT ![j] = Flush(@, request[u].was, "SUBMITTED")]
        /\ decision' = [decision EXCEPT ![j] = IF deletes THEN None ELSE @]
        /\ approvals' = [approvals EXCEPT ![j] = IF deletes THEN {} ELSE @]
  /\ request' = [request EXCEPT ![u] = None]
  /\ UNCHANGED <<execution, issued>>

-----------------------------------------------------------------------------
(* POST /jobs/{job_id}/cancel: cancel_workload.                            *)

\* With an execution row the request also sets gs_status = 'CANCELLED', which
\* ck_k8s_executions_status_valid refuses: it fails and changes nothing.
BeginCancel(u, j) ==
  /\ job[j].status \notin Terminal
  /\ execution[j] = None
  /\ Begin(u, "CANCEL", j, None)

CommitCancel(u) ==
  /\ request[u] # None
  /\ request[u].op = "CANCEL"
  /\ LET j == request[u].job
     IN job' = [job EXCEPT ![j] = Flush(@, request[u].was, "CANCELLED")]
  /\ request' = [request EXCEPT ![u] = None]
  /\ UNCHANGED <<decision, approvals, execution, issued>>

-----------------------------------------------------------------------------
(* POST /jobs with the job_id of a registered job: submit_job merges the   *)
(* new registration into the row and leaves everything else in place.      *)

BeginRegister(u, j) == Begin(u, "REGISTER", j, None)

CommitRegister(u) ==
  /\ request[u] # None
  /\ request[u].op = "REGISTER"
  /\ LET j == request[u].job
     IN job' = [job EXCEPT ![j] = Flush(@, request[u].was, "SUBMITTED")]
  /\ request' = [request EXCEPT ![u] = None]
  /\ UNCHANGED <<decision, approvals, execution, issued>>

-----------------------------------------------------------------------------
ApprovalInit == request = [u \in Users |-> None]

BeginAny(u, j) ==
  \/ \E verdict \in Verdicts : BeginVerdict(u, verdict, j)
  \/ BeginResubmit(u, j) \/ BeginCancel(u, j) \/ BeginRegister(u, j)

CommitAny(u) ==
  CommitVerdict(u) \/ CommitResubmit(u) \/ CommitCancel(u) \/ CommitRegister(u)

ApprovalNext == \E u \in Users : CommitAny(u) \/ \E j \in Jobs : BeginAny(u, j)

-----------------------------------------------------------------------------
\* DECISIONS.md, approval race guard: a verdict is recorded only by the step
\* that takes the job out of PENDING_APPROVAL to that verdict, so that a race
\* of an approval and a decline (or of two deciders and a verdict) leaves one
\* winner and no contradictory record.
OneVerdictWins ==
  [][\A j \in Jobs, verdict \in Verdicts :
       verdict \in approvals'[j] \ approvals[j] =>
         job[j].status = "PENDING_APPROVAL" /\ job'[j].status = verdict]_<<job, approvals>>

\* A deferrable job is APPROVED only while its schedule decision and a human
\* approval of that decision are recorded: no interleaving of resubmissions,
\* registrations, scheduling passes and promotions takes the approval away and
\* leaves the status.
ApprovedIsBacked ==
  \A j \in Deferrable :
    job[j].status = "APPROVED" => decision[j] # None /\ "APPROVED" \in approvals[j]

\* A job waits for approval, or is approved, only with a schedule decision to
\* show: a human can always act on it, and the dispatcher finds a window.
PendingHasDecision ==
  \A j \in Jobs :
    job[j].status \in {"PENDING_APPROVAL", "APPROVED"} => decision[j] # None
=============================================================================
