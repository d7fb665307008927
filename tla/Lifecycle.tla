----------------------------- MODULE Lifecycle -----------------------------
(***************************************************************************)
(* The life of a job, from registration to the end of its Kubernetes Job:  *)
(* DECIDE proposes a schedule, humans approve it (or decline, cancel,      *)
(* resubmit), the dispatcher workers promote, claim and dispatch it.  The  *)
(* parts run concurrently and share only the rows of JobTable.             *)
(***************************************************************************)
EXTENDS DecideLoop, ApprovalGate, Dispatcher

vars == <<store, pass, request, dispatch>>

Init ==
  /\ job = [j \in Jobs |-> [status |-> "SUBMITTED", claim |-> None]]
  /\ decision = [j \in Jobs |-> None]
  /\ approvals = [j \in Jobs |-> {}]
  /\ execution = [j \in Jobs |-> None]
  /\ issued = [j \in Jobs |-> 0]
  /\ DecideInit
  /\ ApprovalInit
  /\ DispatchInit

Next ==
  \/ DecideNext /\ UNCHANGED <<request, dispatch>>
  \/ ApprovalNext /\ UNCHANGED <<pass, dispatch>>
  \/ DispatchNext /\ UNCHANGED <<pass, request>>

Spec == Init /\ [][Next]_vars

-----------------------------------------------------------------------------
\* A schedule stands approved: by a human or, for a job that is not deferrable,
\* as soon as there is one.
Authorised ==
  {j \in Jobs : decision[j] # None /\ (j \in Deferrable => "APPROVED" \in approvals[j])}

Gate == INSTANCE GatedExecution WITH
  authorised <- Authorised,
  starts <- [j \in Jobs |-> cluster[j].runs]

\* The three services implement the promise: a Kubernetes Job is created only
\* while the approval of the schedule stands.
ImplementsGate == Gate!GatedSpec

\* approval/service.py: no workload can transition to dispatch eligibility
\* without explicit human approval.  A deferrable job that is handed to
\* Kubernetes has an approved schedule at that moment.
OnlyApprovedStarts ==
  [][\A j \in Deferrable :
       cluster'[j].runs > cluster[j].runs => j \in Authorised]_vars

\* The window, again, when schedules are withdrawn and made anew meanwhile.
OnlyDueStarts ==
  [][\A j \in Jobs : cluster'[j].runs > cluster[j].runs => Due(j)]_vars

-----------------------------------------------------------------------------
(***************************************************************************)
(* The inductive invariant behind the safety properties.  A resubmission   *)
(* has loaded a status other than SUBMITTED, so that its flush writes      *)
(* SUBMITTED whenever it deletes a decision; a verdict names a decision.   *)
(***************************************************************************)
RequestOK(r) ==
  r # None =>
    /\ r.op = "RESUBMIT" => r.was \in {"DECLINED", "CANCELLED", "FAILED"}
    /\ r.op \in Verdicts => r.sd # None

LifecycleInv ==
  /\ DispatcherInv
  /\ DecideTypeOK
  /\ ApprovalTypeOK
  /\ ApprovedIsBacked
  /\ PendingHasDecision
  /\ \A u \in Users : RequestOK(request[u])

-----------------------------------------------------------------------------
(***************************************************************************)
(* Why nothing starts unapproved while no schedule is withdrawn: what a    *)
(* session holds was approved when it was read, and stays so.              *)
(***************************************************************************)
UnderWay == {"READY", "CLAIMING", "DISPATCHING"}

Granted(row) ==
  /\ row.pc \in {"recover", "promote"} \cup Holding => row.batch \subseteq Authorised
  /\ row.pc \in Holding => row.cur \in row.batch
  /\ row.pc = "dispatch" =>
       \/ row.batch \subseteq Authorised
       \/ row.loaded.status \notin DispatchableStatus /\ \E j \in Jobs : row.batch = {j}

GrantInv ==
  /\ \A j \in Jobs : job[j].status \in UnderWay \/ execution[j] # None => j \in Authorised
  /\ \A s \in Sessions : Granted(session[s])

(***************************************************************************)
(* And why the promise survives withdrawals when one worker, one decider   *)
(* and one human work on the jobs and the cluster answers: a job that has  *)
(* not started is in one hand at a time, and its status tells in whose.    *)
(***************************************************************************)
OneHand ==
  /\ \A v, w \in Workers : v = w
  /\ \A c, d \in Deciders : c = d
  /\ \A u, v \in Users : u = v
  /\ Batchers = {} /\ "dispatch" \notin CallerOps
  /\ Ops \cap {"CANCEL", "REGISTER"} = {}
  /\ Faults \cap {"unreachable", "ttl"} = {}

Unstarted == {j \in Jobs : cluster[j].runs = 0}

WithWorker(row) ==
  /\ row.pc = "recover" => \A j \in row.batch \cap Unstarted : job[j].status = "CLAIMING"
  /\ row.pc = "promote" =>
       \A j \in row.batch \cap Unstarted : job[j].status = "APPROVED" /\ Due(j)
  /\ row.pc \in {"dispatch"} \cup Holding =>
       \A j \in row.batch \cap Unstarted : job[j].status \in {"CLAIMING", "DISPATCHING"}
  /\ row.pc \in Holding => row.cur \in row.batch

WithDecider(row) ==
  /\ \A j \in Unstarted :
       row.loaded[j] # None => row.loaded[j] = "SUBMITTED" /\ job[j].status = "SUBMITTED"
  /\ \A j \in row.storing : row.loaded[j] # None /\ row.storing = {j}

WithHuman(r) ==
  r # None /\ r.op = "RESUBMIT" /\ r.job \in Unstarted => job[r.job].status = r.was

OneHandInv ==
  /\ \A j \in Jobs : cluster[j].runs > 0 => cluster[j].phase # "absent"
  /\ \A j \in Unstarted : job[j].status \in UnderWay => j \in Authorised /\ Due(j)
  /\ \A s \in Sessions : WithWorker(session[s])
  /\ \A c \in Callers : session[c].pc \notin {"recover", "promote", "dispatch"} \cup Holding
  /\ \A d \in Deciders : WithDecider(pass[d])
  /\ \A u \in Users : WithHuman(request[u])
=============================================================================
