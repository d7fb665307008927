-------------------------- MODULE Lifecycle_proofs --------------------------
(***************************************************************************)
(* Theorems about the composition: the deciders, the humans and the        *)
(* dispatcher, in any number, together keep LifecycleInv, although each    *)
(* writes from stale copies.  The dispatcher's own part of the invariant   *)
(* comes from Dispatcher_proofs.                                           *)
(***************************************************************************)
EXTENDS Lifecycle, Dispatcher_proofs

-----------------------------------------------------------------------------
(* The schedule decisions.                                                 *)

Backed == ApprovedIsBacked /\ PendingHasDecision

LEMMA DecisionIds ==
  ASSUME StoreTypeOK, NEW j \in Jobs
  PROVE  /\ DecisionId(j) \in {None} \cup (1 .. MaxDecisions)
         /\ decision[j] # None <=> DecisionId(j) # None
<1>1. None \notin 1 .. MaxDecisions
  BY JobTableAssumption
<1> QED
  BY <1>1 DEF DecisionId, StoreTypeOK, DecisionRow

\* A step that grants nothing: a job gets no status that needs a decision, and
\* keeps the decision and the approvals that its status needs.
LEMMA NothingGranted ==
  ASSUME Backed,
         \A j \in Jobs :
           \/ job'[j].status \notin {"APPROVED", "PENDING_APPROVAL"}
           \/ /\ job'[j].status = job[j].status
              /\ decision[j] # None => decision'[j] # None
              /\ approvals[j] \subseteq approvals'[j]
  PROVE  Backed'
BY JobTableAssumption DEF Backed, ApprovedIsBacked, PendingHasDecision

\* How the dispatcher changes the status of a job.
LEMMA DispatchStatus ==
  ASSUME DispatcherInv, DispatchNext, NEW j \in Jobs
  PROVE  \/ job'[j].status = job[j].status
         \/ \E w \in Workers : /\ session[w].pc \in {"recover", "promote"}
                               /\ session'[w] # session[w]
                               /\ j \in session[w].batch /\ job'[j].status = "READY"
         \/ job[j].status = "READY" /\ job'[j].status = "CLAIMING"
         \/ \E s \in Sessions :
              /\ session[s].pc \in Holding /\ session[s].cur = j
              /\ session'[s] # session[s]
              /\ \/ job'[j].status = "DISPATCHING"
                 \/ job'[j].status \in {"FAILED", "QUEUED"} /\ session[s].pc \in {"fail", "record"}
         \/ execution[j] # None /\ job'[j].status \in ExecutionStatus
<1> USE InvParts DEF RowsOK, StoreTypeOK
<1>1. job[j] \in JobRow
  OBVIOUS
<1>2. CASE Tick
  <2>1. job'[j] = IF job[j].claim = None THEN job[j]
                  ELSE [job[j] EXCEPT !.claim.left = CountDown(@)]
    BY <1>2 DEF Tick, Elapse
  <2>2. job'[j].status = job[j].status
    BY <1>1, <2>1 DEF JobRow
  <2> QED
    BY <2>2
<1>3. ASSUME NEW w \in Workers, RecoverWrite(w) \/ PromoteWrite(w)
      PROVE  \/ job'[j].status = job[j].status
             \/ /\ session[w].pc \in {"recover", "promote"}
                /\ session'[w] # session[w]
                /\ j \in session[w].batch /\ job'[j].status = "READY"
  <2>1. session'[w] # session[w]
    BY <1>3 DEF RecoverWrite, PromoteWrite, At, SessionsOK, Sessions
  <2> QED
    BY <1>1, <1>3, <2>1 DEF RecoverWrite, PromoteWrite, JobRow
<1>4. ASSUME NEW w \in Workers, ClaimReady(w)
      PROVE  \/ job'[j].status = job[j].status
             \/ job[j].status = "READY" /\ job'[j].status = "CLAIMING"
  <2>1. \/ UNCHANGED job
        \/ \E b \in SUBSET {k \in Jobs : job[k].status = "READY"} : job' = [k \in Jobs |->
              IF k \in b
              THEN [status |-> "CLAIMING", claim |-> [by |-> w, left |-> LeaseTicks]]
              ELSE job[k]]
    BY <1>4 DEF ClaimReady
  <2> QED
    BY <2>1
<1>5. ASSUME NEW s \in Sessions, MarkDispatching(s) \/ MarkJobFailed(s) \/ RecordExecution(s)
      PROVE  \/ job'[j].status = job[j].status
             \/ /\ session[s].pc \in Holding /\ session[s].cur = j
                /\ session'[s] # session[s]
                /\ \/ job'[j].status = "DISPATCHING"
                   \/ job'[j].status \in {"FAILED", "QUEUED"} /\ session[s].pc \in {"fail", "record"}
  <2>1. \A status \in Status : \A was, claimed :
          /\ Flush(job[j], was, status).status \in {job[j].status, status}
          /\ Release(Flush(job[j], was, status), claimed).status \in {job[j].status, status}
    BY <1>1, FlushRow, ReleaseRow
  <2>2. "DISPATCHING" \in Status /\ "FAILED" \in Status /\ "QUEUED" \in Status
    BY DEF Status
  <2>3. CASE MarkDispatching(s)
    <3>1. session'[s].pc = "read"
      BY <2>3 DEF MarkDispatching, SessionsOK, SessionRow
    <3>2. /\ session[s].pc = "mark"
          /\ job' = [job EXCEPT ![session[s].cur] = Flush(@, session[s].loaded.status, "DISPATCHING")]
      BY <2>3 DEF MarkDispatching
    <3>3. session'[s] # session[s]
      BY <3>1, <3>2
    <3> QED
      BY <2>1, <2>2, <3>2, <3>3 DEF Holding
  <2>4. CASE MarkJobFailed(s) \/ RecordExecution(s)
    <3>1. session[s].cur \in Jobs /\ session[s].pc \in Holding
      BY <2>4 DEF MarkJobFailed, RecordExecution, SessionsOK, HandOK, Holding
    <3>2. AfterDispatch(s, session[s].cur).pc \notin Holding /\ Idle.pc \notin Holding
      BY <3>1, AfterPc DEF AfterDispatch, Idle, At, Holding
    <3>3. session'[s].pc \notin Holding
      BY <2>4, <3>2 DEF MarkJobFailed, RecordExecution, SessionsOK
    <3> QED
      BY <2>1, <2>2, <2>4, <3>1, <3>3 DEF MarkJobFailed, RecordExecution
  <2> QED
    BY <1>5, <2>3, <2>4
<1>6. ASSUME NEW s \in Sessions, SyncStatus(s)
      PROVE  \/ job'[j].status = job[j].status
             \/ execution[j] # None /\ job'[j].status \in ExecutionStatus
  <2> DEFINE cur == session[s].cur
             run == session[s].runs[cur]
             seen == session[s].seen
             new == IF seen = "unreachable" THEN Simulated(cur, run) ELSE StatusOf(seen)
  <2>1. /\ cur \in Jobs /\ execution[cur] # None /\ run \in LoadedRun
        /\ seen \in Phases \cup {"unreachable"}
    BY <1>6 DEF SyncStatus, SessionsOK, PollOK, SessionRow
  <2>2. new \in LoadedRun
    BY <2>1, NewStatus
  <2>3. new.gs_status \in Status /\ new.gs_status \in ExecutionStatus
    BY <2>2 DEF LoadedRun, ExecutionStatus, Status
  <2>4. job' = [job EXCEPT ![cur] =
          IF seen = "unreachable" /\ new = run THEN @
          ELSE Flush(@, session[s].loaded.status, new.gs_status)]
    BY <1>6 DEF SyncStatus
  <2> HIDE DEF new, cur
  <2> QED
    BY <1>1, <2>1, <2>3, <2>4, FlushRow
<1>7. \/ UNCHANGED job \/ Tick
      \/ \E w \in Workers : RecoverWrite(w) \/ PromoteWrite(w) \/ ClaimReady(w)
      \/ \E s \in Sessions : \/ MarkDispatching(s) \/ MarkJobFailed(s)
                             \/ RecordExecution(s) \/ SyncStatus(s)
  BY DEF DispatchNext, WorkerStep, SessionStep, ClusterStep, RecoverRead,
     PromoteRead, PollRead, Crash, Validate, ReadCluster, CreateInCluster, Observe,
     RequestDispatch, RequestStatus, StartPod, FinishPod, RemoveFinished, store
<1> QED
  BY <1>2, <1>3, <1>4, <1>5, <1>6, <1>7

\* The dispatcher never touches what stands behind an approval.
LEMMA DispatchGrantsNothing ==
  ASSUME DispatcherInv, DispatchNext, NEW j \in Jobs
  PROVE  /\ \/ job'[j].status = job[j].status
            \/ job'[j].status \notin {"APPROVED", "PENDING_APPROVAL"}
         /\ decision[j] # None <=> decision'[j] # None
         /\ approvals' = approvals
<1> USE InvParts DEF RowsOK, StoreTypeOK
<1>1. CASE Tick
  <2>1. ASSUME decision[j] # None PROVE decision'[j] # None
    <3>1. decision[j] \in DecisionRow /\ CountDown(decision[j].in) \in 0 .. MaxDelay
      BY <2>1, CountDownType, JobTableAssumption DEF DecisionRow
    <3>2. decision'[j] = [decision[j] EXCEPT !.in = CountDown(decision[j].in)]
      BY <1>1, <2>1 DEF Tick, Elapse
    <3>3. decision'[j] \in DecisionRow
      BY <3>1, <3>2 DEF DecisionRow
    <3> QED
      BY <3>3, JobTableAssumption
  <2> QED
    BY <1>1, <2>1, DispatchStatus DEF Tick, Elapse, ExecutionStatus
<1>2. UNCHANGED <<decision, approvals>> \/ Tick
  BY DEF DispatchNext, WorkerStep, SessionStep, ClusterStep, RecoverRead, RecoverWrite,
     PromoteRead, PromoteWrite, ClaimReady, PollRead, Crash, Validate, MarkDispatching,
     ReadCluster, CreateInCluster, MarkJobFailed, RecordExecution, Observe, SyncStatus,
     RequestDispatch, RequestStatus, StartPod, FinishPod, RemoveFinished, store
<1> QED
  BY <1>1, <1>2, DispatchStatus DEF ExecutionStatus

LEMMA DispatchKeeps ==
  ASSUME LifecycleInv, DispatchNext, UNCHANGED <<pass, request>>
  PROVE  LifecycleInv'
<1>1. DispatcherInv'
  BY DispatcherStep DEF LifecycleInv
<1>2. Backed'
  BY DispatchGrantsNothing, NothingGranted DEF LifecycleInv, Backed
<1> QED
  BY <1>1, <1>2 DEF LifecycleInv, Backed, DecideTypeOK, ApprovalTypeOK, RequestOK

-----------------------------------------------------------------------------
(* The tables under the steps of the deciders and the humans, who never    *)
(* touch claims or executions.                                             *)

LEMMA OthersMove ==
  ASSUME DispatcherInv, UNCHANGED <<execution, session, cluster, crashes>>,
         StoreTypeOK',
         \A j \in Jobs : /\ job'[j].claim = job[j].claim
                         /\ \/ job'[j].status = job[j].status
                            \/ job'[j].status \notin {"QUEUED", "RUNNING", "COMPLETED", "CLAIMING"}
  PROVE  DispatcherInv'
<1>1. QueuedHasExecution' /\ ClaimHasLease'
  BY InvParts DEF RowsOK, QueuedHasExecution, ClaimHasLease
<1>2. RowsOK'
  BY <1>1 DEF RowsOK
<1> QED
  BY <1>2, SessionsStay, EnvStays, RejoinParts

LEMMA AllStays ==
  ASSUME DispatcherInv, Backed, UNCHANGED <<store, dispatch>>
  PROVE  DispatcherInv' /\ Backed'
<1>1. UNCHANGED dispatcherVars
  BY DEF dispatcherVars
<1> QED
  BY <1>1, DispatcherStutter DEF Backed, ApprovedIsBacked, PendingHasDecision, store

-----------------------------------------------------------------------------
(* DECIDE.                                                                 *)

LEMMA NoPassType == NoPass \in PassRow
BY DEF NoPass, PassRow

LEMMA AdvanceType ==
  ASSUME DecideTypeOK, StoreTypeOK, NEW d \in Deciders, NEW done, Advance(d, done)
  PROVE  DecideTypeOK'
<1>1. PICK reload \in BOOLEAN : pass' = [pass EXCEPT ![d] =
        IF Todo(d) \subseteq done THEN NoPass
        ELSE [NoPass EXCEPT !.pc = "schedule",
                !.loaded = [j \in Jobs |->
                   IF j \notin Todo(d) \ done THEN None
                   ELSE IF reload THEN job[j].status ELSE pass[d].loaded[j]]]]
  BY DEF Advance
<1> DEFINE loaded == [j \in Jobs |->
                   IF j \notin Todo(d) \ done THEN None
                   ELSE IF reload THEN job[j].status ELSE pass[d].loaded[j]]
           row == [NoPass EXCEPT !.pc = "schedule", !.loaded = loaded]
<1>2. loaded \in [Jobs -> {None} \cup Status]
  BY DEF DecideTypeOK, StoreTypeOK, PassRow, JobRow
<1>3. pass' = [pass EXCEPT ![d] = IF Todo(d) \subseteq done THEN NoPass ELSE row]
  BY <1>1
<1> HIDE DEF loaded
<1>4. row \in PassRow
  BY <1>2, NoPassType DEF PassRow
<1> HIDE DEF row
<1> QED
  BY <1>3, <1>4, NoPassType DEF DecideTypeOK

LEMMA StartPassType ==
  ASSUME DecideTypeOK, StoreTypeOK, NEW d \in Deciders, StartPass(d)
  PROVE  DecideTypeOK'
<1>1. PICK batch \in SUBSET Jobs : pass' = [pass EXCEPT ![d] =
        [NoPass EXCEPT !.pc = "schedule",
           !.loaded = [j \in Jobs |-> IF j \in batch THEN job[j].status ELSE None]]]
  BY DEF StartPass
<1> DEFINE loaded == [j \in Jobs |-> IF j \in batch THEN job[j].status ELSE None]
           row == [NoPass EXCEPT !.pc = "schedule", !.loaded = loaded]
<1>2. loaded \in [Jobs -> {None} \cup Status]
  BY DEF StoreTypeOK, JobRow
<1>3. pass' = [pass EXCEPT ![d] = row]
  BY <1>1
<1> HIDE DEF loaded
<1>4. row \in PassRow
  BY <1>2, NoPassType DEF PassRow
<1> HIDE DEF row
<1> QED
  BY <1>3, <1>4 DEF DecideTypeOK

LEMMA ScheduleType ==
  ASSUME DecideTypeOK, StoreTypeOK, NEW d \in Deciders, Schedule(d)
  PROVE  DecideTypeOK'
<1>1. PICK batch \in SUBSET Todo(d) : pass' = [pass EXCEPT
         ![d].pc = "store", ![d].storing = batch,
         ![d].sd = [j \in Jobs |-> IF j \in batch THEN DecisionId(j) ELSE None]]
  BY DEF Schedule
<1> DEFINE sd == [j \in Jobs |-> IF j \in batch THEN DecisionId(j) ELSE None]
           row == [pass[d] EXCEPT !.pc = "store", !.storing = batch, !.sd = sd]
<1>2. sd \in [Jobs -> {None} \cup (1 .. MaxDecisions)]
  BY DecisionIds
<1>3. pass' = [pass EXCEPT ![d] = row]
  BY <1>1
<1> HIDE DEF sd
<1>4. row \in PassRow
  BY <1>2 DEF PassRow, DecideTypeOK, Todo
<1> HIDE DEF row
<1> QED
  BY <1>3, <1>4 DEF DecideTypeOK

LEMMA InfeasibleType ==
  ASSUME DecideTypeOK, StoreTypeOK, NEW d \in Deciders, Infeasible(d)
  PROVE  DecideTypeOK'
<1>1. PICK j \in Todo(d) :
        IF d \in Loops
        THEN \E was \in {pass[d].loaded[j], job[j].status} :
               pass' = [pass EXCEPT ![d].pc = "fail", ![d].storing = {j},
                                    ![d].loaded[j] = was]
        ELSE Advance(d, {j})
  BY DEF Infeasible
<1>2. CASE d \in Loops
  <2>1. PICK was \in {pass[d].loaded[j], job[j].status} :
          pass' = [pass EXCEPT ![d].pc = "fail", ![d].storing = {j}, ![d].loaded[j] = was]
    BY <1>1, <1>2
  <2>2. was \in {None} \cup Status /\ j \in Jobs
    BY DEF DecideTypeOK, StoreTypeOK, PassRow, JobRow, Todo
  <2> DEFINE row == [pass[d] EXCEPT !.pc = "fail", !.storing = {j}, !.loaded[j] = was]
  <2>3. row \in PassRow
    BY <2>2 DEF PassRow, DecideTypeOK
  <2>4. pass' = [pass EXCEPT ![d] = row]
    BY <2>1
  <2> HIDE DEF row
  <2> QED
    BY <2>3, <2>4 DEF DecideTypeOK
<1>3. CASE d \notin Loops
  BY <1>1, <1>3, AdvanceType
<1> QED
  BY <1>2, <1>3

LEMMA FailInfeasibleStep ==
  ASSUME LifecycleInv, NEW d \in Deciders, FailInfeasible(d), UNCHANGED dispatch
  PROVE  DispatcherInv' /\ Backed' /\ DecideTypeOK'
<1> USE InvParts DEF LifecycleInv, RowsOK, dispatch
<1>1. ASSUME NEW j \in Jobs
      PROVE  /\ job'[j] \in JobRow /\ job'[j].claim = job[j].claim
             /\ job'[j].status \in {job[j].status, "FAILED"}
  BY FlushRow DEF FailInfeasible, StoreTypeOK, Status
<1>2. StoreTypeOK'
  <2>1. job' \in [Jobs -> JobRow]
    BY <1>1 DEF FailInfeasible
  <2> QED
    BY <2>1 DEF FailInfeasible, StoreTypeOK
<1>3. DispatcherInv'
  BY <1>1, <1>2, OthersMove DEF FailInfeasible
<1>4. Backed'
  BY <1>1, NothingGranted DEF FailInfeasible, Backed
<1>5. DecideTypeOK'
  BY AdvanceType DEF FailInfeasible
<1> QED
  BY <1>3, <1>4, <1>5

\* Every job that the commit touches has a decision, the others keep theirs.
LEMMA StoreDecisions ==
  ASSUME DecideTypeOK, StoreTypeOK, NEW d \in Deciders, Store(d), StoreApplies(d)
  PROVE  /\ pass[d].storing \subseteq Jobs
         /\ \A j \in pass[d].storing : decision'[j] \in DecisionRow
         /\ \A j \in Jobs \ pass[d].storing : decision'[j] = decision[j]
         /\ decision' \in [Jobs -> {None} \cup DecisionRow]
<1> DEFINE jobs == pass[d].storing
           new == {j \in jobs : pass[d].sd[j] = None}
<1>1. jobs \subseteq Jobs
  BY DEF DecideTypeOK, PassRow
<1>2. PICK start \in [jobs -> 0 .. MaxDelay] :
        decision' = [j \in Jobs |->
          IF j \in new THEN [id |-> issued[j] + 1, in |-> start[j]]
          ELSE IF j \in jobs THEN [decision[j] EXCEPT !.in = start[j]]
          ELSE decision[j]]
  BY DEF Store
<1>3. \A j \in new : issued[j] < MaxDecisions
  BY DEF Store
<1>4. ASSUME NEW j \in jobs
      PROVE  decision'[j] \in DecisionRow
  <2>1. CASE j \in new
    <3>1. decision'[j] = [id |-> issued[j] + 1, in |-> start[j]]
      BY <1>1, <1>2, <2>1
    <3> QED
      BY <1>1, <1>2, <1>3, <2>1, <3>1, JobTableAssumption DEF DecisionRow, StoreTypeOK
  <2>2. CASE j \notin new
    <3>1. DecisionId(j) # None
      BY <2>2 DEF StoreApplies
    <3>2. decision[j] \in DecisionRow
      BY <1>1, <3>1, DecisionIds DEF StoreTypeOK
    <3>3. decision'[j] = [decision[j] EXCEPT !.in = start[j]]
      BY <1>1, <1>2, <2>2
    <3> QED
      BY <1>2, <3>2, <3>3 DEF DecisionRow
  <2> QED
    BY <2>1, <2>2
<1> HIDE DEF jobs, new
<1>5. \A j \in Jobs \ jobs : decision'[j] = decision[j]
  BY <1>2 DEF new
<1>6. \A j \in Jobs : decision'[j] \in {None} \cup DecisionRow
  BY <1>4, <1>5 DEF StoreTypeOK
<1>7. decision' \in [Jobs -> {None} \cup DecisionRow]
  BY <1>2, <1>6
<1> QED
  BY <1>1, <1>4, <1>5, <1>7 DEF jobs

\* A stored decision is there for every job that the commit touches, and no
\* deferrable job is approved by it.
LEMMA StoreStep ==
  ASSUME LifecycleInv, NEW d \in Deciders, Store(d), UNCHANGED dispatch
  PROVE  DispatcherInv' /\ Backed' /\ DecideTypeOK'
<1> USE InvParts DEF LifecycleInv, RowsOK, dispatch
<1> DEFINE jobs == pass[d].storing
           new == {j \in jobs : pass[d].sd[j] = None}
<1>1. CASE StoreApplies(d)
  <2>1. jobs \subseteq Jobs
    BY DEF DecideTypeOK, PassRow
  <2>2. /\ \A j \in jobs : decision'[j] \in DecisionRow
        /\ \A j \in Jobs \ jobs : decision'[j] = decision[j]
        /\ decision' \in [Jobs -> {None} \cup DecisionRow]
    BY <1>1, StoreDecisions
  <2>3. /\ \A j \in new : issued[j] < MaxDecisions
        /\ issued' = [j \in Jobs |-> IF j \in new THEN issued[j] + 1 ELSE issued[j]]
        /\ job' = [j \in Jobs |->
             IF j \in jobs THEN Flush(job[j], pass[d].loaded[j], ScheduledStatus(j))
             ELSE job[j]]
        /\ Advance(d, jobs)
        /\ UNCHANGED <<approvals, execution>>
    BY <1>1 DEF Store
  <2>4. issued' \in [Jobs -> 0 .. MaxDecisions]
    BY <2>1, <2>3, JobTableAssumption DEF StoreTypeOK
  <2> HIDE DEF jobs, new
  <2>5. ASSUME NEW j \in jobs
        PROVE  /\ job'[j] \in JobRow /\ job'[j].claim = job[j].claim
               /\ job'[j].status \in {job[j].status, ScheduledStatus(j)}
    <3>1. ScheduledStatus(j) \in Status
      BY DEF ScheduledStatus, Status
    <3> QED
      BY <2>1, <2>3, <3>1, FlushRow DEF StoreTypeOK
  <2>6. StoreTypeOK'
    <3>1. job' \in [Jobs -> JobRow]
      BY <2>3, <2>5 DEF StoreTypeOK
    <3> QED
      BY <2>3, <2>2, <2>4, <3>1 DEF StoreTypeOK
  <2>7. DispatcherInv'
    BY <2>1, <2>3, <2>5, <2>6, OthersMove DEF ScheduledStatus
  <2>8. Backed'
    <3>1. ApprovedIsBacked'
      <4> SUFFICES ASSUME NEW j \in Deferrable, job'[j].status = "APPROVED"
                   PROVE  decision'[j] # None /\ "APPROVED" \in approvals'[j]
        BY DEF ApprovedIsBacked
      <4>1. j \in Jobs /\ job[j].status = "APPROVED"
        BY <2>3, <2>5, JobTableAssumption DEF ScheduledStatus
      <4>2. decision[j] # None /\ "APPROVED" \in approvals[j]
        BY <4>1 DEF ApprovedIsBacked
      <4> QED
        BY <2>2, <2>3, <4>1, <4>2, JobTableAssumption
    <3>2. PendingHasDecision'
      <4>1. ASSUME NEW j \in Jobs, job'[j].status \in {"PENDING_APPROVAL", "APPROVED"}
            PROVE  decision'[j] # None
        BY <2>2, <2>3, <4>1, JobTableAssumption DEF PendingHasDecision
      <4> QED
        BY <4>1 DEF PendingHasDecision
    <3> QED
      BY <3>1, <3>2 DEF Backed
  <2>9. DecideTypeOK'
    BY <2>3, AdvanceType
  <2> QED
    BY <2>7, <2>8, <2>9
<1>2. CASE ~StoreApplies(d)
  <2>1. pass' = [pass EXCEPT ![d] = NoPass] /\ UNCHANGED store
    BY <1>2 DEF Store, store
  <2> QED
    BY <2>1, AllStays, NoPassType DEF DecideTypeOK, Backed
<1> QED
  BY <1>1, <1>2

\* What a decider does to the rows: it fails a job or has it wait for approval
\* or dispatch, and takes no decision away.
LEMMA DecideStatus ==
  ASSUME LifecycleInv, NEW d \in Deciders, DecideStep(d), NEW j \in Jobs
  PROVE  /\ UNCHANGED <<execution, approvals>>
         /\ decision[j] # None => decision'[j] # None
         /\ \/ UNCHANGED <<job[j], decision[j]>>
            \/ /\ pass[d].pc \in {"store", "fail"} /\ j \in pass[d].storing
               /\ job'[j].status \in
                    {job[j].status, "FAILED", "PENDING_APPROVAL", "APPROVED"}
<1> USE InvParts DEF LifecycleInv, RowsOK
<1>1. ASSUME NEW was, NEW status \in Status
      PROVE  Flush(job[j], was, status).status \in {job[j].status, status}
  BY FlushRow DEF StoreTypeOK
<1>2. CASE StartPass(d) \/ Schedule(d) \/ Infeasible(d)
  BY <1>2 DEF StartPass, Schedule, Infeasible, store
<1>3. CASE FailInfeasible(d)
  <2>1. "FAILED" \in Status
    BY DEF Status
  <2> QED
    BY <1>1, <1>3, <2>1 DEF FailInfeasible
<1>4. CASE Store(d) /\ StoreApplies(d)
  <2>1. ScheduledStatus(j) \in Status
        /\ ScheduledStatus(j) \in {"PENDING_APPROVAL", "APPROVED"}
    BY DEF ScheduledStatus, Status
  <2>2. job'[j] = IF j \in pass[d].storing
                  THEN Flush(job[j], pass[d].loaded[j], ScheduledStatus(j)) ELSE job[j]
    BY <1>4 DEF Store
  <2>3. \/ decision'[j] \in DecisionRow /\ j \in pass[d].storing
        \/ decision'[j] = decision[j] /\ j \notin pass[d].storing
    BY <1>4, StoreDecisions
  <2>4. UNCHANGED <<execution, approvals>> /\ pass[d].pc = "store"
    BY <1>4 DEF Store
  <2> QED
    BY <1>1, <2>1, <2>2, <2>3, <2>4, JobTableAssumption
<1>5. CASE Store(d) /\ ~StoreApplies(d)
  BY <1>5 DEF Store
<1> QED
  BY <1>2, <1>3, <1>4, <1>5 DEF DecideStep

LEMMA DecideKeeps ==
  ASSUME LifecycleInv, DecideNext, UNCHANGED <<request, dispatch>>
  PROVE  LifecycleInv'
<1>1. PICK d \in Deciders : DecideStep(d)
  BY DEF DecideNext
<1>2. DecideTypeOK /\ StoreTypeOK
  BY InvParts DEF LifecycleInv, RowsOK
<1>3. CASE StartPass(d) \/ Schedule(d) \/ Infeasible(d)
  <2>1. UNCHANGED <<store, dispatch>>
    BY <1>3 DEF StartPass, Schedule, Infeasible
  <2>2. DecideTypeOK'
    BY <1>2, <1>3, StartPassType, ScheduleType, InfeasibleType
  <2> QED
    BY <2>1, <2>2, AllStays DEF LifecycleInv, Backed, ApprovalTypeOK, RequestOK
<1>4. CASE FailInfeasible(d) \/ Store(d)
  BY <1>4, FailInfeasibleStep, StoreStep DEF LifecycleInv, Backed, ApprovalTypeOK, RequestOK
<1> QED
  BY <1>1, <1>3, <1>4 DEF DecideStep

-----------------------------------------------------------------------------
(* The humans.                                                             *)

LEMMA BeginStep ==
  ASSUME LifecycleInv, NEW u \in Users, NEW op, NEW j \in Jobs,
         NEW sd \in {None} \cup (1 .. MaxDecisions), Begin(u, op, j, sd),
         op = "RESUBMIT" => job[j].status \in {"DECLINED", "CANCELLED", "FAILED"},
         op \in Verdicts => sd # None,
         UNCHANGED <<pass, dispatch>>
  PROVE  LifecycleInv'
<1> DEFINE req == [op |-> op, job |-> j, was |-> job[j].status, sd |-> sd]
<1>1. req \in Request /\ request' = [request EXCEPT ![u] = req]
  BY InvParts DEF Begin, LifecycleInv, RowsOK, StoreTypeOK, JobRow, Request
<1>2. RequestOK(req)
  BY DEF RequestOK
<1> HIDE DEF req
<1>3. ApprovalTypeOK' /\ \A v \in Users : RequestOK(request[v])'
  BY <1>1, <1>2 DEF LifecycleInv, ApprovalTypeOK, RequestOK
<1> QED
  BY <1>3, AllStays DEF LifecycleInv, Backed, Begin, DecideTypeOK

LEMMA BeginKeeps ==
  ASSUME LifecycleInv, NEW u \in Users, NEW j \in Jobs, BeginAny(u, j),
         UNCHANGED <<pass, dispatch>>
  PROVE  LifecycleInv'
<1> USE DEF Verdicts
<1>1. DecisionId(j) \in {None} \cup (1 .. MaxDecisions)
  BY DecisionIds, InvParts DEF LifecycleInv, RowsOK
<1>2. ASSUME NEW verdict \in Verdicts, BeginVerdict(u, verdict, j)
      PROVE  LifecycleInv'
  <2>1. decision[j].id \in 1 .. MaxDecisions /\ decision[j].id # None
    BY <1>1, <1>2, DecisionIds, InvParts
    DEF BeginVerdict, DecisionId, LifecycleInv, RowsOK
  <2> QED
    BY <1>2, <2>1, BeginStep DEF BeginVerdict
<1>3. CASE BeginResubmit(u, j)
  BY <1>1, <1>3, BeginStep DEF BeginResubmit
<1>4. CASE BeginCancel(u, j)
  BY <1>4, BeginStep DEF BeginCancel
<1>5. CASE BeginRegister(u, j)
  BY <1>5, BeginStep DEF BeginRegister
<1> QED
  BY <1>2, <1>3, <1>4, <1>5 DEF BeginAny

\* A commit ends the request.
LEMMA RequestEnds ==
  ASSUME LifecycleInv, NEW u \in Users, request' = [request EXCEPT ![u] = None]
  PROVE  ApprovalTypeOK' /\ \A v \in Users : RequestOK(request[v])'
BY DEF LifecycleInv, ApprovalTypeOK, RequestOK

LEMMA CommitVerdictStep ==
  ASSUME LifecycleInv, NEW u \in Users, CommitVerdict(u), UNCHANGED dispatch
  PROVE  DispatcherInv' /\ Backed'
<1> USE InvParts DEF LifecycleInv, RowsOK, dispatch, Verdicts
<1> DEFINE j == request[u].job
           verdict == request[u].op
<1>1. /\ j \in Jobs /\ verdict \in Verdicts /\ request[u].sd # None
      /\ UNCHANGED <<decision, execution, issued>>
  BY DEF CommitVerdict, ApprovalTypeOK, Request, RequestOK
<1>2. CASE job[j].status = "PENDING_APPROVAL" /\ DecisionId(j) = request[u].sd
  <2>1. /\ job' = [job EXCEPT ![j].status = verdict]
        /\ approvals' = [approvals EXCEPT ![j] = approvals[j] \cup {verdict}]
    BY <1>2 DEF CommitVerdict
  <2>2. decision[j] # None
    BY <1>1, <1>2, DecisionIds
  <2> HIDE DEF j, verdict
  <2>3. job' \in [Jobs -> JobRow]
        /\ \A k \in Jobs : /\ job'[k].claim = job[k].claim
                           /\ job'[k].status = IF k = j THEN verdict ELSE job[k].status
    BY <1>1, <2>1 DEF StoreTypeOK, JobRow, Status
  <2>4. approvals' \in [Jobs -> SUBSET {"APPROVED", "DECLINED"}]
        /\ verdict \in approvals'[j]
        /\ \A k \in Jobs : approvals[k] \subseteq approvals'[k]
    BY <1>1, <2>1 DEF StoreTypeOK
  <2>5. DispatcherInv'
    <3>1. StoreTypeOK'
      BY <1>1, <2>3, <2>4 DEF StoreTypeOK
    <3> QED
      BY <1>1, <2>3, <3>1, OthersMove
  <2>6. ApprovedIsBacked' /\ PendingHasDecision'
    BY <1>1, <2>2, <2>3, <2>4, JobTableAssumption DEF ApprovedIsBacked, PendingHasDecision
  <2> QED
    BY <2>5, <2>6 DEF Backed
<1>3. CASE ~(job[j].status = "PENDING_APPROVAL" /\ DecisionId(j) = request[u].sd)
  <2>1. UNCHANGED store
    BY <1>1, <1>3 DEF CommitVerdict, store
  <2> QED
    BY <2>1, AllStays DEF Backed
<1> QED
  BY <1>2, <1>3

LEMMA CommitResubmitStep ==
  ASSUME LifecycleInv, NEW u \in Users, CommitResubmit(u), UNCHANGED dispatch
  PROVE  DispatcherInv' /\ Backed'
<1> USE InvParts DEF LifecycleInv, RowsOK, dispatch
<1> DEFINE j == request[u].job
           deletes == request[u].sd # None /\ request[u].sd = DecisionId(j)
           flushed == Flush(job[j], request[u].was, "SUBMITTED")
<1>1. j \in Jobs /\ request[u].was # "SUBMITTED"
  BY DEF CommitResubmit, ApprovalTypeOK, Request, RequestOK
<1>2. /\ job' = [job EXCEPT ![j] = flushed]
      /\ decision' = [decision EXCEPT ![j] = IF deletes THEN None ELSE @]
      /\ approvals' = [approvals EXCEPT ![j] = IF deletes THEN {} ELSE @]
      /\ UNCHANGED <<execution, issued>>
  BY DEF CommitResubmit
<1>3. flushed \in JobRow /\ flushed.claim = job[j].claim /\ flushed.status = "SUBMITTED"
  BY <1>1, FlushRow DEF StoreTypeOK, Status
<1> HIDE DEF j, deletes, flushed
<1>4. job' \in [Jobs -> JobRow]
      /\ \A k \in Jobs : /\ job'[k].claim = job[k].claim
                         /\ IF k = j THEN job'[k].status = "SUBMITTED" ELSE job'[k] = job[k]
  BY <1>1, <1>2, <1>3 DEF StoreTypeOK
<1>5. StoreTypeOK'
  BY <1>1, <1>2, <1>4 DEF StoreTypeOK
<1>6. DispatcherInv'
  BY <1>2, <1>4, <1>5, OthersMove
<1>7. Backed'
  BY <1>1, <1>2, <1>4, NothingGranted DEF StoreTypeOK, Backed
<1> QED
  BY <1>6, <1>7

LEMMA CommitStatusStep ==
  ASSUME LifecycleInv, NEW u \in Users, CommitCancel(u) \/ CommitRegister(u),
         UNCHANGED dispatch
  PROVE  DispatcherInv' /\ Backed'
<1> USE InvParts DEF LifecycleInv, RowsOK, dispatch
<1> DEFINE j == request[u].job
<1>1. j \in Jobs /\ UNCHANGED <<decision, approvals, execution, issued>>
  BY DEF CommitCancel, CommitRegister, ApprovalTypeOK, Request
<1>2. PICK status \in {"CANCELLED", "SUBMITTED"} :
        job' = [job EXCEPT ![j] = Flush(job[j], request[u].was, status)]
  BY DEF CommitCancel, CommitRegister
<1> HIDE DEF j
<1>3. job' \in [Jobs -> JobRow]
      /\ \A k \in Jobs : /\ job'[k].claim = job[k].claim
                         /\ job'[k].status \in {job[k].status, status}
  BY <1>1, <1>2, FlushRow DEF StoreTypeOK, Status
<1>4. StoreTypeOK'
  BY <1>1, <1>3 DEF StoreTypeOK
<1>5. DispatcherInv'
  BY <1>1, <1>3, <1>4, OthersMove
<1>6. Backed'
  BY <1>1, <1>3, NothingGranted DEF Backed
<1> QED
  BY <1>5, <1>6

\* What a human does to the rows.  Only a resubmission takes a decision away.
LEMMA HumanStatus ==
  ASSUME LifecycleInv, ApprovalNext, NEW j \in Jobs
  PROVE  /\ UNCHANGED execution
         /\ \/ UNCHANGED <<job[j], decision[j], approvals[j]>>
            \/ \E u \in Users :
                 /\ request[u] # None /\ request[u].job = j
                 /\ \/ /\ job[j].status = "PENDING_APPROVAL"
                       /\ job'[j].status \in {"APPROVED", "DECLINED"}
                       /\ decision'[j] = decision[j] /\ approvals[j] \subseteq approvals'[j]
                    \/ request[u].op = "RESUBMIT" /\ job'[j].status = "SUBMITTED"
                    \/ /\ request[u].op \in {"CANCEL", "REGISTER"}
                       /\ job'[j].status \in {job[j].status, "CANCELLED", "SUBMITTED"}
                       /\ UNCHANGED <<decision[j], approvals[j]>>
<1> USE InvParts DEF LifecycleInv, RowsOK, StoreTypeOK
<1>1. PICK u \in Users : CommitAny(u) \/ \E k \in Jobs : BeginAny(u, k)
  BY DEF ApprovalNext
<1>2. job[j] \in JobRow
  OBVIOUS
<1>3. ASSUME NEW k \in Jobs, BeginAny(u, k)
      PROVE  UNCHANGED <<job, decision, approvals, execution>>
  BY <1>3 DEF BeginAny, BeginVerdict, BeginResubmit, BeginCancel, BeginRegister, Begin, store
<1>4. request[u] # None => request[u].job \in Jobs /\ RequestOK(request[u])
  BY DEF ApprovalTypeOK, Request
<1>5. CASE CommitVerdict(u)
  BY <1>2, <1>4, <1>5 DEF CommitVerdict, Verdicts, JobRow
<1>6. CASE CommitResubmit(u)
  <2>1. request[u].was # "SUBMITTED" /\ "SUBMITTED" \in Status
    BY <1>4, <1>6 DEF CommitResubmit, RequestOK, Status
  <2>2. request[u].job = j => job'[j].status = "SUBMITTED"
    BY <1>2, <1>6, <2>1, FlushRow DEF CommitResubmit
  <2> QED
    BY <1>4, <1>6, <2>2 DEF CommitResubmit
<1>7. CASE CommitCancel(u) \/ CommitRegister(u)
  <2>1. "SUBMITTED" \in Status /\ "CANCELLED" \in Status
    BY DEF Status
  <2> QED
    BY <1>2, <1>4, <1>7, <2>1, FlushRow DEF CommitCancel, CommitRegister
<1> QED
  BY <1>1, <1>3, <1>5, <1>6, <1>7 DEF CommitAny

LEMMA ApprovalKeeps ==
  ASSUME LifecycleInv, ApprovalNext, UNCHANGED <<pass, dispatch>>
  PROVE  LifecycleInv'
<1>1. PICK u \in Users : CommitAny(u) \/ \E j \in Jobs : BeginAny(u, j)
  BY DEF ApprovalNext
<1>2. CASE CommitAny(u)
  <2>1. DispatcherInv' /\ Backed'
    BY <1>2, CommitVerdictStep, CommitResubmitStep, CommitStatusStep DEF CommitAny
  <2>2. request' = [request EXCEPT ![u] = None]
    BY <1>2 DEF CommitAny, CommitVerdict, CommitResubmit, CommitCancel, CommitRegister
  <2> QED
    BY <2>1, <2>2, RequestEnds DEF LifecycleInv, Backed, DecideTypeOK
<1>3. CASE \E j \in Jobs : BeginAny(u, j)
  BY <1>3, BeginKeeps
<1> QED
  BY <1>1, <1>2, <1>3

-----------------------------------------------------------------------------
(* Together.                                                               *)

LEMMA LifecycleStart == Init => LifecycleInv
<1> SUFFICES ASSUME Init PROVE LifecycleInv
  OBVIOUS
<1>1. StoreTypeOK
  BY JobTableAssumption DEF Init, StoreTypeOK, JobRow, Status
<1>2. QueuedHasExecution /\ ClaimHasLease
  BY DEF Init, QueuedHasExecution, ClaimHasLease
<1>3. DispatcherInv
  BY <1>1, <1>2, DispatcherStart, InvParts DEF Init, RowsOK
<1>4. DecideTypeOK
  BY NoPassType DEF Init, DecideInit, DecideTypeOK
<1>5. /\ ApprovalTypeOK
      /\ \A u \in Users : RequestOK(request[u])
  BY DEF Init, ApprovalInit, ApprovalTypeOK, RequestOK
<1>6. ApprovedIsBacked /\ PendingHasDecision
  BY JobTableAssumption DEF Init, ApprovedIsBacked, PendingHasDecision
<1> QED
  BY <1>3, <1>4, <1>5, <1>6 DEF LifecycleInv

\* Whatever the number of deciders, humans, workers and API sessions, and
\* however their reads and commits interleave, the rows and what the sessions
\* hold in memory stay related as LifecycleInv says.
THEOREM LifecycleInvariant == Spec => []LifecycleInv
<1>1. LifecycleInv /\ [Next]_vars => LifecycleInv'
  <2>1. ASSUME LifecycleInv, UNCHANGED vars PROVE LifecycleInv'
    BY <2>1, AllStays DEF vars, LifecycleInv, Backed, DecideTypeOK, ApprovalTypeOK, RequestOK
  <2> QED
    BY <2>1, DecideKeeps, ApprovalKeeps, DispatchKeeps DEF Next
<1> QED
  BY <1>1, LifecycleStart, PTL DEF Spec

\* A deferrable job is APPROVED only while its decision and a human approval of
\* that decision are recorded.
THEOREM ApprovalsAreBacked == Spec => []ApprovedIsBacked
<1>1. LifecycleInv => ApprovedIsBacked
  BY DEF LifecycleInv
<1> QED
  BY <1>1, LifecycleInvariant, PTL

\* A job that waits for approval, or is approved, has a schedule decision.
THEOREM PendingIsDecided == Spec => []PendingHasDecision
<1>1. LifecycleInv => PendingHasDecision
  BY DEF LifecycleInv
<1> QED
  BY <1>1, LifecycleInvariant, PTL

\* A job that got as far as QUEUED keeps an execution row for as long as it is
\* QUEUED, RUNNING or COMPLETED, resubmissions and cancellations included.
THEOREM QueuedIsExecuted == Spec => []QueuedHasExecution
<1>1. LifecycleInv => QueuedHasExecution
  BY DEF LifecycleInv, DispatcherInv
<1> QED
  BY <1>1, LifecycleInvariant, PTL

\* A verdict is recorded only by the step that takes the job out of
\* PENDING_APPROVAL to that verdict.
THEOREM VerdictsExclude == Spec => OneVerdictWins
<1>1. LifecycleInv /\ [Next]_vars =>
        [\A j \in Jobs, verdict \in Verdicts :
           verdict \in approvals'[j] \ approvals[j] =>
             job[j].status = "PENDING_APPROVAL" /\ job'[j].status = verdict]_<<job, approvals>>
  <2> SUFFICES ASSUME LifecycleInv, [Next]_vars, NEW j \in Jobs, NEW verdict \in Verdicts,
                      verdict \in approvals'[j] \ approvals[j]
               PROVE  job[j].status = "PENDING_APPROVAL" /\ job'[j].status = verdict
    OBVIOUS
  <2>1. job \in [Jobs -> JobRow] /\ approvals \in [Jobs -> SUBSET {"APPROVED", "DECLINED"}]
    BY InvParts DEF LifecycleInv, RowsOK, StoreTypeOK
  <2>2. ~DispatchNext
    BY DispatchGrantsNothing DEF LifecycleInv
  <2>3. ~DecideNext
    BY DEF DecideNext, DecideStep, StartPass, Schedule, Infeasible, FailInfeasible, Store, store
  <2>4. PICK u \in Users : CommitAny(u)
    BY <2>2, <2>3 DEF Next, ApprovalNext, BeginAny, BeginVerdict, BeginResubmit, BeginCancel,
       BeginRegister, Begin, store, vars
  <2>5. CommitVerdict(u)
    BY <2>1, <2>4 DEF CommitAny, CommitResubmit, CommitCancel, CommitRegister
  <2> QED
    BY <2>1, <2>5 DEF CommitVerdict, JobRow
<1> QED
  BY <1>1, LifecycleInvariant, PTL DEF Spec, OneVerdictWins

-----------------------------------------------------------------------------
(* How a session comes by the jobs that it dispatches.                     *)

Resting == {"idle", "promote_read", "claim", "poll_read", "poll", "sync"}

\* The session s has read rows that a later write of its tick will change.
Gathers(s) ==
  /\ s \in Workers /\ UNCHANGED job
  /\ \/ /\ session'[s].pc = "recover"
        /\ \A j \in session'[s].batch : j \in Jobs /\ job[j].status = "CLAIMING"
     \/ /\ session'[s].pc = "promote"
        /\ \A j \in session'[s].batch : j \in Jobs /\ job[j].status = "APPROVED" /\ Due(j)

\* It has claimed jobs, or was asked to dispatch one.
Takes(s) ==
  /\ session'[s].pc = "dispatch"
  /\ \/ /\ s \in Workers
        /\ \A j \in session'[s].batch :
             j \in Jobs /\ job[j].status = "READY" /\ job'[j].status = "CLAIMING"
     \/ /\ s \in Callers /\ "dispatch" \in CallerOps
        /\ \E j \in Jobs : session'[s].batch = {j} /\ session'[s].loaded = Load(j)

\* It takes a job from its batch in hand.
Picks(s) ==
  /\ session[s].pc = "dispatch" /\ session'[s].pc = "mark"
  /\ session'[s].batch = session[s].batch /\ session'[s].cur \in session[s].batch
  /\ \E row \in {session[s].loaded, Load(session'[s].cur)} : row.status \in DispatchableStatus

\* It keeps that job in hand, or lets go of one and has others left.
Keeps(s) ==
  /\ session[s].pc \in Committed /\ session'[s].pc \in Holding
  /\ session'[s].batch = session[s].batch /\ session'[s].cur = session[s].cur

LetsGo(s) ==
  /\ session'[s].pc = "dispatch" /\ session'[s].batch # {}
  /\ \/ session[s].pc = "dispatch"
        /\ \E j \in session[s].batch : session'[s].batch = session[s].batch \ {j}
     \/ session[s].pc \in Holding /\ session'[s].batch = session[s].batch \ {session[s].cur}

LEMMA AfterBatch ==
  ASSUME DispatcherInv, NEW s \in Sessions, NEW j \in Jobs
  PROVE  /\ After(s, j, "poll", "idle").pc \in Resting
         /\ \/ AfterDispatch(s, j).pc \in Resting
            \/ /\ AfterDispatch(s, j).pc = "dispatch"
               /\ AfterDispatch(s, j).batch = session[s].batch \ {j}
               /\ AfterDispatch(s, j).batch # {}
<1>1. session[s] \in SessionRow
  BY InvParts DEF SessionsOK
<1>2. CASE session[s].batch \ {j} = {}
  BY <1>2 DEF After, AfterDispatch, At, Resting
<1>3. CASE session[s].batch \ {j} # {}
  BY <1>1, <1>3 DEF After, AfterDispatch, Resting, SessionRow
<1> QED
  BY <1>2, <1>3

LEMMA WorkerMoves ==
  ASSUME DispatcherInv, NEW w \in Workers, WorkerStep(w) \/ Crash(w),
         NEW s \in Sessions, session'[s] # session[s]
  PROVE  session'[s].pc \in Resting \/ Gathers(s) \/ Takes(s)
<1> USE InvParts DEF SessionsOK, Resting
<1>1. \A pc, batch, loaded, runs :
        /\ At(pc, batch).pc = pc /\ At(pc, batch).batch = batch
        /\ [At(pc, batch) EXCEPT !.loaded = loaded].pc = pc
        /\ [At(pc, batch) EXCEPT !.loaded = loaded].batch = batch
        /\ [At(pc, batch) EXCEPT !.runs = runs].pc = pc
  BY DEF At
<1>2. CASE RecoverRead(w)
  <2>1. s = w /\ UNCHANGED job
    BY <1>2 DEF RecoverRead, store
  <2>2. PICK expired \in SUBSET {j \in Jobs : job[j].status = "CLAIMING"} :
          session' = [session EXCEPT ![w] =
            At(IF expired = {} THEN "promote_read" ELSE "recover", expired)]
    BY <1>2 DEF RecoverRead
  <2>3. session'[s] = At(IF expired = {} THEN "promote_read" ELSE "recover", expired)
    BY <2>1, <2>2
  <2> QED
    BY <1>1, <2>1, <2>3 DEF Gathers
<1>3. CASE RecoverWrite(w)
  BY <1>1, <1>3 DEF RecoverWrite
<1>4. CASE PromoteRead(w)
  <2>1. s = w /\ UNCHANGED job
    BY <1>4 DEF PromoteRead, store
  <2>2. PICK due \in SUBSET {j \in Jobs : job[j].status = "APPROVED" /\ Due(j)} :
          session' = [session EXCEPT ![w] =
            At(IF due = {} THEN "claim" ELSE "promote", due)]
    BY <1>4 DEF PromoteRead
  <2>3. session'[s] = At(IF due = {} THEN "claim" ELSE "promote", due)
    BY <2>1, <2>2
  <2> QED
    BY <1>1, <2>1, <2>3 DEF Gathers
<1>5. CASE PromoteWrite(w)
  BY <1>1, <1>5 DEF PromoteWrite
<1>6. CASE ClaimReady(w)
  <2>1. s = w
    BY <1>6 DEF ClaimReady
  <2>2. CASE session' = [session EXCEPT ![w] = At("poll_read", {})]
    BY <1>1, <2>2
  <2>3. CASE session' # [session EXCEPT ![w] = At("poll_read", {})]
    <3>1. PICK b \in SUBSET {j \in Jobs : job[j].status = "READY"} :
            /\ job' = [j \in Jobs |->
                 IF j \in b
                 THEN [status |-> "CLAIMING", claim |-> [by |-> w, left |-> LeaseTicks]]
                 ELSE job[j]]
            /\ session' = [session EXCEPT ![w] =
                 [At("dispatch", b) EXCEPT
                    !.loaded = [status |-> "CLAIMING", claimed |-> TRUE]]]
      BY <1>6, <2>3 DEF ClaimReady
    <3>2. session'[s].pc = "dispatch" /\ session'[s].batch = b
      BY <1>1, <2>1, <3>1
    <3> QED
      BY <2>1, <3>1, <3>2 DEF Takes
  <2> QED
    BY <2>2, <2>3
<1>7. CASE PollRead(w)
  BY <1>1, <1>7 DEF PollRead, Idle
<1>8. CASE Crash(w)
  BY <1>1, <1>8 DEF Crash, Idle
<1> QED
  BY <1>2, <1>3, <1>4, <1>5, <1>6, <1>7, <1>8 DEF WorkerStep

LEMMA RequestMoves ==
  ASSUME DispatcherInv, NEW c \in Callers, NEW j \in Jobs,
         RequestDispatch(c, j) \/ RequestStatus(c, j),
         NEW s \in Sessions, session'[s] # session[s]
  PROVE  session'[s].pc \in Resting \/ Takes(s)
<1>1. CASE RequestDispatch(c, j)
  <2>1. s = c /\ session'[s] = [At("dispatch", {j}) EXCEPT !.loaded = Load(j)]
    BY <1>1, InvParts DEF SessionsOK, RequestDispatch
  <2>2. /\ session'[s].pc = "dispatch" /\ session'[s].batch = {j}
        /\ session'[s].loaded = Load(j)
    BY <2>1 DEF At
  <2> QED
    BY <1>1, <2>1, <2>2 DEF RequestDispatch, Takes
<1>2. CASE RequestStatus(c, j)
  <2>1. s = c /\ session'[s] = [At("poll", {j}) EXCEPT !.loaded = Load(j), !.runs = LoadRuns({j})]
    BY <1>2, InvParts DEF SessionsOK, RequestStatus
  <2> QED
    BY <2>1 DEF At, Resting
<1> QED
  BY <1>1, <1>2

LEMMA DispatchMoves ==
  ASSUME DispatcherInv, NEW t \in Sessions, SessionStep(t),
         NEW s \in Sessions, session'[s] # session[s]
  PROVE  \/ session'[s].pc \in Resting
         \/ Picks(s) \/ Keeps(s) \/ LetsGo(s)
<1> USE InvParts DEF SessionsOK
<1>1. session[t] \in SessionRow /\ session[t].batch \subseteq Jobs
  BY DEF SessionRow
<1>2. CASE Validate(t)
  <2>1. PICK j \in session[t].batch : \E loaded \in {session[t].loaded, Load(j)} :
          session' = [session EXCEPT ![t] =
            IF loaded.status \in DispatchableStatus /\ Due(j)
            THEN [session[t] EXCEPT !.pc = "mark", !.cur = j, !.loaded = loaded]
            ELSE AfterDispatch(t, j)]
    BY <1>2 DEF Validate
  <2>2. PICK loaded \in {session[t].loaded, Load(j)} : session' = [session EXCEPT ![t] =
            IF loaded.status \in DispatchableStatus /\ Due(j)
            THEN [session[t] EXCEPT !.pc = "mark", !.cur = j, !.loaded = loaded]
            ELSE AfterDispatch(t, j)]
    BY <2>1
  <2>3. s = t
    BY <2>2
  <2>4. CASE loaded.status \in DispatchableStatus /\ Due(j)
    <3> DEFINE row == [session[t] EXCEPT !.pc = "mark", !.cur = j, !.loaded = loaded]
    <3>1. row.pc = "mark" /\ row.cur = j /\ row.batch = session[t].batch
      BY <1>1 DEF SessionRow
    <3>2. session' = [session EXCEPT ![t] = row]
      BY <2>2, <2>4
    <3> HIDE DEF row
    <3>3. session'[s] = row
      BY <2>3, <3>2
    <3> QED
      BY <1>1, <1>2, <2>3, <2>4, <3>1, <3>3 DEF Validate, Picks
  <2>5. CASE ~(loaded.status \in DispatchableStatus /\ Due(j))
    <3>1. session'[s] = AfterDispatch(s, j)
      BY <2>2, <2>3, <2>5
    <3>2. session[s].pc = "dispatch" /\ j \in session[s].batch
      BY <1>2, <2>3 DEF Validate
    <3> QED
      BY <1>1, <2>3, <3>1, <3>2, AfterBatch DEF LetsGo
  <2> QED
    BY <2>4, <2>5
<1>3. CASE MarkDispatching(t) \/ ReadCluster(t) \/ CreateInCluster(t)
  BY <1>1, <1>3 DEF MarkDispatching, ReadCluster, CreateInCluster, SessionRow, Keeps, Holding, Committed
<1>4. CASE MarkJobFailed(t) \/ RecordExecution(t)
  <2>1. session[t].cur \in Jobs /\ session[t].pc \in Holding /\ s = t
    BY <1>4 DEF MarkJobFailed, RecordExecution, HandOK, Holding
  <2>2. session'[s] = AfterDispatch(s, session[s].cur) \/ session'[s] = Idle
    BY <1>4, <2>1 DEF MarkJobFailed, RecordExecution
  <2>3. Idle.pc \in Resting
    BY DEF Idle, At, Resting
  <2> QED
    BY <2>1, <2>2, <2>3, AfterBatch DEF LetsGo
<1>5. CASE Observe(t)
  <2>1. PICK j \in session[t].batch :
          \/ \E answer \in {cluster[j].phase} \cup (Faults \cap {"unreachable"}) :
               session' = [session EXCEPT ![t] =
                 [session[t] EXCEPT !.pc = "sync", !.cur = j, !.seen = answer,
                    !.loaded = IF t \in Workers THEN Load(j) ELSE session[t].loaded]]
          \/ session' = [session EXCEPT ![t] = After(t, j, "poll", "idle")]
    BY <1>5 DEF Observe
  <2>2. ASSUME NEW answer, NEW loaded,
               session' = [session EXCEPT ![t] =
                 [session[t] EXCEPT !.pc = "sync", !.cur = j, !.seen = answer,
                                    !.loaded = loaded]]
        PROVE  session'[s].pc \in Resting
    <3> DEFINE row == [session[t] EXCEPT !.pc = "sync", !.cur = j, !.seen = answer,
                                         !.loaded = loaded]
    <3>1. row.pc \in Resting
      BY <1>1 DEF SessionRow, Resting
    <3>2. session' = [session EXCEPT ![t] = row]
      BY <2>2
    <3> HIDE DEF row
    <3> QED
      BY <3>1, <3>2
  <2>3. CASE session' = [session EXCEPT ![t] = After(t, j, "poll", "idle")]
    BY <1>1, <2>3, AfterBatch
  <2> QED
    BY <2>1, <2>2, <2>3
<1>6. CASE SyncStatus(t)
  BY <1>1, <1>6, AfterBatch DEF SyncStatus, PollOK
<1> QED
  BY <1>2, <1>3, <1>4, <1>5, <1>6 DEF SessionStep

LEMMA SessionMoves ==
  ASSUME DispatcherInv, DispatchNext, NEW s \in Sessions, session'[s] # session[s]
  PROVE  \/ session'[s].pc \in Resting
         \/ Gathers(s) \/ Takes(s) \/ Picks(s) \/ Keeps(s) \/ LetsGo(s)
BY WorkerMoves, RequestMoves, DispatchMoves
DEF DispatchNext, ClusterStep, StartPod, FinishPod, RemoveFinished, Tick, dispatch

-----------------------------------------------------------------------------
(* Nothing starts unapproved while no schedule is withdrawn.               *)

LEMMA AuthorisedStay ==
  ASSUME LifecycleInv, [Next]_vars, "RESUBMIT" \notin Ops, NEW j \in Authorised
  PROVE  j \in Authorised'
<1> USE DEF LifecycleInv
<1>1. j \in Jobs /\ decision[j] # None /\ (j \in Deferrable => "APPROVED" \in approvals[j])
  BY DEF Authorised
<1>2. CASE DispatchNext
  BY <1>1, <1>2, DispatchGrantsNothing DEF Authorised
<1>3. CASE DecideNext
  BY <1>1, <1>3, DecideStatus DEF DecideNext, Authorised
<1>4. CASE ApprovalNext
  <2>1. \A u \in Users : request[u] # None => request[u].op # "RESUBMIT"
    BY DEF ApprovalTypeOK, Request
  <2>2. decision'[j] = decision[j] /\ approvals[j] \subseteq approvals'[j]
    BY <1>1, <1>4, <2>1, HumanStatus
  <2> QED
    BY <1>1, <2>2 DEF Authorised
<1>5. CASE UNCHANGED vars
  BY <1>1, <1>5 DEF vars, store, Authorised
<1> QED
  BY <1>2, <1>3, <1>4, <1>5 DEF Next

\* A job that got as far as an approval has one.
LEMMA DispatchableIsAuthorised ==
  ASSUME LifecycleInv, GrantInv, NEW j \in Jobs, job[j].status \in DispatchableStatus
  PROVE  j \in Authorised
<1>1. CASE job[j].status = "APPROVED"
  BY <1>1 DEF LifecycleInv, ApprovedIsBacked, PendingHasDecision, Authorised
<1>2. CASE job[j].status = "QUEUED"
  BY <1>2 DEF LifecycleInv, DispatcherInv, QueuedHasExecution, GrantInv
<1>3. CASE job[j].status \in UnderWay
  BY <1>3 DEF GrantInv
<1> QED
  BY <1>1, <1>2, <1>3 DEF DispatchableStatus, UnderWay

LEMMA GrantedStays ==
  ASSUME NEW s \in Sessions, Granted(session[s]), session'[s] = session[s],
         Authorised \subseteq Authorised'
  PROVE  Granted(session[s])'
BY DEF Granted

LEMMA GrantedMoves ==
  ASSUME LifecycleInv, GrantInv, DispatchNext, Authorised \subseteq Authorised',
         NEW s \in Sessions, session'[s] # session[s]
  PROVE  Granted(session[s])'
<1> USE DEF Granted
<1>1. Granted(session[s])
  BY DEF GrantInv
<1>2. CASE session'[s].pc \in Resting
  BY <1>2 DEF Resting, Holding
<1>3. CASE Gathers(s)
  BY <1>3, DispatchableIsAuthorised DEF Gathers, Holding, DispatchableStatus
<1>4. CASE Takes(s)
  <2>1. CASE \A j \in session'[s].batch : j \in Jobs /\ job[j].status = "READY"
    BY <1>4, <2>1, DispatchableIsAuthorised DEF Takes, Holding, DispatchableStatus
  <2>2. ASSUME NEW j \in Jobs, session'[s].batch = {j}, session'[s].loaded = Load(j)
        PROVE  Granted(session[s])'
    <3>1. session'[s].loaded.status = job[j].status
      BY <2>2 DEF Load
    <3> QED
      BY <1>4, <2>2, <3>1, DispatchableIsAuthorised DEF Takes, Holding
  <2> QED
    BY <1>4, <2>1, <2>2 DEF Takes
<1>5. CASE Picks(s)
  <2>1. session[s].batch \subseteq Authorised
    <3>1. session[s].batch \subseteq Jobs
      BY InvParts DEF LifecycleInv, SessionsOK, SessionRow
    <3>2. CASE session[s].loaded.status \in DispatchableStatus
      BY <1>1, <1>5, <3>2 DEF Picks
    <3>3. CASE Load(session'[s].cur).status \in DispatchableStatus
      <4>1. session'[s].cur \in Authorised
        BY <1>5, <3>1, <3>3, DispatchableIsAuthorised DEF Picks, Load
      <4> QED
        BY <1>1, <1>5, <4>1 DEF Picks
    <3> QED
      BY <1>5, <3>2, <3>3 DEF Picks
  <2> QED
    BY <1>5, <2>1 DEF Picks, Holding
<1>6. CASE Keeps(s)
  BY <1>1, <1>6 DEF Keeps, Holding, Committed
<1>7. CASE LetsGo(s)
  BY <1>1, <1>7 DEF LetsGo, Holding
<1> QED
  BY <1>2, <1>3, <1>4, <1>5, <1>6, <1>7, SessionMoves DEF LifecycleInv

LEMMA GrantStep ==
  ASSUME LifecycleInv, GrantInv, [Next]_vars, "RESUBMIT" \notin Ops
  PROVE  GrantInv'
<1>1. Authorised \subseteq Authorised'
  BY AuthorisedStay
<1>2. ASSUME NEW s \in Sessions
      PROVE  Granted(session[s])'
  <2>1. CASE session'[s] = session[s]
    BY <1>1, <2>1, GrantedStays DEF GrantInv
  <2>2. CASE session'[s] # session[s]
    <3>1. DispatchNext
      BY <2>2 DEF Next, vars, dispatch
    <3> QED
      BY <1>1, <2>2, <3>1, GrantedMoves
  <2> QED
    BY <2>1, <2>2
<1>3. ASSUME NEW j \in Jobs, job'[j].status \in UnderWay \/ execution'[j] # None
      PROVE  j \in Authorised
  <2> USE DEF LifecycleInv
  <2>1. CASE DispatchNext
    <3>1. \A s \in Sessions : session[s].pc \in Holding /\ session[s].cur = j => j \in Authorised
      BY DEF GrantInv, Granted
    <3>2. CASE execution'[j] # None
      <4>1. execution[j] = None => \E s \in Sessions : session[s].pc = "record" /\ session[s].cur = j
        BY <2>1, <3>2, OnlyRecords
      <4> QED
        BY <3>1, <4>1 DEF GrantInv, Holding
    <3>3. CASE job'[j].status \in UnderWay
      <4>1. \A w \in Workers : session[w].pc \in {"recover", "promote"} /\ j \in session[w].batch
                                 => j \in Authorised
        BY DEF GrantInv, Granted, Sessions
      <4> QED
        BY <2>1, <3>1, <3>3, <4>1, DispatchStatus DEF GrantInv, UnderWay, ExecutionStatus
    <3> QED
      BY <1>3, <3>2, <3>3
  <2>2. CASE DecideNext
    BY <1>3, <2>2, DecideStatus DEF DecideNext, GrantInv, UnderWay
  <2>3. CASE ApprovalNext
    BY <1>3, <2>3, HumanStatus DEF GrantInv, UnderWay
  <2>4. CASE UNCHANGED vars
    BY <1>3, <2>4 DEF vars, store, GrantInv
  <2> QED
    BY <2>1, <2>2, <2>3, <2>4 DEF Next
<1> QED
  BY <1>1, <1>2, <1>3 DEF GrantInv

\* Where no schedule is withdrawn by a resubmission, a deferrable job is handed
\* to Kubernetes only while its schedule stands approved, however many deciders,
\* humans, workers and API sessions interleave, cancel, register again, crash
\* and lose their answers.
THEOREM StartsAreApproved ==
  ASSUME "RESUBMIT" \notin Ops
  PROVE  Spec => OnlyApprovedStarts
<1>1. Init => GrantInv
  BY JobTableAssumption
  DEF Init, DispatchInit, GrantInv, Granted, UnderWay, Idle, At, Holding
<1>2. LifecycleInv /\ GrantInv /\ [Next]_vars => GrantInv'
  BY GrantStep
<1>3. LifecycleInv /\ GrantInv /\ [Next]_vars =>
        [\A j \in Deferrable : cluster'[j].runs > cluster[j].runs => j \in Authorised]_vars
  <2> SUFFICES ASSUME LifecycleInv, GrantInv, [Next]_vars, ~UNCHANGED vars,
                      NEW j \in Deferrable, cluster'[j].runs > cluster[j].runs
               PROVE  j \in Authorised
    OBVIOUS
  <2>1. j \in Jobs
    BY JobTableAssumption
  <2>2. cluster[j].runs \in 0 .. 2
    BY <2>1, InvParts DEF LifecycleInv, EnvOK, ClusterRow
  <2>3. DispatchNext
    BY <2>2 DEF Next, dispatch
  <2>4. PICK s \in Sessions : session[s].pc = "create" /\ session[s].cur = j
    BY <2>1, <2>3, OnlyCreates DEF LifecycleInv
  <2> QED
    BY <2>4 DEF GrantInv, Granted, Holding
<1> QED
  BY <1>1, <1>2, <1>3, LifecycleInvariant, PTL DEF Spec, OnlyApprovedStarts

-----------------------------------------------------------------------------
(* The promise, when the jobs that have not started are in one hand.       *)

OneHandState == LifecycleInv /\ Created /\ OneHandInv

LEMMA UnstartedStays ==
  ASSUME OneHandState, DispatchNext \/ UNCHANGED dispatch
  PROVE  Unstarted' \subseteq Unstarted
<1>1. cluster \in [Jobs -> ClusterRow]
  BY InvParts DEF OneHandState, LifecycleInv, EnvOK
<1>2. ASSUME NEW j \in Jobs, cluster[j].runs > 0
      PROVE  cluster'[j].runs > 0
  BY <1>2, RunsStay DEF OneHandState, LifecycleInv, dispatch
<1>3. \A j \in Jobs : cluster[j].runs \in 0 .. 2
  BY <1>1 DEF ClusterRow
<1> QED
  BY <1>2, <1>3 DEF Unstarted

\* The cluster is given a Job only once, by a session that has the job in hand.
LEMMA ClusterMoves ==
  ASSUME OneHandState, DispatchNext, OneHand
  PROVE  /\ \A j \in Jobs : cluster'[j].runs > 0 => cluster'[j].phase # "absent"
         /\ \/ \A j \in Jobs : cluster'[j].runs = cluster[j].runs
            \/ \E s \in Sessions, j \in Unstarted :
                 /\ session[s].pc = "create" /\ session[s].cur = j
                 /\ cluster'[j].runs = 1
                 /\ \A k \in Jobs \ {j} : cluster'[k].runs = cluster[k].runs
<1>1. /\ cluster \in [Jobs -> ClusterRow]
      /\ \A j \in Jobs : cluster[j].runs > 0 => cluster[j].phase # "absent"
      /\ \A j \in Jobs : cluster[j].phase # "absent" => cluster[j].runs > 0
  BY InvParts DEF OneHandState, LifecycleInv, OneHandInv, Created, EnvOK
<1>2. ASSUME NEW k \in Jobs, StartPod(k) \/ FinishPod(k)
      PROVE  \A j \in Jobs : /\ cluster'[j].runs = cluster[j].runs
                             /\ cluster'[j].phase = "absent" => cluster[j].phase = "absent"
  BY <1>1, <1>2 DEF StartPod, FinishPod, ClusterRow
<1>3. ASSUME NEW s \in Sessions, CreateInCluster(s), CreateJob(session[s].cur),
             cluster[session[s].cur].phase = "absent"
      PROVE  \E j \in Unstarted :
               /\ session[s].pc = "create" /\ session[s].cur = j
               /\ cluster'[j].runs = 1 /\ cluster'[j].phase = "pending"
               /\ \A k \in Jobs \ {j} : cluster'[k] = cluster[k]
  <2> DEFINE j == session[s].cur
  <2>1. session[s].pc = "create" /\ j \in Jobs
    BY <1>3, InvParts DEF CreateInCluster, OneHandState, LifecycleInv, SessionsOK, HandOK, Holding
  <2>2. cluster[j].runs = 0
    BY <1>1, <1>3, <2>1 DEF ClusterRow
  <2> QED
    BY <1>1, <1>3, <2>1, <2>2 DEF CreateJob, Unstarted, ClusterRow
<1>4. \/ UNCHANGED cluster
      \/ \E k \in Jobs : StartPod(k) \/ FinishPod(k)
      \/ \E s \in Sessions : /\ CreateInCluster(s) /\ CreateJob(session[s].cur)
                             /\ cluster[session[s].cur].phase = "absent"
  BY DEF OneHand, DispatchNext, WorkerStep, SessionStep, RecoverRead, RecoverWrite,
     PromoteRead, PromoteWrite, ClaimReady, PollRead, Crash, Validate, MarkDispatching,
     ReadCluster, CreateInCluster, MarkJobFailed, RecordExecution, Observe, SyncStatus,
     RequestDispatch, RequestStatus, ClusterStep, RemoveFinished, Tick, dispatch
<1> QED
  BY <1>1, <1>2, <1>3, <1>4

-----------------------------------------------------------------------------
(* The worker.                                                             *)

\* An unstarted job changes in the hands of the worker alone, and only from the
\* statuses that are the worker's.
LEMMA UnstartedStatus ==
  ASSUME OneHandState, OneHand, DispatchNext, NEW j \in Unstarted,
         job'[j].status # job[j].status
  PROVE  /\ \/ job[j].status \in UnderWay
            \/ job[j].status = "APPROVED" /\ Due(j)
         /\ job'[j].status \in UnderWay \cup {"FAILED", "QUEUED"}
         /\ \/ job[j].status = "READY" /\ job'[j].status = "CLAIMING"
            \/ \E w \in Workers :
                 /\ session'[w] # session[w]
                 /\ \/ session[w].pc \in {"recover", "promote"}
                    \/ /\ session[w].pc \in Holding /\ session[w].cur = j
                       /\ \/ job'[j].status = "DISPATCHING"
                          \/ session[w].pc \in {"fail", "record"}
<1> USE DEF OneHandState
<1>1. j \in Jobs /\ execution[j] = None
  BY DEF Unstarted, Created, ExecutionBacked
<1>2. ASSUME NEW w \in Workers, session[w].pc \in {"recover", "promote"}, j \in session[w].batch
      PROVE  \/ job[j].status = "CLAIMING"
             \/ job[j].status = "APPROVED" /\ Due(j)
  BY <1>2 DEF OneHandInv, WithWorker, Sessions
<1>3. ASSUME NEW s \in Sessions, session[s].pc \in Holding, session[s].cur = j
      PROVE  s \in Workers /\ job[j].status \in {"CLAIMING", "DISPATCHING"}
  BY <1>3 DEF OneHandInv, WithWorker, Sessions
<1> QED
  BY <1>1, <1>2, <1>3, DispatchStatus DEF LifecycleInv, UnderWay, Sessions

\* What a session keeps for the worker's next write stays as it was read.
LEMMA BatchStays ==
  ASSUME OneHandState, OneHand, DispatchNext, NEW w \in Workers, session'[w] = session[w],
         NEW j \in Unstarted, job[j].status # "READY"
  PROVE  job'[j].status = job[j].status
BY UnstartedStatus DEF OneHand

\* A step that keeps the batch leaves its jobs where they are.
LEMMA HeldStays ==
  ASSUME OneHandState, OneHand, DispatchNext, NEW w \in Workers,
         NEW j \in session[w].batch \cap Unstarted,
         session[w].pc \in {"dispatch"} \cup Holding,
         session[w].pc \in Committed \/ session[w].pc = "dispatch" \/ session[w].cur # j
  PROVE  job'[j].status \in {"CLAIMING", "DISPATCHING"}
<1>1. job[j].status \in {"CLAIMING", "DISPATCHING"}
  BY DEF OneHandState, OneHandInv, WithWorker, Sessions
<1>2. CASE job'[j].status # job[j].status
  <2>1. PICK v \in Workers :
           \/ session[v].pc \in {"recover", "promote"}
           \/ /\ session[v].pc \in Holding /\ session[v].cur = j
              /\ \/ job'[j].status = "DISPATCHING"
                 \/ session[v].pc \in {"fail", "record"}
    BY <1>1, <1>2, UnstartedStatus
  <2>2. v = w
    BY DEF OneHand
  <2> QED
    BY <2>1, <2>2 DEF Holding, Committed
<1> QED
  BY <1>1, <1>2

LEMMA WithWorkerStep ==
  ASSUME OneHandState, OneHand, DispatchNext, NEW s \in Sessions
  PROVE  /\ WithWorker(session[s])'
         /\ s \in Callers =>
              session'[s].pc \notin {"recover", "promote", "dispatch"} \cup Holding
<1> USE DEF OneHandState
<1>1. /\ WithWorker(session[s]) /\ Unstarted' \subseteq Unstarted
      /\ s \in Callers => session[s].pc \notin {"recover", "promote", "dispatch"} \cup Holding
      /\ s \in Workers \/ s \in Callers
      /\ s \in Callers => s \notin Workers
  BY UnstartedStays, DispatcherAssumption DEF OneHandInv, Sessions
<1>2. session[s].batch \subseteq Jobs /\ session'[s].batch \subseteq Jobs
  <2>1. DispatcherInv /\ DispatcherInv'
    BY DispatcherStep DEF LifecycleInv
  <2> QED
    BY <2>1 DEF DispatcherInv, DispatcherTypeOK, SessionRow
<1>3. \A j \in Jobs : Due(j) => Due(j)'
  BY DueStays DEF LifecycleInv
<1>4. CASE session'[s] = session[s]
  <2>1. CASE s \in Workers
    BY <1>1, <1>2, <1>3, <1>4, <2>1, BatchStays DEF WithWorker
  <2>2. CASE s \in Callers
    BY <1>1, <1>4, <2>2 DEF WithWorker
  <2> QED
    BY <1>1, <2>1, <2>2
<1>5. CASE session'[s].pc \in Resting
  BY <1>5 DEF Resting, Holding, WithWorker
<1>6. CASE Gathers(s)
  BY <1>1, <1>3, <1>6 DEF Gathers, WithWorker, Holding
<1>7. CASE Takes(s)
  BY <1>1, <1>7 DEF Takes, OneHand, WithWorker, Holding
<1>8. CASE Picks(s)
  BY <1>1, <1>8, HeldStays DEF Picks, WithWorker, Holding
<1>9. CASE Keeps(s)
  BY <1>1, <1>9, HeldStays DEF Keeps, WithWorker, Holding, Committed
<1>10. CASE LetsGo(s)
  <2>1. s \in Workers
    BY <1>1, <1>10 DEF LetsGo
  <2>2. \A j \in session'[s].batch \cap Unstarted : job'[j].status \in {"CLAIMING", "DISPATCHING"}
    BY <1>10, <2>1, HeldStays DEF LetsGo
  <2> QED
    BY <1>1, <1>10, <2>1, <2>2 DEF LetsGo, WithWorker, Holding
<1> QED
  BY <1>4, <1>5, <1>6, <1>7, <1>8, <1>9, <1>10, SessionMoves DEF LifecycleInv

\* What the dispatcher does leaves the unstarted jobs in one hand.
LEMMA DispatchHand ==
  ASSUME OneHandState, OneHand, DispatchNext, UNCHANGED <<pass, request>>
  PROVE  OneHandInv'
<1> USE DEF OneHandState
<1>1. Unstarted' \subseteq Unstarted
  BY UnstartedStays
<1>2. \A j \in Jobs : cluster'[j].runs > 0 => cluster'[j].phase # "absent"
  BY ClusterMoves
<1>3. ASSUME NEW j \in Unstarted, job'[j].status \in UnderWay
      PROVE  j \in Authorised' /\ Due(j)'
  <2>1. job[j].status \in UnderWay \/ (job[j].status = "APPROVED" /\ Due(j))
    BY <1>3, UnstartedStatus
  <2>2. j \in Authorised /\ Due(j)
    BY <2>1 DEF OneHandInv, LifecycleInv, ApprovedIsBacked, PendingHasDecision, Authorised, Unstarted
  <2> QED
    BY <2>2, DispatchGrantsNothing, DueStays DEF Authorised, LifecycleInv
<1>4. \A s \in Sessions : WithWorker(session[s])'
  BY WithWorkerStep
<1>5. \A c \in Callers : session'[c].pc \notin {"recover", "promote", "dispatch"} \cup Holding
  BY WithWorkerStep DEF Sessions
<1>6. ASSUME NEW j \in Unstarted,
             job[j].status \in {"SUBMITTED", "DECLINED", "CANCELLED", "FAILED"}
      PROVE  job'[j].status = job[j].status
  BY <1>6, UnstartedStatus DEF UnderWay
<1>7. \A d \in Deciders : WithDecider(pass[d])'
  BY <1>1, <1>6 DEF OneHandInv, WithDecider
<1>8. \A u \in Users : WithHuman(request[u])'
  BY <1>1, <1>6 DEF OneHandInv, WithHuman, LifecycleInv, RequestOK
<1> QED
  BY <1>1, <1>2, <1>3, <1>4, <1>5, <1>7, <1>8 DEF OneHandInv

-----------------------------------------------------------------------------
(* The decider and the human.                                              *)

\* A job with the worker is out of their reach.
LEMMA OthersHand ==
  ASSUME OneHandState, UNCHANGED <<execution, dispatch>>,
         \A j \in Unstarted :
           \/ UNCHANGED <<job[j], decision[j], approvals[j]>>
           \/ /\ job[j].status \notin UnderWay \cup {"APPROVED"}
              /\ job'[j].status \notin UnderWay,
         \A d \in Deciders : WithDecider(pass[d])',
         \A u \in Users : WithHuman(request[u])'
  PROVE  OneHandInv'
<1> USE DEF OneHandState
<1>1. Unstarted' = Unstarted /\ UNCHANGED <<session, cluster>>
  BY DEF Unstarted, dispatch
<1>2. ASSUME NEW j \in Unstarted, job'[j].status \in UnderWay
      PROVE  j \in Authorised' /\ Due(j)'
  <2>1. UNCHANGED <<job[j], decision[j], approvals[j]>>
    BY <1>2
  <2> QED
    BY <1>2, <2>1 DEF OneHandInv, Authorised, Due
<1>3. ASSUME NEW s \in Sessions
      PROVE  WithWorker(session[s])'
  <2>1. ASSUME NEW j \in Unstarted, job[j].status \in UnderWay \cup {"APPROVED"}
        PROVE  job'[j].status = job[j].status /\ (Due(j) => Due(j)')
    BY <2>1 DEF Due
  <2> QED
    BY <1>1, <2>1 DEF OneHandInv, WithWorker, UnderWay
<1> QED
  BY <1>1, <1>2, <1>3 DEF OneHandInv

\* The jobs that a pass goes on with are those it had, less the ones it stored,
\* and they are submitted.
LEMMA PassMoves ==
  ASSUME OneHandState, OneHand, NEW d \in Deciders, DecideStep(d), NEW j \in Unstarted,
         pass'[d].loaded[j] # None
  PROVE  /\ pass'[d].loaded[j] = "SUBMITTED" /\ job[j].status = "SUBMITTED"
         /\ UNCHANGED <<job[j], decision[j]>>
<1> USE DEF OneHandState
<1>1. /\ j \in Jobs /\ pass[d] \in PassRow /\ d \notin Batchers
      /\ pass[d].loaded[j] # None => pass[d].loaded[j] = "SUBMITTED" /\ job[j].status = "SUBMITTED"
  BY DEF Unstarted, OneHandInv, WithDecider, LifecycleInv, DecideTypeOK, OneHand
<1>2. NoPass.loaded[j] = None
  BY <1>1 DEF NoPass
<1>3. pass \in [Deciders -> PassRow]
  BY DEF LifecycleInv, DecideTypeOK
<1>4. ASSUME NEW done, Advance(d, done)
      PROVE  /\ j \notin done /\ pass[d].loaded[j] # None
             /\ pass'[d].loaded[j] = "SUBMITTED"
  <2>1. PICK reload \in BOOLEAN : pass' = [pass EXCEPT ![d] =
        IF Todo(d) \subseteq done THEN NoPass
        ELSE [NoPass EXCEPT !.pc = "schedule",
                !.loaded = [k \in Jobs |->
                   IF k \notin Todo(d) \ done THEN None
                   ELSE IF reload THEN job[k].status ELSE pass[d].loaded[k]]]]
    BY <1>4 DEF Advance
  <2>2. pass'[d].loaded = [k \in Jobs |->
                   IF k \notin Todo(d) \ done THEN None
                   ELSE IF reload THEN job[k].status ELSE pass[d].loaded[k]]
    BY <1>2, <1>3, <2>1 DEF NoPass
  <2> QED
    BY <1>1, <2>2 DEF Todo
<1>5. CASE StartPass(d)
  <2>1. PICK batch \in SUBSET Jobs :
          /\ MayStart(d, batch)
          /\ pass' = [pass EXCEPT ![d] =
               [NoPass EXCEPT !.pc = "schedule",
                  !.loaded = [k \in Jobs |-> IF k \in batch THEN job[k].status ELSE None]]]
    BY <1>5 DEF StartPass
  <2>2. pass'[d].loaded = [k \in Jobs |-> IF k \in batch THEN job[k].status ELSE None]
    BY <1>3, <2>1 DEF NoPass
  <2>3. batch \subseteq Submitted
    BY <1>1, <2>1 DEF MayStart
  <2> QED
    BY <1>1, <1>5, <2>2, <2>3 DEF StartPass, Submitted, store
<1>6. CASE Schedule(d)
  <2>1. pass'[d].loaded = pass[d].loaded
    BY <1>3, <1>6 DEF Schedule, PassRow
  <2> QED
    BY <1>1, <1>6, <2>1 DEF Schedule, store
<1>7. CASE Infeasible(d)
  <2>1. UNCHANGED <<job[j], decision[j]>>
    BY <1>7 DEF Infeasible, store
  <2>2. PICK k \in Todo(d) :
          IF d \in Loops
          THEN \E was \in {pass[d].loaded[k], job[k].status} :
                 pass' = [pass EXCEPT ![d].pc = "fail", ![d].storing = {k},
                                      ![d].loaded[k] = was]
          ELSE Advance(d, {k})
    BY <1>7 DEF Infeasible
  <2>3. CASE d \in Loops
    <3>1. PICK was \in {pass[d].loaded[k], job[k].status} :
            pass' = [pass EXCEPT ![d].pc = "fail", ![d].storing = {k}, ![d].loaded[k] = was]
      BY <2>2, <2>3
    <3>2. pass'[d].loaded = [pass[d].loaded EXCEPT ![k] = was]
      BY <1>3, <3>1 DEF PassRow
    <3>3. pass[d].loaded[k] # None /\ pass[d].loaded \in [Jobs -> {None} \cup Status]
      BY <1>1 DEF Todo, PassRow
    <3> QED
      BY <1>1, <2>1, <3>2, <3>3
  <2>4. CASE d \notin Loops
    BY <1>1, <1>4, <2>1, <2>2, <2>4
  <2> QED
    BY <2>3, <2>4
<1>8. CASE FailInfeasible(d) \/ Store(d)
  <2>1. \/ Advance(d, pass[d].storing)
        \/ pass' = [pass EXCEPT ![d] = NoPass]
    BY <1>8 DEF FailInfeasible, Store
  <2>2. Advance(d, pass[d].storing)
    BY <1>2, <1>3, <2>1
  <2>3. j \notin pass[d].storing
    BY <1>4, <2>2
  <2> QED
    BY <1>1, <1>4, <2>2, <2>3, DecideStatus
<1> QED
  BY <1>5, <1>6, <1>7, <1>8 DEF DecideStep

\* A pass stores one job at a time, which it has loaded.
LEMMA PassStores ==
  ASSUME OneHandState, OneHand, NEW d \in Deciders, DecideStep(d),
         NEW j \in pass'[d].storing
  PROVE  pass'[d].loaded[j] # None /\ pass'[d].storing = {j}
<1> USE DEF OneHandState
<1>1. pass \in [Deciders -> PassRow] /\ job \in [Jobs -> JobRow] /\ d \notin Batchers
  BY InvParts DEF LifecycleInv, DecideTypeOK, OneHand, RowsOK, StoreTypeOK
<1>2. NoPass.storing = {} /\ \A pc, loaded :
        [NoPass EXCEPT !.pc = pc, !.loaded = loaded].storing = {}
  BY DEF NoPass
<1>3. ASSUME NEW done, Advance(d, done)
      PROVE  FALSE
  <2>1. PICK reload \in BOOLEAN : pass' = [pass EXCEPT ![d] =
        IF Todo(d) \subseteq done THEN NoPass
        ELSE [NoPass EXCEPT !.pc = "schedule",
                !.loaded = [k \in Jobs |->
                   IF k \notin Todo(d) \ done THEN None
                   ELSE IF reload THEN job[k].status ELSE pass[d].loaded[k]]]]
    BY <1>3 DEF Advance
  <2>2. pass'[d].storing = {}
    BY <1>1, <1>2, <2>1
  <2> QED
    BY <2>2
<1>4. CASE StartPass(d)
  <2>1. \E loaded : pass' = [pass EXCEPT ![d] =
          [NoPass EXCEPT !.pc = "schedule", !.loaded = loaded]]
    BY <1>4 DEF StartPass
  <2> QED
    BY <1>1, <1>2, <2>1
<1>5. CASE Schedule(d)
  <2>1. PICK batch \in SUBSET Todo(d) :
          /\ \E k \in Todo(d) : batch = {k}
          /\ pass' = [pass EXCEPT
               ![d].pc = "store", ![d].storing = batch,
               ![d].sd = [k \in Jobs |-> IF k \in batch THEN DecisionId(k) ELSE None]]
    BY <1>1, <1>5 DEF Schedule
  <2>2. pass'[d].storing = batch /\ pass'[d].loaded = pass[d].loaded
    BY <1>1, <2>1 DEF PassRow
  <2> QED
    BY <2>1, <2>2 DEF Todo
<1>6. CASE Infeasible(d)
  <2>1. PICK k \in Todo(d) : \E was \in {pass[d].loaded[k], job[k].status} :
                 pass' = [pass EXCEPT ![d].pc = "fail", ![d].storing = {k},
                                      ![d].loaded[k] = was]
    BY <1>3, <1>6 DEF Infeasible
  <2>2. PICK was \in {pass[d].loaded[k], job[k].status} :
          pass' = [pass EXCEPT ![d].pc = "fail", ![d].storing = {k}, ![d].loaded[k] = was]
    BY <2>1
  <2>3. pass'[d].storing = {k} /\ pass'[d].loaded = [pass[d].loaded EXCEPT ![k] = was]
    BY <1>1, <2>2 DEF PassRow
  <2>4. was # None /\ k \in Jobs /\ pass[d].loaded \in [Jobs -> {None} \cup Status]
    BY <1>1, <2>1, JobTableAssumption DEF Todo, JobRow, PassRow
  <2> QED
    BY <2>3, <2>4
<1>7. CASE FailInfeasible(d) \/ Store(d)
  <2>1. \/ Advance(d, pass[d].storing)
        \/ pass' = [pass EXCEPT ![d] = NoPass]
    BY <1>7 DEF FailInfeasible, Store
  <2> QED
    BY <1>1, <1>2, <1>3, <2>1
<1> QED
  BY <1>4, <1>5, <1>6, <1>7 DEF DecideStep

LEMMA DecideHand ==
  ASSUME OneHandState, OneHand, DecideNext, UNCHANGED <<request, dispatch>>
  PROVE  OneHandInv'
<1> USE DEF OneHandState
<1>1. PICK d \in Deciders : DecideStep(d)
  BY DEF DecideNext
<1>2. Unstarted' = Unstarted /\ \A c \in Deciders : c = d
  BY DEF Unstarted, dispatch, OneHand
<1>3. UNCHANGED <<execution, approvals>>
  BY <1>1, DecideStatus DEF Unstarted, DecideStep, StartPass, Schedule, Infeasible,
     FailInfeasible, Store, store
<1>4. ASSUME NEW j \in Unstarted
      PROVE  \/ UNCHANGED <<job[j], decision[j], approvals[j]>>
             \/ /\ job[j].status = "SUBMITTED"
                /\ job'[j].status \in {"SUBMITTED", "FAILED", "PENDING_APPROVAL", "APPROVED"}
  <2>1. j \in pass[d].storing => job[j].status = "SUBMITTED"
    BY DEF OneHandInv, WithDecider
  <2> QED
    BY <1>1, <1>3, <2>1, DecideStatus DEF Unstarted
<1>5. WithDecider(pass[d])'
  BY <1>1, <1>2, PassMoves, PassStores DEF WithDecider
<1>6. \A u \in Users : WithHuman(request[u])'
  BY <1>2, <1>4 DEF OneHandInv, WithHuman, LifecycleInv, RequestOK
<1> QED
  BY <1>2, <1>3, <1>4, <1>5, <1>6, OthersHand DEF UnderWay

\* A human changes a job that waits for a verdict, or one that was resubmitted
\* and has not changed since.
LEMMA HumanMoves ==
  ASSUME OneHandState, OneHand, ApprovalNext, NEW j \in Jobs
  PROVE  \/ UNCHANGED <<job[j], decision[j], approvals[j]>>
         \/ /\ \E u \in Users : request[u] # None /\ request[u].job = j
            /\ j \in Unstarted =>
                 /\ job[j].status \in {"PENDING_APPROVAL", "DECLINED", "CANCELLED", "FAILED"}
                 /\ job'[j].status \in {"APPROVED", "DECLINED", "SUBMITTED"}
<1> USE DEF OneHandState
<1>1. \A u \in Users : request[u] # None =>
        request[u].op \notin {"CANCEL", "REGISTER"} /\ RequestOK(request[u])
  BY DEF LifecycleInv, ApprovalTypeOK, Request, OneHand
<1>2. ASSUME NEW u \in Users, request[u] # None, request[u].job = j, request[u].op = "RESUBMIT",
             j \in Unstarted
      PROVE  job[j].status \in {"DECLINED", "CANCELLED", "FAILED"}
  BY <1>1, <1>2 DEF OneHandInv, WithHuman, RequestOK
<1> QED
  BY <1>1, <1>2, HumanStatus

LEMMA HumanHand ==
  ASSUME OneHandState, OneHand, ApprovalNext, UNCHANGED <<pass, dispatch>>
  PROVE  OneHandInv'
<1> USE DEF OneHandState
<1>1. Unstarted' = Unstarted /\ Unstarted \subseteq Jobs
  BY DEF Unstarted, dispatch
<1>2. UNCHANGED execution
  BY HumanStatus DEF ApprovalNext, CommitAny, CommitVerdict, CommitResubmit, CommitCancel,
     CommitRegister, BeginAny, BeginVerdict, BeginResubmit, BeginCancel, BeginRegister,
     Begin, store
<1>3. \A j \in Unstarted :
        \/ UNCHANGED <<job[j], decision[j], approvals[j]>>
        \/ /\ job[j].status \notin UnderWay \cup {"APPROVED", "SUBMITTED"}
           /\ job'[j].status \notin UnderWay
  BY <1>1, HumanMoves DEF UnderWay
<1>4. \A d \in Deciders : WithDecider(pass[d])'
  BY <1>1, <1>3 DEF OneHandInv, WithDecider
<1>5. ASSUME NEW u \in Users
      PROVE  WithHuman(request[u])'
  <2>1. PICK v \in Users : CommitAny(v) \/ \E j \in Jobs : BeginAny(v, j)
    BY DEF ApprovalNext
  <2>2. v = u
    BY DEF OneHand
  <2>3. request \in [Users -> {None} \cup Request]
    BY DEF LifecycleInv, ApprovalTypeOK
  <2>4. CASE CommitAny(v)
    <3>1. request' = [request EXCEPT ![v] = None]
      BY <2>4 DEF CommitAny, CommitVerdict, CommitResubmit, CommitCancel, CommitRegister
    <3> QED
      BY <2>2, <2>3, <3>1 DEF WithHuman
  <2>5. ASSUME NEW j \in Jobs, BeginAny(v, j)
        PROVE  WithHuman(request[u])'
    <3>1. PICK op \in Ops : \E sd : Begin(v, op, j, sd)
      BY <2>5 DEF BeginAny, BeginVerdict, BeginResubmit, BeginCancel, BeginRegister, Begin
    <3>2. PICK sd : Begin(v, op, j, sd)
      BY <3>1
    <3>3. request'[u] = [op |-> op, job |-> j, was |-> job[j].status, sd |-> sd]
          /\ UNCHANGED job
      BY <2>2, <2>3, <3>2 DEF Begin, store
    <3> QED
      BY <3>3 DEF WithHuman
  <2> QED
    BY <2>1, <2>4, <2>5
<1> QED
  BY <1>2, <1>3, <1>4, <1>5, OthersHand

-----------------------------------------------------------------------------
(* The promise.                                                            *)

LEMMA OneHandStep ==
  ASSUME OneHandState, OneHand, [Next]_vars
  PROVE  OneHandState'
<1>1. LifecycleInv'
  BY DecideKeeps, ApprovalKeeps, DispatchKeeps, AllStays
  DEF OneHandState, Next, vars, LifecycleInv, Backed, DecideTypeOK, ApprovalTypeOK, RequestOK
<1>2. CASE DispatchNext /\ UNCHANGED <<pass, request>>
  BY <1>1, <1>2, CreatedStep, DispatchHand DEF OneHandState, LifecycleInv, OneHand
<1>3. CASE DecideNext /\ UNCHANGED <<request, dispatch>>
  <2>1. UNCHANGED execution
    BY <1>3, DecideStatus DEF DecideNext, DecideStep, StartPass, Schedule, Infeasible,
       FailInfeasible, Store, store
  <2> QED
    BY <1>1, <1>3, <2>1, DecideHand DEF OneHandState, Created, ExecutionBacked, dispatch
<1>4. CASE ApprovalNext /\ UNCHANGED <<pass, dispatch>>
  <2>1. UNCHANGED execution
    BY <1>4 DEF ApprovalNext, CommitAny, CommitVerdict, CommitResubmit, CommitCancel,
       CommitRegister, BeginAny, BeginVerdict, BeginResubmit, BeginCancel, BeginRegister,
       Begin, store
  <2> QED
    BY <1>1, <1>4, <2>1, HumanHand DEF OneHandState, Created, ExecutionBacked, dispatch
<1>5. CASE UNCHANGED vars
  <2>1. UNCHANGED <<job, decision, approvals, execution, session, cluster, pass, request>>
    BY <1>5 DEF vars, store, dispatch
  <2>2. OneHandInv'
    BY <2>1 DEF OneHandState, OneHandInv, Unstarted, Authorised, Due, WithWorker,
       WithDecider, WithHuman
  <2> QED
    BY <1>1, <2>1, <2>2 DEF OneHandState, Created, ExecutionBacked
<1> QED
  BY <1>2, <1>3, <1>4, <1>5 DEF Next

LEMMA OneHandStart == Init => OneHandState
<1> SUFFICES ASSUME Init PROVE OneHandState
  OBVIOUS
<1>1. Created
  BY DEF Init, DispatchInit, Created, ExecutionBacked, Idle, At
<1>2. \A j \in Jobs : cluster[j].runs = 0 /\ job[j].status = "SUBMITTED"
  BY DEF Init, DispatchInit
<1>3. \A s \in Sessions : session[s].pc = "idle"
  BY DEF Init, DispatchInit, Idle, At
<1>4. \A d \in Deciders : WithDecider(pass[d])
  <2>1. \A d \in Deciders : pass[d] = NoPass
    BY DEF Init, DecideInit
  <2>2. NoPass.storing = {} /\ \A j \in Jobs : NoPass.loaded[j] = None
    BY DEF NoPass
  <2> QED
    BY <2>1, <2>2 DEF WithDecider, Unstarted
<1>5. \A u \in Users : WithHuman(request[u])
  BY DEF Init, ApprovalInit, WithHuman
<1>6. OneHandInv
  BY <1>2, <1>3, <1>4, <1>5 DEF OneHandInv, UnderWay, Unstarted, WithWorker, Holding, Sessions
<1> QED
  BY <1>1, <1>6, LifecycleStart DEF OneHandState

\* A Kubernetes Job is created for an authorised job, when its window is open.
LEMMA StartsFromHand ==
  ASSUME OneHandState, DispatchNext, OneHand
  PROVE  \/ \A j \in Jobs : cluster'[j].runs = cluster[j].runs
         \/ \E j \in Unstarted :
              /\ j \in Authorised /\ Due(j) /\ cluster'[j].runs = 1
              /\ \A k \in Jobs \ {j} : cluster'[k].runs = cluster[k].runs
<1> SUFFICES ASSUME NEW s \in Sessions, NEW j \in Unstarted,
                    session[s].pc = "create", session[s].cur = j,
                    cluster'[j].runs = 1,
                    \A k \in Jobs \ {j} : cluster'[k].runs = cluster[k].runs
             PROVE  j \in Authorised /\ Due(j)
  BY ClusterMoves
<1>1. job[j].status \in {"CLAIMING", "DISPATCHING"}
  BY DEF OneHandState, OneHandInv, WithWorker, Holding
<1> QED
  BY <1>1 DEF OneHandState, OneHandInv, UnderWay

\* What changes the standing of one job alone authorises it or withdraws it.
LEMMA OneStanding ==
  ASSUME NEW j \in Jobs, UNCHANGED cluster,
         \A k \in Jobs \ {j} : k \in Authorised' <=> k \in Authorised
  PROVE  Gate!Authorise(j) \/ Gate!Withdraw(j)
<1>1. Authorised \subseteq Jobs /\ Authorised' \subseteq Jobs
  BY DEF Authorised
<1>2. Authorised' = Authorised \cup {j} \/ Authorised' = Authorised \ {j}
  BY <1>1
<1> QED
  BY <1>2 DEF Gate!Authorise, Gate!Withdraw

LEMMA GateStep ==
  ASSUME OneHandState, OneHand, [Next]_vars
  PROVE  [Gate!GatedNext]_(Gate!gatedVars)
<1> USE DEF OneHandState
<1>1. ASSUME Authorised' = Authorised, \A j \in Jobs : cluster'[j].runs = cluster[j].runs
      PROVE  UNCHANGED Gate!gatedVars
  BY <1>1 DEF Gate!gatedVars
<1>2. CASE DispatchNext
  <2>1. Authorised' = Authorised
    BY <1>2, DispatchGrantsNothing DEF Authorised, LifecycleInv
  <2>2. ASSUME NEW j \in Unstarted, j \in Authorised, cluster'[j].runs = 1,
               \A k \in Jobs \ {j} : cluster'[k].runs = cluster[k].runs
        PROVE  Gate!Start(j)
    BY <2>1, <2>2 DEF Gate!Start, Unstarted
  <2> QED
    BY <1>1, <1>2, <2>1, <2>2, StartsFromHand DEF Gate!GatedNext, Unstarted
<1>3. CASE DecideNext /\ UNCHANGED dispatch
  <2>1. PICK d \in Deciders : DecideStep(d)
    BY <1>3 DEF DecideNext
  <2>2. \A k \in Jobs : k \notin pass[d].storing => (k \in Authorised' <=> k \in Authorised)
    BY <2>1, DecideStatus DEF Authorised
  <2>3. UNCHANGED cluster
    BY <1>3 DEF dispatch
  <2>4. CASE pass[d].storing = {}
    <3>1. Authorised' = Authorised
      BY <2>2, <2>4 DEF Authorised
    <3> QED
      BY <1>1, <2>3, <3>1
  <2>5. ASSUME NEW j \in pass[d].storing
        PROVE  Gate!GatedNext
    <3>1. j \in Jobs /\ pass[d].storing = {j}
      BY DEF LifecycleInv, DecideTypeOK, PassRow, OneHandInv, WithDecider
    <3> QED
      BY <2>2, <2>3, <3>1, OneStanding DEF Gate!GatedNext
  <2> QED
    BY <2>4, <2>5
<1>4. CASE ApprovalNext /\ UNCHANGED dispatch
  <2>1. UNCHANGED cluster
    BY <1>4 DEF dispatch
  <2>2. ASSUME NEW j \in Jobs, ~(j \in Authorised' <=> j \in Authorised)
        PROVE  Gate!GatedNext
    <3>1. PICK u \in Users : request[u] # None /\ request[u].job = j
      BY <1>4, <2>2, HumanMoves DEF Authorised
    <3>2. ASSUME NEW k \in Jobs \ {j}
          PROVE  k \in Authorised' <=> k \in Authorised
      <4>1. ~\E v \in Users : request[v] # None /\ request[v].job = k
        BY <3>1 DEF OneHand
      <4> QED
        BY <1>4, <4>1, HumanMoves DEF Authorised
    <3> QED
      BY <2>1, <3>2, OneStanding DEF Gate!GatedNext
  <2>3. CASE \A j \in Jobs : j \in Authorised' <=> j \in Authorised
    <3>1. Authorised' = Authorised
      BY <2>3 DEF Authorised
    <3> QED
      BY <1>1, <2>1, <3>1
  <2> QED
    BY <2>2, <2>3
<1>5. CASE UNCHANGED vars
  BY <1>1, <1>5 DEF vars, store, dispatch, Authorised
<1> QED
  BY <1>2, <1>3, <1>4, <1>5 DEF Next

\* One worker, one decider and one human, with a cluster that answers, keep the
\* promise: for any number of jobs, wherever the worker dies and whatever calls
\* fail, a job is handed to Kubernetes once, while its approval stands.
THEOREM GateIsImplemented ==
  ASSUME OneHand
  PROVE  Spec => ImplementsGate
<1>1. Init => Gate!GatedInit
  <2> SUFFICES ASSUME Init PROVE Gate!GatedInit
    OBVIOUS
  <2>1. Authorised = {} /\ \A j \in Jobs : cluster[j].runs = 0
    BY DEF Init, DispatchInit, Authorised
  <2> QED
    BY <2>1 DEF Gate!GatedInit
<1>2. OneHandState /\ [Next]_vars => OneHandState'
  BY OneHandStep
<1>3. OneHandState /\ [Next]_vars => [Gate!GatedNext]_(Gate!gatedVars)
  BY GateStep
<1> QED
  BY <1>1, <1>2, <1>3, OneHandStart, PTL DEF Spec, ImplementsGate, Gate!GatedSpec

\* And it is handed over only once its window has opened, although the schedule
\* may be withdrawn and made anew.
THEOREM StartsAreDue ==
  ASSUME OneHand
  PROVE  Spec => OnlyDueStarts
<1>1. OneHandState /\ [Next]_vars => OneHandState'
  BY OneHandStep
<1>2. OneHandState /\ [Next]_vars =>
        [\A j \in Jobs : cluster'[j].runs > cluster[j].runs => Due(j)]_vars
  <2> SUFFICES ASSUME OneHandState, [Next]_vars, NEW j \in Jobs,
                      cluster'[j].runs > cluster[j].runs
               PROVE  Due(j)
    OBVIOUS
  <2>1. cluster[j].runs \in 0 .. 2
    BY InvParts DEF OneHandState, LifecycleInv, EnvOK, ClusterRow
  <2>2. DispatchNext
    BY <2>1 DEF Next, vars, dispatch
  <2> QED
    BY <2>1, <2>2, StartsFromHand
<1> QED
  BY <1>1, <1>2, OneHandStart, PTL DEF Spec, OnlyDueStarts
=============================================================================
