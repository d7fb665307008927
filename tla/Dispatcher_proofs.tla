-------------------------- MODULE Dispatcher_proofs --------------------------
(***************************************************************************)
(* Theorems about the dispatcher.  Every step keeps DispatcherInv: one     *)
(* lemma per action, and below them lemmas about the helpers (what a flush *)
(* can do to a row, and in what state a session is left).                  *)
(***************************************************************************)
EXTENDS Dispatcher, TLAPS

USE DEF Sessions

-----------------------------------------------------------------------------
(* Rows and sessions.                                                      *)

\* A flush keeps the claim, and writes the status or leaves the one there is.
LEMMA FlushRow ==
  ASSUME NEW row \in JobRow, NEW was, NEW status \in Status
  PROVE  /\ Flush(row, was, status) \in JobRow
         /\ Flush(row, was, status).claim = row.claim
         /\ Flush(row, was, status).status \in {row.status, status}
         /\ was # status => Flush(row, was, status).status = status
BY DEF Flush, JobRow

\* Nulling the claim leaves the status.
LEMMA ReleaseRow ==
  ASSUME NEW row \in JobRow, NEW claimed
  PROVE  /\ Release(row, claimed) \in JobRow
         /\ Release(row, claimed).status = row.status
BY DEF Release, JobRow

\* A session between jobs is well formed, whatever its batch.
LEMMA RestingRow ==
  ASSUME NEW pc \in Steps, NEW batch \in SUBSET Jobs
  PROVE  /\ At(pc, batch) \in SessionRow
         /\ pc \notin Holding \cup {"dispatch", "poll", "sync"} =>
              HandOK(At(pc, batch)) /\ PollOK(At(pc, batch))
BY DEF At, SessionRow, NoRuns, Steps, Observation, HandOK, PollOK, Holding

-----------------------------------------------------------------------------
(* What a step has to show.                                                *)

SessionsOK ==
  /\ session \in [Sessions -> SessionRow]
  /\ \A s \in Sessions : HandOK(session[s]) /\ PollOK(session[s])

RowsOK == StoreTypeOK /\ QueuedHasExecution /\ ClaimHasLease

EnvOK == cluster \in [Jobs -> ClusterRow] /\ crashes \in 0 .. MaxCrashes

LEMMA InvParts == DispatcherInv <=> RowsOK /\ SessionsOK /\ EnvOK
BY DEF DispatcherInv, DispatcherTypeOK, RowsOK, SessionsOK, EnvOK

\* Executions are never deleted, so a session that was well formed stays so,
\* and the one that moves has to be checked only against the rows as they are.
LEMMA OneSessionMoves ==
  ASSUME SessionsOK, NEW s \in Sessions, NEW row \in SessionRow,
         HandOK(row), PollOK(row),
         session' = [session EXCEPT ![s] = row],
         \A j \in Jobs : execution[j] # None => execution'[j] # None
  PROVE  SessionsOK'
<1>1. session' \in [Sessions -> SessionRow]
  BY DEF SessionsOK
<1>2. ASSUME NEW t \in Sessions
      PROVE  HandOK(session[t])' /\ PollOK(session[t])'
  <2>1. HandOK(session'[t]) /\ PollOK(session'[t])
    BY DEF SessionsOK
  <2>2. session'[t].batch \subseteq Jobs
    BY <1>1 DEF SessionRow
  <2> QED
    BY <2>1, <2>2 DEF HandOK, PollOK
<1> QED
  BY <1>1, <1>2 DEF SessionsOK

\* Every change of a jobs row that the dispatcher makes keeps RowsOK, if the
\* new rows are well formed and the statuses it writes are justified.
LEMMA JobsMove ==
  ASSUME RowsOK, UNCHANGED <<decision, approvals, issued>>,
         job' \in [Jobs -> JobRow],
         execution' \in [Jobs -> {None} \cup ExecutionRow],
         \A j \in Jobs : execution[j] # None => execution'[j] # None,
         \A j \in Jobs :
           \/ job'[j].status = job[j].status /\ job'[j].claim = job[j].claim
           \/ job'[j].status \in {"READY", "APPROVED", "DISPATCHING", "FAILED"}
           \/ job'[j].status = "CLAIMING" /\ job'[j].claim # None
           \/ job'[j].status # "CLAIMING" /\ execution'[j] # None
  PROVE  RowsOK'
<1>1. StoreTypeOK'
  BY DEF RowsOK, StoreTypeOK
<1>2. QueuedHasExecution'
  BY DEF RowsOK, QueuedHasExecution
<1>3. ClaimHasLease'
  BY DEF RowsOK, ClaimHasLease
<1> QED
  BY <1>1, <1>2, <1>3 DEF RowsOK

LEMMA RejoinParts ==
  ASSUME RowsOK', SessionsOK', EnvOK'
  PROVE  DispatcherInv'
BY DEF DispatcherInv, DispatcherTypeOK, RowsOK, SessionsOK, EnvOK

\* A step that leaves the tables alone.
LEMMA RowsStay ==
  ASSUME DispatcherInv, UNCHANGED store
  PROVE  RowsOK'
BY DEF store, RowsOK, StoreTypeOK, QueuedHasExecution, ClaimHasLease,
       DispatcherInv, DispatcherTypeOK

LEMMA EnvStays ==
  ASSUME DispatcherInv, UNCHANGED <<cluster, crashes>>
  PROVE  EnvOK'
BY DEF EnvOK, DispatcherInv, DispatcherTypeOK

-----------------------------------------------------------------------------
(* The steps of a tick before it dispatches.                               *)

LEMMA RecoverReadStep ==
  ASSUME DispatcherInv, NEW w \in Workers, RecoverRead(w)
  PROVE  DispatcherInv'
<1> USE DEF RecoverRead
<1>1. SessionsOK'
  BY InvParts, RestingRow, OneSessionMoves DEF store, Steps, Holding
<1> QED
  BY <1>1, RowsStay, EnvStays, RejoinParts

LEMMA RecoverWriteStep ==
  ASSUME DispatcherInv, NEW w \in Workers, RecoverWrite(w)
  PROVE  DispatcherInv'
<1> USE DEF RecoverWrite
<1>1. RowsOK'
  <2>1. job' \in [Jobs -> JobRow]
    BY InvParts DEF RowsOK, StoreTypeOK, JobRow, Status
  <2> QED
    BY <2>1, InvParts, JobsMove DEF RowsOK, StoreTypeOK
<1>2. SessionsOK'
  BY InvParts, RestingRow, OneSessionMoves DEF Steps, Holding
<1> QED
  BY <1>1, <1>2, EnvStays, RejoinParts

LEMMA PromoteReadStep ==
  ASSUME DispatcherInv, NEW w \in Workers, PromoteRead(w)
  PROVE  DispatcherInv'
<1> USE DEF PromoteRead
<1>1. SessionsOK'
  BY InvParts, RestingRow, OneSessionMoves DEF store, Steps, Holding
<1> QED
  BY <1>1, RowsStay, EnvStays, RejoinParts

LEMMA PromoteWriteStep ==
  ASSUME DispatcherInv, NEW w \in Workers, PromoteWrite(w)
  PROVE  DispatcherInv'
<1> USE DEF PromoteWrite
<1>1. RowsOK'
  <2>1. job' \in [Jobs -> JobRow]
    BY InvParts DEF RowsOK, StoreTypeOK, JobRow, Status
  <2>2. \A j \in Jobs : job'[j] = job[j] \/ job'[j].status = "READY"
    BY InvParts DEF RowsOK, StoreTypeOK, JobRow
  <2> QED
    BY <2>1, <2>2, InvParts, JobsMove DEF RowsOK, StoreTypeOK
<1>2. SessionsOK'
  BY InvParts, RestingRow, OneSessionMoves DEF Steps, Holding
<1> QED
  BY <1>1, <1>2, EnvStays, RejoinParts

LEMMA ClaimReadyStep ==
  ASSUME DispatcherInv, NEW w \in Workers, ClaimReady(w)
  PROVE  DispatcherInv'
<1> DEFINE ready == {j \in Jobs : job[j].status = "READY"}
<1>1. CASE ready = {}
  <2>1. UNCHANGED store /\ session' = [session EXCEPT ![w] = At("poll_read", {})]
    BY <1>1 DEF ClaimReady, store
  <2>2. SessionsOK'
    BY <2>1, InvParts, RestingRow, OneSessionMoves DEF store, Steps, Holding
  <2> QED
    BY <2>1, <2>2, RowsStay, EnvStays, RejoinParts DEF ClaimReady
<1>2. CASE ready # {}
  <2>1. PICK b \in SUBSET ready :
          /\ job' = [j \in Jobs |->
               IF j \in b
               THEN [status |-> "CLAIMING", claim |-> [by |-> w, left |-> LeaseTicks]]
               ELSE job[j]]
          /\ session' = [session EXCEPT ![w] =
               [At("dispatch", b) EXCEPT
                  !.loaded = [status |-> "CLAIMING", claimed |-> TRUE]]]
    BY <1>2 DEF ClaimReady
  <2>2. [by |-> w, left |-> LeaseTicks] \in Claim
    BY JobTableAssumption DEF Claim
  <2>3. RowsOK'
    <3>1. job' \in [Jobs -> JobRow]
      BY <2>1, <2>2, InvParts DEF RowsOK, StoreTypeOK, JobRow, Status
    <3> QED
      BY <2>1, <2>2, <3>1, InvParts, JobsMove, JobTableAssumption
      DEF RowsOK, StoreTypeOK, ClaimReady
  <2>4. SessionsOK'
    <3> DEFINE row == [At("dispatch", b) EXCEPT
                       !.loaded = [status |-> "CLAIMING", claimed |-> TRUE]]
    <3>1. At("dispatch", b) \in SessionRow /\ At("dispatch", b).pc = "dispatch"
      BY RestingRow DEF At, Steps
    <3>2. [status |-> "CLAIMING", claimed |-> TRUE] \in Loaded
      BY DEF Loaded, Status
    <3>3. row \in SessionRow /\ row.pc = "dispatch" /\ row.loaded \in Loaded
      BY <3>1, <3>2 DEF SessionRow
    <3> HIDE DEF row
    <3>4. HandOK(row) /\ PollOK(row)
      BY <3>3 DEF HandOK, PollOK, Holding
    <3>5. session' = [session EXCEPT ![w] = row]
      BY <2>1 DEF row
    <3> QED
      BY <3>3, <3>4, <3>5, InvParts, OneSessionMoves DEF ClaimReady
  <2> QED
    BY <2>3, <2>4, EnvStays, RejoinParts DEF ClaimReady
<1> QED
  BY <1>1, <1>2

-----------------------------------------------------------------------------
(* dispatch_job.                                                           *)

\* What is loaded from a well-formed row is well formed.
LEMMA LoadRow ==
  ASSUME RowsOK, NEW j \in Jobs
  PROVE  Load(j) \in Loaded
BY DEF Load, Loaded, RowsOK, StoreTypeOK, JobRow

\* A session that goes on with its batch, or ends it, is well formed.
LEMMA AfterRow ==
  ASSUME NEW s \in Sessions, session[s] \in SessionRow, NEW j \in Jobs,
         NEW again \in {"dispatch", "poll"}, NEW idleStep \in {"poll_read", "idle"},
         again = "poll" =>
           \A k \in session[s].batch : execution[k] # None /\ session[s].runs[k] \in LoadedRun
  PROVE  /\ After(s, j, again, idleStep) \in SessionRow
         /\ HandOK(After(s, j, again, idleStep))
         /\ PollOK(After(s, j, again, idleStep))
<1> DEFINE rest == session[s].batch \ {j}
<1>1. CASE rest = {}
  BY <1>1, RestingRow DEF After, Steps, Holding
<1>2. CASE rest # {}
  <2> DEFINE loaded == IF again = "dispatch"
                       THEN [status |-> "CLAIMING", claimed |-> TRUE] ELSE None
             row == [session[s] EXCEPT !.pc = again, !.batch = rest, !.cur = None,
                                       !.seen = None, !.loaded = loaded, !.runs[j] = None]
  <2>1. After(s, j, again, idleStep) = row
    BY <1>2 DEF After
  <2>2. again = "dispatch" => loaded \in Loaded
    BY DEF Loaded, Status
  <2>3. loaded \in {None} \cup Loaded
    BY <2>2
  <2>4. /\ row.pc = again /\ row.batch = rest /\ row.loaded = loaded
        /\ \A k \in Jobs \ {j} : row.runs[k] = session[s].runs[k]
        /\ row.runs \in [Jobs -> {None} \cup LoadedRun]
    BY DEF SessionRow
  <2>5. row \in SessionRow
    <3> HIDE DEF loaded
    <3> QED
      BY <2>3 DEF SessionRow, Steps, Observation
  <2>6. rest \subseteq Jobs \ {j}
    BY DEF SessionRow
  <2> HIDE DEF row, loaded
  <2>7. HandOK(row)
    BY <2>2, <2>4 DEF HandOK, Holding
  <2>8. PollOK(row)
    BY <2>4, <2>6 DEF PollOK
  <2> QED
    BY <2>1, <2>5, <2>7, <2>8
<1> QED
  BY <1>1, <1>2

LEMMA RequestDispatchStep ==
  ASSUME DispatcherInv, NEW c \in Callers, NEW j \in Jobs, RequestDispatch(c, j)
  PROVE  DispatcherInv'
<1> DEFINE row == [At("dispatch", {j}) EXCEPT !.loaded = Load(j)]
<1>1. row \in SessionRow /\ row.pc = "dispatch" /\ row.loaded \in Loaded
  BY RestingRow, LoadRow, InvParts DEF At, SessionRow, Steps
<1>2. session' = [session EXCEPT ![c] = row]
  BY DEF RequestDispatch
<1> HIDE DEF row
<1>3. HandOK(row) /\ PollOK(row)
  BY <1>1 DEF HandOK, PollOK, Holding
<1>4. SessionsOK'
  BY <1>1, <1>2, <1>3, InvParts, OneSessionMoves DEF RequestDispatch, store
<1> QED
  BY <1>4, RowsStay, EnvStays, RejoinParts DEF RequestDispatch

LEMMA ValidateStep ==
  ASSUME DispatcherInv, NEW s \in Sessions, Validate(s)
  PROVE  DispatcherInv'
<1>1. /\ session[s] \in SessionRow /\ session[s].pc = "dispatch"
      /\ session[s].loaded \in Loaded
  BY InvParts DEF SessionsOK, HandOK, Validate
<1>2. PICK j \in session[s].batch : \E loaded \in {session[s].loaded, Load(j)} :
        session' = [session EXCEPT ![s] =
          IF loaded.status \in DispatchableStatus /\ Due(j)
          THEN [session[s] EXCEPT !.pc = "mark", !.cur = j, !.loaded = loaded]
          ELSE AfterDispatch(s, j)]
  BY InvParts DEF Validate, SessionsOK
<1>3. j \in Jobs
  BY <1>1 DEF SessionRow
<1>4. PICK loaded \in Loaded :
        session' = [session EXCEPT ![s] =
          IF loaded.status \in DispatchableStatus /\ Due(j)
          THEN [session[s] EXCEPT !.pc = "mark", !.cur = j, !.loaded = loaded]
          ELSE AfterDispatch(s, j)]
  BY <1>1, <1>2, <1>3, LoadRow, InvParts
<1>5. CASE loaded.status \in DispatchableStatus /\ Due(j)
  <2> DEFINE row == [session[s] EXCEPT !.pc = "mark", !.cur = j, !.loaded = loaded]
  <2>1. /\ row \in SessionRow /\ row.pc = "mark" /\ row.cur = j /\ row.loaded = loaded
    BY <1>1, <1>3 DEF SessionRow, Steps
  <2>2. session' = [session EXCEPT ![s] = row]
    BY <1>4, <1>5
  <2> HIDE DEF row
  <2>3. HandOK(row) /\ PollOK(row)
    BY <1>3, <2>1 DEF HandOK, PollOK, Holding
  <2>4. SessionsOK'
    BY <2>1, <2>2, <2>3, InvParts, OneSessionMoves DEF Validate, store
  <2> QED
    BY <2>4, RowsStay, EnvStays, RejoinParts DEF Validate
<1>6. CASE ~(loaded.status \in DispatchableStatus /\ Due(j))
  <2>1. session' = [session EXCEPT ![s] = After(s, j, "dispatch", "poll_read")]
    BY <1>4, <1>6 DEF AfterDispatch
  <2>2. SessionsOK'
    BY <1>1, <1>3, <2>1, AfterRow, InvParts, OneSessionMoves DEF Validate, store
  <2> QED
    BY <2>2, RowsStay, EnvStays, RejoinParts DEF Validate
<1> QED
  BY <1>5, <1>6

LEMMA MarkDispatchingStep ==
  ASSUME DispatcherInv, NEW s \in Sessions, MarkDispatching(s)
  PROVE  DispatcherInv'
<1> DEFINE j == session[s].cur
           loaded == [session[s].loaded EXCEPT !.status = "DISPATCHING"]
           row == [session[s] EXCEPT !.pc = "read", !.loaded = loaded]
<1>1. session[s] \in SessionRow /\ j \in Jobs /\ session[s].loaded \in Loaded
  BY InvParts DEF SessionsOK, HandOK, Holding, MarkDispatching
<1>2. loaded \in Loaded /\ loaded.status = "DISPATCHING"
  BY <1>1 DEF Loaded, Status
<1>3. RowsOK'
  <2>1. job[j] \in JobRow
    BY <1>1, InvParts DEF RowsOK, StoreTypeOK
  <2>2. job' = [job EXCEPT ![j] = Flush(job[j], session[s].loaded.status, "DISPATCHING")]
    BY DEF MarkDispatching
  <2> HIDE DEF j
  <2>3. job' \in [Jobs -> JobRow]
    BY <1>1, <2>1, <2>2, FlushRow, InvParts DEF RowsOK, StoreTypeOK, Status
  <2>4. \A k \in Jobs : \/ job'[k].status = job[k].status /\ job'[k].claim = job[k].claim
                        \/ job'[k].status = "DISPATCHING"
    BY <1>1, <2>1, <2>2, FlushRow, InvParts DEF RowsOK, StoreTypeOK, Status
  <2> QED
    BY <2>3, <2>4, InvParts, JobsMove DEF RowsOK, StoreTypeOK, MarkDispatching
<1>4. SessionsOK'
  <2>1. session' = [session EXCEPT ![s] = row]
    BY DEF MarkDispatching
  <2> HIDE DEF loaded
  <2>2. row \in SessionRow /\ row.pc = "read" /\ row.cur = j /\ row.loaded = loaded
    BY <1>1, <1>2 DEF SessionRow, Steps
  <2> HIDE DEF row
  <2>3. HandOK(row) /\ PollOK(row)
    BY <1>1, <1>2, <2>2 DEF HandOK, PollOK, Holding
  <2> QED
    BY <2>1, <2>2, <2>3, InvParts, OneSessionMoves DEF MarkDispatching
<1> QED
  BY <1>3, <1>4, EnvStays, RejoinParts DEF MarkDispatching

\* A session that only moves on to another step of the same job.
LEMMA NextCall ==
  ASSUME DispatcherInv, NEW s \in Sessions, NEW next \in {"create", "record", "fail"},
         session[s].pc \in {"read", "create"},
         session' = [session EXCEPT ![s].pc = next],
         UNCHANGED execution
  PROVE  SessionsOK'
<1> DEFINE row == [session[s] EXCEPT !.pc = next]
<1>1. session[s] \in SessionRow /\ HandOK(session[s])
  BY InvParts DEF SessionsOK
<1>2. row \in SessionRow /\ row.pc = next /\ row.cur = session[s].cur
      /\ row.loaded = session[s].loaded
  BY <1>1 DEF SessionRow, Steps
<1>3. session' = [session EXCEPT ![s] = row]
  OBVIOUS
<1> HIDE DEF row
<1>4. HandOK(row) /\ PollOK(row)
  BY <1>1, <1>2 DEF HandOK, PollOK, Holding
<1> QED
  BY <1>2, <1>3, <1>4, InvParts, OneSessionMoves

LEMMA ReadClusterStep ==
  ASSUME DispatcherInv, NEW s \in Sessions, ReadCluster(s)
  PROVE  DispatcherInv'
<1>1. SessionsOK'
  BY NextCall DEF ReadCluster, store
<1> QED
  BY <1>1, RowsStay, EnvStays, RejoinParts DEF ReadCluster

LEMMA CreateInClusterStep ==
  ASSUME DispatcherInv, NEW s \in Sessions, CreateInCluster(s)
  PROVE  DispatcherInv'
<1>1. SessionsOK'
  BY NextCall DEF CreateInCluster, store
<1>2. EnvOK'
  <2>1. cluster \in [Jobs -> ClusterRow] /\ session[s].cur \in Jobs
    BY InvParts DEF EnvOK, SessionsOK, HandOK, Holding, CreateInCluster
  <2>2. ASSUME CreateJob(session[s].cur)
        PROVE  cluster' \in [Jobs -> ClusterRow]
    BY <2>1, <2>2 DEF CreateJob, ClusterRow, Phases
  <2> QED
    BY <2>1, <2>2, InvParts DEF EnvOK, CreateInCluster
<1> QED
  BY <1>1, <1>2, RowsStay, RejoinParts DEF CreateInCluster

LEMMA MarkJobFailedStep ==
  ASSUME DispatcherInv, NEW s \in Sessions, MarkJobFailed(s)
  PROVE  DispatcherInv'
<1> DEFINE j == session[s].cur
           flushed == Flush(job[j], session[s].loaded.status, "FAILED")
<1>1. /\ session[s] \in SessionRow /\ j \in Jobs
      /\ session[s].loaded.status = "DISPATCHING"
  BY InvParts DEF SessionsOK, HandOK, Holding, MarkJobFailed
<1>2. /\ job' = [job EXCEPT ![j] = Release(flushed, session[s].loaded.claimed)]
      /\ execution' = [execution EXCEPT ![j] =
           IF @ = None THEN None ELSE [@ EXCEPT !.gs_status = "FAILED"]]
      /\ session' = [session EXCEPT ![s] = After(s, j, "dispatch", "poll_read")]
  BY DEF MarkJobFailed, AfterDispatch
<1>3. flushed \in JobRow /\ flushed.status = "FAILED"
  BY <1>1, FlushRow, InvParts DEF RowsOK, StoreTypeOK, Status
<1> HIDE DEF j, flushed
<1>4. job' \in [Jobs -> JobRow]
      /\ \A k \in Jobs : job'[k] = job[k] \/ job'[k].status = "FAILED"
  BY <1>1, <1>2, <1>3, ReleaseRow, InvParts DEF RowsOK, StoreTypeOK
<1>5. execution' \in [Jobs -> {None} \cup ExecutionRow]
      /\ \A k \in Jobs : execution[k] # None => execution'[k] # None
  BY <1>1, <1>2, JobTableAssumption, InvParts
  DEF RowsOK, StoreTypeOK, ExecutionRow, ExecutionStatus
<1>6. RowsOK'
  BY <1>4, <1>5, JobsMove, InvParts DEF MarkJobFailed
<1>7. SessionsOK'
  BY <1>1, <1>2, <1>5, AfterRow, InvParts, OneSessionMoves
<1> QED
  BY <1>6, <1>7, EnvStays, RejoinParts DEF MarkJobFailed

LEMMA RecordExecutionStep ==
  ASSUME DispatcherInv, NEW s \in Sessions, RecordExecution(s)
  PROVE  DispatcherInv'
<1> DEFINE j == session[s].cur
           flushed == Flush(job[j], session[s].loaded.status, "QUEUED")
<1>1. /\ session[s] \in SessionRow /\ j \in Jobs
      /\ session[s].loaded.status = "DISPATCHING"
  BY InvParts DEF SessionsOK, HandOK, Holding, RecordExecution
<1>2. CASE execution[j] = None
  <2>1. PICK left \in 0 .. RuntimeTicks :
          execution' = [execution EXCEPT ![j] =
            [gs_status |-> "QUEUED", k8s_status |-> None, left |-> left]]
    BY <1>2 DEF RecordExecution
  <2>2. /\ job' = [job EXCEPT ![j] = Release(flushed, session[s].loaded.claimed)]
        /\ session' = [session EXCEPT ![s] = After(s, j, "dispatch", "poll_read")]
    BY <1>2 DEF RecordExecution, AfterDispatch
  <2>3. flushed \in JobRow /\ flushed.status = "QUEUED"
    BY <1>1, FlushRow, InvParts DEF RowsOK, StoreTypeOK, Status
  <2> HIDE DEF j, flushed
  <2>4. job' \in [Jobs -> JobRow]
        /\ \A k \in Jobs : job'[k] = job[k] \/ (k = j /\ job'[k].status = "QUEUED")
    BY <1>1, <2>2, <2>3, ReleaseRow, InvParts DEF RowsOK, StoreTypeOK
  <2>5. [gs_status |-> "QUEUED", k8s_status |-> None, left |-> left] \in ExecutionRow
    BY DEF ExecutionRow, ExecutionStatus, K8sStatus
  <2>6. execution' \in [Jobs -> {None} \cup ExecutionRow] /\ execution'[j] # None
        /\ \A k \in Jobs : execution[k] # None => execution'[k] # None
    BY <1>1, <2>1, <2>5, JobTableAssumption, InvParts DEF RowsOK, StoreTypeOK
  <2>7. RowsOK'
    BY <2>4, <2>6, JobsMove, InvParts DEF RecordExecution
  <2>8. SessionsOK'
    BY <1>1, <2>2, <2>6, AfterRow, InvParts, OneSessionMoves
  <2> QED
    BY <2>7, <2>8, EnvStays, RejoinParts DEF RecordExecution
<1>3. CASE execution[j] # None
  <2>1. UNCHANGED store /\ session' = [session EXCEPT ![s] = Idle]
    BY <1>3 DEF RecordExecution, store
  <2>2. SessionsOK'
    BY <2>1, RestingRow, InvParts, OneSessionMoves DEF Idle, Steps, Holding, store
  <2> QED
    BY <2>1, <2>2, RowsStay, EnvStays, RejoinParts DEF RecordExecution
<1> QED
  BY <1>2, <1>3

-----------------------------------------------------------------------------
(* refresh_job_status.                                                     *)

\* The executions loaded are well formed.
LEMMA LoadRunsType ==
  ASSUME RowsOK, NEW active \in SUBSET Jobs, \A j \in active : execution[j] # None
  PROVE  /\ LoadRuns(active) \in [Jobs -> {None} \cup LoadedRun]
         /\ \A j \in active : LoadRuns(active)[j] \in LoadedRun
<1>1. \A j \in active : execution[j] \in ExecutionRow
  BY DEF RowsOK, StoreTypeOK
<1> QED
  BY <1>1 DEF LoadRuns, LoadedRun, ExecutionRow

\* A session that is about to poll executions it has loaded is well formed.
LEMMA PollRow ==
  ASSUME RowsOK, NEW active \in SUBSET Jobs, \A j \in active : execution[j] # None,
         NEW row, row.pc = "poll", row.batch = active, row.runs = LoadRuns(active)
  PROVE  HandOK(row) /\ PollOK(row)
BY LoadRunsType DEF HandOK, PollOK, Holding

LEMMA PollReadStep ==
  ASSUME DispatcherInv, NEW w \in Workers, PollRead(w)
  PROVE  DispatcherInv'
<1> DEFINE active == {j \in Jobs : execution[j] # None
                                   /\ execution[j].k8s_status \in {"Pending", "Running"}}
           row == [At("poll", active) EXCEPT !.runs = LoadRuns(active)]
<1>1. session' = [session EXCEPT ![w] = IF active = {} THEN Idle ELSE row]
  BY DEF PollRead
<1>2. active \in SUBSET Jobs /\ \A j \in active : execution[j] # None
  OBVIOUS
<1> HIDE DEF active
<1>3. /\ At("poll", active) \in SessionRow
      /\ At("poll", active).pc = "poll" /\ At("poll", active).batch = active
  BY <1>2, RestingRow DEF At, Steps
<1>4. /\ row \in SessionRow /\ row.pc = "poll" /\ row.batch = active
      /\ row.runs = LoadRuns(active)
  BY <1>2, <1>3, LoadRunsType, InvParts DEF SessionRow
<1> HIDE DEF row
<1>5. HandOK(row) /\ PollOK(row)
  BY <1>2, <1>4, PollRow, InvParts
<1>6. SessionsOK'
  BY <1>1, <1>4, <1>5, RestingRow, InvParts, OneSessionMoves
  DEF PollRead, store, Idle, Steps, Holding
<1> QED
  BY <1>6, RowsStay, EnvStays, RejoinParts DEF PollRead

LEMMA RequestStatusStep ==
  ASSUME DispatcherInv, NEW c \in Callers, NEW j \in Jobs, RequestStatus(c, j)
  PROVE  DispatcherInv'
<1> DEFINE row == [At("poll", {j}) EXCEPT !.loaded = Load(j), !.runs = LoadRuns({j})]
<1>1. session' = [session EXCEPT ![c] = row] /\ execution[j] # None
  BY DEF RequestStatus
<1>2. /\ At("poll", {j}) \in SessionRow
      /\ At("poll", {j}).pc = "poll" /\ At("poll", {j}).batch = {j}
  BY RestingRow DEF At, Steps
<1>3. row \in SessionRow /\ row.pc = "poll" /\ row.batch = {j} /\ row.runs = LoadRuns({j})
  BY <1>1, <1>2, LoadRunsType, LoadRow, InvParts DEF SessionRow
<1> HIDE DEF row
<1>4. HandOK(row) /\ PollOK(row)
  BY <1>1, <1>3, PollRow, InvParts
<1>5. SessionsOK'
  BY <1>1, <1>3, <1>4, InvParts, OneSessionMoves DEF RequestStatus, store
<1> QED
  BY <1>5, RowsStay, EnvStays, RejoinParts DEF RequestStatus

LEMMA ObserveStep ==
  ASSUME DispatcherInv, NEW s \in Sessions, Observe(s)
  PROVE  DispatcherInv'
<1>1. /\ session[s] \in SessionRow /\ PollOK(session[s]) /\ session[s].pc = "poll"
      /\ session[s].batch \subseteq Jobs
  BY InvParts DEF SessionsOK, Observe, SessionRow
<1>2. PICK j \in session[s].batch :
        \/ \E answer \in {cluster[j].phase} \cup (Faults \cap {"unreachable"}) :
             session' = [session EXCEPT ![s] =
               [session[s] EXCEPT !.pc = "sync", !.cur = j, !.seen = answer,
                  !.loaded = IF s \in Workers THEN Load(j) ELSE session[s].loaded]]
        \/ session' = [session EXCEPT ![s] = After(s, j, "poll", "idle")]
  BY DEF Observe
<1>3. CASE session' = [session EXCEPT ![s] = After(s, j, "poll", "idle")]
  <2>1. SessionsOK'
    BY <1>1, <1>2, <1>3, AfterRow, InvParts, OneSessionMoves DEF Observe, store, PollOK
  <2> QED
    BY <2>1, RowsStay, EnvStays, RejoinParts DEF Observe
<1>4. ASSUME NEW answer \in {cluster[j].phase} \cup (Faults \cap {"unreachable"}),
             session' = [session EXCEPT ![s] =
               [session[s] EXCEPT !.pc = "sync", !.cur = j, !.seen = answer,
                  !.loaded = IF s \in Workers THEN Load(j) ELSE session[s].loaded]]
      PROVE  DispatcherInv'
  <2> DEFINE loaded == IF s \in Workers THEN Load(j) ELSE session[s].loaded
             row == [session[s] EXCEPT !.pc = "sync", !.cur = j, !.seen = answer,
                                       !.loaded = loaded]
  <2>1. loaded \in {None} \cup Loaded
    BY <1>1, LoadRow, InvParts DEF SessionRow
  <2>2. answer \in Phases \cup {"unreachable"}
    BY <1>1, InvParts DEF EnvOK, ClusterRow
  <2>3. session' = [session EXCEPT ![s] = row]
    BY <1>4
  <2> HIDE DEF loaded
  <2>4. /\ row \in SessionRow /\ row.pc = "sync" /\ row.cur = j /\ row.seen = answer
        /\ row.batch = session[s].batch /\ row.runs = session[s].runs
    BY <1>1, <2>1, <2>2 DEF SessionRow, Steps, Observation
  <2> HIDE DEF row
  <2>5. HandOK(row) /\ PollOK(row)
    BY <1>1, <2>2, <2>4 DEF HandOK, PollOK, Holding
  <2>6. SessionsOK'
    BY <2>3, <2>4, <2>5, InvParts, OneSessionMoves DEF Observe, store
  <2> QED
    BY <2>6, RowsStay, EnvStays, RejoinParts DEF Observe
<1> QED
  BY <1>2, <1>3, <1>4

\* What a refresh writes is a status that the database takes.
LEMMA NewStatus ==
  ASSUME RowsOK, NEW j \in Jobs, execution[j] # None, NEW run \in LoadedRun,
         NEW seen \in Phases \cup {"unreachable"}
  PROVE  (IF seen = "unreachable" THEN Simulated(j, run) ELSE StatusOf(seen)) \in LoadedRun
<1>1. CASE seen = "unreachable"
  BY <1>1 DEF Simulated, LoadedRun, ExecutionStatus, K8sStatus
<1>2. CASE seen \in Phases
  <2>1. StatusOf(seen) \in LoadedRun
    BY <1>2 DEF StatusOf, Phases, LoadedRun, ExecutionStatus, K8sStatus
  <2> QED
    BY <1>2, <2>1 DEF Phases
<1> QED
  BY <1>1, <1>2

LEMMA SyncStatusStep ==
  ASSUME DispatcherInv, NEW s \in Sessions, SyncStatus(s)
  PROVE  DispatcherInv'
<1> DEFINE j == session[s].cur
           run == session[s].runs[j]
           seen == session[s].seen
           new == IF seen = "unreachable" THEN Simulated(j, run) ELSE StatusOf(seen)
           flushed == Flush(job[j], session[s].loaded.status, new.gs_status)
<1>1. /\ session[s] \in SessionRow /\ PollOK(session[s]) /\ session[s].pc = "sync"
  BY InvParts DEF SessionsOK, SyncStatus
<1>2. /\ j \in session[s].batch /\ j \in Jobs
      /\ execution[j] # None /\ run \in LoadedRun /\ seen \in Phases \cup {"unreachable"}
  BY <1>1 DEF PollOK, SessionRow
<1>3. /\ execution' = [execution EXCEPT
           ![j].gs_status = IF new.gs_status = run.gs_status THEN @ ELSE new.gs_status,
           ![j].k8s_status = IF new.k8s_status = run.k8s_status THEN @ ELSE new.k8s_status]
      /\ job' = [job EXCEPT ![j] = IF seen = "unreachable" /\ new = run THEN @ ELSE flushed]
      /\ session' = [session EXCEPT ![s] = After(s, j, "poll", "idle")]
  BY DEF SyncStatus
<1>4. new \in LoadedRun
  BY <1>2, NewStatus, InvParts
<1>5. execution[j] \in ExecutionRow
  BY <1>2, InvParts DEF RowsOK, StoreTypeOK
<1> HIDE DEF new
<1>6. flushed \in JobRow /\ flushed.claim = job[j].claim
      /\ flushed.status \in {job[j].status, new.gs_status}
  BY <1>2, <1>4, FlushRow, InvParts DEF RowsOK, StoreTypeOK, LoadedRun, ExecutionStatus, Status
<1> HIDE DEF flushed
<1>7. job' \in [Jobs -> JobRow]
  BY <1>2, <1>3, <1>6, InvParts DEF RowsOK, StoreTypeOK
<1>8. execution' \in [Jobs -> {None} \cup ExecutionRow] /\ execution'[j] # None
      /\ \A k \in Jobs : execution[k] # None => execution'[k] # None
  <2> DEFINE row == [gs_status |-> IF new.gs_status = run.gs_status
                                   THEN execution[j].gs_status ELSE new.gs_status,
                     k8s_status |-> IF new.k8s_status = run.k8s_status
                                    THEN execution[j].k8s_status ELSE new.k8s_status,
                     left |-> execution[j].left]
  <2>1. row \in ExecutionRow
    BY <1>4, <1>5 DEF ExecutionRow, LoadedRun
  <2>2. execution'[j] \in ExecutionRow /\ \A k \in Jobs \ {j} : execution'[k] = execution[k]
    BY <1>2, <1>3, <1>4, <1>5, InvParts DEF ExecutionRow, LoadedRun, RowsOK, StoreTypeOK
  <2>3. execution' \in [Jobs -> {None} \cup ExecutionRow]
    BY <1>2, <1>3, <2>2, InvParts DEF RowsOK, StoreTypeOK
  <2> QED
    BY <1>2, <2>2, <2>3, JobTableAssumption
<1>9. \A k \in Jobs : \/ job'[k].status = job[k].status /\ job'[k].claim = job[k].claim
                      \/ job'[k].status # "CLAIMING" /\ execution'[k] # None
  BY <1>2, <1>3, <1>4, <1>6, <1>8, InvParts
  DEF RowsOK, StoreTypeOK, LoadedRun, ExecutionStatus
<1>10. RowsOK'
  BY <1>7, <1>8, <1>9, JobsMove, InvParts DEF SyncStatus
<1>11. SessionsOK'
  BY <1>1, <1>2, <1>3, <1>8, AfterRow, InvParts, OneSessionMoves DEF PollOK
<1> QED
  BY <1>10, <1>11, EnvStays, RejoinParts DEF SyncStatus

-----------------------------------------------------------------------------
(* Kubernetes, crashes and time.                                           *)

\* A step that leaves the sessions alone and deletes no execution.
LEMMA SessionsStay ==
  ASSUME DispatcherInv, UNCHANGED session,
         \A j \in Jobs : execution[j] # None => execution'[j] # None
  PROVE  SessionsOK'
<1>1. \A s \in Sessions : session[s].batch \subseteq Jobs
  BY InvParts DEF SessionsOK, SessionRow
<1> QED
  BY <1>1, InvParts DEF SessionsOK, HandOK, PollOK

LEMMA ClusterStepKeeps ==
  ASSUME DispatcherInv, NEW j \in Jobs, ClusterStep(j)
  PROVE  DispatcherInv'
<1>1. EnvOK'
  BY InvParts DEF ClusterStep, StartPod, FinishPod, RemoveFinished, EnvOK, ClusterRow, Phases
<1>2. UNCHANGED <<store, session>>
  BY DEF ClusterStep, StartPod, FinishPod, RemoveFinished
<1> QED
  BY <1>1, <1>2, RowsStay, SessionsStay, RejoinParts DEF store

LEMMA CrashStep ==
  ASSUME DispatcherInv, NEW w \in Workers, Crash(w)
  PROVE  DispatcherInv'
<1>1. EnvOK'
  BY InvParts, DispatcherAssumption DEF Crash, EnvOK
<1>2. SessionsOK'
  BY RestingRow, InvParts, OneSessionMoves DEF Crash, Idle, Steps, Holding, store
<1> QED
  BY <1>1, <1>2, RowsStay, RejoinParts DEF Crash

LEMMA CountDownType ==
  ASSUME NEW n \in Nat, NEW m \in 0 .. n
  PROVE  CountDown(m) \in 0 .. n
BY DEF CountDown

LEMMA TickStep ==
  ASSUME DispatcherInv, Tick
  PROVE  DispatcherInv'
<1> USE DEF Tick, Elapse, dispatch
<1>1. ASSUME NEW j \in Jobs
      PROVE  /\ job'[j] \in JobRow
             /\ job'[j].status = job[j].status
             /\ job[j].claim # None => job'[j].claim # None
  <2>1. job[j] \in JobRow
    BY InvParts DEF RowsOK, StoreTypeOK
  <2>2. CASE job[j].claim = None
    BY <2>1, <2>2
  <2>3. CASE job[j].claim # None
    <3>1. job[j].claim \in Claim
      BY <2>1, <2>3 DEF JobRow
    <3>2. CountDown(job[j].claim.left) \in 0 .. LeaseTicks
      BY <3>1, CountDownType, JobTableAssumption DEF Claim
    <3> DEFINE claim == [job[j].claim EXCEPT !.left = CountDown(job[j].claim.left)]
    <3>3. job'[j] = [job[j] EXCEPT !.claim = claim]
      BY <2>3
    <3>4. claim \in Claim
      BY <3>1, <3>2 DEF Claim
    <3> HIDE DEF claim
    <3> QED
      BY <2>1, <3>3, <3>4, JobTableAssumption DEF JobRow
  <2> QED
    BY <2>2, <2>3
<1>2. decision' \in [Jobs -> {None} \cup DecisionRow]
  BY CountDownType, JobTableAssumption, InvParts DEF RowsOK, StoreTypeOK, DecisionRow
<1>3. ASSUME NEW j \in Jobs
      PROVE  /\ execution'[j] \in {None} \cup ExecutionRow
             /\ execution[j] # None => execution'[j] # None
  <2>1. CASE execution[j] = None
    BY <2>1
  <2>2. CASE execution[j] # None
    <3>1. execution[j] \in ExecutionRow
      BY <2>2, InvParts DEF RowsOK, StoreTypeOK
    <3>2. CountDown(execution[j].left) \in 0 .. RuntimeTicks
      BY <3>1, CountDownType, JobTableAssumption DEF ExecutionRow
    <3>3. execution'[j] = [execution[j] EXCEPT !.left = CountDown(execution[j].left)]
      BY <2>2
    <3>4. execution'[j] \in ExecutionRow
      BY <3>1, <3>2, <3>3 DEF ExecutionRow
    <3> QED
      BY <3>4, JobTableAssumption
  <2> QED
    BY <2>1, <2>2
<1>4. job' \in [Jobs -> JobRow] /\ execution' \in [Jobs -> {None} \cup ExecutionRow]
  BY <1>1, <1>3
<1>5. StoreTypeOK'
  BY <1>2, <1>4, InvParts DEF RowsOK, StoreTypeOK
<1>6. QueuedHasExecution' /\ ClaimHasLease'
  BY <1>1, <1>3, InvParts DEF RowsOK, QueuedHasExecution, ClaimHasLease
<1>7. RowsOK' /\ SessionsOK'
  BY <1>3, <1>5, <1>6, SessionsStay DEF RowsOK
<1> QED
  BY <1>7, EnvStays, RejoinParts

-----------------------------------------------------------------------------
(* Together.                                                               *)

LEMMA DispatcherStep ==
  ASSUME DispatcherInv, DispatchNext
  PROVE  DispatcherInv'
<1>1. CASE \E w \in Workers : WorkerStep(w) \/ Crash(w)
  BY <1>1, RecoverReadStep, RecoverWriteStep, PromoteReadStep, PromoteWriteStep,
     ClaimReadyStep, PollReadStep, CrashStep DEF WorkerStep
<1>2. CASE \E s \in Sessions : SessionStep(s)
  BY <1>2, ValidateStep, MarkDispatchingStep, ReadClusterStep, CreateInClusterStep,
     MarkJobFailedStep, RecordExecutionStep, ObserveStep, SyncStatusStep DEF SessionStep
<1>3. CASE \E c \in Callers, j \in Jobs : RequestDispatch(c, j) \/ RequestStatus(c, j)
  BY <1>3, RequestDispatchStep, RequestStatusStep
<1>4. CASE \E j \in Jobs : ClusterStep(j)
  BY <1>4, ClusterStepKeeps
<1>5. CASE Tick
  BY <1>5, TickStep
<1> QED
  BY <1>1, <1>2, <1>3, <1>4, <1>5 DEF DispatchNext

LEMMA DispatcherStutter ==
  ASSUME DispatcherInv, UNCHANGED dispatcherVars
  PROVE  DispatcherInv'
<1>1. UNCHANGED <<store, session, cluster, crashes>>
  BY DEF dispatcherVars, dispatch
<1> QED
  BY <1>1, RowsStay, EnvStays, SessionsStay, RejoinParts DEF store

LEMMA DispatcherStart ==
  ASSUME DispatchInit
  PROVE  SessionsOK /\ EnvOK
<1>1. SessionsOK
  BY RestingRow DEF DispatchInit, Idle, Steps, Holding, SessionsOK
<1>2. EnvOK
  BY DispatcherAssumption DEF DispatchInit, EnvOK, ClusterRow, Phases
<1> QED
  BY <1>1, <1>2

\* From approved jobs on, however many workers, API sessions, crashes and
\* faults there are: the rows are well formed, a job that got as far as QUEUED
\* has its execution row, and a CLAIMING job has a lease that can expire.
THEOREM DispatcherInvariant == DispatcherSpec => []DispatcherInv
<1>1. DispatcherInit => DispatcherInv
  <2> SUFFICES ASSUME DispatcherInit PROVE DispatcherInv
    OBVIOUS
  <2>1. StoreTypeOK
    BY JobTableAssumption
    DEF DispatcherInit, StoreTypeOK, JobRow, Status, DecisionRow
  <2>2. QueuedHasExecution /\ ClaimHasLease
    BY DEF DispatcherInit, QueuedHasExecution, ClaimHasLease
  <2> QED
    BY <2>1, <2>2, DispatcherStart, InvParts DEF DispatcherInit, RowsOK
<1>2. DispatcherInv /\ [DispatchNext]_dispatcherVars => DispatcherInv'
  BY DispatcherStep, DispatcherStutter
<1> QED
  BY <1>1, <1>2, PTL DEF DispatcherSpec

-----------------------------------------------------------------------------
(* What a session that goes to create a Kubernetes Job knows.              *)

Committed == {"mark", "read", "create"}

\* The window of a job in hand has opened.
WindowOpen ==
  \A s \in Sessions : session[s].pc \in Committed => Due(session[s].cur)

\* Outside dispatch_job no step leads a session there, nor to an answer of the
\* cluster that it has still to write.
LEMMA WorkerSteps ==
  ASSUME DispatcherInv, NEW w \in Workers, WorkerStep(w) \/ Crash(w),
         NEW s \in Sessions, session'[s] # session[s]
  PROVE  session'[s].pc \notin Holding \cup {"sync"}
<1> USE InvParts DEF SessionsOK, Holding
<1>1. \A pc, batch, loaded, runs :
        /\ At(pc, batch).pc = pc
        /\ [At(pc, batch) EXCEPT !.loaded = loaded].pc = pc
        /\ [At(pc, batch) EXCEPT !.runs = runs].pc = pc
  BY DEF At
<1>2. CASE RecoverRead(w)
  BY <1>1, <1>2 DEF RecoverRead
<1>3. CASE RecoverWrite(w)
  BY <1>1, <1>3 DEF RecoverWrite
<1>4. CASE PromoteRead(w)
  BY <1>1, <1>4 DEF PromoteRead
<1>5. CASE PromoteWrite(w)
  BY <1>1, <1>5 DEF PromoteWrite
<1>6. CASE ClaimReady(w)
  <2>1. CASE session' = [session EXCEPT ![w] = At("poll_read", {})]
    BY <1>1, <2>1
  <2>2. CASE \E b \in SUBSET Jobs : session' = [session EXCEPT ![w] =
               [At("dispatch", b) EXCEPT
                  !.loaded = [status |-> "CLAIMING", claimed |-> TRUE]]]
    BY <1>1, <2>2
  <2> QED
    BY <1>6, <2>1, <2>2 DEF ClaimReady
<1>7. CASE PollRead(w)
  BY <1>1, <1>7 DEF PollRead, Idle
<1>8. CASE Crash(w)
  BY <1>1, <1>8 DEF Crash, Idle
<1> QED
  BY <1>2, <1>3, <1>4, <1>5, <1>6, <1>7, <1>8 DEF WorkerStep

LEMMA RequestSteps ==
  ASSUME DispatcherInv, NEW c \in Callers, NEW j \in Jobs,
         RequestDispatch(c, j) \/ RequestStatus(c, j),
         NEW s \in Sessions, session'[s] # session[s]
  PROVE  session'[s].pc \notin Holding \cup {"sync"}
BY InvParts DEF SessionsOK, Holding, RequestDispatch, RequestStatus, At

\* What a session has in hand after a step of dispatch_job or of a refresh.
LEMMA AfterPc ==
  ASSUME DispatcherInv, NEW t \in Sessions, NEW j \in Jobs, NEW again \in {"dispatch", "poll"},
         NEW idleStep \in {"poll_read", "idle"}
  PROVE  After(t, j, again, idleStep).pc \notin Holding \cup {"sync"}
<1>1. CASE session[t].batch \ {j} = {}
  BY <1>1 DEF After, At, Holding
<1>2. CASE session[t].batch \ {j} # {}
  BY <1>2, InvParts DEF After, Holding, SessionsOK, SessionRow
<1> QED
  BY <1>1, <1>2

LEMMA SessionSteps ==
  ASSUME DispatcherInv, NEW t \in Sessions, SessionStep(t),
         NEW s \in Sessions, session'[s] # session[s], session'[s].pc \in Holding
  PROVE  /\ s = t
         /\ \/ /\ session[s].pc = "dispatch" /\ session'[s].pc = "mark"
               /\ session'[s].cur \in Jobs /\ Due(session'[s].cur)
            \/ session[s].pc \in Committed /\ session'[s].cur = session[s].cur
<1> USE InvParts DEF SessionsOK, Committed
<1>1. session[t] \in SessionRow /\ session[t].batch \subseteq Jobs
  BY DEF SessionRow
<1>2. CASE Validate(t)
  <2>1. PICK j \in session[t].batch : \E loaded \in {session[t].loaded, Load(j)} :
          session' = [session EXCEPT ![t] =
            IF loaded.status \in DispatchableStatus /\ Due(j)
            THEN [session[t] EXCEPT !.pc = "mark", !.cur = j, !.loaded = loaded]
            ELSE AfterDispatch(t, j)]
    BY <1>2 DEF Validate
  <2>2. AfterDispatch(t, j).pc \notin Holding
    BY <1>1, AfterPc DEF AfterDispatch
  <2>3. PICK loaded : session' = [session EXCEPT ![t] =
            IF loaded.status \in DispatchableStatus /\ Due(j)
            THEN [session[t] EXCEPT !.pc = "mark", !.cur = j, !.loaded = loaded]
            ELSE AfterDispatch(t, j)]
    BY <2>1
  <2>4. CASE loaded.status \in DispatchableStatus /\ Due(j)
    <3> DEFINE row == [session[t] EXCEPT !.pc = "mark", !.cur = j, !.loaded = loaded]
    <3>1. row.pc = "mark" /\ row.cur = j
      BY <1>1 DEF SessionRow
    <3>2. session' = [session EXCEPT ![t] = row]
      BY <2>3, <2>4
    <3> HIDE DEF row
    <3>3. s = t /\ session'[s] = row
      BY <3>2
    <3> QED
      BY <1>1, <1>2, <2>4, <3>1, <3>3 DEF Validate
  <2>5. CASE ~(loaded.status \in DispatchableStatus /\ Due(j))
    BY <2>2, <2>3, <2>5
  <2> QED
    BY <2>4, <2>5
<1>3. CASE MarkDispatching(t) \/ ReadCluster(t) \/ CreateInCluster(t)
  BY <1>1, <1>3 DEF MarkDispatching, ReadCluster, CreateInCluster, SessionRow
<1>4. CASE MarkJobFailed(t) \/ RecordExecution(t)
  <2>1. session[t].cur \in Jobs
    BY <1>4 DEF MarkJobFailed, RecordExecution, HandOK, Holding
  <2>2. AfterDispatch(t, session[t].cur).pc \notin Holding
    BY <2>1, AfterPc DEF AfterDispatch
  <2>3. Idle.pc \notin Holding
    BY DEF Idle, At, Holding
  <2> QED
    BY <1>4, <2>2, <2>3 DEF MarkJobFailed, RecordExecution
<1>5. CASE Observe(t) \/ SyncStatus(t)
  <2>1. \A j \in Jobs : After(t, j, "poll", "idle").pc \notin Holding
    BY AfterPc
  <2>2. CASE Observe(t)
    <3>1. PICK j \in session[t].batch :
            \/ \E answer \in {cluster[j].phase} \cup (Faults \cap {"unreachable"}) :
                 session' = [session EXCEPT ![t] =
                   [session[t] EXCEPT !.pc = "sync", !.cur = j, !.seen = answer,
                      !.loaded = IF t \in Workers THEN Load(j) ELSE session[t].loaded]]
            \/ session' = [session EXCEPT ![t] = After(t, j, "poll", "idle")]
      BY <2>2 DEF Observe
    <3>2. ASSUME NEW answer, NEW loaded,
                 session' = [session EXCEPT ![t] =
                   [session[t] EXCEPT !.pc = "sync", !.cur = j, !.seen = answer,
                                      !.loaded = loaded]]
          PROVE  FALSE
      <4> DEFINE row == [session[t] EXCEPT !.pc = "sync", !.cur = j, !.seen = answer,
                                           !.loaded = loaded]
      <4>1. row.pc \notin Holding
        BY <1>1 DEF SessionRow, Holding
      <4>2. session' = [session EXCEPT ![t] = row]
        BY <3>2
      <4> HIDE DEF row
      <4> QED
        BY <4>1, <4>2
    <3>3. CASE session' = [session EXCEPT ![t] = After(t, j, "poll", "idle")]
      BY <1>1, <2>1, <3>3
    <3> QED
      BY <3>1, <3>2, <3>3
  <2>3. CASE SyncStatus(t)
    BY <1>1, <2>1, <2>3 DEF SyncStatus, PollOK
  <2> QED
    BY <1>5, <2>2, <2>3
<1> QED
  BY <1>2, <1>3, <1>4, <1>5 DEF SessionStep

\* An open window stays open while nobody schedules the job anew.
LEMMA DueStays ==
  ASSUME DispatcherInv, DispatchNext, NEW j \in Jobs, Due(j)
  PROVE  Due(j)'
<1>1. decision[j] \in DecisionRow /\ decision[j].in = 0
  BY InvParts DEF RowsOK, StoreTypeOK, Due
<1>2. CASE Tick
  <2>1. decision'[j] = [decision[j] EXCEPT !.in = CountDown(decision[j].in)]
    BY <1>2, <1>1, JobTableAssumption DEF Tick, Elapse
  <2>2. decision'[j] \in DecisionRow /\ decision'[j].in = 0
    BY <1>1, <2>1 DEF DecisionRow, CountDown
  <2> QED
    BY <2>2, JobTableAssumption DEF Due
<1>3. CASE UNCHANGED decision
  BY <1>1, <1>3 DEF Due
<1>4. Tick \/ UNCHANGED decision
  BY DEF DispatchNext, WorkerStep, SessionStep, ClusterStep, RecoverRead, RecoverWrite,
     PromoteRead, PromoteWrite, ClaimReady, PollRead, Crash, Validate, MarkDispatching,
     ReadCluster, CreateInCluster, MarkJobFailed, RecordExecution, Observe, SyncStatus,
     RequestDispatch, RequestStatus, StartPod, FinishPod, RemoveFinished, store
<1> QED
  BY <1>2, <1>3, <1>4

LEMMA WindowStep ==
  ASSUME DispatcherInv, WindowOpen, DispatchNext
  PROVE  WindowOpen'
<1> SUFFICES ASSUME NEW s \in Sessions, session'[s].pc \in Committed
             PROVE  Due(session[s].cur)'
  BY DEF WindowOpen
<1>1. session'[s].pc \in Holding
  BY DEF Committed, Holding
<1>2. \/ session[s].pc \in Committed /\ session'[s].cur = session[s].cur
      \/ session'[s].cur \in Jobs /\ Due(session'[s].cur)
  BY <1>1, WorkerSteps, RequestSteps, SessionSteps
  DEF DispatchNext, ClusterStep, StartPod, FinishPod, RemoveFinished, Tick, dispatch
<1>3. session[s].pc \in Committed => session[s].cur \in Jobs
  BY InvParts DEF SessionsOK, HandOK, Holding, Committed
<1>4. session'[s].cur \in Jobs /\ Due(session'[s].cur)
  BY <1>2, <1>3 DEF WindowOpen
<1> DEFINE j == session'[s].cur
<1>5. \A k \in Jobs : Due(k) => Due(k)'
  BY DueStays
<1> QED
  BY <1>4, <1>5 DEF Due

\* The cluster gets a new Job only from CreateInCluster.
LEMMA OnlyCreates ==
  ASSUME DispatcherInv, DispatchNext, NEW j \in Jobs, cluster'[j].runs > cluster[j].runs
  PROVE  \E s \in Sessions : session[s].pc = "create" /\ session[s].cur = j
<1>1. cluster \in [Jobs -> ClusterRow] /\ \A k \in Jobs : cluster[k].runs \in 0 .. 2
  BY InvParts DEF EnvOK, ClusterRow
<1>2. ASSUME NEW k \in Jobs, ClusterStep(k)
      PROVE  FALSE
  BY <1>1, <1>2 DEF ClusterStep, StartPod, FinishPod, RemoveFinished, ClusterRow
<1>3. ASSUME NEW s \in Sessions, CreateInCluster(s)
      PROVE  session[s].pc = "create" /\ session[s].cur = j
  BY <1>1, <1>3 DEF CreateInCluster, CreateJob
<1>4. \/ UNCHANGED cluster
      \/ \E k \in Jobs : ClusterStep(k)
      \/ \E s \in Sessions : CreateInCluster(s)
  BY DEF DispatchNext, WorkerStep, SessionStep, RecoverRead, RecoverWrite,
     PromoteRead, PromoteWrite, ClaimReady, PollRead, Crash, Validate, MarkDispatching,
     ReadCluster, MarkJobFailed, RecordExecution, Observe, SyncStatus,
     RequestDispatch, RequestStatus, Tick, dispatch
<1> QED
  BY <1>1, <1>2, <1>3, <1>4

\* No Kubernetes Job is created before selected_start, by a worker or by the
\* manual endpoint, as long as the job is not scheduled anew meanwhile.
THEOREM CreatesOnlyWhenDue == DispatcherSpec => NotBeforeWindow
<1> DEFINE Inv == DispatcherInv /\ WindowOpen
<1>1. DispatcherInit => WindowOpen
  BY DEF DispatcherInit, DispatchInit, WindowOpen, Idle, At, Committed
<1>2. Inv /\ [DispatchNext]_dispatcherVars => WindowOpen'
  <2>1. ASSUME WindowOpen, UNCHANGED dispatcherVars PROVE WindowOpen'
    BY <2>1 DEF WindowOpen, dispatcherVars, dispatch, store, Due
  <2> QED
    BY <2>1, WindowStep
<1>3. Inv /\ [DispatchNext]_dispatcherVars =>
        [\A j \in Jobs : cluster'[j].runs > cluster[j].runs => Due(j)]_dispatcherVars
  BY OnlyCreates DEF WindowOpen, Committed
<1> QED
  BY <1>1, <1>2, <1>3, DispatcherInvariant, PTL DEF DispatcherSpec, NotBeforeWindow

-----------------------------------------------------------------------------
(* What a session that records an execution knows.                         *)

\* A Job that is there was created, and so was the one that a session is about
\* to record.
Created ==
  /\ ExecutionBacked
  /\ \A j \in Jobs : cluster[j].phase # "absent" => cluster[j].runs > 0
  /\ \A s \in Sessions : session[s].pc = "record" => cluster[session[s].cur].runs > 0

\* Nothing takes a creation back.
LEMMA RunsStay ==
  ASSUME DispatcherInv, Created, DispatchNext, NEW j \in Jobs
  PROVE  /\ cluster[j].runs > 0 => cluster'[j].runs > 0
         /\ cluster'[j].phase # "absent" => cluster'[j].runs > 0
<1>1. cluster \in [Jobs -> ClusterRow]
  BY InvParts DEF EnvOK
<1>2. ASSUME NEW k \in Jobs, ClusterStep(k)
      PROVE  /\ cluster'[j].runs = cluster[j].runs
             /\ cluster'[j].phase # "absent" => cluster[j].phase # "absent"
  BY <1>1, <1>2 DEF ClusterStep, StartPod, FinishPod, RemoveFinished, ClusterRow
<1>3. ASSUME NEW s \in Sessions, CreateJob(session[s].cur)
      PROVE  /\ cluster[j].runs > 0 => cluster'[j].runs > 0
             /\ cluster'[j].phase # "absent" =>
                  cluster[j].phase # "absent" \/ cluster'[j].runs > 0
  BY <1>1, <1>3 DEF CreateJob, ClusterRow
<1>4. \/ UNCHANGED cluster
      \/ \E k \in Jobs : ClusterStep(k)
      \/ \E s \in Sessions : CreateJob(session[s].cur)
  BY DEF DispatchNext, WorkerStep, SessionStep, RecoverRead, RecoverWrite,
     PromoteRead, PromoteWrite, ClaimReady, PollRead, Crash, Validate, MarkDispatching,
     ReadCluster, CreateInCluster, MarkJobFailed, RecordExecution, Observe, SyncStatus,
     RequestDispatch, RequestStatus, Tick, dispatch
<1> QED
  BY <1>2, <1>3, <1>4 DEF Created

\* A session comes to record an execution only after it found or created the
\* Job, when the cluster cannot be out of reach.
LEMMA RecordsCreated ==
  ASSUME DispatcherInv, Created, DispatchNext, "unreachable" \notin Faults,
         NEW s \in Sessions, session'[s].pc = "record"
  PROVE  session'[s].cur \in Jobs /\ cluster'[session'[s].cur].runs > 0
<1>1. CASE session'[s] = session[s]
  <2>1. session[s].cur \in Jobs /\ cluster[session[s].cur].runs > 0
    BY <1>1, InvParts DEF SessionsOK, HandOK, Holding, Created
  <2> QED
    BY <1>1, <2>1, RunsStay
<1>2. CASE session'[s] # session[s]
  <2>1. PICK t \in Sessions : SessionStep(t)
    BY <1>2, WorkerSteps, RequestSteps
    DEF DispatchNext, ClusterStep, StartPod, FinishPod, RemoveFinished, Tick, dispatch, Holding
  <2>2. s = t /\ session[s].pc \in Committed /\ session'[s].cur = session[s].cur
    BY <1>2, <2>1, SessionSteps DEF Holding
  <2>3. session[s] \in SessionRow /\ session[s].cur \in Jobs
    BY <2>2, InvParts DEF SessionsOK, HandOK, Holding, Committed
  <2>4. ReadCluster(s) \/ CreateInCluster(s)
    <3>1. CASE MarkDispatching(s)
      BY <2>3, <3>1, InvParts DEF MarkDispatching, SessionsOK, SessionRow
    <3> QED
      BY <2>1, <2>2, <3>1 DEF SessionStep, Committed, Validate, MarkJobFailed,
         RecordExecution, Observe, SyncStatus
  <2>5. CASE ReadCluster(s)
    <3>1. cluster[session[s].cur].phase # "absent"
      BY <2>3, <2>5, InvParts DEF ReadCluster, SessionsOK, SessionRow
    <3>2. cluster[session[s].cur].runs > 0
      BY <2>3, <3>1 DEF Created
    <3> QED
      BY <2>2, <2>3, <3>2, RunsStay
  <2>6. CASE CreateInCluster(s)
    <3>1. CreateJob(session[s].cur)
      BY <2>3, <2>6, InvParts DEF CreateInCluster, SessionsOK, SessionRow
    <3>2. cluster'[session[s].cur].runs > 0
      BY <2>3, <3>1, InvParts DEF CreateJob, EnvOK, ClusterRow
    <3> QED
      BY <2>2, <2>3, <3>2
  <2> QED
    BY <2>4, <2>5, <2>6
<1> QED
  BY <1>1, <1>2

\* An execution row appears only where a session records it.
LEMMA OnlyRecords ==
  ASSUME DispatcherInv, DispatchNext, NEW j \in Jobs,
         execution[j] = None, execution'[j] # None
  PROVE  \E s \in Sessions : session[s].pc = "record" /\ session[s].cur = j
<1>1. execution \in [Jobs -> {None} \cup ExecutionRow]
  BY InvParts DEF RowsOK, StoreTypeOK
<1>2. ASSUME NEW s \in Sessions, RecordExecution(s)
      PROVE  session[s].pc = "record" /\ session[s].cur = j
  BY <1>1, <1>2 DEF RecordExecution
<1>3. ASSUME NEW s \in Sessions, MarkJobFailed(s)
      PROVE  FALSE
  BY <1>1, <1>3 DEF MarkJobFailed
<1>4. ASSUME NEW s \in Sessions, SyncStatus(s)
      PROVE  FALSE
  <2>1. execution[session[s].cur] # None
    BY <1>4, InvParts DEF SyncStatus, SessionsOK, PollOK
  <2> QED
    BY <1>1, <1>4, <2>1 DEF SyncStatus
<1>5. ~Tick
  BY <1>1 DEF Tick, Elapse
<1>6. \/ UNCHANGED execution \/ Tick
      \/ \E s \in Sessions : RecordExecution(s) \/ MarkJobFailed(s) \/ SyncStatus(s)
  BY DEF DispatchNext, WorkerStep, SessionStep, ClusterStep, RecoverRead, RecoverWrite,
     PromoteRead, PromoteWrite, ClaimReady, PollRead, Crash, Validate, MarkDispatching,
     ReadCluster, CreateInCluster, Observe, RequestDispatch, RequestStatus,
     StartPod, FinishPod, RemoveFinished, store
<1> QED
  BY <1>2, <1>3, <1>4, <1>5, <1>6

LEMMA CreatedStep ==
  ASSUME DispatcherInv, Created, DispatchNext, "unreachable" \notin Faults
  PROVE  Created'
<1>1. ASSUME NEW j \in Jobs, execution'[j] # None
      PROVE  cluster'[j].runs > 0
  <2>1. cluster[j].runs > 0
    BY <1>1, OnlyRecords DEF Created, ExecutionBacked
  <2> QED
    BY <2>1, RunsStay
<1>2. ASSUME NEW s \in Sessions, session'[s].pc = "record"
      PROVE  cluster'[session'[s].cur].runs > 0
  BY <1>2, RecordsCreated
<1>3. \A j \in Jobs : cluster'[j].phase # "absent" => cluster'[j].runs > 0
  BY RunsStay
<1> QED
  BY <1>1, <1>2, <1>3 DEF Created, ExecutionBacked

\* Where Kubernetes can be reached, an execution row is never recorded for a
\* Job that was not created, whatever calls fail and whoever else creates it.
THEOREM ExecutionsAreBacked ==
  ASSUME "unreachable" \notin Faults
  PROVE  DispatcherSpec => []ExecutionBacked
<1>1. DispatcherInit => Created
  BY DEF DispatcherInit, DispatchInit, Created, ExecutionBacked, Idle, At
<1>2. DispatcherInv /\ Created /\ [DispatchNext]_dispatcherVars => Created'
  <2>1. ASSUME Created, UNCHANGED dispatcherVars PROVE Created'
    BY <2>1 DEF Created, ExecutionBacked, dispatcherVars, dispatch, store
  <2> QED
    BY <2>1, CreatedStep
<1>3. Created => ExecutionBacked
  BY DEF Created
<1> QED
  BY <1>1, <1>2, <1>3, DispatcherInvariant, PTL DEF DispatcherSpec

-----------------------------------------------------------------------------
(* What a session that writes an answer of the cluster knows.              *)

\* Finished Jobs stay finished: a success that was seen is still there.
Observed ==
  /\ CompletedIsTruthful
  /\ \A s \in Sessions : session[s].pc = "sync" =>
       /\ session[s].seen # "unreachable"
       /\ session[s].seen = "succeeded" => cluster[session[s].cur].phase = "succeeded"

LEMMA SuccessStays ==
  ASSUME DispatcherInv, DispatchNext, "ttl" \notin Faults,
         NEW j \in Jobs, cluster[j].phase = "succeeded"
  PROVE  cluster'[j].phase = "succeeded"
<1>1. cluster \in [Jobs -> ClusterRow]
  BY InvParts DEF EnvOK
<1>2. ASSUME NEW k \in Jobs, ClusterStep(k) PROVE cluster'[j].phase = "succeeded"
  BY <1>1, <1>2 DEF ClusterStep, StartPod, FinishPod, RemoveFinished, ClusterRow
<1>3. ASSUME NEW s \in Sessions, CreateInCluster(s) PROVE cluster'[j].phase = "succeeded"
  BY <1>1, <1>3 DEF CreateInCluster, CreateJob, ClusterRow
<1>4. \/ UNCHANGED cluster
      \/ \E k \in Jobs : ClusterStep(k)
      \/ \E s \in Sessions : CreateInCluster(s)
  BY DEF DispatchNext, WorkerStep, SessionStep, RecoverRead, RecoverWrite,
     PromoteRead, PromoteWrite, ClaimReady, PollRead, Crash, Validate, MarkDispatching,
     ReadCluster, MarkJobFailed, RecordExecution, Observe, SyncStatus,
     RequestDispatch, RequestStatus, Tick, dispatch
<1> QED
  BY <1>2, <1>3, <1>4

\* The answer in hand is what the cluster said.
LEMMA ObserveSees ==
  ASSUME DispatcherInv, NEW t \in Sessions, SessionStep(t),
         NEW s \in Sessions, session'[s] # session[s], session'[s].pc = "sync"
  PROVE  /\ session'[s].cur \in Jobs
         /\ session'[s].seen \in {cluster[session'[s].cur].phase} \cup (Faults \cap {"unreachable"})
         /\ UNCHANGED cluster
<1> USE InvParts DEF SessionsOK
<1>1. session[t] \in SessionRow /\ session[t].batch \subseteq Jobs
  BY DEF SessionRow
<1>2. \A j \in Jobs : /\ AfterDispatch(t, j).pc # "sync"
                      /\ After(t, j, "poll", "idle").pc # "sync"
  BY AfterPc DEF AfterDispatch
<1>3. Idle.pc # "sync"
  BY DEF Idle, At
<1>4. CASE Validate(t)
  <2>1. PICK j \in session[t].batch : \E loaded \in {session[t].loaded, Load(j)} :
          \/ session' = [session EXCEPT ![t] =
                [session[t] EXCEPT !.pc = "mark", !.cur = j, !.loaded = loaded]]
          \/ session' = [session EXCEPT ![t] = AfterDispatch(t, j)]
    BY <1>4 DEF Validate
  <2> QED
    BY <1>1, <1>2, <2>1 DEF SessionRow
<1>5. CASE MarkDispatching(t) \/ ReadCluster(t) \/ CreateInCluster(t)
  BY <1>1, <1>5 DEF MarkDispatching, ReadCluster, CreateInCluster, SessionRow
<1>6. CASE MarkJobFailed(t) \/ RecordExecution(t)
  <2>1. session[t].cur \in Jobs
    BY <1>6 DEF MarkJobFailed, RecordExecution, HandOK, Holding
  <2> QED
    BY <1>2, <1>3, <1>6, <2>1 DEF MarkJobFailed, RecordExecution
<1>7. CASE Observe(t)
  <2>1. PICK j \in session[t].batch :
          \/ \E answer \in {cluster[j].phase} \cup (Faults \cap {"unreachable"}) :
               session' = [session EXCEPT ![t] =
                 [session[t] EXCEPT !.pc = "sync", !.cur = j, !.seen = answer,
                    !.loaded = IF t \in Workers THEN Load(j) ELSE session[t].loaded]]
          \/ session' = [session EXCEPT ![t] = After(t, j, "poll", "idle")]
    BY <1>7 DEF Observe
  <2>2. ASSUME NEW answer \in {cluster[j].phase} \cup (Faults \cap {"unreachable"}), NEW loaded,
               session' = [session EXCEPT ![t] =
                 [session[t] EXCEPT !.pc = "sync", !.cur = j, !.seen = answer, !.loaded = loaded]]
        PROVE  session'[s].cur = j /\ session'[s].seen = answer
    <3> DEFINE row == [session[t] EXCEPT !.pc = "sync", !.cur = j, !.seen = answer,
                                         !.loaded = loaded]
    <3>1. row.cur = j /\ row.seen = answer
      BY <1>1 DEF SessionRow
    <3>2. session' = [session EXCEPT ![t] = row]
      BY <2>2
    <3> HIDE DEF row
    <3> QED
      BY <3>1, <3>2
  <2>3. CASE session' = [session EXCEPT ![t] = After(t, j, "poll", "idle")]
    BY <1>1, <1>2, <2>3
  <2>4. UNCHANGED cluster
    BY <1>7 DEF Observe
  <2> QED
    BY <1>1, <2>1, <2>2, <2>3, <2>4
<1>8. CASE SyncStatus(t)
  BY <1>1, <1>2, <1>8 DEF SyncStatus, PollOK
<1> QED
  BY <1>4, <1>5, <1>6, <1>7, <1>8 DEF SessionStep

\* A job is COMPLETED only by a refresh that saw its pod succeed.
LEMMA OnlySuccessCompletes ==
  ASSUME DispatcherInv, DispatchNext, NEW j \in Jobs,
         job[j].status # "COMPLETED", job'[j].status = "COMPLETED"
  PROVE  \E s \in Sessions : /\ session[s].pc = "sync" /\ session[s].cur = j
                             /\ session[s].seen \in {"succeeded", "unreachable"}
<1> USE InvParts DEF RowsOK, StoreTypeOK, SessionsOK
<1>1. job \in [Jobs -> JobRow]
  OBVIOUS
<1>2. ASSUME NEW w \in Workers, RecoverWrite(w) \/ PromoteWrite(w) PROVE FALSE
  BY <1>1, <1>2 DEF RecoverWrite, PromoteWrite, JobRow
<1>3. ASSUME NEW w \in Workers, ClaimReady(w) PROVE FALSE
  <2>1. \/ UNCHANGED job
        \/ \E b : job' = [k \in Jobs |->
             IF k \in b
             THEN [status |-> "CLAIMING", claim |-> [by |-> w, left |-> LeaseTicks]]
             ELSE job[k]]
    BY <1>3 DEF ClaimReady
  <2>2. job'[j].status = "CLAIMING" \/ job'[j] = job[j]
    BY <2>1
  <2> QED
    BY <2>2
<1>4. ASSUME NEW s \in Sessions, MarkDispatching(s) PROVE FALSE
  BY <1>1, <1>4, FlushRow DEF MarkDispatching, Status
<1>5. ASSUME NEW s \in Sessions, MarkJobFailed(s) PROVE FALSE
  <2>1. PICK row : row = Flush(job[j], session[s].loaded.status, "FAILED")
    OBVIOUS
  <2>2. row \in JobRow /\ row.status \in {job[j].status, "FAILED"}
    BY <1>1, <2>1, FlushRow DEF Status
  <2>3. Release(row, session[s].loaded.claimed).status = row.status
    BY <2>2, ReleaseRow
  <2> QED
    BY <1>1, <1>5, <2>1, <2>2, <2>3 DEF MarkJobFailed
<1>6. ASSUME NEW s \in Sessions, RecordExecution(s) PROVE FALSE
  <2>1. PICK row : row = Flush(job[j], session[s].loaded.status, "QUEUED")
    OBVIOUS
  <2>2. row \in JobRow /\ row.status \in {job[j].status, "QUEUED"}
    BY <1>1, <2>1, FlushRow DEF Status
  <2>3. Release(row, session[s].loaded.claimed).status = row.status
    BY <2>2, ReleaseRow
  <2> QED
    BY <1>1, <1>6, <2>1, <2>2, <2>3 DEF RecordExecution
<1>7. ASSUME NEW s \in Sessions, SyncStatus(s)
      PROVE  /\ session[s].pc = "sync" /\ session[s].cur = j
             /\ session[s].seen \in {"succeeded", "unreachable"}
  <2>1. /\ session[s].pc = "sync" /\ session[s].seen \in Phases \cup {"unreachable"}
        /\ session[s].cur \in Jobs
    BY <1>7 DEF SyncStatus, PollOK, SessionRow
  <2>2. session[s].cur = j
    BY <1>1, <1>7 DEF SyncStatus
  <2>3. ASSUME session[s].seen \in Phases \ {"succeeded"} PROVE FALSE
    <3>1. StatusOf(session[s].seen).gs_status \in Status \ {"COMPLETED"}
      BY <2>3 DEF StatusOf, Phases, Status
    <3>2. job'[j] = Flush(job[j], session[s].loaded.status, StatusOf(session[s].seen).gs_status)
      BY <1>1, <1>7, <2>2, <2>3 DEF SyncStatus, Phases
    <3> QED
      BY <1>1, <3>1, <3>2, FlushRow
  <2> QED
    BY <2>1, <2>2, <2>3
<1>8. ASSUME Tick PROVE FALSE
  BY <1>1, <1>8 DEF Tick, Elapse, JobRow
<1>9. \/ UNCHANGED job \/ Tick
      \/ \E w \in Workers : RecoverWrite(w) \/ PromoteWrite(w) \/ ClaimReady(w)
      \/ \E s \in Sessions : \/ MarkDispatching(s) \/ MarkJobFailed(s)
                            \/ RecordExecution(s) \/ SyncStatus(s)
  BY DEF DispatchNext, WorkerStep, SessionStep, ClusterStep, RecoverRead, PromoteRead,
     PollRead, Crash, Validate, ReadCluster, CreateInCluster, Observe, RequestDispatch,
     RequestStatus, StartPod, FinishPod, RemoveFinished, store
<1> QED
  BY <1>2, <1>3, <1>4, <1>5, <1>6, <1>7, <1>8, <1>9

LEMMA ObservedStep ==
  ASSUME DispatcherInv, Observed, DispatchNext, Faults \cap {"unreachable", "ttl"} = {}
  PROVE  Observed'
<1>1. ASSUME NEW s \in Sessions, session'[s].pc = "sync"
      PROVE  /\ session'[s].seen # "unreachable"
             /\ session'[s].seen = "succeeded" => cluster'[session'[s].cur].phase = "succeeded"
  <2>1. CASE session'[s] = session[s]
    <3>1. session[s].cur \in Jobs
      BY <1>1, <2>1, InvParts DEF SessionsOK, PollOK, SessionRow
    <3> QED
      BY <1>1, <2>1, <3>1, SuccessStays DEF Observed
  <2>2. CASE session'[s] # session[s]
    <3>1. PICK t \in Sessions : SessionStep(t)
      BY <1>1, <2>2, WorkerSteps, RequestSteps
      DEF DispatchNext, ClusterStep, StartPod, FinishPod, RemoveFinished, Tick, dispatch
    <3>2. /\ session'[s].cur \in Jobs /\ UNCHANGED cluster
          /\ session'[s].seen = cluster[session'[s].cur].phase
      BY <1>1, <2>2, <3>1, ObserveSees
    <3>3. session'[s].seen \in Phases
      BY <3>2, InvParts DEF EnvOK, ClusterRow
    <3> QED
      BY <3>2, <3>3 DEF Phases
  <2> QED
    BY <2>1, <2>2
<1>2. ASSUME NEW j \in Jobs, job'[j].status = "COMPLETED"
      PROVE  cluster'[j].phase = "succeeded"
  <2>1. cluster[j].phase = "succeeded"
    BY <1>2, OnlySuccessCompletes DEF Observed, CompletedIsTruthful
  <2> QED
    BY <2>1, SuccessStays
<1> QED
  BY <1>1, <1>2 DEF Observed, CompletedIsTruthful

\* Where the cluster answers and keeps finished Jobs, COMPLETED means that the
\* pod succeeded, however late and in whatever order sessions write what they
\* saw (refresh_job_status).
THEOREM CompletionsAreTruthful ==
  ASSUME Faults \cap {"unreachable", "ttl"} = {}
  PROVE  DispatcherSpec => []CompletedIsTruthful
<1>1. DispatcherInit => Observed
  BY DEF DispatcherInit, DispatchInit, Observed, CompletedIsTruthful, Idle, At
<1>2. DispatcherInv /\ Observed /\ [DispatchNext]_dispatcherVars => Observed'
  <2>1. ASSUME Observed, UNCHANGED dispatcherVars PROVE Observed'
    BY <2>1 DEF Observed, CompletedIsTruthful, dispatcherVars, dispatch, store
  <2> QED
    BY <2>1, ObservedStep
<1>3. Observed => CompletedIsTruthful
  BY DEF Observed
<1> QED
  BY <1>1, <1>2, <1>3, DispatcherInvariant, PTL DEF DispatcherSpec
=============================================================================
