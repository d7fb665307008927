----------------------------- MODULE DecideLoop -----------------------------
(***************************************************************************)
(* DECIDE: the background loop (process_pending_jobs), POST /schedule/{id} *)
(* and POST /schedule/batch.  All three load jobs, run the scheduler on    *)
(* them (its result is free here: infeasible, or some start), look for a   *)
(* schedule decision to overwrite, and store.                              *)
(***************************************************************************)
EXTENDS JobTable

CONSTANTS
  Loops,       \* decide-service processes
  Schedulers,  \* API sessions of POST /schedule/{job_id}
  Batchers     \* API sessions of POST /schedule/batch

ASSUME DecideAssumption ==
  /\ Loops \cap Schedulers = {} /\ Loops \cap Batchers = {}
  /\ Schedulers \cap Batchers = {}

VARIABLE pass  \* what each decider is doing

decideVars == <<store, pass>>

Deciders == Loops \cup Schedulers \cup Batchers

\* loaded: the status of each job still to schedule as it was loaded;
\* storing: those to be committed next; sd: the schedule decision, if any,
\* that was found for each of them.
PassRow ==
  [pc: {"idle", "schedule", "store", "fail"},
   loaded: [Jobs -> {None} \cup Status],
   storing: SUBSET Jobs,
   sd: [Jobs -> {None} \cup (1 .. MaxDecisions)]]

NoPass ==
  [pc |-> "idle", loaded |-> [j \in Jobs |-> None], storing |-> {},
   sd |-> [j \in Jobs |-> None]]

DecideTypeOK == pass \in [Deciders -> PassRow]

Todo(d) == {j \in Jobs : pass[d].loaded[j] # None}

\* The pass once the jobs in done are dealt with.  A collision in an audit
\* append rolls the session back, and the other rows are then read anew.
Advance(d, done) ==
  \E reload \in BOOLEAN :
    pass' = [pass EXCEPT ![d] =
      IF Todo(d) \subseteq done THEN NoPass
      ELSE [NoPass EXCEPT !.pc = "schedule",
              !.loaded = [j \in Jobs |->
                 IF j \notin Todo(d) \ done THEN None
                 ELSE IF reload THEN job[j].status ELSE pass[d].loaded[j]]]]

-----------------------------------------------------------------------------
Submitted == {j \in Jobs : job[j].status = "SUBMITTED"}

\* The jobs a pass may start with.  The loop takes every SUBMITTED job whose
\* deadline is ahead (deadlines are not modelled: any of them); /schedule takes
\* one SUBMITTED job; /schedule/batch takes SUBMITTED jobs or, when the request
\* lists job ids, the jobs listed whatever their status.
MayStart(d, batch) ==
  \/ d \in Loops /\ batch \subseteq Submitted
  \/ d \in Schedulers /\ \E j \in Submitted : batch = {j}
  \/ d \in Batchers

StartPass(d) ==
  /\ pass[d].pc = "idle"
  /\ \E batch \in SUBSET Jobs \ {{}} :
       /\ MayStart(d, batch)
       /\ pass' = [pass EXCEPT ![d] =
            [NoPass EXCEPT !.pc = "schedule",
               !.loaded = [j \in Jobs |-> IF j \in batch THEN job[j].status ELSE None]]]
  /\ UNCHANGED store

\* The scheduler found a start for the jobs in batch: a batch is scheduled
\* whole, or job by job when batch scheduling fails; the others go job by job.
Schedule(d) ==
  /\ pass[d].pc = "schedule"
  /\ \E batch \in SUBSET Todo(d) \ {{}} :
       /\ \/ \E j \in Todo(d) : batch = {j}
          \/ d \in Batchers /\ batch = Todo(d)
       /\ pass' = [pass EXCEPT
            ![d].pc = "store", ![d].storing = batch,
            ![d].sd = [j \in Jobs |-> IF j \in batch THEN DecisionId(j) ELSE None]]
  /\ UNCHANGED store

\* No feasible window.  The loop fails the job after an audit append whose
\* collision would reload the row; the API leaves the job as it is.
Infeasible(d) ==
  /\ pass[d].pc = "schedule"
  /\ \E j \in Todo(d) :
       IF d \in Loops
       THEN \E was \in {pass[d].loaded[j], job[j].status} :
              pass' = [pass EXCEPT ![d].pc = "fail", ![d].storing = {j},
                                   ![d].loaded[j] = was]
       ELSE Advance(d, {j})
  /\ UNCHANGED store

FailInfeasible(d) ==
  /\ pass[d].pc = "fail"
  /\ job' = [j \in Jobs |->
       IF j \in pass[d].storing THEN Flush(job[j], pass[d].loaded[j], "FAILED")
       ELSE job[j]]
  /\ Advance(d, pass[d].storing)
  /\ UNCHANGED <<decision, approvals, execution, issued>>

\* Mutant: scheduled jobs are approved at once.
ScheduledStatus_Approves(j) == "APPROVED"

\* Deferrable jobs wait for a human; the others are approved as they are.
ScheduledStatus(j) == IF j \in Deferrable THEN "PENDING_APPROVAL" ELSE "APPROVED"

\* An insert finds no other row for the job (job_id is unique), an update finds
\* the row it loaded.
StoreApplies(d) ==
  \A j \in pass[d].storing : DecisionId(j) = pass[d].sd[j]

\* The decisions and the statuses in one commit.  A failed flush leaves the
\* ORM session unusable, and the rest of the pass is lost with it.
Store(d) ==
  /\ pass[d].pc = "store"
  /\ LET jobs == pass[d].storing
         new == {j \in jobs : pass[d].sd[j] = None}
     IN IF StoreApplies(d)
        THEN /\ \A j \in new : issued[j] < MaxDecisions
             /\ issued' = [j \in Jobs |-> IF j \in new THEN issued[j] + 1 ELSE issued[j]]
             /\ \E start \in [jobs -> 0 .. MaxDelay] :
                  decision' = [j \in Jobs |->
                    IF j \in new THEN [id |-> issued[j] + 1, in |-> start[j]]
                    ELSE IF j \in jobs THEN [decision[j] EXCEPT !.in = start[j]]
                    ELSE decision[j]]
             /\ job' = [j \in Jobs |->
                  IF j \in jobs
                  THEN Flush(job[j], pass[d].loaded[j], ScheduledStatus(j))
                  ELSE job[j]]
             /\ Advance(d, jobs)
        ELSE /\ pass' = [pass EXCEPT ![d] = NoPass]
             /\ UNCHANGED <<job, decision, issued>>
  /\ UNCHANGED <<approvals, execution>>

-----------------------------------------------------------------------------
DecideInit == pass = [d \in Deciders |-> NoPass]

DecideStep(d) ==
  StartPass(d) \/ Schedule(d) \/ Infeasible(d) \/ FailInfeasible(d) \/ Store(d)

DecideNext == \E d \in Deciders : DecideStep(d)
=============================================================================
