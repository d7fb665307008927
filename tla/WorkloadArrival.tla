--------------------------- MODULE WorkloadArrival ---------------------------
(***************************************************************************)
(* How the workload dataset becomes jobs: load_jobs_from_csv validates the *)
(* rows and moves windows that have passed into the future; the ingest     *)
(* process, or the CSV endpoint, loads them all at once                    *)
(* (load_csv_jobs_to_db); the arrival simulator releases each at its       *)
(* submit time (app/arrival/simulator.py).  They share the jobs table.     *)
(***************************************************************************)
EXTENDS Integers, Sequences

CONSTANTS
  Unreadable,         \* a field that cannot be parsed
  DataSet,        \* the file: a sequence of rows
  Today,          \* when it is read; the unit is half an hour
  Loaders,        \* calls of load_csv_jobs_to_db
  Simulators,     \* runs of the simulator
  MaxLoads,       \* bound: how often a loader may start
  MaxUnscheduled, \* bound: how many automatic schedulings find no window
  MaxWithdrawn    \* bound: how many decisions are deleted

Parsed == Nat \cup {Unreadable}
Entries ==
  [id : Parsed, submit : Parsed, earliest : Parsed, deadline : Parsed, runtime : Parsed,
   slack : Parsed, sound : BOOLEAN]

ASSUME ArrivalAssumption ==
  /\ Loaders \cap Simulators = {} /\ MaxLoads \in Nat /\ Today \in Nat
  /\ MaxUnscheduled \in Nat /\ MaxWithdrawn \in Nat
  /\ Unreadable \notin Nat /\ DataSet \in Seq(Entries)

VARIABLES
  entered,     \* job id -> "none", "submitted", or "progressed"
  writer,      \* what each loader and simulator does
  loads,       \* loader -> starts so far
  decision,    \* schedule_decisions: job id -> id of its row, 0 when there is none
  withdrawn,   \* decisions that have been deleted
  unscheduled  \* schedulings that have found no window

arrivalVars == <<entered, writer, loads, decision, withdrawn, unscheduled>>
decisionVars == <<decision, withdrawn, unscheduled>>
-----------------------------------------------------------------------------
Larger(a, b) == IF a > b THEN a ELSE b

IsValid(row) ==
  /\ Unreadable \notin {row.id, row.submit, row.earliest, row.deadline, row.runtime}
  /\ row.earliest <= row.deadline
  /\ row.runtime <= row.deadline - row.earliest

Slack(row) ==
  IF row.slack # Unreadable /\ row.slack > 0 THEN row.slack
  ELSE row.deadline - row.earliest - row.runtime

\* _reanchor_to_future: slack and runtime, but two hours at least.
Reanchored(row, now) ==
  [row EXCEPT !.earliest = now, !.deadline = now + Larger(Slack(row) + row.runtime, 4)]

Loaded(row, now) == IF row.deadline <= now THEN Reanchored(row, now) ELSE row

\* load_jobs_from_csv: the positions of the valid rows, and what is loaded of each.
Rows == {n \in DOMAIN DataSet : IsValid(DataSet[n])}
Row(n) == Loaded(DataSet[n], Today)
Job(n) == DataSet[n].id

\* load_dataset: by submit time, then id, then position in the file.
Precedes(m, n) ==
  \/ DataSet[m].submit < DataSet[n].submit
  \/ /\ DataSet[m].submit = DataSet[n].submit
     /\ Job(m) < Job(n) \/ (Job(m) = Job(n) /\ m < n)

IsFirst(n, rows) == n \in rows /\ \A m \in rows : ~Precedes(m, n)

\* JobSubmitRequest: unknown regions and priorities and impossible resources
\* (row.sound) are refused, and a window that is too short.
Acceptable(row) ==
  row.sound /\ row.earliest < row.deadline /\ row.earliest + row.runtime <= row.deadline
Refused == {n \in Rows : ~Acceptable(Row(n))}

JobIds == {Job(n) : n \in Rows}
-----------------------------------------------------------------------------
\* A loader is at the row of that position, a simulator has it in hand.
\* What has made its session unusable, if anything: "insert" or "schedule".
NoWork == [pc |-> "idle", row |-> 0, found |-> "none", sd |-> 0, broken |-> "no", clock |-> 0,
           state |-> [n \in Rows |-> "PENDING"]]

ArrivalInit ==
  /\ entered = [j \in JobIds |-> "none"]
  /\ writer = [w \in Loaders \cup Simulators |-> NoWork]
  /\ loads = [w \in Loaders |-> 0]
  /\ decision = [j \in JobIds |-> 0] /\ withdrawn = 0 /\ unscheduled = 0

StartLoad(w) ==
  /\ writer[w].pc \in {"idle", "done", "failed"} /\ loads[w] < MaxLoads
  /\ writer' = [writer EXCEPT ![w] = [NoWork EXCEPT !.pc = "look", !.row = 1]]
  /\ loads' = [loads EXCEPT ![w] = @ + 1]
  /\ UNCHANGED <<entered, decisionVars>>

\* Mutant: the first job that is there ends the load.
LookUp_StopsAtKnown(w) ==
  LET at == writer[w]
      stored == at.row \in Rows /\ entered[Job(at.row)] # "none"
      goesTo == IF at.row > Len(DataSet) \/ (stored /\ at.broken = "no") THEN "done"
                ELSE IF at.row \in Rows /\ at.broken # "no" THEN "failed"
                ELSE IF at.row \in Rows \ Refused THEN "merge" ELSE "look"
  IN  /\ at.pc = "look"
      /\ writer' = [writer EXCEPT ![w] =
           [at EXCEPT !.pc = goesTo, !.row = IF goesTo = "look" THEN at.row + 1 ELSE at.row]]
      /\ UNCHANGED <<entered, loads, decisionVars>>

\* A row that is not valid, refused, or there already is passed over.  The query
\* raises when the session is unusable after a failed flush, and the rest of the
\* file is lost.
LookUp(w) ==
  LET at == writer[w]
      stored == at.row \in Rows /\ entered[Job(at.row)] # "none"
      goesTo == CASE at.row > Len(DataSet) -> "done"
                  [] at.row \in Rows /\ at.broken # "no" -> "failed"
                  [] at.row \in Rows \ Refused /\ at.broken = "no" /\ ~stored -> "merge"
                  [] OTHER -> "look"
  IN  /\ at.pc = "look"
      /\ writer' = [writer EXCEPT ![w] =
           [at EXCEPT !.pc = goesTo, !.row = IF goesTo = "look" THEN at.row + 1 ELSE at.row]]
      /\ UNCHANGED <<entered, loads, decisionVars>>

\* submit_job: merge looks for the row again ...
FindRow(w) ==
  /\ writer[w].pc = "merge"
  /\ writer' = [writer EXCEPT ![w] =
       [@ EXCEPT !.pc = "commit", !.found = entered[Job(writer[w].row)]]]
  /\ UNCHANGED <<entered, loads, decisionVars>>

\* ... and the commit inserts it, or writes the status when that had changed.
\* An insert that comes second fails and leaves the session unusable.
CommitRow(w) ==
  LET at == writer[w]
      j == Job(at.row)
      collides == at.found = "none" /\ entered[j] # "none"
      broken == IF collides THEN "insert" ELSE "no"
  IN  /\ at.pc = "commit"
      /\ entered' = IF collides \/ at.found = "submitted" THEN entered
                    ELSE [entered EXCEPT ![j] = "submitted"]
      /\ writer' = [writer EXCEPT ![w] =
           IF w \in Loaders
           THEN [at EXCEPT !.pc = "look", !.row = at.row + 1, !.found = "none", !.broken = broken]
           ELSE [at EXCEPT !.pc = IF collides THEN "refused" ELSE "schedule", !.found = "none", !.broken = broken]]
      /\ UNCHANGED <<loads, decisionVars>>
-----------------------------------------------------------------------------
Waiting(at) == {n \in Rows : at.state[n] = "PENDING"}

\* step_to_time: what is pending and due.
Ready(at) == {n \in Waiting(at) : DataSet[n].submit <= at.clock}

\* The clock starts at the first submit time or at any time it is configured to.
StartSimulation(w) ==
  /\ writer[w].pc = "idle"
  /\ \E n \in Rows :
        writer' = [writer EXCEPT ![w] = [NoWork EXCEPT !.pc = "step", !.clock = DataSet[n].submit]]
  /\ UNCHANGED <<entered, loads, decisionVars>>

\* run: release what is due, one by one, then go to the next submit time, until
\* nothing is pending.
StepToTime(w) ==
  LET at == writer[w] IN
  /\ at.pc = "step"
  /\ \/ \E n \in Ready(at) :
           /\ IsFirst(n, Ready(at))
           /\ writer' = [writer EXCEPT ![w] =
                [@ EXCEPT !.pc = "release", !.row = n, !.state[n] = "ARRIVED"]]
     \/ \E n \in Waiting(at) :
           /\ IsFirst(n, Waiting(at)) /\ Ready(at) = {}
           /\ writer' = [writer EXCEPT ![w].clock = Larger(@, DataSet[n].submit)]
     \/ Waiting(at) = {} /\ writer' = [writer EXCEPT ![w].pc = "done"]
  /\ UNCHANGED <<entered, loads, decisionVars>>

Recorded(w, outcome) ==
  writer' = [writer EXCEPT ![w] =
    [@ EXCEPT !.pc = "step", !.sd = 0, !.state[writer[w].row] = outcome]]

\* _submit_to_ingest: the request is made, and nothing works on a session that
\* is unusable.
Release(w) ==
  /\ writer[w].pc = "release"
  /\ IF writer[w].row \in Refused \/ writer[w].broken # "no" THEN Recorded(w, "FAILED_INGEST")
     ELSE writer' = [writer EXCEPT ![w].pc = "merge"]
  /\ UNCHANGED <<entered, loads, decisionVars>>

RefuseRow(w) ==
  /\ writer[w].pc = "refused"
  /\ Recorded(w, "FAILED_INGEST")
  /\ UNCHANGED <<entered, loads, decisionVars>>

\* schedule_and_store: the automatic scheduling of the job that was stored.  It
\* raises when there is no window for it, and the job counts as failed; otherwise
\* it looks for the decision row of the job ...
ScheduleRow(w) ==
  /\ writer[w].pc = "schedule"
  /\ \/ /\ unscheduled < MaxUnscheduled /\ unscheduled' = unscheduled + 1
        /\ Recorded(w, "FAILED_INGEST")
     \/ /\ writer' = [writer EXCEPT ![w] =
             [@ EXCEPT !.pc = "decide", !.sd = decision[Job(writer[w].row)]]]
        /\ UNCHANGED unscheduled
  /\ UNCHANGED <<entered, loads, decision, withdrawn>>

\* The row is inserted when there was none: its job_id is unique.
Decided(j) == decision' = [decision EXCEPT ![j] = IF @ = 0 THEN withdrawn + 1 ELSE @]

\* ... and the commit inserts or updates the row it looked for.  Another row in its
\* place, or none where there was one, fails it, and nobody rolls back.
DecideRow(w) ==
  LET at == writer[w]
      j == Job(at.row)
  IN  /\ at.pc = "decide"
      /\ \/ /\ at.sd = decision[j] /\ Decided(j)
            /\ entered' = [entered EXCEPT ![j] = "progressed"]
            /\ Recorded(w, "SUBMITTED_TO_INGEST")
         \/ /\ at.sd # decision[j]
            /\ writer' = [writer EXCEPT ![w] = [at EXCEPT !.pc = "refused", !.broken = "schedule"]]
            /\ UNCHANGED <<entered, decision>>
      /\ UNCHANGED <<loads, withdrawn, unscheduled>>

\* The other services take a job on, which they decide about or end, ...
Progress(j) ==
  /\ entered[j] = "submitted"
  /\ entered' = [entered EXCEPT ![j] = "progressed"]
  /\ Decided(j) \/ UNCHANGED decision
  /\ UNCHANGED <<writer, loads, withdrawn, unscheduled>>

\* ... and somebody resubmits one that was declined, cancelled or failed.
Resubmit(j) ==
  /\ entered[j] = "progressed" /\ withdrawn < MaxWithdrawn
  /\ entered' = [entered EXCEPT ![j] = "submitted"]
  /\ decision' = [decision EXCEPT ![j] = 0]
  /\ withdrawn' = withdrawn + 1
  /\ UNCHANGED <<writer, loads, unscheduled>>

WriterStep(w) ==
  \/ w \in Loaders /\ LookUp(w)
  \/ FindRow(w) \/ CommitRow(w)
  \/ /\ w \in Simulators
     /\ StepToTime(w) \/ Release(w) \/ RefuseRow(w) \/ ScheduleRow(w) \/ DecideRow(w)

ArrivalNext ==
  \/ \E w \in Loaders : StartLoad(w)
  \/ \E w \in Simulators : StartSimulation(w)
  \/ \E w \in Loaders \cup Simulators : WriterStep(w)
  \/ \E j \in JobIds : Progress(j) \/ Resubmit(j)

ArrivalSpec == ArrivalInit /\ [][ArrivalNext]_arrivalVars
-----------------------------------------------------------------------------
AtRest(w) == writer[w].pc \in {"idle", "done", "failed"}

\* The readable, sound rows of the file are jobs.
AllStored ==
  \A n \in DOMAIN DataSet :
    LET row == DataSet[n] IN
    IsValid(row) /\ row.sound /\ row.earliest < row.deadline => entered[row.id] # "none"

\* All its rows are jobs when a loader has come to the end of the file, or a
\* simulator has with a session that works: no window is made too short when it is
\* moved.  And they are once all are at rest and any of them has begun, although
\* whoever collides at an insert gives up the rest of its rows: another has stored
\* them; only a simulator whose session was lost to a collision of decisions may
\* leave rows that nobody stores (job_csv_loader.py, ingest/service.py, simulator.py).
EveryRowIsStored ==
  /\ \A w \in DOMAIN writer :
       writer[w].pc = "done" /\ (w \in Simulators => writer[w].broken = "no") => AllStored
  /\ (\A w \in DOMAIN writer : AtRest(w)) /\ (\E w \in DOMAIN writer : writer[w].pc # "idle") =>
       AllStored \/ \E w \in Simulators : writer[w].broken = "schedule"
=============================================================================
