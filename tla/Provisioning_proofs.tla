------------------------ MODULE Provisioning_proofs ------------------------
(***************************************************************************)
(* Proofs about what a database holds before anybody asks for it: the jobs *)
(* of the dataset, whoever loads it and however often, and the parts of    *)
(* the schema, whichever releases, upgrades and starts it has been through.*)
(***************************************************************************)
EXTENDS WorkloadArrival, Startup, TLAPS

Writers == Loaders \cup Simulators
InHand == {"release", "merge", "commit", "refused", "schedule", "decide"}

WriterRow ==
    [pc : {"idle", "look", "done", "failed", "step"} \cup InHand, row : Nat,
     found : {"none", "submitted", "progressed"}, sd : Nat, broken : {"no", "insert", "schedule"},
     clock : Nat,
     state : [Rows -> {"PENDING", "ARRIVED", "SUBMITTED_TO_INGEST", "FAILED_INGEST"}]]

ArrivalTypeOK ==
    /\ entered \in [JobIds -> {"none", "submitted", "progressed"}]
    /\ writer \in [Writers -> WriterRow]
    /\ decision \in [JobIds -> Nat] /\ withdrawn \in Nat

\* A row that is a job, or can be none.
Covered(n) == n \in Refused \/ entered[Job(n)] # "none"

\* Whoever is about to store a row holds one that can be a job, on a session that
\* works; what it found is still there.
Inserts(at) ==
    /\ at.pc \in {"merge", "commit"} => at.row \in Rows \ Refused /\ at.broken = "no"
    /\ at.pc = "commit" /\ at.found # "none" => Covered(at.row)

\* What a loader has left behind is covered.
LoaderOK(at) ==
    /\ at.pc \in {"idle", "look", "merge", "commit", "done", "failed"}
    /\ \A n \in Rows : n < at.row => Covered(n)
    /\ at.pc = "done" => at.row > Len(DataSet)
    /\ at.pc = "failed" => at.broken # "no"
    /\ Inserts(at)

\* So is what a simulator has recorded, while its session works.
SimulatorOK(at) ==
    /\ at.pc \in {"idle", "step", "done"} \cup InHand
    /\ \A n \in Rows : at.state[n] = "ARRIVED" <=> at.pc \in InHand /\ n = at.row
    /\ at.broken = "no" => \A n \in Rows :
         at.state[n] \in {"SUBMITTED_TO_INGEST", "FAILED_INGEST"} => Covered(n)
    /\ at.pc = "done" => Waiting(at) = {}
    /\ at.pc \in InHand => at.row \in Rows
    /\ at.pc = "idle" => at.broken = "no"
    /\ at.pc = "refused" => at.broken # "no"
    /\ at.pc \in {"schedule", "decide"} => at.broken = "no" /\ Covered(at.row)
    /\ Inserts(at)

\* A writer that has begun and has not collided, and is not about to.
Sound(at) ==
    /\ at.pc # "idle" /\ at.broken = "no"
    /\ at.pc = "commit" /\ at.found = "none" => entered[Job(at.row)] = "none"

\* The session of a simulator is lost to a collision of decisions.
Lost == \E w \in Simulators : writer[w].broken = "schedule"

\* Once any writer has begun there is one that comes to its end, unless a session
\* has been lost.
ArrivalInv ==
    /\ ArrivalTypeOK
    /\ \A w \in Loaders : LoaderOK(writer[w])
    /\ \A w \in Simulators : SimulatorOK(writer[w])
    /\ (\E w \in Writers : writer[w].pc # "idle") =>
         Lost \/ \E w \in Writers : Sound(writer[w])
-----------------------------------------------------------------------------
LEMMA RowsAreEntries ==
    /\ Len(DataSet) \in Nat /\ DOMAIN DataSet = 1 .. Len(DataSet)
    /\ Rows \subseteq 1 .. Len(DataSet)
    /\ \A n \in Rows :
         /\ DataSet[n] \in Entries /\ IsValid(DataSet[n])
         /\ Job(n) \in Nat /\ DataSet[n].submit \in Nat
<1>1. DataSet \in Seq(Entries)
  BY ArrivalAssumption
<1>2. \A n \in DOMAIN DataSet : DataSet[n] \in Entries
  BY <1>1
<1>. QED
  BY <1>1, <1>2 DEF Rows, Job, IsValid, Entries, Parsed

\* Moving a window to the future leaves the run its time: what is readable and
\* sound in the file is not refused once it is loaded.
LEMMA ReanchoredFits ==
    ASSUME NEW n \in Rows, DataSet[n].sound, DataSet[n].earliest < DataSet[n].deadline
    PROVE  n \notin Refused
<1> DEFINE row == DataSet[n]
<1>1. row \in Entries /\ IsValid(row)
  BY RowsAreEntries
<1>2. /\ row.earliest \in Nat /\ row.deadline \in Nat /\ row.runtime \in Nat
      /\ row.slack \in Nat \cup {Unreadable} /\ row.sound
  BY <1>1, ArrivalAssumption DEF IsValid, Entries, Parsed
<1>3. row.earliest + row.runtime <= row.deadline
  BY <1>1, <1>2 DEF IsValid
<1>4. CASE row.deadline <= Today
  <2>1. Slack(row) \in Nat
    BY <1>2, <1>3, ArrivalAssumption DEF Slack
  <2> DEFINE last == Today + Larger(Slack(row) + row.runtime, 4)
  <2>2. last \in Nat /\ Today < last /\ Today + row.runtime <= last
    <3>1. PICK s \in Nat : s = Slack(row)
      BY <2>1
    <3>2. PICK r \in Nat : r = row.runtime
      BY <1>2
    <3>3. PICK t \in Nat : t = Today
      BY ArrivalAssumption
    <3>4. /\ Larger(s + r, 4) \in Nat /\ 4 <= Larger(s + r, 4)
          /\ r <= Larger(s + r, 4)
      BY DEF Larger
    <3>. QED
      BY <3>1, <3>2, <3>3, <3>4
  <2>3. Row(n) = [row EXCEPT !.earliest = Today, !.deadline = last]
    BY <1>4 DEF Row, Loaded, Reanchored
  <2>4. /\ Row(n).earliest = Today /\ Row(n).deadline = last
        /\ Row(n).runtime = row.runtime /\ Row(n).sound = row.sound
    <3> HIDE DEF last
    <3>. QED
      BY <2>3, <1>1 DEF Entries
  <2>. QED
    BY <2>2, <2>4, <1>2 DEF Refused, Acceptable
<1>5. CASE ~(row.deadline <= Today)
  <2>1. Row(n) = row
    BY <1>5 DEF Row, Loaded
  <2>. QED
    BY <2>1, <1>2, <1>3 DEF Refused, Acceptable
<1>. QED
  BY <1>4, <1>5

-----------------------------------------------------------------------------
\* What one writer's step has to show; the others keep what they had, for no job
\* is removed.
Grows ==
    /\ entered' \in [JobIds -> {"none", "submitted", "progressed"}]
    /\ decision' \in [JobIds -> Nat] /\ withdrawn' \in Nat
    /\ \A j \in JobIds : entered[j] # "none" => entered'[j] # "none"

LEMMA NothingStored ==
    ASSUME ArrivalInv, UNCHANGED <<entered, decision, withdrawn>> PROVE Grows
BY DEF Grows, ArrivalInv, ArrivalTypeOK

\* The writer is sound afterwards, or it was not before and stores nothing, or it
\* loses its session for good.
LEMMA OneMoves ==
    ASSUME ArrivalInv, Grows, NEW w \in Writers, NEW next \in WriterRow,
           writer' = [writer EXCEPT ![w] = next],
           w \in Loaders => LoaderOK(next)',
           w \in Simulators => SimulatorOK(next)',
           w \in Simulators /\ writer[w].broken = "schedule" => next.broken = "schedule",
           \/ Sound(next)'
           \/ entered' = entered /\ writer[w].pc # "idle" /\ ~Sound(writer[w])
           \/ w \in Simulators /\ next.broken = "schedule"
    PROVE  ArrivalInv'
<1>0. /\ writer' \in [Writers -> WriterRow] /\ writer'[w] = next
      /\ \A u \in Writers : u # w => writer'[u] = writer[u]
  BY DEF ArrivalInv, ArrivalTypeOK
<1>1. \A n \in Rows : Covered(n) => Covered(n)'
  <2> SUFFICES ASSUME NEW n \in Rows, Covered(n) PROVE Covered(n)'
    OBVIOUS
  <2>1. Job(n) \in JobIds
    BY DEF JobIds
  <2>. QED
    BY <2>1 DEF Covered, Grows
<1>2. \A u \in Loaders : LoaderOK(writer[u])'
  <2> SUFFICES ASSUME NEW u \in Loaders PROVE LoaderOK(writer[u])'
    OBVIOUS
  <2>0. CASE u = w
    BY <2>0, <1>0
  <2>1. CASE u # w
    <3>1. writer'[u] = writer[u] /\ LoaderOK(writer[u])
      BY <1>0, <2>1 DEF ArrivalInv, Writers
    <3>. QED
      BY <1>1, <3>1 DEF LoaderOK, Inserts
  <2>. QED
    BY <2>0, <2>1
<1>3. \A u \in Simulators : SimulatorOK(writer[u])'
  <2> SUFFICES ASSUME NEW u \in Simulators PROVE SimulatorOK(writer[u])'
    OBVIOUS
  <2>0. CASE u = w
    BY <2>0, <1>0
  <2>1. CASE u # w
    <3>1. writer'[u] = writer[u] /\ SimulatorOK(writer[u])
      BY <1>0, <2>1 DEF ArrivalInv, Writers
    <3>. QED
      BY <1>1, <3>1 DEF SimulatorOK, Inserts, Waiting
  <2>. QED
    BY <2>0, <2>1
<1>4. Lost => Lost'
  BY <1>0 DEF Lost, Writers
<1>5. Lost' \/ \E u \in Writers : Sound(writer[u])'
  <2>1. CASE Sound(next)'
    BY <2>1, <1>0
  <2>2. CASE entered' = entered /\ writer[w].pc # "idle" /\ ~Sound(writer[w])
    <3>1. CASE Lost
      BY <1>4, <3>1
    <3>2. CASE ~Lost
      <4>1. PICK u \in Writers : Sound(writer[u])
        BY <2>2, <3>2 DEF ArrivalInv
      <4>2. u # w /\ writer'[u] = writer[u]
        BY <1>0, <2>2, <4>1
      <4>. QED
        BY <2>2, <4>1, <4>2 DEF Sound
    <3>. QED
      BY <3>1, <3>2
  <2>3. CASE w \in Simulators /\ next.broken = "schedule"
    BY <1>0, <2>3 DEF Lost
  <2>. QED
    BY <2>1, <2>2, <2>3
<1>. QED
  BY <1>0, <1>2, <1>3, <1>5 DEF ArrivalInv, ArrivalTypeOK, Grows

LEMMA ArrivalInitially == ArrivalInit => ArrivalInv
<1> SUFFICES ASSUME ArrivalInit PROVE ArrivalInv
  OBVIOUS
<1>1. NoWork \in WriterRow
  BY DEF NoWork, WriterRow
<1>2. ArrivalTypeOK
  BY <1>1 DEF ArrivalInit, ArrivalTypeOK, Writers
<1>3. LoaderOK(NoWork) /\ SimulatorOK(NoWork)
  BY RowsAreEntries DEF LoaderOK, SimulatorOK, Inserts, NoWork, InHand, Waiting
<1>. QED
  BY <1>2, <1>3 DEF ArrivalInit, ArrivalInv, Writers, NoWork

\* What holds of a writer wherever it is.
LEMMA BeforeTheStep ==
    ASSUME ArrivalInv, NEW w \in Writers
    PROVE  /\ writer[w] \in WriterRow
           /\ w \in Loaders => LoaderOK(writer[w]) /\ w \notin Simulators
           /\ w \in Simulators => SimulatorOK(writer[w]) /\ w \notin Loaders
           /\ Inserts(writer[w])
BY ArrivalAssumption DEF ArrivalInv, ArrivalTypeOK, Writers, LoaderOK, SimulatorOK

LEMMA RowsHaveJobs == \A n \in Rows : Job(n) \in JobIds /\ n \in Nat
BY RowsAreEntries DEF JobIds

LEMMA StartLoadKeeps == ASSUME ArrivalInv, NEW w \in Loaders, StartLoad(w) PROVE ArrivalInv'
<1>1. w \in Writers /\ w \notin Simulators
  BY ArrivalAssumption DEF Writers
<1> PICK next : next = [NoWork EXCEPT !.pc = "look", !.row = 1]
  OBVIOUS
<1>2. next \in WriterRow /\ next.pc = "look" /\ next.row = 1 /\ next.broken = "no"
  BY DEF NoWork, WriterRow
<1>3. writer' = [writer EXCEPT ![w] = next] /\ UNCHANGED <<entered, decision, withdrawn>>
  BY DEF StartLoad, decisionVars
<1>4. LoaderOK(next)'
  BY <1>2, RowsAreEntries DEF LoaderOK, Inserts
<1>5. Sound(next)'
  BY <1>2 DEF Sound
<1>. QED
  BY <1>1, <1>2, <1>3, <1>4, <1>5, NothingStored, OneMoves

LEMMA StartSimulationKeeps ==
    ASSUME ArrivalInv, NEW w \in Simulators, StartSimulation(w) PROVE ArrivalInv'
<1>1. w \in Writers /\ w \notin Loaders
  BY ArrivalAssumption DEF Writers
<1>2. PICK start \in Rows :
        writer' = [writer EXCEPT ![w] = [NoWork EXCEPT !.pc = "step", !.clock = DataSet[start].submit]]
  BY DEF StartSimulation
<1> PICK next : next = [NoWork EXCEPT !.pc = "step", !.clock = DataSet[start].submit]
  OBVIOUS
<1>3. /\ next \in WriterRow /\ next.pc = "step" /\ next.broken = "no"
      /\ \A n \in Rows : next.state[n] = "PENDING"
  BY RowsAreEntries DEF NoWork, WriterRow
<1>4. writer' = [writer EXCEPT ![w] = next] /\ UNCHANGED <<entered, decision, withdrawn>>
  BY <1>2 DEF StartSimulation, decisionVars
<1>7. writer[w].broken = "no"
  BY <1>1, BeforeTheStep DEF StartSimulation, SimulatorOK
<1>5. SimulatorOK(next)'
  BY <1>3 DEF SimulatorOK, Inserts, InHand
<1>6. Sound(next)'
  BY <1>3 DEF Sound
<1>. QED
  BY <1>1, <1>3, <1>4, <1>5, <1>6, <1>7, NothingStored, OneMoves

LEMMA LookUpKeeps == ASSUME ArrivalInv, NEW w \in Loaders, LookUp(w) PROVE ArrivalInv'
<1>1. w \in Writers /\ w \notin Simulators
  BY ArrivalAssumption DEF Writers
<1> PICK at : at = writer[w]
  OBVIOUS
<1>2. /\ at \in WriterRow /\ LoaderOK(at) /\ at.pc = "look"
      /\ UNCHANGED <<entered, decision, withdrawn>>
  BY <1>1, BeforeTheStep DEF LookUp, decisionVars
<1> DEFINE stored == at.row \in Rows /\ entered[Job(at.row)] # "none"
<1>3. PICK goesTo :
        goesTo = CASE at.row > Len(DataSet) -> "done"
                   [] at.row \in Rows /\ at.broken # "no" -> "failed"
                   [] at.row \in Rows \ Refused /\ at.broken = "no" /\ ~stored -> "merge"
                   [] OTHER -> "look"
  OBVIOUS
<1>4. /\ goesTo \in {"done", "failed", "merge", "look"}
      /\ goesTo = "done" => at.row > Len(DataSet)
      /\ goesTo = "failed" => at.broken # "no"
      /\ goesTo = "merge" => at.row \in Rows \ Refused /\ at.broken = "no"
      /\ goesTo = "look" /\ at.row \in Rows => Covered(at.row)
  <2>1. at.row > Len(DataSet) => at.row \notin Rows
    BY <1>2, RowsAreEntries DEF WriterRow
  <2>. QED
    BY <1>3, <2>1 DEF Covered
<1> PICK row : row = IF goesTo = "look" THEN at.row + 1 ELSE at.row
  OBVIOUS
<1> PICK next : next = [at EXCEPT !.pc = goesTo, !.row = row]
  OBVIOUS
<1>5. writer' = [writer EXCEPT ![w] = next]
  BY <1>3 DEF LookUp
<1>6. row \in Nat
  BY <1>2 DEF WriterRow
<1>7. next \in WriterRow /\ next.pc = goesTo /\ next.row = row /\ next.broken = at.broken
  BY <1>2, <1>4, <1>6 DEF WriterRow, InHand
<1>8. LoaderOK(next)
  <2>1. \A n \in Rows : n < next.row => Covered(n)
    BY <1>2, <1>4, <1>7, RowsAreEntries DEF LoaderOK, WriterRow
  <2>. QED
    BY <2>1, <1>2, <1>4, <1>7 DEF LoaderOK, Inserts
<1>9. LoaderOK(next)'
  BY <1>2, <1>8 DEF LoaderOK, Inserts, Covered
<1>10. Sound(next)' \/ ~Sound(at)
  BY <1>2, <1>4, <1>7 DEF Sound
<1>. QED
  BY <1>1, <1>2, <1>5, <1>7, <1>9, <1>10, NothingStored, OneMoves

LEMMA FindRowKeeps == ASSUME ArrivalInv, NEW w \in Writers, FindRow(w) PROVE ArrivalInv'
<1> PICK at : at = writer[w]
  OBVIOUS
<1> PICK found : found = entered[Job(at.row)]
  OBVIOUS
<1> PICK next : next = [at EXCEPT !.pc = "commit", !.found = found]
  OBVIOUS
<1>1. at \in WriterRow /\ at.pc = "merge" /\ at.row \in Rows \ Refused /\ at.broken = "no"
  BY BeforeTheStep DEF FindRow, Inserts
<1>2. found \in {"none", "submitted", "progressed"}
  BY <1>1, RowsHaveJobs DEF ArrivalInv, ArrivalTypeOK
<1>3. writer' = [writer EXCEPT ![w] = next] /\ UNCHANGED <<entered, decision, withdrawn>>
  BY DEF FindRow, decisionVars
<1>4. /\ next \in WriterRow /\ next.pc = "commit" /\ next.row = at.row
      /\ next.found = found /\ next.broken = at.broken /\ next.state = at.state
  BY <1>1, <1>2 DEF WriterRow, InHand
<1>5. Inserts(next)'
  BY <1>1, <1>3, <1>4 DEF Inserts, Covered
<1>6. w \in Loaders => LoaderOK(next)'
  BY <1>1, <1>3, <1>4, <1>5, BeforeTheStep DEF LoaderOK, Covered
<1>7. w \in Simulators => SimulatorOK(next)'
  BY <1>1, <1>3, <1>4, <1>5, BeforeTheStep DEF SimulatorOK, Covered, InHand
<1>8. Sound(next)'
  BY <1>1, <1>3, <1>4 DEF Sound
<1>. QED
  BY <1>1, <1>3, <1>4, <1>6, <1>7, <1>8, NothingStored, OneMoves

\* A commit leaves a job behind, its own or the one it collided with; only one
\* that was not sound before collides.
LEMMA CommitRowKeeps == ASSUME ArrivalInv, NEW w \in Writers, CommitRow(w) PROVE ArrivalInv'
<1> PICK at : at = writer[w]
  OBVIOUS
<1> PICK j : j = Job(at.row)
  OBVIOUS
<1> PICK collides : collides = (at.found = "none" /\ entered[j] # "none")
  OBVIOUS
<1> PICK broken : broken = IF collides THEN "insert" ELSE "no"
  OBVIOUS
<1>1. at \in WriterRow /\ at.pc = "commit" /\ at.row \in Rows \ Refused /\ at.broken = "no"
  BY BeforeTheStep DEF CommitRow, Inserts
<1>2. /\ j \in JobIds /\ at.row \in Nat /\ at.found \in {"none", "submitted", "progressed"}
      /\ collides \in BOOLEAN /\ broken \in {"no", "insert"} /\ (broken = "no" <=> ~collides)
  BY <1>1, RowsHaveJobs DEF WriterRow
<1>3. entered' = IF collides \/ at.found = "submitted" THEN entered
                 ELSE [entered EXCEPT ![j] = "submitted"]
  BY DEF CommitRow
<1>4. Grows
  BY <1>2, <1>3 DEF CommitRow, decisionVars, Grows, ArrivalInv, ArrivalTypeOK
<1>5. \A n \in Rows : Covered(n) => Covered(n)'
  BY <1>4, RowsHaveJobs DEF Covered, Grows
<1>6. Covered(at.row)'
  <2>1. at.found # "none" => entered[j] # "none"
    BY <1>1, BeforeTheStep DEF Inserts, Covered
  <2>2. entered'[j] # "none"
    BY <1>2, <1>3, <2>1 DEF ArrivalInv, ArrivalTypeOK
  <2>. QED
    BY <2>2 DEF Covered
<1>7. collides => ~Sound(at) /\ UNCHANGED entered
  BY <1>1, <1>3 DEF Sound
<1>8. CASE w \in Loaders
  <2> PICK row : row = at.row + 1
    OBVIOUS
  <2> PICK next : next = [at EXCEPT !.pc = "look", !.row = row, !.found = "none", !.broken = broken]
    OBVIOUS
  <2>0. row \in Nat
    BY <1>2
  <2>1. writer' = [writer EXCEPT ![w] = next]
    BY <1>8 DEF CommitRow
  <2>2. /\ next \in WriterRow /\ next.pc = "look" /\ next.row = row
        /\ next.broken = broken
    BY <1>1, <1>2, <2>0 DEF WriterRow
  <2>3. \A n \in Rows : n < at.row + 1 => Covered(n)'
    BY <1>2, <1>5, <1>6, <1>8, BeforeTheStep, RowsHaveJobs DEF LoaderOK
  <2>4. LoaderOK(next)'
    BY <2>2, <2>3 DEF LoaderOK, Inserts
  <2>5. ~collides => Sound(next)'
    BY <1>2, <2>2 DEF Sound
  <2>. QED
    BY <1>1, <1>4, <1>7, <1>8, <2>1, <2>2, <2>4, <2>5, BeforeTheStep, OneMoves
<1>9. CASE w \notin Loaders
  <2> PICK pc : pc = IF collides THEN "refused" ELSE "schedule"
    OBVIOUS
  <2> PICK next : next = [at EXCEPT !.pc = pc, !.found = "none", !.broken = broken]
    OBVIOUS
  <2>1. writer' = [writer EXCEPT ![w] = next]
    BY <1>9 DEF CommitRow
  <2>2. pc \in InHand /\ (pc = "refused" <=> collides) /\ (pc = "schedule" <=> ~collides)
    BY <1>2 DEF InHand
  <2>3. /\ next \in WriterRow /\ next.pc = pc /\ next.row = at.row
        /\ next.broken = broken /\ next.state = at.state
    BY <1>1, <1>2, <2>2 DEF WriterRow
  <2>4. w \in Simulators /\ SimulatorOK(at)
    BY <1>9, BeforeTheStep DEF Writers
  <2>5. SimulatorOK(next)'
    <3>1. pc \notin {"merge", "commit", "done", "idle", "decide"}
      BY <2>2 DEF InHand
    <3>2. Inserts(next)'
      BY <2>3, <3>1 DEF Inserts
    <3>3. \A n \in Rows : at.state[n] = "ARRIVED" <=> pc \in InHand /\ n = at.row
      BY <1>1, <2>2, <2>4 DEF SimulatorOK, InHand
    <3>4. \A n \in Rows : at.state[n] \in {"SUBMITTED_TO_INGEST", "FAILED_INGEST"} => Covered(n)'
      BY <1>1, <1>5, <2>4 DEF SimulatorOK
    <3>. QED
      BY <1>1, <1>2, <1>6, <2>2, <2>3, <3>1, <3>2, <3>3, <3>4 DEF SimulatorOK
  <2>6. ~collides => Sound(next)'
    BY <1>2, <2>2, <2>3 DEF Sound
  <2>. QED
    BY <1>1, <1>4, <1>7, <1>9, <2>1, <2>3, <2>4, <2>5, <2>6, OneMoves
<1>. QED
  BY <1>8, <1>9

\* The simulator takes a row in hand, or records what became of it.
LEMMA RecordedKeeps ==
    ASSUME ArrivalInv, Grows, NEW w \in Simulators, 
           writer[w].pc \in {"release", "refused", "schedule", "decide"},
           NEW outcome \in {"SUBMITTED_TO_INGEST", "FAILED_INGEST"}, Recorded(w, outcome),
           NEW row, row = writer[w].row, writer[w].broken = "no" => Covered(row)',
           writer[w].broken # "no" => UNCHANGED entered
    PROVE  ArrivalInv'
<1> PICK at : at = writer[w]
  OBVIOUS
<1> PICK next : next = [at EXCEPT !.pc = "step", !.sd = 0, !.state[at.row] = outcome]
  OBVIOUS
<1>1. w \in Writers /\ w \notin Loaders
  BY ArrivalAssumption DEF Writers
<1>2. at \in WriterRow /\ SimulatorOK(at) /\ at.row \in Rows
  BY <1>1, BeforeTheStep DEF SimulatorOK, InHand
<1>3. writer' = [writer EXCEPT ![w] = next]
  BY DEF Recorded
<1>4. /\ next \in WriterRow /\ next.pc = "step" /\ next.broken = at.broken
      /\ next.state = [at.state EXCEPT ![at.row] = outcome]
  BY <1>2 DEF WriterRow, InHand
<1>5. \A n \in Rows : next.state[n] = IF n = at.row THEN outcome ELSE at.state[n]
  BY <1>2, <1>4 DEF WriterRow
<1>6. \A n \in Rows : Covered(n) => Covered(n)'
  BY RowsHaveJobs DEF Covered, Grows
<1>7. SimulatorOK(next)'
  <2>1. \A n \in Rows : next.state[n] # "ARRIVED"
    BY <1>2, <1>5 DEF SimulatorOK
  <2>2. at.broken = "no" => \A n \in Rows :
          next.state[n] \in {"SUBMITTED_TO_INGEST", "FAILED_INGEST"} => Covered(n)'
    BY <1>2, <1>5, <1>6 DEF SimulatorOK
  <2>. QED
    BY <1>4, <2>1, <2>2 DEF SimulatorOK, InHand, Inserts
<1>8. Sound(next)' \/ (UNCHANGED entered /\ ~Sound(at))
  BY <1>4 DEF Sound
<1>. QED
  BY <1>1, <1>3, <1>4, <1>7, <1>8, OneMoves

LEMMA StepToTimeKeeps == ASSUME ArrivalInv, NEW w \in Simulators, StepToTime(w) PROVE ArrivalInv'
<1> PICK at : at = writer[w]
  OBVIOUS
<1>1. w \in Writers /\ w \notin Loaders
  BY ArrivalAssumption DEF Writers
<1>2. /\ at \in WriterRow /\ SimulatorOK(at) /\ at.pc = "step"
      /\ UNCHANGED <<entered, decision, withdrawn>>
  BY <1>1, BeforeTheStep DEF StepToTime, decisionVars
<1>3. Grows /\ \A n \in Rows : Covered(n) => Covered(n)'
  BY <1>2, NothingStored DEF Covered
<1>4. CASE \E n \in Ready(at) :
             writer' = [writer EXCEPT ![w] = [at EXCEPT !.pc = "release", !.row = n, !.state[n] = "ARRIVED"]]
  <2>1. PICK n \in Ready(at) :
          writer' = [writer EXCEPT ![w] = [at EXCEPT !.pc = "release", !.row = n, !.state[n] = "ARRIVED"]]
    BY <1>4
  <2> PICK next : next = [at EXCEPT !.pc = "release", !.row = n, !.state[n] = "ARRIVED"]
    OBVIOUS
  <2>2. n \in Rows /\ n \in Nat
    BY RowsHaveJobs DEF Ready, Waiting
  <2>3. /\ next \in WriterRow /\ next.pc = "release" /\ next.row = n /\ next.broken = at.broken
        /\ next.state = [at.state EXCEPT ![n] = "ARRIVED"]
    BY <1>2, <2>2 DEF WriterRow, InHand
  <2>4. \A m \in Rows : next.state[m] = IF m = n THEN "ARRIVED" ELSE at.state[m]
    BY <1>2, <2>2, <2>3 DEF WriterRow
  <2>5. SimulatorOK(next)'
    <3>1. \A m \in Rows : next.state[m] = "ARRIVED" <=> m = n
      BY <1>2, <2>4 DEF SimulatorOK, InHand
    <3>2. at.broken = "no" => \A m \in Rows :
            next.state[m] \in {"SUBMITTED_TO_INGEST", "FAILED_INGEST"} => Covered(m)'
      BY <1>2, <1>3, <2>4 DEF SimulatorOK
    <3>. QED
      BY <2>2, <2>3, <3>1, <3>2 DEF SimulatorOK, InHand, Inserts
  <2>6. Sound(next)' \/ ~Sound(at)
    BY <1>2, <2>3 DEF Sound
  <2>. QED
    BY <1>1, <1>2, <1>3, <2>1, <2>3, <2>5, <2>6, OneMoves
<1>5. CASE \E n \in Waiting(at) :
             writer' = [writer EXCEPT ![w].clock = Larger(writer[w].clock, DataSet[n].submit)]
  <2>1. PICK n \in Waiting(at) :
          writer' = [writer EXCEPT ![w].clock = Larger(writer[w].clock, DataSet[n].submit)]
    BY <1>5
  <2> PICK clock : clock = Larger(at.clock, DataSet[n].submit)
    OBVIOUS
  <2> PICK next : next = [at EXCEPT !.clock = clock]
    OBVIOUS
  <2>2. clock \in Nat
    BY <1>2, RowsAreEntries DEF Waiting, Larger, WriterRow
  <2>3. writer' = [writer EXCEPT ![w] = next]
    BY <2>1
  <2>4. /\ next \in WriterRow /\ next.pc = "step" /\ next.row = at.row /\ next.broken = at.broken
        /\ next.state = at.state
    BY <1>2, <2>2 DEF WriterRow
  <2>5. SimulatorOK(next)'
    BY <1>2, <1>3, <2>4 DEF SimulatorOK, InHand, Inserts
  <2>6. Sound(next)' \/ ~Sound(at)
    BY <1>2, <2>4 DEF Sound
  <2>. QED
    BY <1>1, <1>2, <1>3, <2>3, <2>4, <2>5, <2>6, OneMoves
<1>6. CASE Waiting(at) = {} /\ writer' = [writer EXCEPT ![w].pc = "done"]
  <2> PICK next : next = [at EXCEPT !.pc = "done"]
    OBVIOUS
  <2>1. writer' = [writer EXCEPT ![w] = next]
    BY <1>6
  <2>2. /\ next \in WriterRow /\ next.pc = "done" /\ next.row = at.row /\ next.broken = at.broken
        /\ next.state = at.state
    BY <1>2 DEF WriterRow
  <2>3. SimulatorOK(next)'
    BY <1>2, <1>3, <1>6, <2>2 DEF SimulatorOK, InHand, Inserts, Waiting
  <2>4. Sound(next)' \/ ~Sound(at)
    BY <1>2, <2>2 DEF Sound
  <2>. QED
    BY <1>1, <1>2, <1>3, <2>1, <2>2, <2>3, <2>4, OneMoves
<1>. QED
  BY <1>4, <1>5, <1>6 DEF StepToTime

LEMMA ReleaseKeeps == ASSUME ArrivalInv, NEW w \in Simulators, Release(w) PROVE ArrivalInv'
<1> PICK at : at = writer[w]
  OBVIOUS
<1>1. w \in Writers /\ w \notin Loaders
  BY ArrivalAssumption DEF Writers
<1>2. /\ at \in WriterRow /\ SimulatorOK(at) /\ at.pc = "release" /\ at.row \in Rows
      /\ UNCHANGED <<entered, decision, withdrawn>>
  BY <1>1, BeforeTheStep DEF Release, decisionVars, SimulatorOK, InHand
<1>3. Grows
  BY <1>2, NothingStored
<1>4. CASE at.row \in Refused \/ at.broken # "no"
  <2>1. Recorded(w, "FAILED_INGEST")
    BY <1>4 DEF Release
  <2>2. at.broken = "no" => Covered(at.row)'
    BY <1>4 DEF Covered
  <2> PICK row : row = at.row
    OBVIOUS
  <2>. QED
    BY <1>2, <1>3, <2>1, <2>2, RecordedKeeps
<1>5. CASE ~(at.row \in Refused \/ at.broken # "no")
  <2> PICK next : next = [at EXCEPT !.pc = "merge"]
    OBVIOUS
  <2>1. writer' = [writer EXCEPT ![w] = next]
    BY <1>5 DEF Release
  <2>2. /\ next \in WriterRow /\ next.pc = "merge" /\ next.row = at.row /\ next.broken = at.broken
        /\ next.state = at.state
    BY <1>2 DEF WriterRow, InHand
  <2>3. SimulatorOK(next)'
    BY <1>2, <1>5, <2>2 DEF SimulatorOK, InHand, Inserts, Covered
  <2>4. Sound(next)'
    BY <1>5, <2>2 DEF Sound
  <2>. QED
    BY <1>1, <1>3, <2>1, <2>2, <2>3, <2>4, OneMoves
<1>. QED
  BY <1>4, <1>5

LEMMA RefuseRowKeeps == ASSUME ArrivalInv, NEW w \in Simulators, RefuseRow(w) PROVE ArrivalInv'
<1> PICK row : row = writer[w].row
  OBVIOUS
<1>1. writer[w].broken # "no"
  BY BeforeTheStep DEF RefuseRow, SimulatorOK, Writers
<1>. QED
  BY <1>1, NothingStored, RecordedKeeps DEF RefuseRow, decisionVars

LEMMA ScheduleRowKeeps == ASSUME ArrivalInv, NEW w \in Simulators, ScheduleRow(w) PROVE ArrivalInv'
<1> PICK at : at = writer[w]
  OBVIOUS
<1>1. w \in Writers /\ w \notin Loaders
  BY ArrivalAssumption DEF Writers
<1>2. /\ at \in WriterRow /\ SimulatorOK(at) /\ at.pc = "schedule" /\ at.broken = "no"
      /\ at.row \in Rows /\ Covered(at.row) /\ UNCHANGED <<entered, decision, withdrawn>>
  BY <1>1, BeforeTheStep DEF ScheduleRow, SimulatorOK, InHand
<1>3. Grows
  BY <1>2, NothingStored
<1>4. CASE Recorded(w, "FAILED_INGEST")
  <2> PICK row : row = at.row
    OBVIOUS
  <2>1. Covered(row)'
    BY <1>2 DEF Covered
  <2>. QED
    BY <1>2, <1>3, <1>4, <2>1, RecordedKeeps
<1>5. CASE writer' = [writer EXCEPT ![w] = [at EXCEPT !.pc = "decide", !.sd = decision[Job(at.row)]]]
  <2> PICK sd : sd = decision[Job(at.row)]
    OBVIOUS
  <2> PICK next : next = [at EXCEPT !.pc = "decide", !.sd = sd]
    OBVIOUS
  <2>1. sd \in Nat
    BY <1>2, RowsHaveJobs DEF ArrivalInv, ArrivalTypeOK
  <2>2. /\ next \in WriterRow /\ next.pc = "decide" /\ next.row = at.row /\ next.broken = at.broken
        /\ next.state = at.state
    BY <1>2, <2>1 DEF WriterRow, InHand
  <2>3. SimulatorOK(next)'
    BY <1>2, <2>2 DEF SimulatorOK, InHand, Inserts, Covered
  <2>4. Sound(next)'
    BY <1>2, <2>2 DEF Sound
  <2>. QED
    BY <1>1, <1>2, <1>3, <1>5, <2>2, <2>3, <2>4, OneMoves
<1>. QED
  BY <1>4, <1>5 DEF ScheduleRow

LEMMA DecidedIsTyped ==
    ASSUME ArrivalInv, NEW j \in JobIds, Decided(j) PROVE decision' \in [JobIds -> Nat]
BY DEF Decided, ArrivalInv, ArrivalTypeOK

\* The one step that may take the last sound session away.
LEMMA DecideRowKeeps == ASSUME ArrivalInv, NEW w \in Simulators, DecideRow(w) PROVE ArrivalInv'
<1> PICK at : at = writer[w]
  OBVIOUS
<1> PICK j : j = Job(at.row)
  OBVIOUS
<1>1. w \in Writers /\ w \notin Loaders
  BY ArrivalAssumption DEF Writers
<1>2. /\ at \in WriterRow /\ SimulatorOK(at) /\ at.pc = "decide" /\ at.broken = "no"
      /\ at.row \in Rows /\ Covered(at.row) /\ j \in JobIds /\ UNCHANGED withdrawn
  BY <1>1, BeforeTheStep, RowsHaveJobs DEF DecideRow, SimulatorOK, InHand
<1>3. CASE /\ Decided(j) /\ entered' = [entered EXCEPT ![j] = "progressed"]
           /\ Recorded(w, "SUBMITTED_TO_INGEST")
  <2>1. Grows
    BY <1>2, <1>3, DecidedIsTyped DEF Grows, ArrivalInv, ArrivalTypeOK
  <2> PICK row : row = at.row
    OBVIOUS
  <2>2. Covered(row)'
    BY <1>2, <2>1 DEF Covered, Grows
  <2>. QED
    BY <1>2, <1>3, <2>1, <2>2, RecordedKeeps
<1>4. CASE /\ writer' = [writer EXCEPT ![w] = [at EXCEPT !.pc = "refused", !.broken = "schedule"]]
           /\ UNCHANGED <<entered, decision>>
  <2> PICK next : next = [at EXCEPT !.pc = "refused", !.broken = "schedule"]
    OBVIOUS
  <2>1. Grows
    BY <1>2, <1>4, NothingStored
  <2>2. /\ next \in WriterRow /\ next.pc = "refused" /\ next.row = at.row
        /\ next.broken = "schedule" /\ next.state = at.state
    BY <1>2 DEF WriterRow, InHand
  <2>3. SimulatorOK(next)'
    BY <1>2, <2>2 DEF SimulatorOK, InHand, Inserts
  <2>. QED
    BY <1>1, <1>4, <2>1, <2>2, <2>3, OneMoves
<1>. QED
  BY <1>3, <1>4 DEF DecideRow

\* The other services only move jobs that are there.
LEMMA OthersKeepJobs ==
    ASSUME ArrivalInv, NEW j \in JobIds, NEW status \in {"submitted", "progressed"},
           entered[j] # "none", entered' = [entered EXCEPT ![j] = status], UNCHANGED writer,
           decision' \in [JobIds -> Nat], withdrawn' \in Nat
    PROVE  ArrivalInv'
<1>1. Grows
  BY DEF Grows, ArrivalInv, ArrivalTypeOK
<1>2. \A i \in JobIds : entered'[i] = "none" <=> entered[i] = "none"
  BY DEF ArrivalInv, ArrivalTypeOK
<1>3. \A n \in Rows : Covered(n) => Covered(n)'
  BY <1>1, RowsHaveJobs DEF Covered, Grows
<1>4. \A w \in Loaders : LoaderOK(writer[w])'
  BY <1>3 DEF ArrivalInv, LoaderOK, Inserts
<1>5. \A w \in Simulators : SimulatorOK(writer[w])'
  BY <1>3 DEF ArrivalInv, SimulatorOK, Inserts, Waiting
<1>6. \A w \in Writers : Sound(writer[w]) => Sound(writer[w])'
  <2> SUFFICES ASSUME NEW w \in Writers, Sound(writer[w]) PROVE Sound(writer[w])'
    OBVIOUS
  <2>1. writer[w].pc = "commit" => Job(writer[w].row) \in JobIds
    BY BeforeTheStep, RowsHaveJobs DEF Inserts
  <2>. QED
    BY <1>2, <2>1 DEF Sound
<1>. QED
  BY <1>1, <1>4, <1>5, <1>6 DEF ArrivalInv, ArrivalTypeOK, Grows, Lost

LEMMA ProgressKeeps == ASSUME ArrivalInv, NEW j \in JobIds, Progress(j) PROVE ArrivalInv'
<1>1. decision' \in [JobIds -> Nat] /\ withdrawn' \in Nat
  BY DecidedIsTyped DEF Progress, ArrivalInv, ArrivalTypeOK
<1>. QED
  BY <1>1, OthersKeepJobs DEF Progress

LEMMA ResubmitKeeps == ASSUME ArrivalInv, NEW j \in JobIds, Resubmit(j) PROVE ArrivalInv'
<1>1. decision' \in [JobIds -> Nat] /\ withdrawn' \in Nat
  BY DEF Resubmit, ArrivalInv, ArrivalTypeOK
<1>. QED
  BY <1>1, OthersKeepJobs DEF Resubmit

\* Whatever the file holds and however many loaders and simulators share the table:
\* what each has left behind is stored or refused, and one of them at least meets no
\* collision, unless a simulator has lost its session to a collision of decisions.
THEOREM ArrivalInvariant == ArrivalSpec => []ArrivalInv
<1>1. ASSUME ArrivalInv, [ArrivalNext]_arrivalVars PROVE ArrivalInv'
  <2>1. CASE \E w \in Loaders : StartLoad(w)
    BY <1>1, <2>1, StartLoadKeeps
  <2>2. CASE \E w \in Simulators : StartSimulation(w)
    BY <1>1, <2>2, StartSimulationKeeps
  <2>3. ASSUME NEW w \in Loaders \cup Simulators, WriterStep(w) PROVE ArrivalInv'
    BY <1>1, <2>3, LookUpKeeps, FindRowKeeps, CommitRowKeeps, StepToTimeKeeps, ReleaseKeeps,
       RefuseRowKeeps, ScheduleRowKeeps, DecideRowKeeps DEF WriterStep, Writers
  <2>4. CASE \E j \in JobIds : Progress(j) \/ Resubmit(j)
    BY <1>1, <2>4, ProgressKeeps, ResubmitKeeps
  <2>5. CASE UNCHANGED arrivalVars
    BY <1>1, <2>5 DEF arrivalVars, ArrivalInv, ArrivalTypeOK, LoaderOK, SimulatorOK, Inserts, Sound,
       Covered, Waiting, Lost, decisionVars
  <2>. QED
    BY <1>1, <2>1, <2>2, <2>3, <2>4, <2>5 DEF ArrivalNext
<1>. QED
  BY <1>1, ArrivalInitially, PTL DEF ArrivalSpec

\* Whoever comes to its end with a session that works has stored every row that was
\* to be stored, and somebody has once they are at rest, unless a simulator lost its
\* session to a collision of decisions: for any file and any number of writers.
THEOREM EveryRowIsStoredInTheEnd == ArrivalSpec => []EveryRowIsStored
<1>1. ASSUME ArrivalInv, NEW w \in Writers, writer[w].pc = "done",
             w \in Simulators => writer[w].broken = "no"
      PROVE  AllStored
  <2> SUFFICES ASSUME NEW n \in DOMAIN DataSet, IsValid(DataSet[n]), DataSet[n].sound,
                      DataSet[n].earliest < DataSet[n].deadline
               PROVE  entered[DataSet[n].id] # "none"
    BY DEF AllStored
  <2>1. n \in Rows /\ n \notin Refused /\ n <= Len(DataSet)
    BY ReanchoredFits, RowsAreEntries DEF Rows
  <2>2. CASE w \in Loaders
    <3>1. LoaderOK(writer[w]) /\ writer[w].row > Len(DataSet) /\ writer[w].row \in Nat
      BY <1>1, <2>2, BeforeTheStep DEF LoaderOK, WriterRow
    <3>2. n < writer[w].row
      BY <2>1, <3>1, RowsAreEntries
    <3>. QED
      BY <2>1, <3>1, <3>2 DEF LoaderOK, Covered, Job
  <2>3. CASE w \in Simulators
    <3>1. SimulatorOK(writer[w]) /\ Waiting(writer[w]) = {}
      BY <1>1, <2>3, BeforeTheStep DEF SimulatorOK
    <3>2. writer[w].state[n] \notin {"PENDING", "ARRIVED"}
      BY <1>1, <2>1, <3>1 DEF SimulatorOK, Waiting, InHand
    <3>3. writer[w].state[n] \in {"SUBMITTED_TO_INGEST", "FAILED_INGEST"}
      BY <1>1, <2>1, <3>2, BeforeTheStep DEF WriterRow
    <3>. QED
      BY <1>1, <2>1, <2>3, <3>1, <3>3 DEF SimulatorOK, Covered, Job
  <2>. QED
    BY <2>2, <2>3 DEF Writers
<1>2. ASSUME ArrivalInv PROVE EveryRowIsStored
  <2>0. DOMAIN writer = Writers
    BY <1>2 DEF ArrivalInv, ArrivalTypeOK
  <2>1. ASSUME \A w \in Writers : AtRest(w), \E w \in Writers : writer[w].pc # "idle", ~Lost
        PROVE  AllStored
    <3>1. PICK w \in Writers : Sound(writer[w])
      BY <1>2, <2>1 DEF ArrivalInv
    <3>2. writer[w].pc \in {"done", "failed"} /\ writer[w].broken = "no"
      BY <2>1, <3>1 DEF Sound, AtRest
    <3>3. writer[w].pc = "done"
      BY <1>2, <3>2, BeforeTheStep DEF LoaderOK, SimulatorOK, InHand, Writers
    <3>. QED
      BY <1>1, <1>2, <3>2, <3>3
  <2>. QED
    BY <1>1, <1>2, <2>0, <2>1 DEF EveryRowIsStored, Lost
<1>. QED
  BY <1>2, ArrivalInvariant, PTL

(***************************************************************************)
(* The parts of a database, and the revisions that make them               *)
(***************************************************************************)

ReportTables == Part(Reports, {"table"})
Everything == Models \cup ReportTables

\* The revision that creates a table, and the one that makes a part.
Born(table) ==
    CASE table \in {"tenants", "jobs", "schedule_decisions", "kubernetes_executions",
                    "audit_events", "carbon_data", "tariff_data", "regional_tariffs"} -> 1
      [] table = "approvals" -> 2
      [] table \in {"users", "api_keys"} -> 5
      [] table = "notifications" -> 8
      [] table = "notification_preferences" -> 10
      [] table = "brsr" -> 11
      [] table = "audit_anchors" -> 12
      [] table = "teams" -> 13
      [] table = "optimization_policies" -> 15
      [] OTHER -> 0

Added(part) ==
    CASE part[2] = "table" -> Born(part[1])
      [] part[2] = "lookup" -> 3
      [] part[2] = "checks" -> 4
      [] part[2] = "explained" -> 6
      [] part[2] = "contention" -> 7
      [] part[2] = "submitter" -> 8
      [] part[2] = "three_roles" -> 9
      [] part[2] \in {"context", "append_only"} -> 12
      [] part[2] = "profile" -> 13
      [] part[2] = "tolerance" -> 15
      [] OTHER -> 0

LEMMA PartIs == ASSUME NEW T, NEW P, NEW x
    PROVE x \in Part(T, P) <=> \E t \in T, p \in P : x = <<t, p>>
BY DEF Part

LEMMA TablesBorn ==
    /\ \A t \in {"tenants", "jobs", "schedule_decisions", "kubernetes_executions",
          "audit_events", "carbon_data", "tariff_data", "regional_tariffs"} : Born(t) = 1
    /\ Born("approvals") = 2 /\ \A t \in {"users", "api_keys"} : Born(t) = 5
    /\ Born("notifications") = 8 /\ Born("notification_preferences") = 10
    /\ Born("brsr") = 11 /\ Born("audit_anchors") = 12 /\ Born("teams") = 13
    /\ Born("optimization_policies") = 15
BY DEF Born

LEMMA PartsAdded == \A t :
    /\ Added(<<t, "table">>) = Born(t) /\ Added(<<t, "lookup">>) = 3 /\ Added(<<t, "checks">>) = 4
    /\ Added(<<t, "explained">>) = 6 /\ Added(<<t, "contention">>) = 7
    /\ Added(<<t, "submitter">>) = 8 /\ Added(<<t, "three_roles">>) = 9
    /\ Added(<<t, "context">>) = 12 /\ Added(<<t, "append_only">>) = 12
    /\ Added(<<t, "profile">>) = 13 /\ Added(<<t, "tolerance">>) = 15
<1> TAKE t
<1>1. Added(<<t, "table">>) = Born(t)
  BY DEF Added
<1>2. Added(<<t, "lookup">>) = 3 /\ Added(<<t, "checks">>) = 4
    /\ Added(<<t, "explained">>) = 6
  BY DEF Added
<1>3.  Added(<<t, "contention">>) = 7
    /\ Added(<<t, "submitter">>) = 8 /\ Added(<<t, "three_roles">>) = 9
  BY DEF Added
<1>4. Added(<<t, "context">>) = 12 /\ Added(<<t, "append_only">>) = 12
    /\ Added(<<t, "profile">>) = 13 /\ Added(<<t, "tolerance">>) = 15
  BY DEF Added
<1>. QED
  BY <1>1, <1>2, <1>3, <1>4

OldTables == {"tenants", "jobs", "schedule_decisions", "kubernetes_executions",
              "audit_events", "carbon_data", "tariff_data", "regional_tariffs"}

\* The migrations that make more than tables.
LEMMA MigrationsAre ==
    /\ Latest = 15
    /\ Migrations[1] = Initial /\ Migrations[2] = AddApprovals /\ Migrations[3] = AddIndexes
    /\ Migrations[4] = AddConstraints /\ Migrations[5] = AddUsers
    /\ Migrations[6] = AddExplainability /\ Migrations[7] = AddContention
    /\ Migrations[8] = AddNotifications /\ Migrations[9] = ConsolidateRoles
    /\ Migrations[10] = AddPreferences /\ Migrations[11] = AddReports
    /\ Migrations[12] = AddAuditContext /\ Migrations[13] = AddCompanies
    /\ Migrations[14] = RemoveReports /\ Migrations[15] = AddPolicies
BY DEF Latest, Migrations


LEMMA OnePart == ASSUME NEW T, NEW p, NEW x
    PROVE x \in Part(T, {p}) <=> \E t \in T : x = <<t, p>>
BY DEF Part

LEMMA OneTable == ASSUME NEW t, NEW P, NEW x
    PROVE x \in Part({t}, P) <=> \E p \in P : x = <<t, p>>
BY DEF Part

NewTables == {"approvals", "users", "api_keys", "notifications", "notification_preferences",
              "audit_anchors", "teams", "optimization_policies"}

LEMMA EverythingIs ==
  \A x : x \in Everything <=>
    \/ \E t \in OldTables \cup NewTables \cup Reports : x = <<t, "table">>
    \/ \E t \in Indexed : x = <<t, "lookup">>
    \/ \E t \in Checked : x = <<t, "checks">>
    \/ x \in {<<"schedule_decisions", "explained">>, <<"schedule_decisions", "contention">>,
              <<"schedule_decisions", "tolerance">>, <<"audit_events", "context">>,
              <<"audit_events", "append_only">>, <<"jobs", "submitter">>,
              <<"users", "three_roles">>, <<"tenants", "profile">>}
<1> TAKE x
<1> DEFINE M == {"tenants", "jobs", "schedule_decisions", "kubernetes_executions", "audit_events",
          "carbon_data", "tariff_data", "regional_tariffs", "approvals", "users", "api_keys",
          "notifications", "notification_preferences", "audit_anchors", "teams",
          "optimization_policies"}
<1>1. M = OldTables \cup NewTables
  BY DEF OldTables, NewTables
<1> HIDE DEF M
<1>2. x \in Part(M, {"table"}) <=> \E t \in OldTables \cup NewTables : x = <<t, "table">>
  BY <1>1, OnePart
<1>3. x \in Part(Reports, {"table"}) <=> \E t \in Reports : x = <<t, "table">>
  BY DEF Part
<1>4. x \in Part(Indexed, {"lookup"}) <=> \E t \in Indexed : x = <<t, "lookup">>
  BY DEF Part
<1>5. x \in Part(Checked, {"checks"}) <=> \E t \in Checked : x = <<t, "checks">>
  BY DEF Part
<1>6. x \in Part({"schedule_decisions"}, {"explained", "contention", "tolerance"}) <=>
       x \in {<<"schedule_decisions", "explained">>, <<"schedule_decisions", "contention">>,
              <<"schedule_decisions", "tolerance">>}
  BY OneTable
<1>7. x \in Part({"audit_events"}, {"context", "append_only"}) <=>
       x \in {<<"audit_events", "context">>, <<"audit_events", "append_only">>}
  BY DEF Part
<1>8. x \in Everything <=>
        \/ x \in Part(M, {"table"}) \/ x \in Part(Reports, {"table"})
        \/ x \in Part(Indexed, {"lookup"}) \/ x \in Part(Checked, {"checks"})
        \/ x \in Part({"schedule_decisions"}, {"explained", "contention", "tolerance"})
        \/ x \in Part({"audit_events"}, {"context", "append_only"})
        \/ x \in {<<"jobs", "submitter">>, <<"users", "three_roles">>, <<"tenants", "profile">>}
  BY DEF Everything, Models, ReportTables, M
<1>. QED
  BY <1>2, <1>3, <1>4, <1>5, <1>6, <1>7, <1>8

Made(m) == m.tables \cup m.parts \cup m.strict

\* What revision k makes, and of which tables.
Orderly(k) ==
    LET m == Migrations[k] IN
    /\ Made(m) = {x \in Everything : Added(x) = k}
    /\ \A x \in m.tables : x[2] = "table"
    /\ \A x \in m.parts \cup m.strict : x[2] # "table" /\ Born(x[1]) \in 1 .. k - 1 /\ x[1] \notin Reports
    /\ m.dropped = IF k = 14 THEN ReportTables ELSE {}
    /\ k \notin {4, 9} => m.strict = {}

\* When each thing was made.
LEMMA Ages ==
    /\ \A t \in OldTables : Added(<<t, "table">>) = 1
    /\ Added(<<"approvals", "table">>) = 2
    /\ \A t \in Indexed : Added(<<t, "lookup">>) = 3
    /\ \A t \in Checked : Added(<<t, "checks">>) = 4
    /\ \A t \in {"users", "api_keys"} : Added(<<t, "table">>) = 5
    /\ Added(<<"schedule_decisions", "explained">>) = 6
    /\ Added(<<"schedule_decisions", "contention">>) = 7
    /\ Added(<<"notifications", "table">>) = 8 /\ Added(<<"jobs", "submitter">>) = 8
    /\ Added(<<"users", "three_roles">>) = 9
    /\ Added(<<"notification_preferences", "table">>) = 10
    /\ \A t \in Reports : Added(<<t, "table">>) = 11
    /\ Added(<<"audit_anchors", "table">>) = 12
    /\ \A p \in {"context", "append_only"} : Added(<<"audit_events", p>>) = 12
    /\ Added(<<"teams", "table">>) = 13 /\ Added(<<"tenants", "profile">>) = 13
    /\ Added(<<"optimization_policies", "table">>) = 15
    /\ Added(<<"schedule_decisions", "tolerance">>) = 15
BY TablesBorn, PartsAdded DEF OldTables, Reports

\* Everything there is was made by one of the revisions.
LEMMA EverythingByAge == \A x \in Everything :
    \/ Added(x) = 1 /\ \E t \in OldTables : x = <<t, "table">>
    \/ Added(x) = 2 /\ x = <<"approvals", "table">>
    \/ Added(x) = 3 /\ \E t \in Indexed : x = <<t, "lookup">>
    \/ Added(x) = 4 /\ \E t \in Checked : x = <<t, "checks">>
    \/ Added(x) = 5 /\ \E t \in {"users", "api_keys"} : x = <<t, "table">>
    \/ Added(x) = 6 /\ x = <<"schedule_decisions", "explained">>
    \/ Added(x) = 7 /\ x = <<"schedule_decisions", "contention">>
    \/ Added(x) = 8 /\ x \in {<<"notifications", "table">>, <<"jobs", "submitter">>}
    \/ Added(x) = 9 /\ x = <<"users", "three_roles">>
    \/ Added(x) = 10 /\ x = <<"notification_preferences", "table">>
    \/ Added(x) = 11 /\ \E t \in Reports : x = <<t, "table">>
    \/ Added(x) = 12 /\ x \in {<<"audit_anchors", "table">>, <<"audit_events", "context">>,
                                <<"audit_events", "append_only">>}
    \/ Added(x) = 13 /\ x \in {<<"teams", "table">>, <<"tenants", "profile">>}
    \/ Added(x) = 15 /\ x \in {<<"optimization_policies", "table">>,
                                <<"schedule_decisions", "tolerance">>}
<1> TAKE x \in Everything
<1>1. CASE \E t \in OldTables \cup NewTables \cup Reports : x = <<t, "table">>
  BY <1>1, Ages DEF NewTables
<1>2. CASE \E t \in Indexed : x = <<t, "lookup">>
  BY <1>2, Ages
<1>3. CASE \E t \in Checked : x = <<t, "checks">>
  BY <1>3, Ages
<1>4. CASE x \in {<<"schedule_decisions", "explained">>, <<"schedule_decisions", "contention">>,
              <<"schedule_decisions", "tolerance">>, <<"audit_events", "context">>,
              <<"audit_events", "append_only">>, <<"jobs", "submitter">>,
              <<"users", "three_roles">>, <<"tenants", "profile">>}
  BY <1>4, Ages
<1>. QED
  BY <1>1, <1>2, <1>3, <1>4, EverythingIs

\* What the migrations make, one by one.
LEMMA InitialMakes ==
    /\ \A x : x \in Initial.tables <=> \E t \in OldTables : x = <<t, "table">>
    /\ \A x : x \in Initial.parts <=> FALSE
    /\ \A x : x \in Initial.strict <=> FALSE
    /\ Initial.dropped = {}
BY DEF Initial, Adds, Part, OldTables

LEMMA AddApprovalsMakes ==
    /\ \A x : x \in AddApprovals.tables <=> x = <<"approvals", "table">>
    /\ \A x : x \in AddApprovals.parts <=> FALSE
    /\ \A x : x \in AddApprovals.strict <=> FALSE
    /\ AddApprovals.dropped = {}
BY DEF AddApprovals, Adds, Part

LEMMA AddIndexesMakes ==
    /\ \A x : x \in AddIndexes.tables <=> FALSE
    /\ \A x : x \in AddIndexes.parts <=> \E t \in Indexed : x = <<t, "lookup">>
    /\ \A x : x \in AddIndexes.strict <=> FALSE
    /\ AddIndexes.dropped = {}
BY DEF AddIndexes, Adds, Part

LEMMA AddConstraintsMakes ==
    /\ \A x : x \in AddConstraints.tables <=> FALSE
    /\ \A x : x \in AddConstraints.parts <=> FALSE
    /\ \A x : x \in AddConstraints.strict <=> \E t \in Checked : x = <<t, "checks">>
    /\ AddConstraints.dropped = {}
BY DEF AddConstraints, Adds, Part

LEMMA AddUsersMakes ==
    /\ \A x : x \in AddUsers.tables <=> \E t \in {"users", "api_keys"} : x = <<t, "table">>
    /\ \A x : x \in AddUsers.parts <=> FALSE
    /\ \A x : x \in AddUsers.strict <=> FALSE
    /\ AddUsers.dropped = {}
BY DEF AddUsers, Adds, Part

LEMMA AddExplainabilityMakes ==
    /\ \A x : x \in AddExplainability.tables <=> FALSE
    /\ \A x : x \in AddExplainability.parts <=> x = <<"schedule_decisions", "explained">>
    /\ \A x : x \in AddExplainability.strict <=> FALSE
    /\ AddExplainability.dropped = {}
BY DEF AddExplainability, Adds, Part

LEMMA AddContentionMakes ==
    /\ \A x : x \in AddContention.tables <=> FALSE
    /\ \A x : x \in AddContention.parts <=> x = <<"schedule_decisions", "contention">>
    /\ \A x : x \in AddContention.strict <=> FALSE
    /\ AddContention.dropped = {}
BY DEF AddContention, Adds, Part

LEMMA AddNotificationsMakes ==
    /\ \A x : x \in AddNotifications.tables <=> x = <<"notifications", "table">>
    /\ \A x : x \in AddNotifications.parts <=> x = <<"jobs", "submitter">>
    /\ \A x : x \in AddNotifications.strict <=> FALSE
    /\ AddNotifications.dropped = {}
BY DEF AddNotifications, Adds, Part

LEMMA ConsolidateRolesMakes ==
    /\ \A x : x \in ConsolidateRoles.tables <=> FALSE
    /\ \A x : x \in ConsolidateRoles.parts <=> FALSE
    /\ \A x : x \in ConsolidateRoles.strict <=> x = <<"users", "three_roles">>
    /\ ConsolidateRoles.dropped = {}
BY DEF ConsolidateRoles, Adds, Part

LEMMA AddPreferencesMakes ==
    /\ \A x : x \in AddPreferences.tables <=> x = <<"notification_preferences", "table">>
    /\ \A x : x \in AddPreferences.parts <=> FALSE
    /\ \A x : x \in AddPreferences.strict <=> FALSE
    /\ AddPreferences.dropped = {}
BY DEF AddPreferences, Adds, Part

LEMMA AddReportsMakes ==
    /\ \A x : x \in AddReports.tables <=> \E t \in Reports : x = <<t, "table">>
    /\ \A x : x \in AddReports.parts <=> FALSE
    /\ \A x : x \in AddReports.strict <=> FALSE
    /\ AddReports.dropped = {}
BY DEF AddReports, Adds, Part

LEMMA AddAuditContextMakes ==
    /\ \A x : x \in AddAuditContext.tables <=> x = <<"audit_anchors", "table">>
    /\ \A x : x \in AddAuditContext.parts <=> x \in {<<"audit_events", "context">>, <<"audit_events", "append_only">>}
    /\ \A x : x \in AddAuditContext.strict <=> FALSE
    /\ AddAuditContext.dropped = {}
BY DEF AddAuditContext, Adds, Part

LEMMA AddCompaniesMakes ==
    /\ \A x : x \in AddCompanies.tables <=> x = <<"teams", "table">>
    /\ \A x : x \in AddCompanies.parts <=> x = <<"tenants", "profile">>
    /\ \A x : x \in AddCompanies.strict <=> FALSE
    /\ AddCompanies.dropped = {}
BY DEF AddCompanies, Adds, Part

LEMMA RemoveReportsMakes ==
    /\ \A x : x \in RemoveReports.tables <=> FALSE
    /\ \A x : x \in RemoveReports.parts <=> FALSE
    /\ \A x : x \in RemoveReports.strict <=> FALSE
    /\ RemoveReports.dropped = ReportTables
BY DEF RemoveReports, Adds, Part, ReportTables

LEMMA AddPoliciesMakes ==
    /\ \A x : x \in AddPolicies.tables <=> x = <<"optimization_policies", "table">>
    /\ \A x : x \in AddPolicies.parts <=> x = <<"schedule_decisions", "tolerance">>
    /\ \A x : x \in AddPolicies.strict <=> FALSE
    /\ AddPolicies.dropped = {}
BY DEF AddPolicies, Adds, Part

LEMMA AllOrderly == \A k \in 1 .. 15 : Orderly(k)
<1>1. Orderly(1)
  <2>1. Made(Initial) = {x \in Everything : Added(x) = 1}
    BY InitialMakes, Ages, EverythingIs, EverythingByAge DEF Made, OldTables, NewTables
  <2>. QED
    BY <2>1, InitialMakes, MigrationsAre, TablesBorn DEF Orderly, Indexed, Checked, Reports
<1>2. Orderly(2)
  <2>1. Made(AddApprovals) = {x \in Everything : Added(x) = 2}
    BY AddApprovalsMakes, Ages, EverythingIs, EverythingByAge DEF Made, OldTables, NewTables
  <2>. QED
    BY <2>1, AddApprovalsMakes, MigrationsAre, TablesBorn DEF Orderly, Indexed, Checked, Reports
<1>3. Orderly(3)
  <2>1. Made(AddIndexes) = {x \in Everything : Added(x) = 3}
    BY AddIndexesMakes, Ages, EverythingIs, EverythingByAge DEF Made, OldTables, NewTables
  <2>. QED
    BY <2>1, AddIndexesMakes, MigrationsAre, TablesBorn DEF Orderly, Indexed, Checked, Reports
<1>4. Orderly(4)
  <2>1. Made(AddConstraints) = {x \in Everything : Added(x) = 4}
    BY AddConstraintsMakes, Ages, EverythingIs, EverythingByAge DEF Made, OldTables, NewTables
  <2>. QED
    BY <2>1, AddConstraintsMakes, MigrationsAre, TablesBorn DEF Orderly, Indexed, Checked, Reports
<1>5. Orderly(5)
  <2>1. Made(AddUsers) = {x \in Everything : Added(x) = 5}
    BY AddUsersMakes, Ages, EverythingIs, EverythingByAge DEF Made, OldTables, NewTables
  <2>. QED
    BY <2>1, AddUsersMakes, MigrationsAre, TablesBorn DEF Orderly, Indexed, Checked, Reports
<1>6. Orderly(6)
  <2>1. Made(AddExplainability) = {x \in Everything : Added(x) = 6}
    BY AddExplainabilityMakes, Ages, EverythingIs, EverythingByAge DEF Made, OldTables, NewTables
  <2>. QED
    BY <2>1, AddExplainabilityMakes, MigrationsAre, TablesBorn DEF Orderly, Indexed, Checked, Reports
<1>7. Orderly(7)
  <2>1. Made(AddContention) = {x \in Everything : Added(x) = 7}
    BY AddContentionMakes, Ages, EverythingIs, EverythingByAge DEF Made, OldTables, NewTables
  <2>. QED
    BY <2>1, AddContentionMakes, MigrationsAre, TablesBorn DEF Orderly, Indexed, Checked, Reports
<1>8. Orderly(8)
  <2>1. Made(AddNotifications) = {x \in Everything : Added(x) = 8}
    BY AddNotificationsMakes, Ages, EverythingIs, EverythingByAge DEF Made, OldTables, NewTables
  <2>. QED
    BY <2>1, AddNotificationsMakes, MigrationsAre, TablesBorn DEF Orderly, Indexed, Checked, Reports
<1>9. Orderly(9)
  <2>1. Made(ConsolidateRoles) = {x \in Everything : Added(x) = 9}
    BY ConsolidateRolesMakes, Ages, EverythingIs, EverythingByAge DEF Made, OldTables, NewTables
  <2>. QED
    BY <2>1, ConsolidateRolesMakes, MigrationsAre, TablesBorn DEF Orderly, Indexed, Checked, Reports
<1>10. Orderly(10)
  <2>1. Made(AddPreferences) = {x \in Everything : Added(x) = 10}
    BY AddPreferencesMakes, Ages, EverythingIs, EverythingByAge DEF Made, OldTables, NewTables
  <2>. QED
    BY <2>1, AddPreferencesMakes, MigrationsAre, TablesBorn DEF Orderly, Indexed, Checked, Reports
<1>11. Orderly(11)
  <2>1. Made(AddReports) = {x \in Everything : Added(x) = 11}
    <3>1. \A x : x \in Made(AddReports) <=> \E t \in Reports : x = <<t, "table">>
      BY AddReportsMakes DEF Made
    <3>2. \A t \in Reports : <<t, "table">> \in Everything
      BY EverythingIs
    <3>3. \A x \in Everything : Added(x) = 11 => \E t \in Reports : x = <<t, "table">>
      BY EverythingByAge
    <3>. QED
      BY <3>1, <3>2, <3>3, Ages
  <2>. QED
    BY <2>1, AddReportsMakes, MigrationsAre, TablesBorn DEF Orderly, Indexed, Checked, Reports
<1>12. Orderly(12)
  <2>1. Made(AddAuditContext) = {x \in Everything : Added(x) = 12}
    BY AddAuditContextMakes, Ages, EverythingIs, EverythingByAge DEF Made, OldTables, NewTables
  <2>. QED
    BY <2>1, AddAuditContextMakes, MigrationsAre, TablesBorn DEF Orderly, Indexed, Checked, Reports
<1>13. Orderly(13)
  <2>1. Made(AddCompanies) = {x \in Everything : Added(x) = 13}
    BY AddCompaniesMakes, Ages, EverythingIs, EverythingByAge DEF Made, OldTables, NewTables
  <2>. QED
    BY <2>1, AddCompaniesMakes, MigrationsAre, TablesBorn DEF Orderly, Indexed, Checked, Reports
<1>14. Orderly(14)
  <2>1. Made(RemoveReports) = {x \in Everything : Added(x) = 14}
    BY RemoveReportsMakes, Ages, EverythingIs, EverythingByAge DEF Made, OldTables, NewTables
  <2>. QED
    BY <2>1, RemoveReportsMakes, MigrationsAre, TablesBorn DEF Orderly, Indexed, Checked, Reports
<1>15. Orderly(15)
  <2>1. Made(AddPolicies) = {x \in Everything : Added(x) = 15}
    BY AddPoliciesMakes, Ages, EverythingIs, EverythingByAge DEF Made, OldTables, NewTables
  <2>. QED
    BY <2>1, AddPoliciesMakes, MigrationsAre, TablesBorn DEF Orderly, Indexed, Checked, Reports
<1>. QED
  BY <1>1, <1>2, <1>3, <1>4, <1>5, <1>6, <1>7, <1>8, <1>9, <1>10, <1>11, <1>12, <1>13, <1>14, <1>15

(***************************************************************************)
(* The chain                                                               *)
(***************************************************************************)

\* A walk of n steps from revision v exists, whatever it starts with.
Walks(v, n, now) ==
    \E f : f = [k \in v .. v + n |-> IF k = v THEN now ELSE Up(Migrations[k], f[k - 1])]

LEMMA WalkStarts == ASSUME NEW v \in Nat, NEW now PROVE Walks(v, 0, now)
<1> DEFINE f == [k \in v .. v |-> now]
<1>1. f = [k \in v .. v + 0 |-> IF k = v THEN now ELSE Up(Migrations[k], f[k - 1])]
  OBVIOUS
<1> HIDE DEF f
<1>. QED
  BY <1>1 DEF Walks

LEMMA WalkGoesOn ==
    ASSUME NEW v \in Nat, NEW n \in Nat, NEW now, Walks(v, n, now)
    PROVE  Walks(v, n + 1, now)
<1> PICK f : f = [k \in v .. v + n |-> IF k = v THEN now ELSE Up(Migrations[k], f[k - 1])]
  BY DEF Walks
<1> DEFINE g == [k \in v .. v + (n + 1) |->
                    IF k = v + n + 1 THEN Up(Migrations[k], f[k - 1]) ELSE f[k]]
<1>1. ASSUME NEW k \in v .. v + (n + 1)
      PROVE  g[k] = IF k = v THEN now ELSE Up(Migrations[k], g[k - 1])
  <2>1. CASE k = v + n + 1
    <3>1. k - 1 \in v .. v + (n + 1) /\ k - 1 # v + n + 1 /\ k # v
      BY <2>1
    <3>2. g[k - 1] = f[k - 1]
      BY <3>1
    <3>. QED
      BY <2>1, <3>1, <3>2
  <2>2. CASE k # v + n + 1
    <3>1. k \in v .. v + n /\ g[k] = f[k]
      BY <2>2
    <3>2. f[k] = IF k = v THEN now ELSE Up(Migrations[k], f[k - 1])
      BY <3>1
    <3>3. k # v => k - 1 \in v .. v + (n + 1) /\ k - 1 # v + n + 1
      BY <2>2
    <3>. QED
      BY <3>1, <3>2, <3>3
  <2>. QED
    BY <2>1, <2>2
<1>2. g = [k \in v .. v + (n + 1) |-> IF k = v THEN now ELSE Up(Migrations[k], g[k - 1])]
  BY <1>1
<1> HIDE DEF g
<1>. QED
  BY <1>2 DEF Walks

LEMMA WalksFar == ASSUME NEW v \in Nat, NEW now PROVE \A n \in 0 .. 15 : Walks(v, n, now)
<1>0. Walks(v, 0, now)
  BY WalkStarts
<1>1. Walks(v, 1, now)
  <2>1. 0 \in Nat /\ 0 + 1 = 1
    OBVIOUS
  <2>. QED
    BY <1>0, <2>1, WalkGoesOn
<1>2. Walks(v, 2, now)
  <2>1. 1 \in Nat /\ 1 + 1 = 2
    OBVIOUS
  <2>. QED
    BY <1>1, <2>1, WalkGoesOn
<1>3. Walks(v, 3, now)
  <2>1. 2 \in Nat /\ 2 + 1 = 3
    OBVIOUS
  <2>. QED
    BY <1>2, <2>1, WalkGoesOn
<1>4. Walks(v, 4, now)
  <2>1. 3 \in Nat /\ 3 + 1 = 4
    OBVIOUS
  <2>. QED
    BY <1>3, <2>1, WalkGoesOn
<1>5. Walks(v, 5, now)
  <2>1. 4 \in Nat /\ 4 + 1 = 5
    OBVIOUS
  <2>. QED
    BY <1>4, <2>1, WalkGoesOn
<1>6. Walks(v, 6, now)
  <2>1. 5 \in Nat /\ 5 + 1 = 6
    OBVIOUS
  <2>. QED
    BY <1>5, <2>1, WalkGoesOn
<1>7. Walks(v, 7, now)
  <2>1. 6 \in Nat /\ 6 + 1 = 7
    OBVIOUS
  <2>. QED
    BY <1>6, <2>1, WalkGoesOn
<1>8. Walks(v, 8, now)
  <2>1. 7 \in Nat /\ 7 + 1 = 8
    OBVIOUS
  <2>. QED
    BY <1>7, <2>1, WalkGoesOn
<1>9. Walks(v, 9, now)
  <2>1. 8 \in Nat /\ 8 + 1 = 9
    OBVIOUS
  <2>. QED
    BY <1>8, <2>1, WalkGoesOn
<1>10. Walks(v, 10, now)
  <2>1. 9 \in Nat /\ 9 + 1 = 10
    OBVIOUS
  <2>. QED
    BY <1>9, <2>1, WalkGoesOn
<1>11. Walks(v, 11, now)
  <2>1. 10 \in Nat /\ 10 + 1 = 11
    OBVIOUS
  <2>. QED
    BY <1>10, <2>1, WalkGoesOn
<1>12. Walks(v, 12, now)
  <2>1. 11 \in Nat /\ 11 + 1 = 12
    OBVIOUS
  <2>. QED
    BY <1>11, <2>1, WalkGoesOn
<1>13. Walks(v, 13, now)
  <2>1. 12 \in Nat /\ 12 + 1 = 13
    OBVIOUS
  <2>. QED
    BY <1>12, <2>1, WalkGoesOn
<1>14. Walks(v, 14, now)
  <2>1. 13 \in Nat /\ 13 + 1 = 14
    OBVIOUS
  <2>. QED
    BY <1>13, <2>1, WalkGoesOn
<1>15. Walks(v, 15, now)
  <2>1. 14 \in Nat /\ 14 + 1 = 15
    OBVIOUS
  <2>. QED
    BY <1>14, <2>1, WalkGoesOn
<1>. QED
  BY <1>0, <1>1, <1>2, <1>3, <1>4, <1>5, <1>6, <1>7, <1>8, <1>9, <1>10, <1>11, <1>12, <1>13, <1>14, <1>15

\* UpPath is such a walk.
LEMMA UpPathIs ==
    ASSUME NEW v \in 0 .. 15, NEW now
    PROVE  UpPath(v, now) = [k \in v .. 15 |->
               IF k = v THEN now ELSE Up(Migrations[k], UpPath(v, now)[k - 1])]
<1>1. Walks(v, 15 - v, now)
  BY WalksFar
<1>2. v + (15 - v) = 15
  OBVIOUS
<1>3. \E f : f = [k \in v .. 15 |-> IF k = v THEN now ELSE Up(Migrations[k], f[k - 1])]
  BY <1>1, <1>2 DEF Walks
<1>. QED
  BY <1>3, MigrationsAre DEF UpPath

\* What holds at a revision and is handed on by each holds up to the head.
LEMMA Climb ==
    ASSUME NEW v \in 0 .. 15, NEW G, v \in G, \A k \in v .. 14 : k \in G => k + 1 \in G
    PROVE  v .. 15 \subseteq G
<1> DEFINE H == {k \in 0 .. 15 : k < v \/ k \in G}
<1>0. 0 \in H
  OBVIOUS
<1>1. \A k \in 0 .. 14 : k \in H => k + 1 \in H
  <2> SUFFICES ASSUME NEW k \in 0 .. 14, k < v \/ k \in G PROVE k + 1 < v \/ k + 1 \in G
    OBVIOUS
  <2>1. CASE k < v
    <3>1. k + 1 < v \/ k + 1 = v
      BY <2>1
    <3>. QED
      BY <3>1
  <2>2. CASE ~(k < v)
    BY <2>2
  <2>. QED
    BY <2>1, <2>2
<1> HIDE DEF H
<1>2. 1 \in H /\ 2 \in H /\ 3 \in H /\ 4 \in H
  BY <1>0, <1>1
<1>3. 5 \in H /\ 6 \in H /\ 7 \in H /\ 8 \in H
  BY <1>2, <1>1
<1>4. 9 \in H /\ 10 \in H /\ 11 \in H /\ 12 \in H
  BY <1>3, <1>1
<1>5. 13 \in H /\ 14 \in H /\ 15 \in H
  BY <1>4, <1>1
<1>6. 0 .. 15 \subseteq H
  BY <1>0, <1>2, <1>3, <1>4, <1>5
<1>7. \A k \in v .. 15 : k \in H => k \in G
  BY DEF H
<1>. QED
  BY <1>6, <1>7

\* What there is at revision v.
Closed(v) == {x \in Everything : Added(x) =< v /\ (v >= 14 => x \notin ReportTables)}

LEMMA Ranges ==
    /\ \A x \in Everything : Added(x) \in 1 .. 15
    /\ ReportTables \subseteq Everything /\ \A x \in ReportTables : Added(x) = 11
    /\ ReportTables \cap Models = {}
<1>1. \A x \in Everything : Added(x) \in 1 .. 15
  BY EverythingByAge
<1>2. \A x \in ReportTables : Added(x) = 11 /\ \E t \in Reports : x = <<t, "table">>
  BY Ages DEF ReportTables, Part
<1>3. \A x : ~(x \in ReportTables /\ x \in Models)
  <2> SUFFICES ASSUME NEW x, x \in ReportTables, x \in Models PROVE FALSE
    OBVIOUS
  <2>1. x = <<"brsr", "table">>
    BY <1>2 DEF Reports
  <2>2. <<"brsr", "table">> \notin Models
    BY DEF Models, Part, Indexed, Checked
  <2>. QED
    BY <2>1, <2>2
<1>. QED
  BY <1>1, <1>2, <1>3 DEF Everything

\* Every part of the models belongs to a table that is there when it is made.
LEMMA PartsHaveTables ==
    ASSUME NEW k \in 1 .. 15, NEW x \in Migrations[k].parts \cup Migrations[k].strict
    PROVE  <<x[1], "table">> \in Everything /\ Added(<<x[1], "table">>) < k
             /\ <<x[1], "table">> \notin ReportTables
<1>1. Born(x[1]) \in 1 .. k - 1 /\ x[1] \notin Reports
  BY AllOrderly DEF Orderly
<1>2. x[1] \in OldTables \cup NewTables
  BY <1>1 DEF Born, OldTables, NewTables, Reports
<1>3. <<x[1], "table">> \in Everything
  BY <1>2, EverythingIs
<1>4. <<x[1], "table">> \notin ReportTables
  BY <1>1 DEF ReportTables, Part
<1>. QED
  BY <1>1, <1>3, <1>4, PartsAdded

LEMMA ReportsAreAdded == ReportTables \subseteq Migrations[11].tables
BY MigrationsAre, AddReportsMakes DEF ReportTables, Part

\* No part is older than its table.
LEMMA TableIsOlder ==
    ASSUME NEW x \in Everything
    PROVE  /\ <<x[1], "table">> \in Everything /\ Added(<<x[1], "table">>) =< Added(x)
           /\ x \in Models => <<x[1], "table">> \in Models
<1>1. Added(x) \in 1 .. 15
  BY Ranges
<1>2. x \in Made(Migrations[Added(x)])
  BY <1>1, AllOrderly DEF Orderly
<1>3. CASE x \in Migrations[Added(x)].tables
  <2>1. x[2] = "table"
    BY <1>1, <1>3, AllOrderly DEF Orderly
  <2>2. x = <<x[1], "table">>
    BY <2>1, EverythingIs
  <2>. QED
    BY <1>1, <2>2
<1>4. CASE x \in Migrations[Added(x)].parts \cup Migrations[Added(x)].strict
  <2>1. /\ Added(<<x[1], "table">>) < Added(x)
        /\ <<x[1], "table">> \in Everything /\ <<x[1], "table">> \notin ReportTables
    BY <1>1, <1>4, PartsHaveTables
  <2>. QED
    BY <1>1, <2>1, Ranges DEF Everything
<1>. QED
  BY <1>2, <1>3, <1>4 DEF Made

\* A revision makes what is its own ...
LEMMA UpMakes ==
    ASSUME NEW k \in 1 .. 15, NEW s, Closed(k - 1) \subseteq s
    PROVE  Closed(k) \subseteq Up(Migrations[k], s)
<1> DEFINE m == Migrations[k]
<1>1. /\ Made(m) = {x \in Everything : Added(x) = k}
      /\ m.dropped = IF k = 14 THEN ReportTables ELSE {}
  BY AllOrderly DEF Orderly
<1>2. \A x \in m.parts \cup m.strict : HasTable(x[1], s)
  <2> TAKE x \in m.parts \cup m.strict
  <2>1. <<x[1], "table">> \in Closed(k - 1)
    BY PartsHaveTables, Ranges DEF Closed
  <2>. QED
    BY <2>1 DEF HasTable
<1>3. ASSUME NEW x \in Closed(k) PROVE x \in s \cup Made(m) /\ x \notin m.dropped
  <2>1. CASE Added(x) = k
    <3>1. x \in Made(m)
      BY <1>1, <2>1 DEF Closed
    <3>. QED
      BY <1>1, <2>1, <3>1, Ranges DEF Closed
  <2>2. CASE Added(x) # k
    <3>1. Added(x) \in 1 .. 15 /\ Added(x) =< k - 1
      BY <2>2, Ranges DEF Closed
    <3>2. k - 1 >= 14 => k >= 14
      OBVIOUS
    <3>3. x \in Closed(k - 1)
      BY <3>1, <3>2 DEF Closed
    <3>. QED
      BY <1>1, <3>3 DEF Closed
  <2>. QED
    BY <2>1, <2>2
<1>. QED
  BY <1>2, <1>3 DEF Up, Made

\* ... and nothing else; RemoveReports removes the tables of reports.
LEMMA UpMakesOnly ==
    ASSUME NEW k \in 1 .. 15, NEW s
    PROVE  /\ Up(Migrations[k], s) \subseteq s \cup {x \in Everything : Added(x) = k}
           /\ k = 14 => Up(Migrations[k], s) \cap ReportTables = {}
           /\ k # 14 => s \subseteq Up(Migrations[k], s)
           /\ s \ ReportTables \subseteq Up(Migrations[k], s)
<1> DEFINE m == Migrations[k]
<1>1. /\ Made(m) = {x \in Everything : Added(x) = k}
      /\ m.dropped = IF k = 14 THEN ReportTables ELSE {}
  BY AllOrderly DEF Orderly
<1>. QED
  BY <1>1 DEF Up, Made

LEMMA ChainIs == \A v \in 0 .. 15 : ChainTo[v] = Closed(v)
<1> DEFINE G == {v \in 0 .. 15 : ChainTo[v] = Closed(v)}
<1>1. ChainTo = [k \in 0 .. 15 |-> IF k = 0 THEN {} ELSE Up(Migrations[k], ChainTo[k - 1])]
  BY UpPathIs DEF ChainTo
<1>2. 0 \in G
  <2>1. Closed(0) = {}
    BY Ranges DEF Closed
  <2>. QED
    BY <1>1, <2>1
<1>3. \A k \in 0 .. 14 : k \in G => k + 1 \in G
  <2> SUFFICES ASSUME NEW k \in 0 .. 14, ChainTo[k] = Closed(k) PROVE ChainTo[k + 1] = Closed(k + 1)
    OBVIOUS
  <2>1. ChainTo[k + 1] = Up(Migrations[k + 1], Closed(k))
    <3>1. k + 1 \in 0 .. 15 /\ k + 1 # 0 /\ (k + 1) - 1 = k
      OBVIOUS
    <3>. QED
      BY <1>1, <3>1
  <2>0. k + 1 \in 1 .. 15 /\ (k + 1) - 1 = k
    OBVIOUS
  <2>2. Closed(k + 1) \subseteq ChainTo[k + 1]
    BY <2>0, <2>1, UpMakes
  <2>3. Up(Migrations[k + 1], Closed(k)) \subseteq Closed(k) \cup {x \in Everything : Added(x) = k + 1}
    BY <2>0, UpMakesOnly
  <2>4. ASSUME NEW x \in Up(Migrations[k + 1], Closed(k)) PROVE x \in Closed(k + 1)
    <3>1. x \in Everything /\ Added(x) \in 1 .. 15 /\ Added(x) =< k + 1
      BY <2>3, Ranges DEF Closed
    <3>2. k + 1 >= 14 => x \notin ReportTables
      <4>1. CASE k + 1 = 14
        BY <4>1, UpMakesOnly
      <4>2. CASE k = 14
        BY <2>3, <4>2, Ranges DEF Closed
      <4>. QED
        BY <4>1, <4>2
    <3>. QED
      BY <3>1, <3>2 DEF Closed
  <2>. QED
    BY <2>1, <2>2, <2>4
<1> HIDE DEF G
<1>4. 0 .. 15 \subseteq G
  BY <1>2, <1>3, Climb
<1>. QED
  BY <1>4 DEF G

\* Steps of an upgrade from revision v.
LEMMA UpPathSteps ==
    ASSUME NEW v \in 0 .. 15, NEW s
    PROVE  /\ UpPath(v, s)[v] = s
           /\ \A k \in v .. 14 : /\ k + 1 \in 1 .. 15 /\ (k + 1) - 1 = k
                                 /\ UpPath(v, s)[k + 1] = Up(Migrations[k + 1], UpPath(v, s)[k])
<1>1. \A k \in v .. 15 : UpPath(v, s)[k] = IF k = v THEN s ELSE Up(Migrations[k], UpPath(v, s)[k - 1])
  BY UpPathIs
<1>2. ASSUME NEW k \in v .. 14
      PROVE  /\ k + 1 \in 1 .. 15 /\ (k + 1) - 1 = k
             /\ UpPath(v, s)[k + 1] = Up(Migrations[k + 1], UpPath(v, s)[k])
  <2>1. k + 1 \in v .. 15 /\ k + 1 # v /\ k + 1 \in 1 .. 15 /\ (k + 1) - 1 = k
    OBVIOUS
  <2>. QED
    BY <1>1, <2>1
<1>. QED
  BY <1>1, <1>2

\* What may be there at revision v: the head has no tables of reports.
Possible(v) == IF v >= 14 THEN Models ELSE Everything

LEMMA HeadIsModels == Closed(15) = Models /\ Possible(15) = Models
<1>1. \A x \in Everything : Added(x) =< 15
  BY Ranges
<1>. QED
  BY <1>1, Ranges DEF Closed, Possible, Everything

\* An upgrade from what revision v makes, and possibly more, ends with the models.
LEMMA UpgradedIs ==
    ASSUME NEW v \in 0 .. 15, NEW s, Closed(v) \subseteq s, s \subseteq Possible(v)
    PROVE  Upgraded(v, s) = Models
<1> DEFINE P == UpPath(v, s)
           G == {k \in 0 .. 15 : Closed(k) \subseteq P[k] /\ P[k] \subseteq Possible(k)}
<1>1. v \in G
  BY UpPathSteps
<1>2. ASSUME NEW k \in v .. 14, k \in G PROVE k + 1 \in G
  <2>1. /\ k + 1 \in 1 .. 15 /\ (k + 1) - 1 = k
        /\ P[k + 1] = Up(Migrations[k + 1], P[k])
    BY UpPathSteps
  <2>2. Closed(k) \subseteq P[k] /\ P[k] \subseteq Possible(k)
    BY <1>2
  <2> HIDE DEF P
  <2>3. Closed(k + 1) \subseteq P[k + 1]
    BY <2>1, <2>2, UpMakes
  <2>4. P[k + 1] \subseteq P[k] \cup {x \in Everything : Added(x) = k + 1}
    BY <2>1, UpMakesOnly
  <2>5. CASE k + 1 = 14
    <3>1. P[k + 1] \cap ReportTables = {}
      BY <2>1, <2>5, UpMakesOnly
    <3>. QED
      BY <2>1, <2>2, <2>3, <2>4, <2>5, <3>1 DEF Possible, Everything
  <2>6. CASE k = 14
    BY <2>1, <2>2, <2>3, <2>4, <2>6, Ranges DEF Possible, Everything
  <2>7. CASE k < 13
    BY <2>1, <2>2, <2>3, <2>4, <2>7 DEF Possible
  <2>. QED
    BY <2>5, <2>6, <2>7
<1>3. v .. 15 \subseteq G
  <2> HIDE DEF G
  <2>. QED
    BY <1>1, <1>2, Climb
<1>4. Upgraded(v, s) = P[15]
  BY MigrationsAre DEF Upgraded
<1>5. 15 \in v .. 15
  OBVIOUS
<1>6. Closed(15) \subseteq P[15] /\ P[15] \subseteq Possible(15)
  BY <1>3, <1>5
<1>. QED
  BY <1>4, <1>6, HeadIsModels

ThreeRoles == <<"users", "three_roles">>
Checks == Migrations[4].strict

LEMMA StrictParts ==
    /\ \A x \in Checks : Added(x) = 4
    /\ Added(ThreeRoles) = 9 /\ Migrations[9].strict = {ThreeRoles}
BY AllOrderly, Ages, MigrationsAre, ConsolidateRolesMakes DEF Orderly, Made, Checks, ThreeRoles

\* It fails only on the checks, which revision 4 adds, and on the three roles, which
\* revision 9 makes: what is not there yet is made by no other revision.
LEMMA UpgradeGoesThrough ==
    ASSUME NEW v \in 0 .. 15, NEW s,
           v >= 4 \/ Checks \cap s = {}, v >= 9 \/ ThreeRoles \notin s
    PROVE  Upgradable(v, s)
<1>1. SUFFICES ASSUME NEW k \in v + 1 .. 15 PROVE ~CannotUp(Migrations[k], UpPath(v, s)[k - 1])
  BY MigrationsAre DEF Upgradable
<1> DEFINE P == UpPath(v, s)
           G == {i \in 0 .. 15 : /\ i < 4 => Checks \cap P[i] = {}
                                 /\ i < 9 => ThreeRoles \notin P[i]}
<1>2. v \in G
  BY UpPathSteps
<1>3. ASSUME NEW i \in v .. 14, i \in G PROVE i + 1 \in G
  <2>1. i + 1 \in 1 .. 15 /\ P[i + 1] = Up(Migrations[i + 1], P[i])
    BY UpPathSteps
  <2>2. P[i + 1] \subseteq P[i] \cup {x \in Everything : Added(x) = i + 1}
    BY <2>1, UpMakesOnly
  <2> HIDE DEF P
  <2>3. i + 1 < 4 => Checks \cap P[i + 1] = {}
    BY <1>3, <2>2, StrictParts
  <2>4. i + 1 < 9 => ThreeRoles \notin P[i + 1]
    BY <1>3, <2>2, StrictParts
  <2>. QED
    BY <2>1, <2>3, <2>4
<1>4. v .. 15 \subseteq G
  <2> HIDE DEF G
  <2>. QED
    BY <1>2, <1>3, Climb
<1>5. CASE k \notin {4, 9}
  BY <1>5, AllOrderly DEF Orderly, CannotUp
<1>6. CASE k = 4
  <2>1. Checks \cap P[3] = {}
    BY <1>4, <1>6
  <2>. QED
    BY <1>6, <2>1 DEF CannotUp, Checks
<1>7. CASE k = 9
  <2>1. ThreeRoles \notin P[8]
    BY <1>4, <1>7
  <2>. QED
    BY <1>7, <2>1, StrictParts DEF CannotUp
<1>. QED
  BY <1>5, <1>6, <1>7

\* What the chain makes up to revision v is there, and nothing but what the models have.
Truthful(v, s) == Closed(v) \subseteq s /\ s \subseteq Closed(v) \cup Models

LEMMA TruthfulIsPossible ==
    ASSUME NEW v \in 0 .. 15, NEW s, Truthful(v, s)
    PROVE  Closed(v) \subseteq s /\ s \subseteq Possible(v)
BY DEF Truthful, Closed, Possible, Everything

\* One revision down leaves what the chain makes up to the one before.
LEMMA DownIsTruthful ==
    ASSUME NEW v \in 2 .. 15, NEW s, Truthful(v, s)
    PROVE  Truthful(v - 1, Down(Migrations[v], s))
<1> DEFINE m == Migrations[v]
           d == Down(m, s)
<1>0. v \in 1 .. 15
  OBVIOUS
<1>1. /\ Made(m) = {x \in Everything : Added(x) = v}
      /\ \A x \in m.tables : x[2] = "table"
      /\ m.dropped = IF v = 14 THEN ReportTables ELSE {}
  BY <1>0, AllOrderly DEF Orderly
<1>2. v - 1 \in 1 .. 14 /\ v - 1 \in 0 .. 15
  OBVIOUS
<1>3. ASSUME NEW x \in Closed(v - 1) PROVE x \in d
  <2>1. x \in Everything /\ Added(x) \in 1 .. v - 1
    BY <1>2, Ranges DEF Closed
  <2>2. x \notin Made(m)
    BY <1>1, <2>1
  <2>3. x \notin m.parts \cup m.strict
    BY <2>2 DEF Made
  <2>4. <<x[1], "table">> \notin m.tables
    BY <1>1, <2>1, TableIsOlder DEF Made
  <2>5. x \in s \/ x \in m.dropped
    <3>1. CASE x \in Closed(v)
      BY <3>1 DEF Truthful
    <3>2. CASE x \notin Closed(v)
      <4>1. v >= 14 /\ x \in ReportTables
        BY <2>1, <3>2 DEF Closed
      <4>2. ~(v - 1 >= 14)
        BY <4>1, <1>2 DEF Closed
      <4>. QED
        BY <1>1, <4>1, <4>2
    <3>. QED
      BY <3>1, <3>2
  <2>. QED
    BY <2>3, <2>4, <2>5 DEF Down
<1>4. ASSUME NEW x \in d, x \notin Models PROVE x \in Closed(v - 1)
  <2>1. CASE x \in m.dropped
    <3>1. v = 14 /\ x \in ReportTables
      BY <1>1, <2>1
    <3>. QED
      BY <3>1, Ranges DEF Closed
  <2>2. CASE x \notin m.dropped
    <3>1. x \in s /\ <<x[1], "table">> \notin m.tables
      BY <2>2 DEF Down
    <3>2. x \in Closed(v) /\ x \in ReportTables
      BY <1>4, <3>1 DEF Truthful, Closed, Everything
    <3>3. Added(x) = 11 /\ v >= 11 /\ ~(v >= 14)
      BY <3>2, Ranges DEF Closed
    <3>4. x = <<x[1], "table">>
      BY <3>2 DEF ReportTables, Part
    <3>5. v # 11
      <4>1. v = 11 => x \in m.tables
        BY <3>2, ReportsAreAdded
      <4>. QED
        BY <3>1, <3>4, <4>1
    <3>. QED
      BY <3>2, <3>3, <3>5 DEF Closed
  <2>. QED
    BY <2>1, <2>2
<1>. QED
  BY <1>3, <1>4 DEF Truthful

(***************************************************************************)
(* The database while processes start                                      *)
(***************************************************************************)

\* What create_all makes of a database below revision 5 has users of the three
\* roles, whatever other parts are there already.
SchemaOK ==
    /\ version \in 0 .. 15
    /\ version > 0 => Truthful(version, schema)
    /\ version = 0 => schema \subseteq Everything
    /\ version = 0 /\ origin.release = 0 => schema = {} \/ Models \subseteq schema
    /\ version \in 1 .. 4 /\ HasTable("users", schema) => ThreeRoles \in schema

Complete == Models \subseteq schema \/ Stranded

Phases == {"stopped", "create", "creating", "upgrade", "upgrading", "fallback", "serving", "failed"}
StartRow == [pc : Phases, attempt : Nat, missing : SUBSET Tables, from : Nat]

\* A process that looked for tables saw what is missing still, or another one has
\* made them all; then it repeats the attempt once, and finds nothing missing.
StartOK(p) ==
    LET at == replica[p] IN
    /\ at.attempt \in 0 .. 2
    /\ at.pc = "stopped" => at.attempt = 0
    /\ at.pc = "failed" => MaxRetries = 1
    /\ at.pc = "creating" => at.missing = Tables \ schema \/ Tables \subseteq schema
    /\ at.attempt = 2 => Tables \subseteq schema
    /\ at.pc = "creating" /\ at.attempt = 2 => at.missing = {}
    /\ at.pc \in {"upgrade", "upgrading", "fallback", "serving"} => Tables \subseteq schema
    /\ at.pc = "upgrading" => at.from \in 0 .. 15 /\ (at.from = version \/ version = 15)
    /\ at.pc \in {"fallback", "serving"} => Complete

CanonicalRole(a) == Canonical(Accounts[a].role, Accounts[a].tenant)
Canon == \A a \in DOMAIN Accounts : roles[a] = CanonicalRole(a)

RolesOK ==
    /\ \A a \in DOMAIN Accounts : roles[a] \in {Accounts[a].role, CanonicalRole(a)}
    /\ ThreeRoles \in schema => Canon
    /\ Canon \/ HasTable("users", schema)
    /\ (\E p \in Replicas : Serving(p)) => Canon

StartupInv ==
    /\ origin \in Origins
    /\ replica \in [Replicas -> StartRow]
    /\ SchemaOK /\ RolesOK
    /\ \A p \in Replicas : StartOK(p)

LEMMA CanonicalTwice ==
    ASSUME NEW a \in DOMAIN Accounts
    PROVE  /\ Canonical(CanonicalRole(a), Accounts[a].tenant) = CanonicalRole(a)
           /\ CanonicalRole(a) \in {"PLATFORM_ADMIN", "COMPANY_ADMIN", "COMPANY_USER"}
           /\ CanonicalRole(a) = "PLATFORM_ADMIN" <=> Accounts[a].role = "ADMIN" /\ ~Accounts[a].tenant
<1> PICK role \in Legacy, tenant \in BOOLEAN : role = Accounts[a].role /\ tenant = Accounts[a].tenant
  BY StartupAssumption
<1>1. CanonicalRole(a) \in {"PLATFORM_ADMIN", "COMPANY_ADMIN", "COMPANY_USER"}
  BY DEF Canonical, CanonicalRole, Legacy
<1>2. CanonicalRole(a) = "PLATFORM_ADMIN" <=> role = "ADMIN" /\ ~tenant
  <2>1. CASE role = "ADMIN" /\ tenant = FALSE
    <3>1. Canonical("ADMIN", FALSE) = "PLATFORM_ADMIN"
      BY DEF Canonical
    <3>. QED
      BY <2>1, <3>1 DEF CanonicalRole
  <2>2. CASE role = "ADMIN" /\ tenant = TRUE
    BY <2>2 DEF Canonical, CanonicalRole
  <2>3. CASE role # "ADMIN"
    <3>1. CanonicalRole(a) \in {"COMPANY_ADMIN", "COMPANY_USER"}
      BY <2>3 DEF Canonical, CanonicalRole, Legacy
    <3>. QED
      BY <2>3, <3>1
  <2>. QED
    BY <2>1, <2>2, <2>3
<1>3. \A r \in {"PLATFORM_ADMIN", "COMPANY_ADMIN", "COMPANY_USER"} : Canonical(r, tenant) = r
  BY DEF Canonical
<1>. QED
  BY <1>1, <1>2, <1>3

LEMMA NormalizedIsCanon ==
    ASSUME RolesOK, roles' = Normalized
    PROVE  Canon'
<1>1. \A a \in DOMAIN Accounts : Canonical(roles[a], Accounts[a].tenant) = CanonicalRole(a)
  BY CanonicalTwice DEF RolesOK, CanonicalRole
<1>. QED
  BY <1>1 DEF Canon, Normalized, CanonicalRole

LEMMA CanonIsOK == Canon => RolesOK
BY DEF Canon, RolesOK

\* What the models have.
LEMMA ModelsAre ==
    /\ Tables \subseteq Models /\ Tables # {} /\ Models \subseteq Everything
    /\ \A x \in Models : <<x[1], "table">> \in Tables
    /\ \A x \in Tables : x = <<x[1], "table">>
    /\ ThreeRoles \in Models /\ Added(ThreeRoles) = 9
    /\ <<"users", "table">> \in Tables /\ Added(<<"users", "table">>) = 5
<1>1. Models \subseteq Everything
  BY DEF Everything
<1>2. \A x \in Models : <<x[1], "table">> \in Tables
  <2>1. ASSUME NEW x \in Models PROVE <<x[1], "table">> \in Models
    BY <1>1, TableIsOlder
  <2>. QED
    BY <2>1 DEF Tables
<1>3. \A x \in Tables : x \in Everything /\ x[2] = "table"
  BY <1>1 DEF Tables
<1>4. \A x \in Tables : x = <<x[1], "table">>
  BY <1>3, EverythingIs
<1>5. ThreeRoles \in Models
  BY DEF Models, ThreeRoles
<1>6. ThreeRoles[1] = "users"
  BY DEF ThreeRoles
<1>7. <<"users", "table">> \in Tables
  BY <1>2, <1>5, <1>6
<1>. QED
  BY <1>1, <1>2, <1>4, <1>5, <1>7, Ages DEF Tables, ThreeRoles

-----------------------------------------------------------------------------
LEMMA InitStartupInv == StartupInit => StartupInv
<1> SUFFICES ASSUME StartupInit PROVE StartupInv
  OBVIOUS
<1> PICK r \in 0 .. 15 : r = origin.release
  BY StartupAssumption DEF StartupInit
<1>1. origin \in Origins /\ origin.stamped \in BOOLEAN
  BY StartupAssumption DEF StartupInit
<1>2. schema = Closed(r) /\ version = IF origin.stamped THEN r ELSE 0
  BY ChainIs DEF StartupInit
<1>3. Closed(0) = {} /\ Closed(r) \subseteq Everything
  BY Ranges DEF Closed
<1>4. SchemaOK
  <2>1. version \in 0 .. 15 /\ (version > 0 => version = r /\ Truthful(version, schema))
    BY <1>2 DEF Truthful
  <2>2. r = 0 => schema = {}
    BY <1>2, <1>3
  <2>3. version \in 1 .. 4 => ~HasTable("users", schema)
    BY <1>1, <1>2, ModelsAre DEF Closed, HasTable
  <2>. QED
    BY <1>2, <1>3, <2>1, <2>2, <2>3 DEF SchemaOK
<1>5. replica \in [Replicas -> StartRow] /\ \A p \in Replicas : replica[p] = Stopped
  BY DEF StartupInit, Stopped, StartRow, Phases
<1>6. RolesOK
  <2>1. CASE r \in 5 .. 8
    <3>1. ThreeRoles \notin schema
      BY <1>2, <2>1, ModelsAre DEF Closed
    <3>2. HasTable("users", schema)
      <4>1. <<"users", "table">> \in Everything /\ <<"users", "table">> \notin ReportTables
        BY ModelsAre, Ranges
      <4>. QED
        BY <1>2, <2>1, <4>1, ModelsAre DEF Closed, HasTable
    <3>3. \A a \in DOMAIN Accounts : roles[a] = Accounts[a].role
      BY <2>1 DEF StartupInit
    <3>. QED
      BY <1>5, <3>1, <3>2, <3>3 DEF RolesOK, Serving, Stopped
  <2>2. CASE r \notin 5 .. 8
    BY <2>2, CanonIsOK DEF StartupInit, Canon, CanonicalRole
  <2>. QED
    BY <2>1, <2>2
<1>7. \A p \in Replicas : StartOK(p)
  BY <1>5 DEF StartOK, Stopped
<1>. QED
  BY <1>1, <1>4, <1>5, <1>6, <1>7 DEF StartupInv

-----------------------------------------------------------------------------
\* What else a step does to a process that does not take it.
LEMMA OthersStayOK ==
    ASSUME StartupInv, NEW q \in Replicas, replica'[q] = replica[q], UNCHANGED origin,
           version' = version \/ version' = 15,
           UNCHANGED <<schema, version>> \/ (Tables \subseteq schema' /\ (Complete => Complete'))
    PROVE  StartOK(q)'
<1>1. StartOK(q)
  BY DEF StartupInv
<1> PICK at : at = replica[q] /\ at = replica'[q]
  OBVIOUS
<1>2. CASE UNCHANGED <<schema, version>>
  BY <1>1, <1>2 DEF StartOK, Complete, Stranded
<1>3. CASE Tables \subseteq schema' /\ (Complete => Complete')
  BY <1>1, <1>3 DEF StartOK
<1>. QED
  BY <1>2, <1>3

LEMMA MoveOfOne ==
    ASSUME NEW p \in Replicas, NEW at \in StartRow, StartupInv,
           replica' = [replica EXCEPT ![p] = at]
    PROVE  /\ replica'[p] = at /\ replica' \in [Replicas -> StartRow]
           /\ \A q \in Replicas \ {p} : replica'[q] = replica[q]
BY DEF StartupInv

\* A process moves on and nothing else happens.
LEMMA OnlyMoves ==
    ASSUME StartupInv, NEW p \in Replicas, NEW at \in StartRow,
           replica' = [replica EXCEPT ![p] = at], UNCHANGED <<schema, version, roles, origin>>,
           at.pc = "serving" => Canon, StartOK(p)'
    PROVE  StartupInv'
<1>1. /\ replica'[p] = at /\ replica' \in [Replicas -> StartRow]
      /\ \A q \in Replicas \ {p} : replica'[q] = replica[q]
  BY MoveOfOne
<1>2. \A q \in Replicas : StartOK(q)'
  BY <1>1, OthersStayOK
<1>3. SchemaOK' /\ Canon' = Canon
  BY DEF StartupInv, SchemaOK, Canon
<1>4. RolesOK'
  <2>1. ASSUME NEW q \in Replicas, Serving(q)' PROVE Canon
    BY <1>1, <2>1 DEF Serving, StartupInv, RolesOK
  <2>. QED
    BY <1>3, <2>1 DEF StartupInv, RolesOK
<1>. QED
  BY <1>1, <1>2, <1>3, <1>4 DEF StartupInv

LEMMA StartKeeps == ASSUME StartupInv, NEW p \in Replicas, Start(p) PROVE StartupInv'
<1> PICK at : at = [Stopped EXCEPT !.pc = "create", !.attempt = 1]
  OBVIOUS
<1>1. at.pc = "create" /\ at.attempt = 1 /\ at \in StartRow
  BY DEF Stopped, StartRow, Phases
<1>2. replica' = [replica EXCEPT ![p] = at] /\ UNCHANGED <<schema, version, roles, origin>>
  BY DEF Start
<1>3. StartOK(p)'
  BY <1>1, <1>2 DEF StartupInv, StartOK
<1>. QED
  BY <1>1, <1>2, <1>3, OnlyMoves

LEMMA LookForTablesKeeps ==
    ASSUME StartupInv, NEW p \in Replicas, LookForTables(p) PROVE StartupInv'
<1> PICK at : at = [replica[p] EXCEPT !.pc = "creating", !.missing = Tables \ schema]
  OBVIOUS
<1>1. /\ replica' = [replica EXCEPT ![p] = at] /\ UNCHANGED <<schema, version, roles, origin>>
      /\ replica[p].pc = "create"
  BY DEF LookForTables
<1>2. StartOK(p) /\ replica[p] \in StartRow
  BY DEF StartupInv
<1>3. /\ at \in StartRow /\ at.pc = "creating" /\ at.missing = Tables \ schema
      /\ at.attempt = replica[p].attempt
  BY <1>2 DEF StartRow, Phases
<1>4. StartOK(p)'
  BY <1>1, <1>2, <1>3 DEF StartupInv, StartOK
<1>. QED
  BY <1>1, <1>3, <1>4, OnlyMoves

LEMMA ReadVersionKeeps ==
    ASSUME StartupInv, NEW p \in Replicas, ReadVersion(p) PROVE StartupInv'
<1> PICK now \in Nat : now = version /\ now \in 0 .. 15
  BY DEF StartupInv, SchemaOK
<1> PICK at : at = [replica[p] EXCEPT !.pc = "upgrading", !.from = now]
  OBVIOUS
<1>1. /\ replica' = [replica EXCEPT ![p] = at] /\ UNCHANGED <<schema, version, roles, origin>>
      /\ replica[p].pc = "upgrade"
  BY DEF ReadVersion
<1>2. StartOK(p) /\ replica[p] \in StartRow
  BY DEF StartupInv
<1>3. /\ at \in StartRow /\ at.pc = "upgrading" /\ at.from = now
      /\ at.attempt = replica[p].attempt
  BY <1>2 DEF StartRow, Phases
<1>4. StartOK(p)'
  BY <1>1, <1>2, <1>3 DEF StartupInv, StartOK
<1>. QED
  BY <1>1, <1>3, <1>4, OnlyMoves

LEMMA StopKeeps == ASSUME StartupInv, NEW p \in Replicas, Stop(p) PROVE StartupInv'
<1>1. replica' = [replica EXCEPT ![p] = Stopped] /\ UNCHANGED <<schema, version, roles, origin>>
  BY DEF Stop
<1>2. Stopped \in StartRow /\ Stopped.pc = "stopped" /\ Stopped.attempt = 0
  BY DEF StartRow, Phases, Stopped
<1>3. StartOK(p)'
  BY <1>1, <1>2 DEF StartupInv, StartOK
<1>. QED
  BY <1>1, <1>2, <1>3, OnlyMoves

\* A schema that all tables are in, and that is as it should be, is all a step needs.
LEMMA SchemaMoves ==
    ASSUME StartupInv, NEW p \in Replicas, NEW at \in StartRow,
           replica' = [replica EXCEPT ![p] = at], UNCHANGED origin,
           version' = version \/ version' = 15,
           Tables \subseteq schema', Complete => Complete',
           SchemaOK', RolesOK', StartOK(p)'
    PROVE  StartupInv'
<1>1. /\ replica' \in [Replicas -> StartRow]
      /\ \A q \in Replicas \ {p} : replica'[q] = replica[q]
  BY MoveOfOne
<1>2. \A q \in Replicas : StartOK(q)'
  BY <1>1, OthersStayOK
<1>. QED
  BY <1>1, <1>2 DEF StartupInv

LEMMA CreateTablesKeeps ==
    ASSUME StartupInv, NEW p \in Replicas, CreateTables(p) PROVE StartupInv'
<1> PICK at \in StartRow : at = replica[p]
  BY DEF StartupInv
<1>1. at.pc = "creating" /\ UNCHANGED <<version, roles, origin>>
  BY DEF CreateTables
<1>2. StartOK(p) /\ SchemaOK /\ RolesOK
  BY DEF StartupInv
<1>3. CASE at.missing \cap schema # {}
  <2>1. Tables \subseteq schema /\ at.attempt # 2
    BY <1>1, <1>2, <1>3 DEF StartOK
  <2>2. CASE at.attempt = MaxRetries
    <3> PICK next : next = [at EXCEPT !.pc = "failed"]
      OBVIOUS
    <3>1. replica' = [replica EXCEPT ![p] = next] /\ UNCHANGED schema
      BY <1>3, <2>2 DEF CreateTables
    <3>2. next \in StartRow /\ next.pc = "failed" /\ next.attempt = at.attempt
      BY DEF StartRow, Phases
    <3>3. MaxRetries = 1
      BY <1>2, <2>1, <2>2, StartupAssumption DEF StartOK
    <3>4. StartOK(p)'
      BY <1>2, <2>1, <3>1, <3>2, <3>3 DEF StartupInv, StartOK
    <3>. QED
      BY <1>1, <3>1, <3>2, <3>4, OnlyMoves
  <2>3. CASE at.attempt # MaxRetries
    <3> PICK n \in Nat : n = at.attempt + 1
      BY DEF StartRow
    <3> PICK next : next = [at EXCEPT !.pc = "create", !.attempt = n]
      OBVIOUS
    <3>1. replica' = [replica EXCEPT ![p] = next] /\ UNCHANGED schema
      BY <1>3, <2>3 DEF CreateTables
    <3>2. next \in StartRow /\ next.pc = "create" /\ next.attempt = n
      BY DEF StartRow, Phases
    <3>3. next.attempt \in 0 .. 2
      BY <1>2, <2>1, <3>2 DEF StartOK
    <3>4. StartOK(p)'
      BY <1>2, <2>1, <3>1, <3>2, <3>3 DEF StartupInv, StartOK
    <3>. QED
      BY <1>1, <3>1, <3>2, <3>4, OnlyMoves
  <2>. QED
    BY <2>2, <2>3
<1>4. CASE at.missing \cap schema = {}
  <2> PICK new : new = {part \in Models : <<part[1], "table">> \in at.missing}
    OBVIOUS
  <2> PICK next : next = [at EXCEPT !.pc = "upgrade"]
    OBVIOUS
  <2>1. schema' = schema \cup new /\ replica' = [replica EXCEPT ![p] = next]
    BY <1>4 DEF CreateTables, Goes
  <2>2. next \in StartRow /\ next.pc = "upgrade" /\ next.attempt = at.attempt
    BY DEF StartRow, Phases
  <2>3. at.missing \subseteq Tables
    BY DEF StartRow
  <2>4. Tables \subseteq schema'
    <3>1. CASE Tables \subseteq schema
      BY <2>1, <3>1
    <3>2. CASE at.missing = Tables \ schema
      BY <2>1, <3>2, ModelsAre
    <3>. QED
      BY <1>1, <1>2, <3>1, <3>2 DEF StartOK
  <2>5. StartOK(p)'
    BY <1>2, <2>1, <2>2, <2>4 DEF StartupInv, StartOK
  <2>6. SchemaOK'
    <3>1. version > 0 => Truthful(version, schema)'
      BY <1>1, <1>2, <2>1 DEF SchemaOK, Truthful
    <3>2. schema \subseteq Everything => schema' \subseteq Everything
      BY <2>1, ModelsAre
    <3>3. ASSUME version = 0, schema = {} \/ Models \subseteq schema PROVE Models \subseteq schema'
      <4>1. CASE schema = {}
        <5>1. at.missing = Tables
          BY <1>1, <1>2, <4>1, ModelsAre DEF StartOK
        <5>. QED
          BY <2>1, <5>1, ModelsAre
      <4>. QED
        BY <2>1, <3>3, <4>1
    <3>4. ASSUME version \in 1 .. 4, HasTable("users", schema') PROVE ThreeRoles \in schema'
      <4>1. CASE HasTable("users", schema)
        BY <1>2, <2>1, <3>4, <4>1 DEF SchemaOK
      <4>2. CASE ~HasTable("users", schema)
        <5>1. <<"users", "table">> \in at.missing
          BY <2>1, <3>4, <4>2 DEF HasTable
        <5>2. ThreeRoles \in new
          <6>1. ThreeRoles[1] = "users"
            BY DEF ThreeRoles
          <6>. QED
            BY <5>1, <6>1, ModelsAre
        <5>. QED
          BY <2>1, <5>2
      <4>. QED
        BY <4>1, <4>2
    <3>. QED
      BY <1>1, <1>2, <3>1, <3>2, <3>3, <3>4 DEF SchemaOK, HasTable
  <2>7. RolesOK'
    <3>1. CASE Canon
      <4>1. Canon'
        BY <1>1, <3>1 DEF Canon
      <4>. QED
        BY <4>1 DEF Canon, RolesOK
    <3>2. CASE ~Canon
      <4>1. ThreeRoles \notin schema /\ HasTable("users", schema)
        BY <1>2, <3>2 DEF RolesOK
      <4>2. ThreeRoles \notin new
        <5>1. ThreeRoles[1] = "users"
          BY DEF ThreeRoles
        <5>. QED
          BY <1>4, <4>1, <5>1 DEF HasTable
      <4>3. ASSUME NEW q \in Replicas, Serving(q)' PROVE FALSE
        <5>1. Serving(q)
          BY <2>1, <2>2, <4>3 DEF Serving, StartupInv
        <5>. QED
          BY <1>2, <3>2, <5>1 DEF RolesOK
      <4>. QED
        BY <1>1, <1>2, <2>1, <4>1, <4>2, <4>3 DEF RolesOK, HasTable, CanonicalRole
    <3>. QED
      BY <3>1, <3>2
  <2>8. Complete => Complete'
    BY <1>1, <2>1 DEF Complete, Stranded
  <2>. QED
    BY <1>1, <2>1, <2>2, <2>4, <2>5, <2>6, <2>7, <2>8, SchemaMoves
<1>. QED
  BY <1>3, <1>4

\* What an upgrade leaves, of whatever database.
LEMMA HeadIsReached ==
    ASSUME StartupInv, schema' = Upgraded(version, schema), version' = 15, UNCHANGED origin,
           roles' = IF version < 9 THEN Normalized ELSE roles
    PROVE  schema' = Models /\ SchemaOK' /\ Canon'
<1> PICK v \in 0 .. 15 : v = version
  BY DEF StartupInv, SchemaOK
<1>1. Closed(v) \subseteq schema /\ schema \subseteq Possible(v)
  <2>1. CASE v = 0
    <3>1. Closed(0) = {}
      BY Ranges DEF Closed
    <3>. QED
      BY <2>1, <3>1 DEF StartupInv, SchemaOK, Possible
  <2>2. CASE v # 0
    <3>1. Truthful(v, schema)
      BY <2>2 DEF StartupInv, SchemaOK
    <3>. QED
      BY <3>1, TruthfulIsPossible
  <2>. QED
    BY <2>1, <2>2
<1>2. schema' = Models
  BY <1>1, UpgradedIs
<1>3. SchemaOK'
  <2>1. Truthful(15, Models)
    BY HeadIsModels DEF Truthful
  <2>2. 15 \in 0 .. 15 /\ 15 > 0 /\ 15 # 0 /\ 15 \notin 1 .. 4
    OBVIOUS
  <2>. QED
    BY <1>2, <2>1, <2>2 DEF SchemaOK
<1>4. Canon'
  <2>1. CASE v < 9
    BY <2>1, NormalizedIsCanon DEF StartupInv
  <2>2. CASE ~(v < 9)
    <3>1. ThreeRoles \in Closed(v)
      BY <2>2, ModelsAre, Ranges DEF Closed
    <3>2. ThreeRoles \in schema
      BY <1>1, <3>1
    <3>. QED
      BY <2>2, <3>2 DEF StartupInv, RolesOK, Canon
  <2>. QED
    BY <2>1, <2>2
<1>. QED
  BY <1>2, <1>3, <1>4

LEMMA UpgradeToHeadKeeps ==
    ASSUME StartupInv, NEW p \in Replicas, UpgradeToHead(p) PROVE StartupInv'
<1> PICK at \in StartRow : at = replica[p]
  BY DEF StartupInv
<1> PICK next : next = [at EXCEPT !.pc = "fallback"]
  OBVIOUS
<1>1. at.pc = "upgrading" /\ UNCHANGED origin /\ replica' = [replica EXCEPT ![p] = next]
  BY DEF UpgradeToHead, Goes
<1>2. next \in StartRow /\ next.pc = "fallback" /\ next.attempt = at.attempt
  BY DEF StartRow, Phases
<1>3. StartOK(p) /\ SchemaOK /\ replica'[p] = next
  BY <1>1 DEF StartupInv
<1>4. CASE version = at.from /\ Upgradable(at.from, schema)
  <2>1. /\ schema' = Upgraded(version, schema) /\ version' = 15
        /\ roles' = IF version < 9 THEN Normalized ELSE roles
    BY <1>4, MigrationsAre DEF UpgradeToHead
  <2>2. schema' = Models /\ SchemaOK' /\ Canon'
    BY <1>1, <2>1, HeadIsReached
  <2>3. RolesOK'
    BY <2>2 DEF Canon, RolesOK
  <2>4. Complete' /\ Tables \subseteq schema'
    BY <2>2, ModelsAre DEF Complete
  <2>5. StartOK(p)'
    BY <1>2, <1>3, <2>4 DEF StartOK
  <2>. QED
    BY <1>1, <1>2, <2>1, <2>2, <2>3, <2>4, <2>5, SchemaMoves
<1>5. CASE ~(version = at.from /\ Upgradable(at.from, schema))
  <2>1. UNCHANGED <<schema, version, roles>>
    BY <1>5 DEF UpgradeToHead
  <2>2. Complete
    <3> PICK v \in 0 .. 15 : v = version
      BY <1>3 DEF SchemaOK
    <3>1. Tables \subseteq schema
      BY <1>1, <1>3 DEF StartOK
    <3>2. CASE v = 15
      BY <1>3, <3>2, HeadIsModels DEF SchemaOK, Truthful, Complete
    <3>3. CASE v = 0
      BY <1>3, <3>1, <3>3, ModelsAre DEF SchemaOK, Complete, Stranded
    <3>4. CASE v # 15 /\ v # 0
      <4>1. ~Upgradable(v, schema)
        BY <1>1, <1>3, <1>5, <3>4 DEF StartOK
      <4>2. (v < 4 /\ Checks \cap schema # {}) \/ (v < 9 /\ ThreeRoles \in schema)
        BY <4>1, UpgradeGoesThrough
      <4>3. v < 4 => ThreeRoles \in schema
        BY <1>3, <3>1, <3>4, ModelsAre DEF SchemaOK, HasTable
      <4>4. v \in 1 .. 8 /\ ThreeRoles \in schema
        BY <3>4, <4>2, <4>3
      <4>. QED
        BY <4>4 DEF Complete, Stranded, ThreeRoles
    <3>. QED
      BY <3>2, <3>3, <3>4
  <2>3. StartOK(p)'
    BY <1>1, <1>2, <1>3, <2>1, <2>2 DEF StartOK, Complete, Stranded
  <2>. QED
    BY <1>1, <1>2, <2>1, <2>3, OnlyMoves
<1>. QED
  BY <1>4, <1>5

LEMMA AddMissingColumnsKeeps ==
    ASSUME StartupInv, NEW p \in Replicas, AddMissingColumns(p) PROVE StartupInv'
<1> PICK at \in StartRow : at = replica[p]
  BY DEF StartupInv
<1> PICK next : next = [at EXCEPT !.pc = "serving"]
  OBVIOUS
<1>1. /\ at.pc = "fallback" /\ UNCHANGED <<version, origin>>
      /\ replica' = [replica EXCEPT ![p] = next]
  BY DEF AddMissingColumns, Goes
<1>2. next \in StartRow /\ next.pc = "serving" /\ next.attempt = at.attempt
  BY DEF StartRow, Phases
<1>3. StartOK(p) /\ SchemaOK /\ RolesOK /\ replica'[p] = next
  BY <1>1 DEF StartupInv
<1>4. Tables \subseteq schema /\ Complete
  BY <1>1, <1>3 DEF StartOK
<1>5. CASE ThreeRoles \in schema
  <2>1. UNCHANGED <<schema, roles>>
    BY <1>5 DEF AddMissingColumns, ThreeRoles
  <2>2. Canon
    BY <1>3, <1>5 DEF RolesOK
  <2>3. StartOK(p)'
    BY <1>1, <1>2, <1>3, <1>4, <2>1 DEF StartOK, Complete, Stranded
  <2>. QED
    BY <1>1, <1>2, <2>1, <2>2, <2>3, OnlyMoves
<1>6. CASE ThreeRoles \notin schema
  <2>1. /\ schema' = schema \cup {part \in Fallback : HasTable(part[1], schema)}
        /\ roles' = Normalized
    BY <1>6 DEF AddMissingColumns, ThreeRoles
  <2>2. Fallback \subseteq Models /\ <<"users", "table">> \notin Fallback
    BY DEF Fallback, Models, Part
  <2>3. Canon' /\ RolesOK'
    BY <1>3, <2>1, NormalizedIsCanon DEF Canon, RolesOK
  <2>4. SchemaOK'
    <3>1. version > 0 => Truthful(version, schema)'
      BY <1>1, <1>3, <2>1, <2>2 DEF SchemaOK, Truthful
    <3>2. schema \subseteq Everything => schema' \subseteq Everything
      BY <2>1, <2>2, ModelsAre
    <3>3. Models \subseteq schema => Models \subseteq schema'
      BY <2>1
    <3>4. schema # {}
      BY <1>4, ModelsAre
    <3>5. HasTable("users", schema') => HasTable("users", schema)
      BY <2>1, <2>2 DEF HasTable
    <3>. QED
      BY <1>1, <1>3, <2>1, <3>1, <3>2, <3>3, <3>4, <3>5 DEF SchemaOK
  <2>5. Complete'
    BY <1>1, <1>4, <2>1 DEF Complete, Stranded
  <2>6. StartOK(p)'
    BY <1>1, <1>2, <1>3, <1>4, <2>1, <2>5 DEF StartOK
  <2>. QED
    BY <1>1, <1>2, <1>4, <2>1, <2>3, <2>4, <2>5, <2>6, SchemaMoves
<1>. QED
  BY <1>5, <1>6

-----------------------------------------------------------------------------
\* The operator, while no process runs.
LEMMA AllStopped ==
    ASSUME StartupInv, UNCHANGED <<origin, replica>>, \A p \in Replicas : replica[p].pc = "stopped",
           SchemaOK', RolesOK'
    PROVE  StartupInv'
<1>1. \A p \in Replicas : StartOK(p)'
  BY DEF StartupInv, StartOK
<1>. QED
  BY <1>1 DEF StartupInv

LEMMA UpgradeKeeps == ASSUME StartupInv, Upgrade PROVE StartupInv'
<1>1. /\ schema' = Upgraded(version, schema) /\ version' = 15
      /\ roles' = IF version < 9 THEN Normalized ELSE roles
      /\ UNCHANGED <<origin, replica>> /\ \A p \in Replicas : replica[p].pc = "stopped"
  BY MigrationsAre DEF Upgrade
<1>2. schema' = Models /\ SchemaOK' /\ Canon'
  BY <1>1, HeadIsReached
<1>3. RolesOK'
  BY <1>2 DEF Canon, RolesOK
<1>. QED
  BY <1>1, <1>2, <1>3, ModelsAre, AllStopped

LEMMA DowngradeKeeps == ASSUME StartupInv, Downgrade PROVE StartupInv'
<1> PICK v \in 6 .. 15 : v = version
  <2>1. version \in 0 .. 15 /\ version > OldestRevision /\ OldestRevision \in 5 .. 15
    BY StartupAssumption DEF StartupInv, SchemaOK, Downgrade
  <2>. QED
    BY <2>1
<1>1. /\ schema' = Down(Migrations[v], schema) /\ version' = v - 1
      /\ UNCHANGED <<roles, origin, replica>>
      /\ \A p \in Replicas : replica[p].pc = "stopped"
  BY DEF Downgrade
<1>2. /\ v \in 2 .. 15 /\ v - 1 \in 5 .. 15 /\ v - 1 \in 0 .. 15 /\ v - 1 > 0
      /\ v - 1 # 0 /\ v - 1 \notin 1 .. 4
  OBVIOUS
<1>3. Truthful(v, schema)
  BY DEF StartupInv, SchemaOK
<1>4. Truthful(v - 1, Down(Migrations[v], schema))
  BY <1>2, <1>3, DownIsTruthful
<1>5. SchemaOK'
  BY <1>1, <1>2, <1>4 DEF SchemaOK
<1>6. RolesOK'
  <2>1. ThreeRoles \in schema' => ThreeRoles \in schema
    <3>1. ThreeRoles \notin Migrations[v].dropped
      BY AllOrderly, ModelsAre, Ranges DEF Orderly
    <3>. QED
      BY <1>1, <3>1 DEF Down
  <2>2. HasTable("users", schema)'
    <3>1. <<"users", "table">> \in Everything /\ <<"users", "table">> \notin ReportTables
      BY ModelsAre, Ranges
    <3>2. <<"users", "table">> \in Closed(v - 1)
      BY <1>2, <3>1, ModelsAre DEF Closed
    <3>. QED
      BY <1>1, <1>4, <3>2 DEF Truthful, HasTable
  <2>3. \A p \in Replicas : ~Serving(p)'
    BY <1>1 DEF Serving
  <2>. QED
    BY <1>1, <2>1, <2>2, <2>3 DEF StartupInv, RolesOK, Canon, CanonicalRole
<1>. QED
  BY <1>1, <1>5, <1>6, AllStopped

LEMMA StartupStepKeepsInv == StartupInv /\ [StartupNext]_startupVars => StartupInv'
<1> SUFFICES ASSUME StartupInv, [StartupNext]_startupVars PROVE StartupInv'
  OBVIOUS
<1>1. ASSUME NEW p \in Replicas, Start(p) \/ ReplicaStep(p) \/ Stop(p) PROVE StartupInv'
  <2>1. CASE Start(p)
    BY <2>1, StartKeeps
  <2>2. CASE LookForTables(p)
    BY <2>2, LookForTablesKeeps
  <2>3. CASE CreateTables(p)
    BY <2>3, CreateTablesKeeps
  <2>4. CASE ReadVersion(p)
    BY <2>4, ReadVersionKeeps
  <2>5. CASE UpgradeToHead(p)
    BY <2>5, UpgradeToHeadKeeps
  <2>6. CASE AddMissingColumns(p)
    BY <2>6, AddMissingColumnsKeeps
  <2>7. CASE Stop(p)
    BY <2>7, StopKeeps
  <2>. QED
    BY <1>1, <2>1, <2>2, <2>3, <2>4, <2>5, <2>6, <2>7 DEF ReplicaStep
<1>2. CASE Upgrade
  BY <1>2, UpgradeKeeps
<1>3. CASE Downgrade
  BY <1>3, DowngradeKeeps
<1>4. CASE UNCHANGED startupVars
  BY <1>4 DEF startupVars, StartupInv, SchemaOK, RolesOK, Canon, Serving, StartOK, Complete, Stranded
<1>. QED
  BY <1>1, <1>2, <1>3, <1>4 DEF StartupNext

\* The invariant of a database and the processes that start on it, for any release
\* that left it, any accounts, any number of processes, and any upgrades, downgrades,
\* lost races and stops.
THEOREM StartupInvariant == StartupSpec => []StartupInv
<1>. QED
  BY InitStartupInv, StartupStepKeepsInv, PTL DEF StartupSpec

\* alembic_version says what is there: the parts of its revision, and nothing that
\* neither the chain up to it nor the models have (alembic/versions).
THEOREM VersionTellsTheTruth == StartupSpec => []VersionIsTruthful
<1>1. StartupInv => VersionIsTruthful
  <2> SUFFICES ASSUME StartupInv, version > 0
      PROVE ChainTo[version] \subseteq schema /\ schema \subseteq ChainTo[version] \cup Models
    BY DEF VersionIsTruthful
  <2>1. ChainTo[version] = Closed(version) /\ Truthful(version, schema)
    BY ChainIs DEF StartupInv, SchemaOK
  <2>. QED
    BY <2>1 DEF Truthful
<1>. QED
  BY <1>1, StartupInvariant, PTL

\* Whoever administered the platform still does, and nobody else, once a process
\* serves (009_consolidate_user_roles.py, run_schema_migrations).
THEOREM AdminsAlwaysKeepTheirReach == StartupSpec => []AdminsKeepTheirReach
<1>1. StartupInv => AdminsKeepTheirReach
  <2> SUFFICES ASSUME StartupInv, \E p \in Replicas : Serving(p), NEW a \in DOMAIN Accounts
      PROVE  /\ roles[a] \in {"PLATFORM_ADMIN", "COMPANY_ADMIN", "COMPANY_USER"}
             /\ roles[a] = "PLATFORM_ADMIN" <=> Accounts[a].role = "ADMIN" /\ ~Accounts[a].tenant
    BY DEF AdminsKeepTheirReach
  <2>1. roles[a] = CanonicalRole(a)
    BY DEF StartupInv, RolesOK, Canon
  <2>. QED
    BY <2>1, CanonicalTwice
<1>. QED
  BY <1>1, StartupInvariant, PTL

\* Where an attempt may be repeated (init_db makes 15), no start fails, and unless
\* no upgrade goes through on the database, it has every part of the models whenever
\* a process serves, whichever release or migration left it (database.py init_db).
THEOREM StartedAlwaysHasModels ==
    ASSUME MaxRetries > 1 PROVE StartupSpec => []StartedHasModels
<1>1. StartupInv => StartedHasModels
  <2> SUFFICES ASSUME StartupInv, NEW p \in Replicas
      PROVE  replica[p].pc # "failed" /\ (Serving(p) => Models \subseteq schema \/ Stranded)
    BY DEF StartedHasModels
  <2>1. StartOK(p)
    BY DEF StartupInv
  <2>. QED
    BY <2>1 DEF StartOK, Serving, Complete
<1>. QED
  BY <1>1, StartupInvariant, PTL
=============================================================================
