-------------------------- MODULE Accounts_proofs --------------------------
(***************************************************************************)
(* Proofs about companies and their accounts.  Registration, for any       *)
(* number of requests and companies, and whatever faults the database has. *)
(* Administration: that requests of one company do not touch the accounts  *)
(* of another, that the copies of the access checks agree, and that        *)
(* whoever loses the access is on record.                                  *)
(***************************************************************************)
EXTENDS Registration, Membership, AuditLedger_proofs

-----------------------------------------------------------------------------
(* The ledger below: what a request does there keeps LedgerInv.            *)

LEMMA AppendKeepsLedger ==
  ASSUME LedgerInv, NEW w \in Writers, AppendStep(w)
  PROVE  LedgerInv'
BY ReadLatestStep, InsertRowStep, FailedStep, ReturnStep DEF AppendStep

\* append_event is begun with rows flushed, which CallAppend does not allow.
LEMMA BeginKeepsLedger ==
  ASSUME LedgerInv, NEW w \in Writers, NEW e \in Events, Begin(w, e),
         UNCHANGED <<ledger, unsaved, saved, books>>
  PROVE  LedgerInv'
<1>1. TypeOK'
  BY BeginStep DEF LedgerInv, TypeOK, books
<1>2. VerifyChain' /\ VerifyAnchors'
  BY ChainKept, AnchorsKept DEF LedgerInv
<1>3. CallOK(w)'
  BY BeginStep, AuditLedgerAssumption DEF CallOK
<1> QED
  BY <1>1, <1>2, <1>3, BeginStep, StepOf DEF Sessions

\* Flushing rows, or committing them, is nothing that the ledger sees.
LEMMA RowsKeepLedger ==
  ASSUME LedgerInv, UNCHANGED <<ledger, call, outcome, books>>,
         unsaved' \in [Sessions -> SUBSET Companies],
         saved' \subseteq [company: Companies, by: Sessions]
  PROVE  LedgerInv'
<1>1. UNCHANGED <<ledger, call, outcome, anchors, file>>
  BY DEF books
<1>2. TypeOK' /\ VerifyChain' /\ VerifyAnchors'
  BY <1>1, ChainKept, AnchorsKept DEF LedgerInv, TypeOK, books
<1>3. \A s \in Sessions : CallOK(s)'
  BY <1>1 DEF LedgerInv, CallOK, Follows, RowsAt
<1> QED
  BY <1>2, <1>3 DEF LedgerInv

-----------------------------------------------------------------------------
(* Facts about requests.                                                   *)

LEMMA RequestFacts ==
  ASSUME RegistrationInv, NEW w \in Writers
  PROVE  /\ w \in Sessions
         /\ registration \in [Writers -> RegistrationRow]
         /\ registration[w].pc \in
              {"new", "flush", "created", "admin", "commit", "reload",
               "registered", "refused", "failed"}
         /\ registration[w].company \in Companies \cup {None}
         /\ call \in [Sessions -> CallRow] /\ unsaved \in [Sessions -> SUBSET Companies]
         /\ outcome \in [Events -> {"new", "calling", "lost", "appended", "raised"}]
         /\ CreatedEvent[w] \in Events /\ AdminEvent[w] \in Events
BY RegistrationAssumption
   DEF RegistrationInv, LedgerInv, TypeOK, RegistrationTypeOK, RegistrationRow, Sessions

\* A step that only moves a request on.
LEMMA MoveOn ==
  ASSUME RegistrationInv, UNCHANGED ledgerVars, NEW w \in Writers,
         NEW row \in RegistrationRow, registration' = [registration EXCEPT ![w] = row],
         unsaved[w] = {}, row.pc = "registered" => SavedBy(w) # {},
         row.company \in Companies,
         row.pc = "flush" => registration[w].pc = "new", row.pc # "new"
  PROVE  RegistrationInv'
<1>1. UNCHANGED <<ledger, call, outcome, unsaved, saved, books>>
  BY DEF ledgerVars
<1>2. LedgerInv'
  <2>1. unsaved' \in [Sessions -> SUBSET Companies]
        /\ saved' \subseteq [company: Companies, by: Sessions]
    BY <1>1 DEF RegistrationInv, LedgerInv, TypeOK
  <2> QED
    BY <1>1, <2>1, RowsKeepLedger DEF RegistrationInv
<1>3. RegistrationTypeOK'
  BY DEF RegistrationInv, RegistrationTypeOK
<1>4. \A v \in Writers : v # w => registration'[v] = registration[v]
  BY DEF RegistrationInv, RegistrationTypeOK
<1>5. registration'[w] = row
  BY DEF RegistrationInv, RegistrationTypeOK
<1>6. \A v \in Writers : FlushedOK(v)' /\ RequestOK(v)'
  BY <1>1, <1>4, <1>5 DEF RegistrationInv, FlushedOK, RequestOK, Taken
<1>7. RegisteredIsSaved'
  BY <1>1, <1>4, <1>5 DEF RegistrationInv, RegisteredIsSaved, SavedBy
<1>8. OneCompanyPerName' /\ SavedIsAudited'
  BY <1>1 DEF RegistrationInv, OneCompanyPerName, SavedIsAudited, SavedBy
<1> QED
  BY <1>2, <1>3, <1>6, <1>7, <1>8 DEF RegistrationInv

-----------------------------------------------------------------------------
(* One lemma per action.                                                   *)

LEMMA ReceiveStep ==
  ASSUME RegistrationInv, NEW w \in Writers, NEW c \in Companies, Receive(w, c)
  PROVE  RegistrationInv'
<1> DEFINE row == [pc |-> IF c \in Taken THEN "refused" ELSE "flush", company |-> c]
<1>1. row \in RegistrationRow
  BY DEF RegistrationRow
<1>2. registration' = [registration EXCEPT ![w] = row] /\ UNCHANGED ledgerVars
      /\ registration[w].pc = "new"
  BY DEF Receive
<1>3. unsaved[w] = {}
  BY <1>2 DEF RegistrationInv, FlushedOK
<1>4. row.pc # "registered"
  OBVIOUS
<1> QED
  BY <1>1, <1>2, <1>3, <1>4, MoveOn

LEMMA AtStep ==
  ASSUME RegistrationInv, UNCHANGED ledgerVars, NEW w \in Writers,
         NEW pc \in {"admin", "commit", "reload", "registered", "refused", "failed"}, At(w, pc),
         registration[w].pc # "new",
         unsaved[w] = {}, pc = "registered" => SavedBy(w) # {}
  PROVE  RegistrationInv'
<1> DEFINE row == [registration[w] EXCEPT !.pc = pc]
<1>1. registration[w] \in RegistrationRow
  BY RequestFacts
<1>2. row \in RegistrationRow /\ row.pc = pc
  BY <1>1 DEF RegistrationRow
<1>3. registration' = [registration EXCEPT ![w] = row]
  BY DEF At
<1>4. row.company \in Companies
  BY <1>1 DEF RegistrationInv, RequestOK, RegistrationRow
<1> QED
  BY <1>2, <1>3, <1>4, MoveOn

LEMMA ReloadStep ==
  ASSUME RegistrationInv, NEW w \in Writers, Reload(w)
  PROVE  RegistrationInv'
<1>1. unsaved[w] = {} /\ UNCHANGED ledgerVars /\ registration[w].pc # "new"
  BY DEF Reload, RegistrationInv, FlushedOK
<1>2. CASE SavedBy(w) = {}
  <2>1. At(w, "failed")
    BY <1>2 DEF Reload
  <2> QED
    BY <1>1, <2>1, AtStep
<1>3. CASE SavedBy(w) # {}
  <2>1. At(w, "registered")
    BY <1>3 DEF Reload
  <2> QED
    BY <1>1, <1>3, <2>1, AtStep
<1> QED
  BY <1>2, <1>3

LEMMA FlushRowsStep ==
  ASSUME RegistrationInv, NEW w \in Writers, FlushRows(w)
  PROVE  RegistrationInv'
<1> DEFINE c == registration[w].company
<1>1. /\ registration[w].pc = "flush"
      /\ \A v \in Writers : c \notin unsaved[v]
      /\ UNCHANGED <<ledger, call, outcome, saved, books>>
  BY DEF FlushRows
<1>2. unsaved[w] = {}
  BY <1>1 DEF RegistrationInv, FlushedOK
<1>3. CASE c \in Taken
  <2>1. At(w, "refused") /\ UNCHANGED ledgerVars
    BY <1>3 DEF FlushRows, ledgerVars
  <2> QED
    BY <1>1, <1>2, <2>1, AtStep
<1>4. CASE c \notin Taken
  <2>1. /\ registration' = [registration EXCEPT ![w].pc = "created"]
        /\ unsaved' = [unsaved EXCEPT ![w] = {c}]
    BY <1>4 DEF FlushRows, At
  <2>2. /\ c \in Companies /\ call[w].pc = "idle" /\ outcome[CreatedEvent[w]] = "new"
    BY <1>1 DEF RegistrationInv, RequestOK
  <2>3. /\ w \in Sessions /\ unsaved'[w] = {c}
        /\ registration'[w].pc = "created" /\ registration'[w].company = c
        /\ RegistrationTypeOK'
    BY <2>1, RequestFacts DEF RegistrationRow, RegistrationTypeOK
  <2>4. /\ \A v \in Writers : v # w => unsaved'[v] = unsaved[v]
        /\ \A v \in Writers : v # w => registration'[v] = registration[v]
    BY <2>1, RequestFacts DEF Sessions
  <2>5. LedgerInv'
    <3>1. unsaved' \in [Sessions -> SUBSET Companies]
      BY <2>1, <2>2, RequestFacts
    <3>2. saved' \subseteq [company: Companies, by: Sessions]
      BY <1>1 DEF RegistrationInv, LedgerInv, TypeOK
    <3> QED
      BY <1>1, <3>1, <3>2, RowsKeepLedger DEF RegistrationInv
  <2>6. \A v \in Writers : FlushedOK(v)'
    <3>1. FlushedOK(w)'
      BY <1>1, <1>4, <2>2, <2>3, <2>4 DEF FlushedOK, Taken
    <3>2. ASSUME NEW v \in Writers, v # w PROVE FlushedOK(v)'
      BY <1>1, <2>3, <2>4, <3>2 DEF RegistrationInv, FlushedOK, Taken
    <3> QED
      BY <3>1, <3>2
  <2>7. \A v \in Writers : RequestOK(v)'
    BY <1>1, <2>2, <2>3, <2>4 DEF RegistrationInv, RequestOK
  <2>8. RegisteredIsSaved' /\ OneCompanyPerName' /\ SavedIsAudited'
    BY <1>1, <2>3, <2>4
       DEF RegistrationInv, RegisteredIsSaved, OneCompanyPerName, SavedIsAudited, SavedBy
  <2> QED
    BY <2>3, <2>5, <2>6, <2>7, <2>8 DEF RegistrationInv
<1> QED
  BY <1>3, <1>4

\* A step inside append_event, or the one that begins it: it commits the rows of
\* its session with the event, loses them, or leaves them flushed.
LEMMA LedgerStepOf ==
  ASSUME RegistrationInv, LedgerInv', registration' = registration,
         NEW w \in Writers, registration[w].pc \notin {"new", "flush"},
         \A v \in Writers : v # w => call'[v] = call[v] /\ unsaved'[v] = unsaved[v],
         \A e \in Events \ {CreatedEvent[w], AdminEvent[w]} : outcome'[e] = outcome[e],
         ledger \subseteq ledger',
         call'[w].pc \in {"idle", "read", "insert", "refresh"},
         call'[w].pc # "idle" => call'[w].event \in {CreatedEvent[w], AdminEvent[w]},
         \/ saved' = saved
         \/ /\ saved' = saved \cup [company: unsaved[w], by: {w}]
            /\ call[w].pc = "insert" /\ unsaved'[w] = {}
            /\ \E r \in ledger' : r.payload = call[w].event,
         \/ unsaved'[w] = {}
         \/ /\ unsaved'[w] = unsaved[w] /\ saved' = saved
            /\ outcome'[CreatedEvent[w]] \in {"new", "calling"}
            /\ call'[w].pc \in {"read", "insert"} => call'[w].event = CreatedEvent[w]
            /\ call'[w].pc # "refresh"
  PROVE  RegistrationInv'
<1>1. RegistrationTypeOK'
  BY DEF RegistrationInv, RegistrationTypeOK
<1>2. ASSUME NEW v \in Writers, v # w
      PROVE  outcome'[CreatedEvent[v]] = outcome[CreatedEvent[v]]
  BY <1>2, RegistrationAssumption
<1>3. \A v \in Writers : RequestOK(v)'
  BY <1>2 DEF RegistrationInv, RequestOK
<1>4. CASE saved' = saved
  <2>1. FlushedOK(w)'
    BY <1>4 DEF RegistrationInv, FlushedOK, Taken
  <2>2. ASSUME NEW v \in Writers, v # w PROVE FlushedOK(v)'
    BY <1>2, <1>4, <2>2 DEF RegistrationInv, FlushedOK, Taken
  <2>3. RegisteredIsSaved' /\ OneCompanyPerName' /\ SavedIsAudited'
    BY <1>4 DEF RegistrationInv, RegisteredIsSaved, OneCompanyPerName, SavedIsAudited, SavedBy
  <2> QED
    BY <1>1, <1>3, <2>1, <2>2, <2>3 DEF RegistrationInv
<1>5. CASE saved' # saved
  <2> DEFINE c == registration[w].company
             new == [company |-> c, by |-> w]
  <2>1. /\ saved' = saved \cup [company: unsaved[w], by: {w}]
        /\ call[w].pc = "insert" /\ unsaved'[w] = {}
        /\ \E r \in ledger' : r.payload = call[w].event
    BY <1>5
  <2>2. unsaved[w] # {}
    BY <1>5, <2>1
  <2>3. /\ unsaved[w] = {c} /\ c \notin Taken
        /\ \A v \in Writers : v # w => unsaved[v] \cap unsaved[w] = {}
        /\ call[w].event = CreatedEvent[w]
    BY <2>1, <2>2 DEF RegistrationInv, FlushedOK
  <2>4. saved' = saved \cup {new}
    BY <2>1, <2>3
  <2>5. Taken' = Taken \cup {c}
    <3>1. Taken' = {r.company : r \in saved \cup {new}}
      BY <2>4 DEF Taken
    <3>2. new.company = c
      OBVIOUS
    <3> HIDE DEF new
    <3> QED
      BY <3>1, <3>2 DEF Taken
  <2>6. ASSUME NEW v \in Writers PROVE FlushedOK(v)'
    <3>1. CASE v = w
      BY <2>1, <3>1 DEF FlushedOK
    <3>2. CASE v # w
      <4>1. c \notin unsaved[v]
        BY <2>3, <3>2
      <4> QED
        BY <1>2, <2>1, <2>5, <3>2, <4>1 DEF RegistrationInv, FlushedOK
    <3> QED
      BY <3>1, <3>2
  <2>7. RegisteredIsSaved'
    BY <2>4 DEF RegistrationInv, RegisteredIsSaved, SavedBy
  <2>8. OneCompanyPerName'
    BY <2>3, <2>4 DEF RegistrationInv, OneCompanyPerName, Taken
  <2>9. SavedIsAudited'
    <3>1. ASSUME NEW v \in Writers, v # w, SavedBy(v)' # {} PROVE SavedBy(v) # {}
      BY <2>4, <3>1 DEF SavedBy
    <3> QED
      BY <2>1, <2>3, <3>1 DEF RegistrationInv, SavedIsAudited
  <2> QED
    BY <1>1, <1>3, <2>6, <2>7, <2>8, <2>9 DEF RegistrationInv
<1> QED
  BY <1>4, <1>5

\* What a rollback does to the session and its event.
LEMMA RetryOf ==
  ASSUME RegistrationInv, NEW w \in Writers, NEW cause, Retry(w, cause),
         call[w].event \in {CreatedEvent[w], AdminEvent[w]}
  PROVE  /\ \A v \in Writers : v # w => call'[v] = call[v]
         /\ \A e \in Events \ {CreatedEvent[w], AdminEvent[w]} : outcome'[e] = outcome[e]
         /\ call'[w].pc \in {"idle", "read", "insert", "refresh"}
         /\ call'[w].pc # "idle" => call'[w].event = call[w].event
<1>1. call[w].event \in Events
  BY RequestFacts
<1>2. /\ \A s \in Sessions \ {w} : call'[s] = call[s]
      /\ call'[w].pc \in {"idle", "read"}
      /\ call'[w].pc = "read" => call'[w].event = call[w].event
  BY <1>1, RetryFacts DEF RegistrationInv, LedgerInv
<1>3. \A e \in Events \ {CreatedEvent[w], AdminEvent[w]} : outcome'[e] = outcome[e]
  BY RequestFacts DEF Retry
<1> QED
  BY <1>2, <1>3 DEF Sessions

LEMMA CommittedStep ==
  ASSUME RegistrationInv, NEW w \in Writers,
         InsertRow(w) \/ AckLost(w), registration' = registration
  PROVE  RegistrationInv'
<1>1. /\ call[w].pc = "insert" /\ ledger' = ledger \cup {NewRow(w)}
      /\ saved' = saved \cup [company: unsaved[w], by: {w}]
      /\ unsaved' = [unsaved EXCEPT ![w] = {}]
  BY DEF InsertRow, AckLost, CommitAll, Retry
<1>2. LedgerInv'
  BY AppendKeepsLedger DEF RegistrationInv, AppendStep
<1>3. /\ w \in Sessions /\ call[w] \in CallRow /\ call[w].event \in Events
      /\ call[w].event \in {CreatedEvent[w], AdminEvent[w]}
  BY <1>1, EventInHand DEF RegistrationInv, RequestOK
<1>4. unsaved'[w] = {} /\ \A v \in Writers : v # w => unsaved'[v] = unsaved[v]
  BY <1>1, RequestFacts
<1>5. registration[w].pc \notin {"new", "flush"}
  BY <1>1 DEF RegistrationInv, RequestOK
<1>6. NewRow(w).payload = call[w].event
  BY DEF NewRow
<1>7. /\ \A v \in Writers : v # w => call'[v] = call[v]
      /\ \A e \in Events \ {CreatedEvent[w], AdminEvent[w]} : outcome'[e] = outcome[e]
      /\ call'[w].pc \in {"idle", "read", "insert", "refresh"}
      /\ call'[w].pc # "idle" => call'[w].event = call[w].event
  <2>1. CASE InsertRow(w)
    <3>1. call' = [call EXCEPT ![w].pc = "refresh"] /\ outcome' = outcome
      BY <2>1 DEF InsertRow
    <3>2. call'[w] = [call[w] EXCEPT !.pc = "refresh"]
      BY <1>3, <3>1, RequestFacts
    <3> QED
      BY <1>3, <3>1, <3>2, RequestFacts DEF CallRow
  <2>2. CASE AckLost(w)
    BY <1>3, <2>2, RetryOf DEF AckLost
  <2> QED
    BY <2>1, <2>2
<1> QED
  BY <1>1, <1>2, <1>3, <1>4, <1>5, <1>6, <1>7, LedgerStepOf

LEMMA RolledBackStep ==
  ASSUME RegistrationInv, NEW w \in Writers,
         InsertCollides(w) \/ DatabaseFails(w), registration' = registration
  PROVE  RegistrationInv'
<1>1. PICK cause \in {"collision", "error", "lost"} :
        /\ call[w].pc \in {"read", "insert", "refresh"} /\ Retry(w, cause)
        /\ ledger' = ledger /\ saved' = saved
  BY DEF InsertCollides, DatabaseFails
<1>2. LedgerInv'
  BY AppendKeepsLedger DEF RegistrationInv, AppendStep
<1>3. call[w].event \in {CreatedEvent[w], AdminEvent[w]}
  BY <1>1 DEF RegistrationInv, RequestOK
<1>4. unsaved'[w] = {} /\ \A v \in Writers : v # w => unsaved'[v] = unsaved[v]
  BY <1>1, RequestFacts DEF Retry
<1>5. registration[w].pc \notin {"new", "flush"}
  BY <1>1 DEF RegistrationInv, RequestOK
<1> QED
  BY <1>1, <1>2, <1>3, <1>4, <1>5, RetryOf, LedgerStepOf

LEMMA ReadStep ==
  ASSUME RegistrationInv, NEW w \in Writers, ReadLatest(w), registration' = registration
  PROVE  RegistrationInv'
<1>1. /\ call[w].pc = "read" /\ UNCHANGED <<ledger, outcome, unsaved, saved>>
      /\ \E n, hash : call' = [call EXCEPT ![w].pc = "insert", ![w].sequence = n,
                                           ![w].previous = hash]
  BY DEF ReadLatest
<1>2. PICK n, hash : call' = [call EXCEPT ![w].pc = "insert", ![w].sequence = n,
                                          ![w].previous = hash]
  BY <1>1
<1>3. LedgerInv'
  BY AppendKeepsLedger DEF RegistrationInv, AppendStep
<1>4. w \in Sessions /\ call[w] \in CallRow
  BY RequestFacts
<1>5. call'[w] = [call[w] EXCEPT !.pc = "insert", !.sequence = n, !.previous = hash]
  BY <1>2, <1>4, RequestFacts
<1>6. /\ call'[w].pc = "insert" /\ call'[w].event = call[w].event
      /\ \A v \in Writers : v # w => call'[v] = call[v]
  BY <1>2, <1>4, <1>5, RequestFacts DEF CallRow
<1>7. /\ call[w].event \in {CreatedEvent[w], AdminEvent[w]}
      /\ registration[w].pc \notin {"new", "flush"}
      /\ unsaved[w] # {} =>
           /\ call[w].event = CreatedEvent[w]
           /\ outcome[CreatedEvent[w]] \in {"new", "calling"}
  BY <1>1 DEF RegistrationInv, RequestOK, FlushedOK
<1> QED
  BY <1>1, <1>3, <1>6, <1>7, LedgerStepOf

LEMMA ReturnedStep ==
  ASSUME RegistrationInv, NEW w \in Writers, Return(w), registration' = registration
  PROVE  RegistrationInv'
<1>1. /\ call[w].pc = "refresh" /\ UNCHANGED <<ledger, unsaved, saved>>
      /\ call' = [call EXCEPT ![w] = Returned]
      /\ outcome' = [outcome EXCEPT ![call[w].event] = "appended"]
  BY DEF Return
<1>2. LedgerInv'
  BY AppendKeepsLedger DEF RegistrationInv, AppendStep
<1>3. /\ call[w].event \in {CreatedEvent[w], AdminEvent[w]}
      /\ registration[w].pc \notin {"new", "flush"} /\ unsaved[w] = {}
  BY <1>1 DEF RegistrationInv, RequestOK, FlushedOK
<1>4. call'[w].pc = "idle" /\ \A v \in Writers : v # w => call'[v] = call[v]
  BY <1>1, RequestFacts DEF Returned, CallAt
<1>5. \A e \in Events \ {CreatedEvent[w], AdminEvent[w]} : outcome'[e] = outcome[e]
  BY <1>1, <1>3, RequestFacts
<1> QED
  BY <1>1, <1>2, <1>3, <1>4, <1>5, LedgerStepOf

\* The first append begins with the rows flushed, the second without.
LEMMA BegunStep ==
  ASSUME RegistrationInv, NEW w \in Writers, NEW e \in {CreatedEvent[w], AdminEvent[w]},
         Begin(w, e), UNCHANGED <<ledger, unsaved, saved, books, registration>>,
         registration[w].pc \notin {"new", "flush"},
         unsaved[w] = {} \/ e = CreatedEvent[w]
  PROVE  RegistrationInv'
<1>1. e \in Events
  BY RequestFacts
<1>2. LedgerInv'
  BY <1>1, BeginKeepsLedger DEF RegistrationInv
<1>3. /\ \A v \in Writers : v # w => call'[v] = call[v]
      /\ call'[w].pc = "read" /\ call'[w].event = e
  BY <1>1, BeginStep DEF RegistrationInv, Sessions
<1>4. outcome' = [outcome EXCEPT ![e] = "calling"]
  BY DEF Begin
<1>5. /\ \A f \in Events \ {CreatedEvent[w], AdminEvent[w]} : outcome'[f] = outcome[f]
      /\ e = CreatedEvent[w] => outcome'[CreatedEvent[w]] = "calling"
  BY <1>1, <1>4, RequestFacts
<1> QED
  BY <1>2, <1>3, <1>5, LedgerStepOf

LEMMA AppendCreatedStep ==
  ASSUME RegistrationInv, NEW w \in Writers, AppendCreated(w)
  PROVE  RegistrationInv'
<1> DEFINE e == CreatedEvent[w]
<1>1. registration[w].pc = "created"
  BY DEF AppendCreated
<1>2. CASE Begin(w, e) /\ UNCHANGED <<ledger, unsaved, saved, books, registration>>
  BY <1>1, <1>2, BegunStep
<1>3. CASE /\ outcome[e] \in {"appended", "raised"}
           /\ At(w, IF outcome[e] = "appended" THEN "admin" ELSE "commit")
           /\ UNCHANGED ledgerVars
  <2>1. unsaved[w] = {}
    BY <1>3 DEF RegistrationInv, FlushedOK
  <2>2. \E pc \in {"admin", "commit"} : At(w, pc)
    BY <1>3
  <2> QED
    BY <1>1, <1>3, <2>1, <2>2, AtStep
<1> QED
  BY <1>2, <1>3 DEF AppendCreated

LEMMA AppendAdminStep ==
  ASSUME RegistrationInv, NEW w \in Writers, AppendAdmin(w)
  PROVE  RegistrationInv'
<1> DEFINE e == AdminEvent[w]
<1>1. registration[w].pc = "admin" /\ unsaved[w] = {}
  BY DEF AppendAdmin, RegistrationInv, FlushedOK
<1>2. CASE Begin(w, e) /\ UNCHANGED <<ledger, unsaved, saved, books, registration>>
  BY <1>1, <1>2, BegunStep
<1>3. CASE At(w, "commit") /\ UNCHANGED ledgerVars
  BY <1>1, <1>3, AtStep
<1> QED
  BY <1>2, <1>3 DEF AppendAdmin

\* By the time of the request's own commit there is nothing left to commit.
LEMMA CommitRegistrationStep ==
  ASSUME RegistrationInv, NEW w \in Writers, CommitRegistration(w)
  PROVE  RegistrationInv'
<1>1. registration[w].pc = "commit" /\ unsaved[w] = {}
  BY DEF CommitRegistration, RegistrationInv, FlushedOK
<1>2. saved' = saved
  <2>1. saved' = saved \cup [company: {}, by: {w}]
    BY <1>1 DEF CommitRegistration
  <2> QED
    BY <2>1
<1>3. unsaved' = unsaved
  BY <1>1, RequestFacts DEF CommitRegistration
<1>4. UNCHANGED ledgerVars /\ At(w, "reload")
  BY <1>2, <1>3 DEF CommitRegistration, ledgerVars
<1> QED
  BY <1>1, <1>4, AtStep

-----------------------------------------------------------------------------
(* The invariant and what follows from it.                                 *)

LEMMA RegistrationInvInit ==
  ASSUME RegistrationInit
  PROVE  RegistrationInv
<1>1. LedgerInv
  BY LedgerInvInit DEF RegistrationInit
<1>2. RegistrationTypeOK
  BY DEF RegistrationInit, RegistrationTypeOK, RegistrationRow
<1>3. \A w \in Writers : FlushedOK(w) /\ RequestOK(w)
  BY RegistrationAssumption
     DEF RegistrationInit, LedgerInit, FlushedOK, RequestOK, Returned, CallAt, Sessions
<1>4. RegisteredIsSaved /\ OneCompanyPerName /\ SavedIsAudited
  BY DEF RegistrationInit, LedgerInit, RegisteredIsSaved, OneCompanyPerName, SavedIsAudited,
         SavedBy
<1> QED
  BY <1>1, <1>2, <1>3, <1>4 DEF RegistrationInv

LEMMA RegistrationInvStep ==
  ASSUME RegistrationInv, [RegistrationNext]_registrationVars
  PROVE  RegistrationInv'
<1>1. ASSUME NEW w \in Writers, RegistrationStep(w) PROVE RegistrationInv'
  <2>1. CASE AppendStep(w) /\ registration' = registration
    BY <2>1, CommittedStep, RolledBackStep, ReadStep, ReturnedStep DEF AppendStep
  <2> QED
    BY <1>1, <2>1, FlushRowsStep, AppendCreatedStep, AppendAdminStep,
       CommitRegistrationStep, ReloadStep DEF RegistrationStep
<1>2. ASSUME NEW w \in Writers, NEW c \in Companies, Receive(w, c) PROVE RegistrationInv'
  BY <1>2, ReceiveStep
<1>3. CASE UNCHANGED registrationVars
  <2>1. /\ UNCHANGED <<ledger, call, outcome, unsaved, saved, books>>
        /\ registration' = registration
    BY <1>3 DEF registrationVars, ledgerVars
  <2>2. LedgerInv'
    <3>1. unsaved' \in [Sessions -> SUBSET Companies]
          /\ saved' \subseteq [company: Companies, by: Sessions]
      BY <2>1 DEF RegistrationInv, LedgerInv, TypeOK
    <3> QED
      BY <2>1, <3>1, RowsKeepLedger DEF RegistrationInv
  <2> QED
    BY <2>1, <2>2
       DEF RegistrationInv, RegistrationTypeOK, FlushedOK, RequestOK, Taken,
           RegisteredIsSaved, OneCompanyPerName, SavedIsAudited, SavedBy
<1> QED
  BY <1>1, <1>2, <1>3 DEF RegistrationNext

\* The inductive invariant of registration and the ledger below it.
THEOREM RegistrationInvariant == RegistrationSpec => []RegistrationInv
<1>1. RegistrationInit => RegistrationInv
  BY RegistrationInvInit
<1>2. RegistrationInv /\ [RegistrationNext]_registrationVars => RegistrationInv'
  BY RegistrationInvStep
<1> QED
  BY <1>1, <1>2, PTL DEF RegistrationSpec

\* A request is answered with the new company only if its rows are committed.
THEOREM AnswersAreSaved == RegistrationSpec => []RegisteredIsSaved
<1>1. RegistrationInv => RegisteredIsSaved
  BY DEF RegistrationInv
<1> QED
  BY <1>1, RegistrationInvariant, PTL

\* No name is stored for two requests, whatever pre-flight checks both passed.
THEOREM NamesAreUnique == RegistrationSpec => []OneCompanyPerName
<1>1. RegistrationInv => OneCompanyPerName
  BY DEF RegistrationInv
<1> QED
  BY <1>1, RegistrationInvariant, PTL

\* A company that is stored has its COMPANY_CREATED event in the ledger.
THEOREM CompaniesAreAudited == RegistrationSpec => []SavedIsAudited
<1>1. RegistrationInv => SavedIsAudited
  BY DEF RegistrationInv
<1> QED
  BY <1>1, RegistrationInvariant, PTL

-----------------------------------------------------------------------------
(* Administration of accounts.                                             *)

(***************************************************************************)
(* The rows a step leaves: accounts and keys stay, and stay at home.       *)
(***************************************************************************)
RowsStay ==
    /\ members' \in [People -> MemberRows \cup {Absent}]
    /\ keys' \in [KeyIds -> KeyRows \cup {Absent}]
    /\ tokens' \subseteq People
    /\ \A p \in People : members[p] \in MemberRows =>
          members'[p] \in MemberRows /\ members'[p].tenant = members[p].tenant
    /\ \A k \in KeyIds : keys[k] \in KeyRows => keys'[k] \in KeyRows

OthersRest(h) ==
    /\ DOMAIN handler' = Handlers
    /\ \A g \in Handlers \ {h} : handler'[g] = handler[g]

LEMMA UnchangedRowsStay ==
    ASSUME MembersInv, members' = members, keys' = keys, tokens' = tokens
    PROVE  RowsStay
BY DEF RowsStay, MembersInv

LEMMA OneHandler ==
    ASSUME MembersInv, NEW h \in Handlers, NEW r, handler' = [handler EXCEPT ![h] = r]
    PROVE  OthersRest(h) /\ handler'[h] = r
BY DEF MembersInv, OthersRest

\* What a request relies on outlives the steps of the others.
LEMMA HandlerStaysOK ==
    ASSUME RowsStay, NEW g \in Handlers, HandlerOK(handler[g]), handler'[g] = handler[g]
    PROVE  HandlerOK(handler[g])'
<1> DEFINE at == handler[g]
<1>1. at.pc # "idle" => Asked(at)'
  BY DEF HandlerOK, Asked, Permits, IsPlatformAdmin, IsCompanyAdmin, AdminOfOwnCompany
<1>2. at.pc = "load" => OwnRow(at)'
  BY DEF HandlerOK, OwnRow, SameHome, RowsStay
<1>3. ASSUME at.pc = "save" PROVE MaySave(at)'
  <2>1. MaySave(at) /\ Asked(at)
    BY <1>3 DEF HandlerOK
  <2>2. at.order.op \in Creations => (at.loaded = Absent /\ MayCreate(at.who, at.order, at.new))'
    BY <2>1 DEF MaySave, MayCreate, Reaches, IsPlatformAdmin
  <2>3. at.order.op \in Changes => MayChange(at.who, at.order.name, at.loaded, at.new)'
    <3>1. at.order.op \in Changes => at.order.name \in People
      BY <2>1, MembershipAssumption DEF Asked
    <3> QED
      BY <2>1, <3>1 DEF MaySave, MayChange, SameHome, RowsStay, Reaches, IsPlatformAdmin
  <2>4. (at.order.op = "create_key" => at.new \in KeyRows)'
    BY <2>1 DEF MaySave
  <2>5. (at.order.op = "revoke_key" => at.new \in KeyIds /\ keys[at.new] \in KeyRows)'
    BY <2>1 DEF MaySave, RowsStay
  <2> QED
    BY <2>2, <2>3, <2>4, <2>5 DEF MaySave
<1> QED
  BY <1>1, <1>2, <1>3 DEF HandlerOK

LEMMA StepKeepsInv ==
    ASSUME MembersInv, NEW h \in Handlers, OthersRest(h), RowsStay, HandlerOK(handler[h])',
           \A p \in DOMAIN FirstRows : LossIsTold(p)'
    PROVE  MembersInv'
<1>1. \A g \in Handlers : HandlerOK(handler[g])'
  <2>1. TAKE g \in Handlers
  <2>2. CASE g = h
    BY <2>2
  <2>3. CASE g # h
    BY <2>3, HandlerStaysOK DEF MembersInv, OthersRest
  <2> QED
    BY <2>2, <2>3
<1>2. \A p \in DOMAIN FirstRows : members'[p] \in MemberRows
  BY MembershipAssumption DEF MembersInv, RowsStay
<1> QED
  BY <1>1, <1>2 DEF MembersInv, OthersRest, RowsStay

\* A step that neither changes accounts nor ends a report leaves what is told.
LEMMA LossStaysTold ==
    ASSUME MembersInv, NEW h \in Handlers, OthersRest(h), handler[h].pc # "report",
           members' = members, told' = told, missed' = missed
    PROVE  \A p \in DOMAIN FirstRows : LossIsTold(p)'
<1>1. TAKE p \in DOMAIN FirstRows
<1>2. LossIsTold(p)
  BY DEF MembersInv
<1>3. \A g \in Handlers : WillTell(handler[g], p) => WillTell(handler[g], p)'
  BY DEF WillTell, OthersRest
<1> QED
  BY <1>2, <1>3 DEF LossIsTold

\* Admitting and preparing.
LEMMA QuietStepKeepsInv ==
    ASSUME MembersInv, NEW h \in Handlers, OthersRest(h), handler[h].pc # "report",
           members' = members, keys' = keys, tokens' = tokens, told' = told,
           missed' = missed, HandlerOK(handler[h])'
    PROVE  MembersInv'
BY UnchangedRowsStay, LossStaysTold, StepKeepsInv

LEMMA WaitingIsOK ==
    ASSUME NEW h \in Handlers, handler'[h] = Waiting
    PROVE  HandlerOK(handler[h])'
BY DEF HandlerOK, Waiting

\* A request that is refused, or done, and has changed no account or key.
LEMMA FinishKeepsInv ==
    ASSUME MembersInv, NEW h \in Handlers, Finish(h), handler[h].pc # "report",
           members' = members, keys' = keys, tokens' = tokens, told' = told, missed' = missed
    PROVE  MembersInv'
<1>1. OthersRest(h) /\ handler'[h] = Waiting
  BY OneHandler DEF Finish
<1> QED
  BY <1>1, WaitingIsOK, QuietStepKeepsInv

\* A request that passed its checks.
LEMMA PreparedKeepsInv ==
    ASSUME MembersInv, NEW h \in Handlers, NEW loaded, NEW new, Prepared(h, loaded, new),
           handler[h].pc = "load",
           members' = members, keys' = keys, tokens' = tokens, told' = told, missed' = missed,
           MaySave([handler[h] EXCEPT !.pc = "save", !.loaded = loaded, !.new = new])
    PROVE  MembersInv'
<1> DEFINE to == [handler[h] EXCEPT !.pc = "save", !.loaded = loaded, !.new = new]
<1>1. DOMAIN handler = Handlers /\ HandlerOK(handler[h])
  BY DEF MembersInv
<1>2. handler' = [handler EXCEPT ![h] = to]
  BY <1>1 DEF Prepared
<1>3. OthersRest(h) /\ handler'[h] = to
  BY <1>1, <1>2 DEF OthersRest
<1>4. /\ DOMAIN to = DOMAIN Waiting /\ to.pc = "save"
      /\ to.order = handler[h].order /\ to.who = handler[h].who
  BY <1>1 DEF HandlerOK, Waiting
<1>5. Asked(handler[h])
  BY <1>1 DEF HandlerOK
<1>6. HandlerOK(handler[h])'
  <2>1. Asked(handler[h])'
    BY <1>3, <1>4, <1>5
       DEF Asked, Permits, IsPlatformAdmin, IsCompanyAdmin, AdminOfOwnCompany
  <2>2. MaySave(handler[h])'
    <3>1. MaySave(to)
      OBVIOUS
    <3> HIDE DEF to
    <3> QED
      BY <1>3, <3>1 DEF MaySave, MayCreate, MayChange, SameHome, Reaches, IsPlatformAdmin
  <2> HIDE DEF to
  <2> QED
    BY <1>3, <1>4, <2>1, <2>2 DEF HandlerOK
<1> QED
  BY <1>3, <1>6, QuietStepKeepsInv

(***************************************************************************)
(* The steps of a request                                                  *)
(***************************************************************************)
LEMMA CallersAreIdentities ==
    ASSUME MembersInv PROVE Callers \subseteq Identities
<1>1. ASSUME NEW p \in People, members[p] # Absent PROVE Identity(p) \in Identities
  BY <1>1 DEF MembersInv, Identity, Identities, MemberRows
<1>2. ASSUME NEW k \in KeyIds, keys[k] # Absent PROVE KeyIdentity(k) \in Identities
  BY <1>2 DEF MembersInv, KeyIdentity, Identities, KeyRows, Roles, Homes, Squads
<1> QED
  BY <1>1, <1>2 DEF Callers, MembersInv

LEMMA AdmitPublicKeepsInv ==
    ASSUME MembersInv, NEW h \in Handlers, AdmitPublic(h) PROVE MembersInv'
<1>1. PICK o \in Orders :
        /\ o.op = "register"
        /\ handler' = [handler EXCEPT ![h] = [Waiting EXCEPT !.pc = "load", !.order = o]]
  BY DEF AdmitPublic
<1> DEFINE to == [Waiting EXCEPT !.pc = "load", !.order = o]
<1>2. OthersRest(h) /\ handler'[h] = to
  BY <1>1, OneHandler
<1>3. DOMAIN to = DOMAIN Waiting /\ to.pc = "load" /\ to.order = o /\ to.loaded = Absent
  BY DEF Waiting
<1> HIDE DEF to
<1>4. HandlerOK(handler[h])'
  BY <1>1, <1>2, <1>3 DEF HandlerOK, Asked, OwnRow
<1> QED
  BY <1>2, <1>4, QuietStepKeepsInv DEF AdmitPublic

LEMMA AdmitKeepsInv ==
    ASSUME MembersInv, NEW h \in Handlers, Admit(h) PROVE MembersInv'
<1>1. PICK o \in Orders, i \in Callers :
        /\ Permits(o.op, i)
        /\ handler' = [handler EXCEPT ![h] =
             [Waiting EXCEPT !.pc = "load", !.who = i, !.order = o,
                             !.loaded = IF i.id \in People THEN members[i.id] ELSE Absent]]
  BY DEF Admit
<1> DEFINE own == IF i.id \in People THEN members[i.id] ELSE Absent
           to == [Waiting EXCEPT !.pc = "load", !.who = i, !.order = o, !.loaded = own]
<1>2. OthersRest(h) /\ handler'[h] = to
  BY <1>1, OneHandler
<1>3. /\ DOMAIN to = DOMAIN Waiting /\ to.pc = "load" /\ to.order = o /\ to.who = i
      /\ to.loaded = own
  BY DEF Waiting
<1>4. own # Absent => i.id \in People /\ own \in MemberRows /\ own = members[i.id]
  BY DEF MembersInv
<1> HIDE DEF to, own
<1>5. UNCHANGED members
  BY DEF Admit
<1>6. Asked(handler[h])'
  BY <1>1, <1>2, <1>3, CallersAreIdentities
     DEF Asked, Permits, IsPlatformAdmin, IsCompanyAdmin, AdminOfOwnCompany
<1>7. OwnRow(handler[h])'
  BY <1>2, <1>3, <1>4, <1>5 DEF OwnRow, SameHome
<1>8. HandlerOK(handler[h])'
  BY <1>2, <1>3, <1>6, <1>7 DEF HandlerOK
<1> QED
  BY <1>2, <1>8, QuietStepKeepsInv DEF Admit

LEMMA PrepareMemberKeepsInv ==
    ASSUME MembersInv, NEW h \in Handlers, PrepareMember(h) PROVE MembersInv'
<1> DEFINE i == handler[h].who
           o == handler[h].order
           new == NewMember(i, o)
           to == [handler[h] EXCEPT !.pc = "save", !.loaded = Absent, !.new = new]
<1>1. /\ handler[h].pc = "load" /\ o.op \in Creations
      /\ members' = members /\ keys' = keys /\ tokens' = tokens /\ told' = told /\ missed' = missed
  BY DEF PrepareMember, Creations
<1>2. HandlerOK(handler[h]) /\ Asked(handler[h])
  BY <1>1 DEF MembersInv, HandlerOK
<1>3. ASSUME Prepared(h, Absent, new),
             o.role = "PLATFORM_ADMIN" => IsPlatformAdmin(i) \/ o.op = "register",
             o.op = "create_user" => IsPlatformAdmin(i) \/ o.firm \in {Absent, i.tenant}
      PROVE  MembersInv'
  <2>1. new \in MemberRows
    <3>1. new.role \in Roles
      BY <1>1, <1>2, MembershipAssumption DEF NewMember, Asked, Roles, Creations
    <3>2. new.tenant \in Homes
      BY <1>1, <1>2, MembershipAssumption
         DEF NewMember, Target, Asked, Identities, Homes, Creations
    <3>3. new.team \in Squads
      BY <1>2 DEF NewMember, Asked, Squads
    <3> QED
      BY <3>1, <3>2, <3>3 DEF NewMember, MemberRows, Approvals
  <2>2. new.role = "PLATFORM_ADMIN" => IsPlatformAdmin(i)
    BY <1>3 DEF NewMember
  <2>3. o.op # "register" => Reaches(i, new.tenant)
    BY <1>1, <1>2, <1>3
       DEF NewMember, Target, Reaches, Asked, Permits, IsPlatformAdmin, Creations
  <2>4. MayCreate(i, o, new)
    BY <2>1, <2>2, <2>3 DEF MayCreate
  <2>5. /\ to.order = o /\ to.who = i /\ to.loaded = Absent /\ to.new = new
    BY <1>2 DEF HandlerOK, Waiting
  <2>6. MaySave(to)
    <3> HIDE DEF to, new, i, o
    <3> QED
      BY <1>1, <2>4, <2>5 DEF MaySave, Creations, Changes
  <2> QED
    BY <1>1, <1>3, <2>6, PreparedKeepsInv
<1>4. CASE Finish(h)
  BY <1>1, <1>4, FinishKeepsInv
<1> QED
  BY <1>3, <1>4 DEF PrepareMember

\* The row that a request about an account works on: its own copy, or a fresh one.
LEMMA RowAtHome ==
    ASSUME MembersInv, NEW h \in Handlers, handler[h].pc = "load",
           handler[h].order.op \in Changes,
           NEW row, row # Absent,
           row = IF handler[h].order.name = handler[h].who.id THEN handler[h].loaded
                 ELSE members[handler[h].order.name]
    PROVE  row \in MemberRows /\ SameHome(row, handler[h].order.name)
<1>1. Asked(handler[h]) /\ OwnRow(handler[h])
  BY DEF MembersInv, HandlerOK
<1>2. handler[h].order.name \in People
  BY <1>1, MembershipAssumption DEF Asked
<1> QED
  BY <1>1, <1>2 DEF OwnRow, SameHome, MembersInv

LEMMA PrepareStatusKeepsInv ==
    ASSUME MembersInv, NEW h \in Handlers, PrepareStatus(h) PROVE MembersInv'
<1> DEFINE i == handler[h].who
           o == handler[h].order
<1>1. PICK row : row = IF o.name = i.id THEN handler[h].loaded ELSE members[o.name]
  OBVIOUS
<1> DEFINE new == Updated(row, o)
           to == [handler[h] EXCEPT !.pc = "save", !.loaded = row, !.new = new]
<1>2. /\ handler[h].pc = "load" /\ o.op = "status"
      /\ members' = members /\ keys' = keys /\ tokens' = tokens /\ told' = told /\ missed' = missed
      /\ \/ row # Absent /\ Updatable(i, o, row) /\ Prepared(h, row, new)
         \/ Finish(h)
  BY <1>1 DEF PrepareStatus
<1>3. CASE row # Absent /\ Updatable(i, o, row) /\ Prepared(h, row, new)
  <2>1. row \in MemberRows /\ SameHome(row, o.name)
    BY <1>1, <1>2, <1>3, RowAtHome DEF Changes
  <2>2. o \in Orders
    BY <1>2 DEF MembersInv, HandlerOK, Asked
  <2>3. /\ new \in MemberRows /\ new.tenant = row.tenant
        /\ new.role = (IF o.role = Absent THEN row.role ELSE o.role)
    <3> DEFINE a == IF o.approval = Absent THEN row.approval ELSE o.approval
               b == IF o.active # Absent THEN o.active = "yes"
                    ELSE IF o.approval \in {"APPROVED", "REJECTED"} THEN o.approval = "APPROVED"
                    ELSE row.active
               r == IF o.role = Absent THEN row.role ELSE o.role
    <3>1. a \in Approvals /\ r \in Roles
      BY <2>1, <2>2, MembershipAssumption DEF MemberRows
    <3>2. b \in BOOLEAN
      BY <2>1 DEF MemberRows
    <3>3. new = [row EXCEPT !.approval = a, !.active = b, !.role = r]
      BY DEF Updated
    <3>4. new \in MemberRows /\ new.tenant = row.tenant /\ new.role = r
      <4> HIDE DEF a, b, r, new
      <4> QED
        BY <2>1, <3>1, <3>2, <3>3 DEF MemberRows
    <3> QED
      BY <3>4
  <2>4. Reaches(i, row.tenant)
    BY <1>3 DEF Updatable
  <2>5. new.role = "PLATFORM_ADMIN" => row.role = "PLATFORM_ADMIN" \/ IsPlatformAdmin(i)
    BY <1>3, <2>3 DEF Updatable
  <2>6. MayChange(i, o.name, row, new)
    BY <2>1, <2>3, <2>4, <2>5 DEF MayChange
  <2>7. to.order = o /\ to.who = i /\ to.loaded = row /\ to.new = new
    BY DEF MembersInv, HandlerOK, Waiting
  <2>8. MaySave(to)
    <3> HIDE DEF to, new, i, o
    <3> QED
      BY <1>2, <2>6, <2>7 DEF MaySave, Creations
  <2> QED
    BY <1>2, <1>3, <2>8, PreparedKeepsInv
<1>4. CASE Finish(h)
  BY <1>2, <1>4, FinishKeepsInv
<1> QED
  BY <1>2, <1>3, <1>4

LEMMA PrepareDeactivationKeepsInv ==
    ASSUME MembersInv, NEW h \in Handlers, PrepareDeactivation(h) PROVE MembersInv'
<1> DEFINE i == handler[h].who
           o == handler[h].order
<1>1. PICK row : row = IF o.name = i.id THEN handler[h].loaded ELSE members[o.name]
  OBVIOUS
<1> DEFINE new == [row EXCEPT !.active = FALSE]
           to == [handler[h] EXCEPT !.pc = "save", !.loaded = row, !.new = new]
<1>2. /\ handler[h].pc = "load" /\ o.op = "deactivate"
      /\ members' = members /\ keys' = keys /\ tokens' = tokens /\ told' = told /\ missed' = missed
      /\ \/ row # Absent /\ Reaches(i, row.tenant) /\ Prepared(h, row, new)
         \/ Finish(h)
  BY <1>1 DEF PrepareDeactivation
<1>3. CASE row # Absent /\ Reaches(i, row.tenant) /\ Prepared(h, row, new)
  <2>1. row \in MemberRows /\ SameHome(row, o.name)
    BY <1>1, <1>2, <1>3, RowAtHome DEF Changes
  <2>2. new \in MemberRows /\ new.tenant = row.tenant /\ new.role = row.role
    BY <2>1 DEF MemberRows
  <2>3. MayChange(i, o.name, row, new)
    BY <1>3, <2>1, <2>2 DEF MayChange
  <2>4. to.order = o /\ to.who = i /\ to.loaded = row /\ to.new = new
    BY DEF MembersInv, HandlerOK, Waiting
  <2>5. MaySave(to)
    <3> HIDE DEF to, new, i, o
    <3> QED
      BY <1>2, <2>3, <2>4 DEF MaySave, Creations
  <2> QED
    BY <1>2, <1>3, <2>5, PreparedKeepsInv
<1>4. CASE Finish(h)
  BY <1>2, <1>4, FinishKeepsInv
<1> QED
  BY <1>2, <1>3, <1>4

\* Requests about companies and teams.
LEMMA OtherPreparedKeepsInv ==
    ASSUME MembersInv, NEW h \in Handlers, handler[h].pc = "load",
           handler[h].order.op \in {"create_firm", "update_firm", "own_team"},
           NEW loaded, NEW new, Prepared(h, loaded, new),
           members' = members, keys' = keys, tokens' = tokens, told' = told, missed' = missed
    PROVE  MembersInv'
<1> DEFINE to == [handler[h] EXCEPT !.pc = "save", !.loaded = loaded, !.new = new]
<1>1. to.order = handler[h].order
  OBVIOUS
<1>2. MaySave(to)
  <2> HIDE DEF to
  <2> QED
    BY <1>1 DEF MaySave, Creations, Changes
<1> QED
  BY <1>2, PreparedKeepsInv

LEMMA PrepareFirmKeepsInv ==
    ASSUME MembersInv, NEW h \in Handlers, PrepareFirm(h) PROVE MembersInv'
<1>1. /\ handler[h].pc = "load" /\ handler[h].order.op \in {"create_firm", "update_firm"}
      /\ members' = members /\ keys' = keys /\ tokens' = tokens /\ told' = told /\ missed' = missed
  BY DEF PrepareFirm
<1>2. \/ Finish(h)
      \/ \E loaded, new : Prepared(h, loaded, new)
  BY DEF PrepareFirm
<1> QED
  BY <1>1, <1>2, FinishKeepsInv, OtherPreparedKeepsInv

LEMMA PrepareTeamKeepsInv ==
    ASSUME MembersInv, NEW h \in Handlers, PrepareTeam(h) PROVE MembersInv'
BY FinishKeepsInv, OtherPreparedKeepsInv DEF PrepareTeam

LEMMA PrepareKeyKeepsInv ==
    ASSUME MembersInv, NEW h \in Handlers, PrepareKey(h) PROVE MembersInv'
<1> DEFINE tenant == Target(handler[h].who, handler[h].order)
           new == [role |-> "COMPANY_USER", tenant |-> tenant, active |-> TRUE]
           to == [handler[h] EXCEPT !.pc = "save", !.loaded = Absent, !.new = new]
<1>1. /\ handler[h].pc = "load" /\ handler[h].order.op = "create_key"
      /\ members' = members /\ keys' = keys /\ tokens' = tokens /\ told' = told /\ missed' = missed
      /\ Finish(h) \/ (tenant \in Firms /\ Prepared(h, Absent, new))
  BY DEF PrepareKey
<1>2. CASE tenant \in Firms /\ Prepared(h, Absent, new)
  <2>1. new \in KeyRows
    BY <1>2 DEF KeyRows
  <2>2. to.order = handler[h].order /\ to.new = new
    BY DEF MembersInv, HandlerOK, Waiting
  <2>3. MaySave(to)
    <3> HIDE DEF to, new
    <3> QED
      BY <1>1, <2>1, <2>2 DEF MaySave, Creations, Changes
  <2> QED
    BY <1>1, <1>2, <2>3, PreparedKeepsInv
<1> QED
  BY <1>1, <1>2, FinishKeepsInv

LEMMA PrepareRevocationKeepsInv ==
    ASSUME MembersInv, NEW h \in Handlers, PrepareRevocation(h) PROVE MembersInv'
<1>1. /\ handler[h].pc = "load" /\ handler[h].order.op = "revoke_key"
      /\ members' = members /\ keys' = keys /\ tokens' = tokens /\ told' = told /\ missed' = missed
  BY DEF PrepareRevocation
<1>2. ASSUME NEW k \in KeyIds, keys[k] # Absent, Prepared(h, keys[k], k) PROVE MembersInv'
  <2> DEFINE to == [handler[h] EXCEPT !.pc = "save", !.loaded = keys[k], !.new = k]
  <2>1. keys[k] \in KeyRows
    BY <1>2 DEF MembersInv
  <2>2. to.order = handler[h].order /\ to.new = k
    BY DEF MembersInv, HandlerOK, Waiting
  <2>3. MaySave(to)
    <3> HIDE DEF to
    <3> QED
      BY <1>1, <1>2, <2>1, <2>2 DEF MaySave, Creations, Changes
  <2> QED
    BY <1>1, <1>2, <2>3, PreparedKeepsInv
<1> QED
  BY <1>1, <1>2, FinishKeepsInv DEF PrepareRevocation, Prepared

\* A flush writes the columns that the request changed; the company is not one.
LEMMA WrittenRow ==
    ASSUME NEW now \in MemberRows, NEW loaded \in MemberRows, NEW new \in MemberRows,
           new.tenant = loaded.tenant,
           NEW w, w = Written(now, loaded, new)
    PROVE  /\ w \in MemberRows /\ w.tenant = now.tenant
           /\ w.role = now.role \/ (w.role = new.role /\ new.role # loaded.role)
           /\ now.active /\ ~w.active => loaded.active
<1>1. loaded # Absent
  BY MembershipAssumption
<1>2. w = [f \in DOMAIN now |-> IF new[f] # loaded[f] THEN new[f] ELSE now[f]]
  BY <1>1 DEF Written
<1>3. /\ DOMAIN now = {"role", "tenant", "team", "approval", "active"}
      /\ now = [role |-> now.role, tenant |-> now.tenant, team |-> now.team,
                approval |-> now.approval, active |-> now.active]
  BY DEF MemberRows
<1> DEFINE Pick(old, from, to) == IF to # from THEN to ELSE old
<1>4. w = [role |-> Pick(now.role, loaded.role, new.role),
           tenant |-> Pick(now.tenant, loaded.tenant, new.tenant),
           team |-> Pick(now.team, loaded.team, new.team),
           approval |-> Pick(now.approval, loaded.approval, new.approval),
           active |-> Pick(now.active, loaded.active, new.active)]
  BY <1>2, <1>3
<1>5. w \in MemberRows
  BY <1>4 DEF MemberRows
<1>6. now.active /\ ~w.active => loaded.active
  BY <1>4 DEF MemberRows
<1> QED
  BY <1>4, <1>5, <1>6

\* What the commit of a request about an account does.
LEMMA SaveMemberWrites ==
    ASSUME MembersInv, NEW h \in Handlers, SaveMember(h),
           NEW p, p = handler[h].order.name, NEW i, i = handler[h].who
    PROVE  \/ Finish(h) /\ members' = members
           \/ /\ p \in People /\ members' = [members EXCEPT ![p] = members'[p]]
              /\ handler' = [handler EXCEPT ![h].pc = "report"]
              /\ \/ /\ members[p] = Absent /\ MayCreate(i, handler[h].order, members'[p])
                 \/ /\ members[p] \in MemberRows /\ members'[p] \in MemberRows
                    /\ members'[p].tenant = members[p].tenant /\ Reaches(i, members'[p].tenant)
                    /\ members'[p].role = "PLATFORM_ADMIN" =>
                         members[p].role = "PLATFORM_ADMIN" \/ IsPlatformAdmin(i)
                    /\ members[p].active /\ ~members'[p].active => WillTell(handler[h], p)'
<1> DEFINE at == handler[h]
<1>1. /\ at.pc = "save" /\ at.order.op \in Creations \cup Changes
      /\ \/ Finish(h) /\ members' = members
         \/ /\ ~(at.loaded = Absent /\ (members[p] # Absent \/ at.new.tenant \notin Existing))
            /\ members' = [members EXCEPT ![p] = Written(@, at.loaded, at.new)]
            /\ handler' = [handler EXCEPT ![h].pc = "report"]
  BY DEF SaveMember, Creations, Changes
<1>2. HandlerOK(at) /\ Asked(at) /\ MaySave(at) /\ p \in People
  BY <1>1, MembershipAssumption DEF MembersInv, HandlerOK, Asked
<1>3. SUFFICES ASSUME ~(at.loaded = Absent /\ (members[p] # Absent \/ at.new.tenant \notin Existing)),
                      members' = [members EXCEPT ![p] = Written(@, at.loaded, at.new)],
                      handler' = [handler EXCEPT ![h].pc = "report"]
               PROVE  /\ members' = [members EXCEPT ![p] = members'[p]]
                      /\ \/ members[p] = Absent /\ MayCreate(i, at.order, members'[p])
                         \/ /\ members[p] \in MemberRows /\ members'[p] \in MemberRows
                            /\ members'[p].tenant = members[p].tenant
                            /\ Reaches(i, members'[p].tenant)
                            /\ members'[p].role = "PLATFORM_ADMIN" =>
                                 members[p].role = "PLATFORM_ADMIN" \/ IsPlatformAdmin(i)
                            /\ members[p].active /\ ~members'[p].active => WillTell(at, p)'
  BY <1>1, <1>2
<1>4. /\ members'[p] = Written(members[p], at.loaded, at.new)
      /\ members' = [members EXCEPT ![p] = members'[p]]
  BY <1>2, <1>3 DEF MembersInv
<1>5. CASE at.order.op \in Creations
  BY <1>2, <1>3, <1>4, <1>5 DEF MaySave, Written
<1>6. CASE at.order.op \in Changes
  <2>1. MayChange(i, p, at.loaded, at.new)
    BY <1>2, <1>6 DEF MaySave
  <2>2. /\ members[p] \in MemberRows /\ at.loaded \in MemberRows /\ at.new \in MemberRows
        /\ members[p].tenant = at.loaded.tenant /\ at.new.tenant = at.loaded.tenant
        /\ Reaches(i, at.loaded.tenant)
    BY <2>1 DEF MayChange, SameHome
  <2>3. /\ members'[p] \in MemberRows /\ members'[p].tenant = members[p].tenant
        /\ \/ members'[p].role = members[p].role
           \/ members'[p].role = at.new.role /\ at.new.role # at.loaded.role
        /\ members[p].active /\ ~members'[p].active => at.loaded.active
    BY <1>4, <2>2, WrittenRow
  <2>4. Reaches(i, members'[p].tenant)
    BY <2>2, <2>3
  <2>5. members'[p].role = "PLATFORM_ADMIN" =>
          members[p].role = "PLATFORM_ADMIN" \/ IsPlatformAdmin(i)
    BY <2>1, <2>3 DEF MayChange
  <2>6. at.loaded.active => WillTell(at, p)'
    <3>1. /\ handler'[h].pc = "report" /\ handler'[h].order = at.order
          /\ handler'[h].loaded = at.loaded
      BY <1>2, <1>3 DEF HandlerOK, Waiting, MembersInv
    <3> QED
      BY <1>6, <3>1 DEF WillTell, Changes
  <2> QED
    BY <1>4, <2>2, <2>3, <2>4, <2>5, <2>6
<1> QED
  BY <1>1, <1>5, <1>6

LEMMA SaveMemberKeepsInv ==
    ASSUME MembersInv, NEW h \in Handlers, SaveMember(h) PROVE MembersInv'
<1>1. PICK p : p = handler[h].order.name
  OBVIOUS
<1>2. /\ handler[h].pc = "save" /\ keys' = keys /\ tokens' = tokens /\ told' = told /\ missed' = missed
  BY DEF SaveMember
<1>3. CASE Finish(h) /\ members' = members
  BY <1>2, <1>3, FinishKeepsInv
<1>4. CASE /\ p \in People /\ members' = [members EXCEPT ![p] = members'[p]]
           /\ handler' = [handler EXCEPT ![h].pc = "report"]
           /\ \/ members[p] = Absent /\ members'[p] \in MemberRows
              \/ /\ members[p] \in MemberRows /\ members'[p] \in MemberRows
                 /\ members'[p].tenant = members[p].tenant
                 /\ members[p].active /\ ~members'[p].active => WillTell(handler[h], p)'
  <2>1. RowsStay
    BY <1>2, <1>4, MembershipAssumption DEF RowsStay, MembersInv
  <2>2. /\ OthersRest(h) /\ DOMAIN handler'[h] = DOMAIN handler[h]
        /\ handler'[h].pc = "report" /\ handler'[h].order = handler[h].order
        /\ handler'[h].who = handler[h].who
    BY <1>4 DEF OthersRest, MembersInv, HandlerOK, Waiting
  <2>3. HandlerOK(handler[h])'
    <3>1. Asked(handler[h])
      BY <1>2 DEF MembersInv, HandlerOK
    <3>2. Asked(handler[h])'
      BY <2>2, <3>1 DEF Asked, Permits, IsPlatformAdmin, IsCompanyAdmin, AdminOfOwnCompany
    <3> QED
      BY <2>2, <3>2 DEF HandlerOK, MembersInv
  <2>4. ASSUME NEW q \in DOMAIN FirstRows PROVE LossIsTold(q)'
    <3>1. LossIsTold(q) /\ members[q] \in MemberRows
      BY DEF MembersInv
    <3>2. \A g \in Handlers : WillTell(handler[g], q) => WillTell(handler[g], q)'
      BY <1>2, <2>2 DEF WillTell, OthersRest
    <3>3. CASE q # p
      <4>1. members'[q] = members[q]
        BY <1>4, <3>3, MembershipAssumption DEF MembersInv
      <4> QED
        BY <1>2, <3>1, <3>2, <4>1 DEF LossIsTold
    <3>4. CASE q = p /\ members[p].active
      BY <1>4, <3>1, <3>4, MembershipAssumption DEF LossIsTold
    <3>5. CASE q = p /\ ~members[p].active
      BY <1>2, <3>1, <3>2, <3>5 DEF LossIsTold
    <3> QED
      BY <3>3, <3>4, <3>5
  <2> QED
    BY <2>1, <2>2, <2>3, <2>4, StepKeepsInv
<1> QED
  BY <1>1, <1>3, <1>4, SaveMemberWrites DEF MayCreate

LEMMA SaveFirmKeepsInv ==
    ASSUME MembersInv, NEW h \in Handlers, SaveFirm(h) PROVE MembersInv'
BY FinishKeepsInv DEF SaveFirm

LEMMA SaveTeamKeepsInv ==
    ASSUME MembersInv, NEW h \in Handlers, SaveTeam(h) PROVE MembersInv'
BY FinishKeepsInv DEF SaveTeam

LEMMA SaveKeyKeepsInv ==
    ASSUME MembersInv, NEW h \in Handlers, SaveKey(h) PROVE MembersInv'
<1> DEFINE at == handler[h]
<1>1. /\ at.pc = "save" /\ Finish(h)
      /\ members' = members /\ tokens' = tokens /\ told' = told /\ missed' = missed
  BY DEF SaveKey
<1>2. MaySave(at)
  BY <1>1 DEF MembersInv, HandlerOK
<1>3. keys' \in [KeyIds -> KeyRows \cup {Absent}] /\ \A k \in KeyIds : keys[k] \in KeyRows => keys'[k] \in KeyRows
  <2>1. ASSUME at.order.op = "create_key",
               NEW k \in KeyIds, keys[k] = Absent, keys' = [keys EXCEPT ![k] = at.new]
        PROVE  <1>3
    BY <1>2, <2>1, MembershipAssumption DEF MembersInv, MaySave
  <2>2. ASSUME at.order.op = "revoke_key", keys' = [keys EXCEPT ![at.new].active = FALSE]
        PROVE  <1>3
    <3>1. at.new \in KeyIds /\ keys[at.new] \in KeyRows
      BY <1>2, <2>2 DEF MaySave
    <3>2. [keys[at.new] EXCEPT !.active = FALSE] \in KeyRows
      BY <3>1 DEF KeyRows
    <3> QED
      BY <2>2, <3>1, <3>2 DEF MembersInv
  <2> QED
    BY <2>1, <2>2 DEF SaveKey
<1>4. RowsStay
  BY <1>1, <1>3 DEF RowsStay, MembersInv
<1>5. OthersRest(h) /\ handler'[h] = Waiting
  BY <1>1, OneHandler DEF Finish
<1> QED
  BY <1>1, <1>4, <1>5, WaitingIsOK, LossStaysTold, StepKeepsInv

LEMMA ReportKeepsInv ==
    ASSUME MembersInv, NEW h \in Handlers, Report(h) PROVE MembersInv'
<1> DEFINE at == handler[h]
           events == CASE at.order.op = "status"     -> Verdict(at, members[at.order.name])
                       [] at.order.op = "deactivate" -> {"AUTH_USER_DEACTIVATED"}
                       [] OTHER                      -> {"AUTH_USER_REGISTERED"}
           records == {<<e, at.order.name>> : e \in events}
<1>1. /\ at.pc = "report" /\ Finish(h)
      /\ \/ told' = told \cup records /\ missed' = missed
         \/ missed' = missed \cup records /\ told' = told
      /\ members' = members /\ keys' = keys /\ tokens' = tokens
  BY DEF Report
<1>2. OthersRest(h) /\ handler'[h] = Waiting
  BY <1>1, OneHandler DEF Finish
<1>3. ASSUME NEW p \in DOMAIN FirstRows PROVE LossIsTold(p)'
  <2>1. LossIsTold(p)
    BY DEF MembersInv
  <2>2. SUFFICES ASSUME FirstRows[p].active, ~members[p].active
                 PROVE  \/ <<"AUTH_USER_DEACTIVATED", p>> \in told' \cup missed'
                        \/ \E g \in Handlers : WillTell(handler[g], p)'
    BY <1>1 DEF LossIsTold
  <2>3. CASE <<"AUTH_USER_DEACTIVATED", p>> \in told \cup missed
    BY <1>1, <2>3
  <2>4. CASE WillTell(at, p)
    <3>1. "AUTH_USER_DEACTIVATED" \in events
      BY <2>2, <2>4 DEF WillTell, Verdict
    <3> QED
      BY <1>1, <2>4, <3>1 DEF WillTell
  <2>5. ASSUME NEW g \in Handlers \ {h}, WillTell(handler[g], p)
        PROVE  WillTell(handler[g], p)'
    BY <1>2, <2>5 DEF WillTell, OthersRest
  <2> QED
    BY <2>1, <2>2, <2>3, <2>4, <2>5 DEF LossIsTold
<1> QED
  BY <1>1, <1>2, <1>3, WaitingIsOK, UnchangedRowsStay, StepKeepsInv

LEMMA LoginKeepsInv ==
    ASSUME MembersInv, NEW p \in People, Login(p) PROVE MembersInv'
<1>1. /\ tokens' = tokens \cup {p} /\ members' = members /\ keys' = keys
      /\ handler' = handler /\ told' = told /\ missed' = missed
  BY DEF Login
<1>2. RowsStay
  BY <1>1 DEF RowsStay, MembersInv
<1>3. \A h \in Handlers : HandlerOK(handler[h])'
  BY <1>1, <1>2, HandlerStaysOK DEF MembersInv
<1>4. \A q \in DOMAIN FirstRows : LossIsTold(q)'
  BY <1>1 DEF MembersInv, LossIsTold, WillTell
<1> QED
  BY <1>1, <1>2, <1>3, <1>4 DEF MembersInv, RowsStay

LEMMA InitMembersInv == MembersInit => MembersInv
<1> SUFFICES ASSUME MembersInit PROVE MembersInv
  OBVIOUS
<1>1. members \in [People -> MemberRows \cup {Absent}] /\ tokens \subseteq People
  BY MembershipAssumption DEF MembersInit
<1>2. \A p \in DOMAIN FirstRows : members[p] \in MemberRows /\ LossIsTold(p)
  BY MembershipAssumption DEF MembersInit, LossIsTold
<1>3. \A h \in Handlers : HandlerOK(handler[h])
  BY DEF MembersInit, HandlerOK, Waiting
<1> QED
  BY <1>1, <1>2, <1>3 DEF MembersInit, MembersInv

LEMMA MembersStepKeepsInv == MembersInv /\ [MembersNext]_membersVars => MembersInv'
<1> SUFFICES ASSUME MembersInv, [MembersNext]_membersVars PROVE MembersInv'
  OBVIOUS
<1>1. ASSUME NEW h \in Handlers, HandlerStep(h) PROVE MembersInv'
  BY <1>1, AdmitPublicKeepsInv, AdmitKeepsInv, PrepareMemberKeepsInv, PrepareStatusKeepsInv,
     PrepareDeactivationKeepsInv, PrepareFirmKeepsInv, PrepareTeamKeepsInv, PrepareKeyKeepsInv,
     PrepareRevocationKeepsInv, SaveMemberKeepsInv, SaveFirmKeepsInv, SaveTeamKeepsInv,
     SaveKeyKeepsInv, ReportKeepsInv
     DEF HandlerStep
<1>2. ASSUME NEW p \in People, Login(p) PROVE MembersInv'
  BY <1>2, LoginKeepsInv
<1>3. CASE UNCHANGED membersVars
  BY <1>3 DEF membersVars, MembersInv, HandlerOK, Asked, OwnRow, MaySave, MayCreate, MayChange,
              SameHome, Permits, Reaches, IsPlatformAdmin, IsCompanyAdmin, AdminOfOwnCompany,
              LossIsTold, WillTell
<1> QED
  BY <1>1, <1>2, <1>3 DEF MembersNext

\* What is true of rows, handlers and audit events at all times (admin_router.py).
THEOREM MembersInvariant == MembersSpec => []MembersInv
BY InitMembersInv, MembersStepKeepsInv, PTL DEF MembersSpec

(***************************************************************************)
(* What follows                                                            *)
(***************************************************************************)

\* However many requests interleave, the one that took the access away knows it,
\* and reports it or fails in doing so (update_user_status, deactivate_user).
THEOREM DeactivationIsAlwaysNoticed == MembersSpec => []DeactivationIsNoticed
<1>1. MembersInv => DeactivationIsNoticed
  BY DEF MembersInv, DeactivationIsNoticed, LossIsTold, WillTell
<1> QED
  BY <1>1, MembersInvariant, PTL

\* Accounts change only at the hand of their own administrators
\* (admin_router.py, companies/service.py).
THEOREM ChangesAlwaysStayHome == MembersSpec => ChangesStayHome
<1> DEFINE AtHome == \A p \in People : members'[p] # members[p] =>
       \E h \in Handlers :
         /\ handler[h].pc = "save" /\ handler[h].order.name = p
         /\ handler[h].order.op = "register" \/ Reaches(handler[h].who, members'[p].tenant)
         /\ \/ members'[p].role # "PLATFORM_ADMIN" \/ IsPlatformAdmin(handler[h].who)
            \/ members[p] # Absent /\ members[p].role = "PLATFORM_ADMIN"
<1>1. MembersInv /\ [MembersNext]_membersVars => [AtHome]_membersVars
  <2>1. SUFFICES ASSUME MembersInv, MembersNext, NEW p \in People, members'[p] # members[p]
                 PROVE  \E h \in Handlers :
                          /\ handler[h].pc = "save" /\ handler[h].order.name = p
                          /\ handler[h].order.op = "register" \/ Reaches(handler[h].who, members'[p].tenant)
                          /\ \/ members'[p].role # "PLATFORM_ADMIN" \/ IsPlatformAdmin(handler[h].who)
                             \/ members[p] # Absent /\ members[p].role = "PLATFORM_ADMIN"
    OBVIOUS
  <2>2. PICK h \in Handlers : SaveMember(h)
    BY <2>1 DEF MembersNext, HandlerStep, AdmitPublic, Admit, PrepareMember, PrepareStatus,
                PrepareDeactivation, PrepareFirm, PrepareTeam, PrepareKey, PrepareRevocation,
                SaveFirm, SaveTeam, SaveKey, Report, Login
  <2>3. PICK q, i : q = handler[h].order.name /\ i = handler[h].who
    OBVIOUS
  <2>4. /\ members' = [members EXCEPT ![q] = members'[q]]
        /\ \/ members[q] = Absent /\ MayCreate(i, handler[h].order, members'[q])
           \/ /\ members[q] \in MemberRows /\ Reaches(i, members'[q].tenant)
              /\ members'[q].role = "PLATFORM_ADMIN" =>
                   members[q].role = "PLATFORM_ADMIN" \/ IsPlatformAdmin(i)
    BY <2>1, <2>2, <2>3, SaveMemberWrites
  <2>5. q = p
    BY <2>1, <2>4 DEF MembersInv
  <2>6. members[q] \in MemberRows => members[q] # Absent
    BY MembershipAssumption
  <2>7. handler[h].pc = "save"
    BY <2>2 DEF SaveMember
  <2> QED
    BY <2>3, <2>4, <2>5, <2>6, <2>7 DEF MayCreate
<1> QED
  BY <1>1, MembersInvariant, PTL DEF MembersSpec, ChangesStayHome

\* The copies of the checks agree (auth.py, routers/auth.py, admin_router.py,
\* get_tenant_jobs).
THEOREM ChecksAlwaysAgree == MembersSpec => []ChecksAgree
<1>1. MembersInv => GatesAgree
  <2>1. ASSUME NEW u PROVE /\ (LoginGate(u) = "ok") = (IdentityGate(u) = "ok")
                           /\ UserGate(u) = IdentityGate(u)
    <3> DEFINE Out == CompanyIsInactive(u)
    <3>1. Out \in BOOLEAN
      BY DEF CompanyIsInactive
    <3> HIDE DEF Out
    <3> QED
      BY <3>1 DEF LoginGate, IdentityGate, UserGate
  <2> QED
    BY <2>1 DEF GatesAgree
<1>2. ASSUME MembersInv, NEW i \in Callers
      PROVE  /\ \A j \in Workloads : Listed(i, j) => Opened(i, j)
             /\ \A j \in Workloads : MaySubmit(i, j.team) => Listed(i, Submitted(i, j.team))
             /\ Permits("status", i) =>
                  /\ \A p \in People \ ShownMembers(i) : members[p] # Absent => ~Reaches(i, members[p].tenant)
                  /\ \A k \in KeyIds \ ShownKeys(i) : keys[k] # Absent => ~Reaches(i, keys[k].tenant)
  <2>1. i.role \in Roles
    BY <1>2, CallersAreIdentities DEF Identities
  <2>2. \A j \in Workloads : Listed(i, j) => Opened(i, j)
    BY DEF Listed, Opened
  <2>3. \A j \in Workloads : MaySubmit(i, j.team) => Listed(i, Submitted(i, j.team))
    BY <2>1 DEF MaySubmit, Listed, Submitted, TeamRestricted, IsPlatformAdmin, IsCompanyAdmin, Roles
  <2>4. \A p \in People \ ShownMembers(i) : members[p] # Absent => ~Reaches(i, members[p].tenant)
    BY DEF ShownMembers, Reaches
  <2>5. \A k \in KeyIds \ ShownKeys(i) : keys[k] # Absent => ~Reaches(i, keys[k].tenant)
    BY <1>2, MembershipAssumption DEF MembersInv, ShownKeys, Reaches, OrDefault, KeyRows
  <2> QED
    BY <2>2, <2>3, <2>4, <2>5
<1>3. MembersInv => ChecksAgree
  BY <1>1, <1>2 DEF ChecksAgree
<1> QED
  BY <1>3, MembersInvariant, PTL
=============================================================================
