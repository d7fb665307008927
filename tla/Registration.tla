---------------------------- MODULE Registration ----------------------------
(***************************************************************************)
(* POST /companies/register (register_company): the tenant, its default    *)
(* team and its administrator are flushed, two events are appended to the  *)
(* audit ledger, and only then does the request commit.  append_event      *)
(* commits and rolls back the session it is given, so it decides about the *)
(* flushed rows, too.                                                      *)
(***************************************************************************)
EXTENDS AuditLedger

CONSTANTS
  CreatedEvent,  \* CreatedEvent[w]: the COMPANY_CREATED event of a request
  AdminEvent     \* AdminEvent[w]: its COMPANY_ADMIN_CREATED event

ASSUME RegistrationAssumption ==
  /\ CreatedEvent \in [Writers -> Events] /\ AdminEvent \in [Writers -> Events]
  /\ \A v, w \in Writers : CreatedEvent[v] # AdminEvent[w]
  /\ \A v, w \in Writers :
       v # w => CreatedEvent[v] # CreatedEvent[w] /\ AdminEvent[v] # AdminEvent[w]

VARIABLE registration  \* the registration request of each session

registrationVars == <<ledgerVars, registration>>

RegistrationRow ==
  [pc: {"new", "flush", "created", "admin", "commit", "reload",
        "registered", "refused", "failed"},
   company: Companies \cup {None}]

RegistrationTypeOK == registration \in [Writers -> RegistrationRow]

SavedBy(w) == {c \in Companies : [company |-> c, by |-> w] \in saved}
Taken == {r.company : r \in saved}

At(w, pc) == registration' = [registration EXCEPT ![w].pc = pc]

\* The pre-flight checks: a company that is there already is refused.
Receive(w, c) ==
  /\ registration[w].pc = "new"
  /\ registration' = [registration EXCEPT ![w] =
       [pc |-> IF c \in Taken THEN "refused" ELSE "flush", company |-> c]]
  /\ UNCHANGED ledgerVars

\* Mutant: no unique constraint behind the pre-flight checks.
FlushRows_NotUnique(w) ==
  /\ registration[w].pc = "flush"
  /\ unsaved' = [unsaved EXCEPT ![w] = {registration[w].company}]
  /\ At(w, "created")
  /\ UNCHANGED <<ledger, call, outcome, saved, books>>

\* The three inserts.  One that would repeat a unique name waits for the other
\* transaction; when that commits, the request is refused.
FlushRows(w) ==
  /\ registration[w].pc = "flush"
  /\ LET c == registration[w].company IN
     /\ \A v \in Writers : c \notin unsaved[v]
     /\ IF c \in Taken
        THEN At(w, "refused") /\ UNCHANGED unsaved
        ELSE At(w, "created") /\ unsaved' = [unsaved EXCEPT ![w] = {c}]
  /\ UNCHANGED <<ledger, call, outcome, saved, books>>

\* The two calls of append_event.  The first is begun, and when it has returned
\* the second; an error raised by either is logged and skips the rest.
AppendCreated(w) ==
  /\ registration[w].pc = "created"
  /\ LET e == CreatedEvent[w] IN
     \/ Begin(w, e) /\ UNCHANGED <<ledger, unsaved, saved, books, registration>>
     \/ /\ outcome[e] \in {"appended", "raised"}
        /\ At(w, IF outcome[e] = "appended" THEN "admin" ELSE "commit")
        /\ UNCHANGED ledgerVars

AppendAdmin(w) ==
  /\ registration[w].pc = "admin"
  /\ LET e == AdminEvent[w] IN
     \/ Begin(w, e) /\ UNCHANGED <<ledger, unsaved, saved, books, registration>>
     \/ /\ outcome[e] \in {"appended", "raised"}
        /\ At(w, "commit")
        /\ UNCHANGED ledgerVars

\* Mutant: rows that are lost by now are added and committed once more.
CommitRegistration_Again(w) ==
  /\ registration[w].pc = "commit"
  /\ saved' = saved \cup {[company |-> registration[w].company, by |-> w]}
  /\ unsaved' = [unsaved EXCEPT ![w] = {}]
  /\ At(w, "reload")
  /\ UNCHANGED <<ledger, call, outcome, books>>

\* db.commit: what is still flushed becomes permanent, which is nothing.
CommitRegistration(w) ==
  /\ registration[w].pc = "commit"
  /\ saved' = saved \cup [company: unsaved[w], by: {w}]
  /\ unsaved' = [unsaved EXCEPT ![w] = {}]
  /\ At(w, "reload")
  /\ UNCHANGED <<ledger, call, outcome, books>>

\* Mutant: the request succeeds without reloading the rows.
Reload_Skipped(w) ==
  /\ registration[w].pc = "reload"
  /\ At(w, "registered")
  /\ UNCHANGED ledgerVars

\* db.refresh(tenant): rows that a rollback has removed from the session are
\* not persistent, and the request ends with an error.
Reload(w) ==
  /\ registration[w].pc = "reload"
  /\ At(w, IF SavedBy(w) = {} THEN "failed" ELSE "registered")
  /\ UNCHANGED ledgerVars

RegistrationInit ==
  /\ LedgerInit
  /\ registration = [w \in Writers |-> [pc |-> "new", company |-> None]]

RegistrationStep(w) ==
  \/ FlushRows(w) \/ AppendCreated(w) \/ AppendAdmin(w)
  \/ CommitRegistration(w) \/ Reload(w)
  \/ AppendStep(w) /\ UNCHANGED registration

RegistrationNext ==
  \E w \in Writers : RegistrationStep(w) \/ \E c \in Companies : Receive(w, c)

RegistrationSpec == RegistrationInit /\ [][RegistrationNext]_registrationVars

-----------------------------------------------------------------------------
\* A request that answers with the new company has stored it, however often its
\* audit appends collided and rolled back.
RegisteredIsSaved ==
  \A w \in Writers : registration[w].pc = "registered" => SavedBy(w) # {}

\* Of two requests for the same company one stores it, although both have passed
\* the pre-flight checks.
OneCompanyPerName ==
  \A r, q \in saved : r.company = q.company => r = q

\* A company is stored only together with its COMPANY_CREATED event, because
\* whatever makes the audit append fail has rolled the company back.
SavedIsAudited ==
  \A w \in Writers :
    SavedBy(w) # {} => \E r \in ledger : r.payload = CreatedEvent[w]

\* companies/service.py: both events are part of the same atomic transaction as
\* the rows they describe.
AuditedIsSaved ==
  \A w \in Writers :
    (\E r \in ledger : r.payload = CreatedEvent[w]) => SavedBy(w) # {}

(***************************************************************************)
(* Why: rows are flushed only between the flush and the end of the first   *)
(* append, whatever that end is; so that the commit which stores them is   *)
(* the one that inserts COMPANY_CREATED, and its name is free until then.  *)
(***************************************************************************)
FlushedOK(w) ==
  unsaved[w] # {} =>
    /\ registration[w].pc = "created" /\ unsaved[w] = {registration[w].company}
    /\ registration[w].company \notin Taken
    /\ \A v \in Writers : v # w => unsaved[v] \cap unsaved[w] = {}
    /\ outcome[CreatedEvent[w]] \in {"new", "calling"}
    /\ call[w].pc \in {"read", "insert"} => call[w].event = CreatedEvent[w]
    /\ call[w].pc # "refresh"

\* A request appends its own two events, and none before it has flushed.
RequestOK(w) ==
  /\ call[w].pc \in {"idle", "read", "insert", "refresh"}
  /\ call[w].pc # "idle" =>
       call[w].event \in {CreatedEvent[w], AdminEvent[w]}
  /\ registration[w].pc # "new" => registration[w].company \in Companies
  /\ registration[w].pc \in {"new", "flush"} =>
       call[w].pc = "idle" /\ outcome[CreatedEvent[w]] = "new"

RegistrationInv ==
  /\ LedgerInv
  /\ RegistrationTypeOK
  /\ \A w \in Writers : FlushedOK(w) /\ RequestOK(w)
  /\ RegisteredIsSaved /\ OneCompanyPerName /\ SavedIsAudited
=============================================================================
