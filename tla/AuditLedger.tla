---------------------------- MODULE AuditLedger ----------------------------
(***************************************************************************)
(* TRUST: the hash-chained table audit_events (append_event, verify_chain) *)
(* and the anchors of its tip (create_anchor, and the trust loop's         *)
(* should_anchor / write_anchor), used by concurrent database sessions.    *)
(*                                                                         *)
(* SHA-256 is taken to be free of collisions, so a hash is represented by  *)
(* what it is computed from: current_hash = H(payload_hash, previous_hash) *)
(* is the sequence of all the payloads up to it.                           *)
(***************************************************************************)
EXTENDS Naturals, Sequences, FiniteSets

CONSTANTS
  Writers,     \* database sessions of the API, the loops and the workers
  Keepers,     \* trust-loop processes
  Events,      \* the events ever recorded: a payload is unique by its timestamp
  MaxRetries,  \* max_retries of append_event
  Interval,    \* ANCHOR_INTERVAL_EVENTS
  Faults,      \* "error": a database call fails without effect; "lost_ack": a
               \* commit takes effect and fails; "file": no line can be written
  Companies,   \* business rows that a caller may have flushed, not committed
  None

ASSUME AuditLedgerAssumption ==
  /\ MaxRetries \in Nat \ {0} /\ Interval \in Nat \ {0}
  /\ Faults \subseteq {"error", "lost_ack", "file"}
  /\ Writers \cap Keepers = {}
  /\ None \notin Events

VARIABLES
  ledger,   \* the rows of audit_events
  call,     \* what each session is doing
  outcome,  \* how append_event ended for each event; "lost": a commit of it took
            \* effect, an error followed, and the call makes another attempt
  unsaved,  \* business rows each session has flushed and not committed
  saved,    \* business rows committed, with the session that did
  anchors,  \* the rows of audit_anchors
  file      \* the lines of the anchor file

books == <<anchors, file>>
ledgerVars == <<ledger, call, outcome, unsaved, saved, books>>

Sessions == Writers \cup Keepers

Genesis == <<>>
CurrentHash(payload, previous) == Append(previous, payload)

Row == [sequence: Nat \ {0}, payload: Events,
        previous: Seq(Events), current: Seq(Events)]
Anchor == [sequence: Nat \ {0}, root: Seq(Events)]

\* sequence and previous: what the session has derived from the tip it read (of
\* an append), or that tip itself (of an anchor); since: the tip when the append
\* began; failed: its attempts that ended in an error other than a collision.
CallRow ==
  [pc: {"idle", "read", "insert", "refresh", "anchor", "root", "line"},
   event: Events \cup {None}, attempt: 1 .. MaxRetries, since: Nat, failed: Nat,
   sequence: Nat, previous: Seq(Events)]

CallAt(pc, event, since) ==
  [pc |-> pc, event |-> event, attempt |-> 1, since |-> since, failed |-> 0,
   sequence |-> 0, previous |-> Genesis]

Returned == CallAt("idle", None, 0)

TypeOK ==
  /\ ledger \subseteq Row
  /\ call \in [Sessions -> CallRow]
  /\ outcome \in [Events -> {"new", "calling", "lost", "appended", "raised"}]
  /\ unsaved \in [Sessions -> SUBSET Companies]
  /\ saved \subseteq [company: Companies, by: Sessions]
  /\ anchors \subseteq Anchor
  /\ file \in Seq(Anchor)

RowsAt(n) == {r \in ledger : r.sequence = n}

\* _get_latest_record: sequence and current_hash of the tip.
IsTip(n, hash) ==
  IF ledger = {} THEN n = 0 /\ hash = Genesis
  ELSE \E r \in ledger :
         /\ \A q \in ledger : q.sequence <= r.sequence
         /\ n = r.sequence /\ hash = r.current

Tips == {0} \cup {r.sequence : r \in ledger}
Hashes == {Genesis} \cup {r.current : r \in ledger}

-----------------------------------------------------------------------------
(* append_event.                                                           *)

Begin(w, e) ==
  /\ call[w].pc \in {"idle", "line"}
  /\ outcome[e] = "new"
  /\ outcome' = [outcome EXCEPT ![e] = "calling"]
  /\ \E n \in Tips, hash \in Hashes :
       /\ IsTip(n, hash)
       /\ call' = [call EXCEPT ![w] = CallAt("read", e, n)]

\* The callers commit their own rows first; one that does not is in Registration.
CallAppend(w, e) ==
  /\ call[w].pc = "idle"
  /\ unsaved[w] = {}
  /\ Begin(w, e)
  /\ UNCHANGED <<ledger, unsaved, saved, books>>

ReadLatest(w) ==
  /\ call[w].pc = "read"
  /\ \E n \in Tips, hash \in Hashes :
       /\ IsTip(n, hash)
       /\ call' = [call EXCEPT ![w].pc = "insert", ![w].sequence = n + 1,
                               ![w].previous = hash]
  /\ UNCHANGED <<ledger, outcome, unsaved, saved, books>>

NewRow(w) ==
  [sequence |-> call[w].sequence, payload |-> call[w].event,
   previous |-> call[w].previous,
   current |-> CurrentHash(call[w].event, call[w].previous)]

\* The next attempt of a call: after a "collision", an "error", or one that came
\* when the commit had taken effect ("lost").
Again(row, pc, cause) ==
  [row EXCEPT !.pc = pc, !.attempt = @ + 1,
              !.failed = IF cause = "collision" THEN @ ELSE @ + 1]

Standing(old, cause) == IF cause = "lost" THEN "lost" ELSE old

\* Mutant: the insert alone is repeated, until it succeeds.
Retry_Forever(w, cause) ==
  /\ unsaved' = [unsaved EXCEPT ![w] = {}]
  /\ UNCHANGED <<call, outcome>>

\* Rollback, which takes what the caller had flushed with it, and another
\* attempt; after the last one the error is raised.
Retry(w, cause) ==
  /\ unsaved' = [unsaved EXCEPT ![w] = {}]
  /\ IF call[w].attempt = MaxRetries
     THEN /\ call' = [call EXCEPT ![w] = Returned]
          /\ outcome' = [outcome EXCEPT ![call[w].event] = "raised"]
     ELSE /\ call' = [call EXCEPT ![w] = Again(@, "read", cause)]
          /\ outcome' = [outcome EXCEPT ![call[w].event] = Standing(@, cause)]

\* The commit makes the event and the caller's flushed rows permanent.
CommitAll(w, rows) ==
  /\ ledger' = rows
  /\ saved' = saved \cup [company: unsaved[w], by: {w}]
  /\ UNCHANGED books

\* Mutant: no unique constraint on sequence.
InsertRow_NotUnique(w) ==
  /\ call[w].pc = "insert"
  /\ CommitAll(w, ledger \cup {NewRow(w)})
  /\ unsaved' = [unsaved EXCEPT ![w] = {}]
  /\ call' = [call EXCEPT ![w].pc = "refresh"]
  /\ UNCHANGED outcome

\* Mutant: a row with the same sequence is overwritten.
InsertRow_Overwrites(w) ==
  /\ call[w].pc = "insert"
  /\ CommitAll(w, (ledger \ RowsAt(call[w].sequence)) \cup {NewRow(w)})
  /\ unsaved' = [unsaved EXCEPT ![w] = {}]
  /\ call' = [call EXCEPT ![w].pc = "refresh"]
  /\ UNCHANGED outcome

\* db.add and db.commit: uq_audit_events_sequence lets one session have the
\* number.
InsertRow(w) ==
  /\ call[w].pc = "insert"
  /\ RowsAt(call[w].sequence) = {}
  /\ CommitAll(w, ledger \cup {NewRow(w)})
  /\ unsaved' = [unsaved EXCEPT ![w] = {}]
  /\ call' = [call EXCEPT ![w].pc = "refresh"]
  /\ UNCHANGED outcome

\* Mutant: a table lock that is refused at once while another session inserts.
InsertCollides_NoWait(w) ==
  /\ call[w].pc = "insert"
  /\ \E v \in Writers \ {w} : call[v].pc = "insert"
  /\ Retry(w, "collision")
  /\ UNCHANGED <<ledger, saved, books>>

InsertCollides(w) ==
  /\ call[w].pc = "insert"
  /\ RowsAt(call[w].sequence) # {}
  /\ Retry(w, "collision")
  /\ UNCHANGED <<ledger, saved, books>>

\* An OperationalError in any of the calls inside the try.
DatabaseFails(w) ==
  /\ "error" \in Faults
  /\ call[w].pc \in {"read", "insert", "refresh"}
  /\ Retry(w, IF call[w].pc = "refresh" THEN "lost" ELSE "error")
  /\ UNCHANGED <<ledger, saved, books>>

\* The connection is lost while the commit, which took effect, is answered.
AckLost(w) ==
  /\ "lost_ack" \in Faults
  /\ call[w].pc = "insert"
  /\ RowsAt(call[w].sequence) = {}
  /\ CommitAll(w, ledger \cup {NewRow(w)})
  /\ Retry(w, "lost")

Return(w) ==
  /\ call[w].pc = "refresh"
  /\ call' = [call EXCEPT ![w] = Returned]
  /\ outcome' = [outcome EXCEPT ![call[w].event] = "appended"]
  /\ UNCHANGED <<ledger, unsaved, saved, books>>

AppendStep(w) ==
  \/ ReadLatest(w) \/ InsertRow(w) \/ InsertCollides(w) \/ DatabaseFails(w)
  \/ AckLost(w) \/ Return(w)

-----------------------------------------------------------------------------
(* Anchors: create_anchor in a writer's session, the trust loop's in its   *)
(* own.                                                                    *)

\* compute_root_hash, which finds nothing in an empty ledger.
ComputeRoot(s, from, to) ==
  /\ call[s].pc = from
  /\ ledger # {}
  /\ \E n \in Tips, hash \in Hashes :
       /\ IsTip(n, hash)
       /\ call' = [call EXCEPT ![s].pc = to, ![s].sequence = n, ![s].previous = hash]
  /\ UNCHANGED <<ledger, outcome, unsaved, saved, books>>

CommitAnchor(w) ==
  /\ call[w].pc = "anchor"
  /\ anchors' = anchors \cup {[sequence |-> call[w].sequence, root |-> call[w].previous]}
  /\ call' = [call EXCEPT ![w].pc = "root"]
  /\ UNCHANGED <<ledger, outcome, unsaved, saved, file>>

\* should_anchor: enough events since the last line of the file.
ShouldAnchor(k) ==
  /\ call[k].pc = "idle"
  /\ \E n \in Tips, hash \in Hashes :
       /\ IsTip(n, hash)
       /\ n >= Interval + (IF file = <<>> THEN 0 ELSE file[Len(file)].sequence)
  /\ call' = [call EXCEPT ![k].pc = "root"]
  /\ UNCHANGED <<ledger, outcome, unsaved, saved, books>>

Line(s) == [sequence |-> call[s].sequence, root |-> call[s].previous]

\* Mutant: the number of the line is read again from the ledger.
WriteLine_RereadsNumber(s) ==
  /\ call[s].pc = "line"
  /\ \E n \in Tips, hash \in Hashes :
       /\ IsTip(n, hash)
       /\ file' = Append(file, [Line(s) EXCEPT !.sequence = n])
  /\ UNCHANGED <<ledger, unsaved, saved, anchors>>

WriteLine(s) ==
  /\ call[s].pc = "line"
  /\ file' = Append(file, Line(s))
  /\ UNCHANGED <<ledger, unsaved, saved, anchors>>

\* create_anchor goes on without the line, and records its own event after it.
WriteAnchor(s) ==
  /\ \/ WriteLine(s)
     \/ /\ "file" \in Faults
        /\ call[s].pc = "line"
        /\ UNCHANGED <<ledger, unsaved, saved, books>>
  /\ IF s \in Keepers
     THEN call' = [call EXCEPT ![s] = Returned] /\ UNCHANGED outcome
     ELSE \E e \in Events : Begin(s, e)

AnchorStep(s) ==
  \/ s \in Writers /\ unsaved[s] = {} /\ ComputeRoot(s, "idle", "anchor")
  \/ s \in Keepers /\ ShouldAnchor(s)
  \/ CommitAnchor(s) \/ ComputeRoot(s, "root", "line") \/ WriteAnchor(s)

-----------------------------------------------------------------------------
LedgerInit ==
  /\ ledger = {}
  /\ call = [s \in Sessions |-> Returned]
  /\ outcome = [e \in Events |-> "new"]
  /\ unsaved = [s \in Sessions |-> {}]
  /\ saved = {}
  /\ anchors = {}
  /\ file = <<>>

LedgerNext ==
  \/ \E w \in Writers : AppendStep(w) \/ \E e \in Events : CallAppend(w, e)
  \/ \E s \in Sessions : AnchorStep(s)

LedgerSpec == LedgerInit /\ [][LedgerNext]_ledgerVars

\* A session goes on with the call it has begun.
FairLedgerSpec ==
  LedgerSpec /\ \A w \in Writers : WF_ledgerVars(AppendStep(w))

-----------------------------------------------------------------------------
(* Properties.                                                             *)

\* The previous hash that a row numbered n has to have.
Follows(n, hash) ==
  IF n = 1 THEN hash = Genesis ELSE \E q \in RowsAt(n - 1) : hash = q.current

\* What verify_chain checks, row by row: no number twice, none left out, the
\* previous hash that of the row before, the own hash right.  Sessions that read
\* the same tip, fail and retry never make it report tampering.
VerifyChain ==
  \A r \in ledger :
    /\ RowsAt(r.sequence) = {r}
    /\ Follows(r.sequence, r.previous)
    /\ r.current = CurrentHash(r.payload, r.previous)

\* verify_anchor_by_id and verify_anchor: the event at the anchored number has
\* the anchored hash, although tip, anchor row and line are read and written in
\* separate steps while others append.
VerifyAnchors ==
  \A a \in anchors \cup {file[i] : i \in DOMAIN file} :
    \E r \in RowsAt(a.sequence) : r.current = a.root

\* Every collision means that another session appended: of the attempts an
\* append has used up, those that did not end in an error of the database were
\* lost to as many appends that succeeded since it began.
CollisionsMeanProgress ==
  \A w \in Writers :
    call[w].pc # "idle" =>
      \E n \in Tips : n + 1 + call[w].failed >= call[w].since + call[w].attempt

(***************************************************************************)
(* Why the chain holds: what a session is about to insert follows a row    *)
(* that is there, and rows are never changed; whether its number is still  *)
(* free is for the unique constraint to say.  A root once read stays true. *)
(***************************************************************************)
CallOK(s) ==
  /\ call[s].pc \in {"read", "insert", "refresh"} => call[s].event # None
  /\ call[s].pc = "insert" =>
       call[s].sequence # 0 /\ Follows(call[s].sequence, call[s].previous)
  /\ call[s].pc \in {"anchor", "line"} =>
       \E r \in RowsAt(call[s].sequence) : r.current = call[s].previous

LedgerInv == TypeOK /\ VerifyChain /\ VerifyAnchors /\ \A s \in Sessions : CallOK(s)

\* The same before the collision: the number a session is about to insert is
\* past all those that made it retry.
ContentionInv ==
  /\ CollisionsMeanProgress
  /\ \A w \in Writers :
       /\ call[w].pc = "idle" => call[w].since + call[w].attempt = 1 /\ call[w].failed = 0
       /\ call[w].pc = "insert" => 
            call[w].sequence + call[w].failed >= call[w].since + call[w].attempt

\* Why the ledger is a log: its numbers have no gap, no two sessions append the
\* same event, and an event that is there already while a session is still to
\* insert it is one whose caller has had no answer.
InLedger(e) == \E r \in ledger : r.payload = e

Appending(s) == call[s].pc \in {"read", "insert", "refresh"}

LogInv ==
  /\ IsFiniteSet(ledger)
  /\ {r.sequence : r \in ledger} = 1 .. Cardinality(ledger)
  /\ \A s \in Sessions : Appending(s) =>
       /\ outcome[call[s].event] \in {"calling", "lost"}
       /\ call[s].pc = "refresh" => InLedger(call[s].event)
       /\ call[s].pc # "refresh" /\ InLedger(call[s].event) =>
            outcome[call[s].event] = "lost"
       /\ \A t \in Sessions \ {s} : Appending(t) => call[t].event # call[s].event
  /\ \A e \in Events : /\ outcome[e] = "new" => ~ InLedger(e)
                       /\ outcome[e] = "lost" => InLedger(e)

\* Every append_event returns or raises, whatever the others do.
AppendsEnd ==
  \A e \in Events : outcome[e] = "calling" ~> outcome[e] \in {"appended", "raised"}

Log == INSTANCE AppendOnlyLog WITH
  log <- [i \in 1 .. Cardinality(ledger) |-> (CHOOSE r \in RowsAt(i) : TRUE).payload],
  unanswered <- {e \in Events : outcome[e] = "lost"}

\* The ledger is an append-only log, with every fault: nothing in it changes, and
\* an event is recorded again only by a call whose earlier commit took effect
\* and was followed by an error.
ImplementsLog == Log!LogSpec
=============================================================================
