------------------------- MODULE AuditLedger_proofs -------------------------
(***************************************************************************)
(* Proofs about the audit ledger, for any number of sessions and events,   *)
(* and whatever faults the database has.                                   *)
(***************************************************************************)
EXTENDS AuditLedger, FiniteSetTheorems, TLAPS

-----------------------------------------------------------------------------
(* What a session reads of the tip.                                        *)

\* The tip that _get_latest_record returns is typed, its hash is what the next
\* row has to follow, and it is a row's unless the ledger is empty.
LEMMA TipFacts ==
  ASSUME TypeOK, NEW n, NEW hash, IsTip(n, hash)
  PROVE  /\ n \in Nat /\ hash \in Seq(Events)
         /\ Follows(n + 1, hash)
         /\ ledger # {} => \E r \in RowsAt(n) : r.current = hash
<1>1. CASE ledger = {}
  <2>1. n = 0 /\ hash = Genesis
    BY <1>1 DEF IsTip
  <2>2. <<>> \in Seq(Events)
    OBVIOUS
  <2>3. Follows(n + 1, hash)
    BY <2>1 DEF Follows
  <2> QED
    BY <1>1, <2>1, <2>2, <2>3 DEF Genesis
<1>2. CASE ledger # {}
  <2>1. PICK r \in ledger : n = r.sequence /\ hash = r.current
    BY <1>2 DEF IsTip
  <2>2. r \in Row
    BY DEF TypeOK
  <2>3. n \in Nat \ {0} /\ hash \in Seq(Events)
    BY <2>1, <2>2 DEF Row
  <2>4. n + 1 # 1 /\ (n + 1) - 1 = n
    BY <2>3
  <2>5. r \in RowsAt(n)
    BY <2>1 DEF RowsAt
  <2>6. Follows(n + 1, hash)
    BY <2>1, <2>4, <2>5 DEF Follows
  <2> QED
    BY <2>1, <2>3, <2>5, <2>6
<1> QED
  BY <1>1, <1>2

\* A row that is never changed keeps what follows it and what anchors it.
LEMMA GrowthKeeps ==
  ASSUME NEW n, NEW hash, ledger \subseteq ledger'
  PROVE  /\ Follows(n, hash) => Follows(n, hash)'
         /\ (\E r \in RowsAt(n) : r.current = hash) =>
              (\E r \in RowsAt(n)' : r.current = hash)
<1>1. RowsAt(n) \subseteq RowsAt(n)' /\ RowsAt(n - 1) \subseteq RowsAt(n - 1)'
  BY DEF RowsAt
<1> QED
  BY <1>1 DEF Follows, Genesis

\* A step of one session keeps the invariant if it keeps the types, the chain,
\* the anchors and what is said of that session.
LEMMA StepOf ==
  ASSUME LedgerInv, TypeOK', ledger \subseteq ledger', VerifyChain', VerifyAnchors',
         NEW w \in Sessions, \A s \in Sessions \ {w} : call'[s] = call[s], CallOK(w)'
  PROVE  LedgerInv'
<1>1. ASSUME NEW s \in Sessions, s # w PROVE CallOK(s)'
  <2>1. call'[s] = call[s]
    BY <1>1
  <2>2. CallOK(s)
    BY DEF LedgerInv
  <2>3. PICK n, hash : n = call[s].sequence /\ hash = call[s].previous
    OBVIOUS
  <2>4. /\ Follows(n, hash) => Follows(n, hash)'
        /\ (\E r \in RowsAt(n) : r.current = hash) =>
             (\E r \in RowsAt(n)' : r.current = hash)
    BY GrowthKeeps
  <2> QED
    BY <2>1, <2>2, <2>3, <2>4 DEF CallOK, Follows, RowsAt
<1> QED
  BY <1>1 DEF LedgerInv

LEMMA ChainKept ==
  ASSUME VerifyChain, ledger' = ledger
  PROVE  VerifyChain'
BY DEF VerifyChain, RowsAt, Follows

LEMMA AnchorsKept ==
  ASSUME VerifyAnchors, ledger \subseteq ledger', UNCHANGED books
  PROVE  VerifyAnchors'
<1> SUFFICES ASSUME NEW a \in anchors \cup {file[i] : i \in DOMAIN file}
             PROVE  \E r \in RowsAt(a.sequence)' : r.current = a.root
  BY DEF VerifyAnchors, RowsAt, books
<1>1. \E r \in RowsAt(a.sequence) : r.current = a.root
  BY DEF VerifyAnchors
<1> QED
  BY <1>1 DEF RowsAt

-----------------------------------------------------------------------------
(* append_event.                                                           *)

\* The unique constraint is what keeps the chain: a session that followed the
\* tip and finds its number free extends the chain.
LEMMA Insertion ==
  ASSUME LedgerInv, NEW w \in Writers, call[w].pc = "insert",
         RowsAt(call[w].sequence) = {}, ledger' = ledger \cup {NewRow(w)}
  PROVE  NewRow(w) \in Row /\ VerifyChain'
<1> DEFINE new == NewRow(w)
<1>1. w \in Sessions /\ call[w] \in CallRow
  BY DEF LedgerInv, TypeOK, Sessions
<1>2. /\ call[w].event \in Events /\ call[w].sequence \in Nat \ {0}
      /\ call[w].previous \in Seq(Events)
      /\ Follows(call[w].sequence, call[w].previous)
  BY <1>1 DEF LedgerInv, CallOK, CallRow
<1>3. /\ new.sequence = call[w].sequence /\ new.previous = call[w].previous
      /\ new.current = CurrentHash(new.payload, new.previous)
      /\ new.payload = call[w].event
  BY DEF NewRow
<1>4. CurrentHash(call[w].event, call[w].previous) \in Seq(Events)
  BY <1>2 DEF CurrentHash
<1>5. new \in Row
  BY <1>2, <1>4 DEF NewRow, Row
<1>6. \A n : RowsAt(n)' = IF n = new.sequence THEN {new} ELSE RowsAt(n)
  BY <1>3 DEF RowsAt
<1>7. \A n : RowsAt(n) \subseteq RowsAt(n)'
  BY DEF RowsAt
<1>8. ASSUME NEW r \in ledger'
      PROVE  /\ RowsAt(r.sequence)' = {r}
             /\ Follows(r.sequence, r.previous)'
             /\ r.current = CurrentHash(r.payload, r.previous)
  <2>1. CASE r = new
    <3>1. Follows(r.sequence, r.previous)'
      BY <2>1, <1>2, <1>3, <1>7 DEF Follows, Genesis
    <3> QED
      BY <2>1, <3>1, <1>3, <1>6
  <2>2. CASE r \in ledger
    <3>1. r \in RowsAt(r.sequence)
      BY <2>2 DEF RowsAt
    <3>2. r.sequence # new.sequence
      BY <3>1, <1>3
    <3>3. /\ RowsAt(r.sequence) = {r}
          /\ Follows(r.sequence, r.previous)
          /\ r.current = CurrentHash(r.payload, r.previous)
      BY <2>2 DEF LedgerInv, VerifyChain
    <3>4. Follows(r.sequence, r.previous)'
      BY <3>3, <1>7 DEF Follows, Genesis
    <3> QED
      BY <3>2, <3>3, <3>4, <1>6
  <2> QED
    BY <2>1, <2>2
<1> QED
  BY <1>5, <1>8 DEF VerifyChain, CurrentHash

\* A rollback leaves a session idle or reading again, with its event in hand.
LEMMA RetryFacts ==
  ASSUME TypeOK, NEW w \in Writers, call[w].event \in Events,
         NEW cause, Retry(w, cause)
  PROVE  /\ call' \in [Sessions -> CallRow]
         /\ outcome' \in [Events -> {"new", "calling", "lost", "appended", "raised"}]
         /\ unsaved' \in [Sessions -> SUBSET Companies]
         /\ \A s \in Sessions \ {w} : call'[s] = call[s]
         /\ call'[w].pc \in {"idle", "read"}
         /\ call'[w].pc = "read" => call'[w].event = call[w].event
<1>1. w \in Sessions /\ call[w] \in CallRow
  BY DEF TypeOK, Sessions
<1>2. Returned \in CallRow
  BY AuditLedgerAssumption DEF Returned, CallAt, CallRow, Genesis
<1>3. unsaved' \in [Sessions -> SUBSET Companies]
  BY DEF TypeOK, Retry
<1>4. CASE call[w].attempt = MaxRetries
  <2>1. /\ call' = [call EXCEPT ![w] = Returned]
        /\ outcome' = [outcome EXCEPT ![call[w].event] = "raised"]
    BY <1>4 DEF Retry
  <2>2. call'[w] = Returned
    BY <2>1, <1>1 DEF TypeOK
  <2> QED
    BY <2>1, <2>2, <1>1, <1>2, <1>3 DEF TypeOK, Returned, CallAt
<1>5. CASE call[w].attempt # MaxRetries
  <2>1. /\ call' = [call EXCEPT ![w] = Again(@, "read", cause)]
        /\ outcome' = [outcome EXCEPT ![call[w].event] = Standing(@, cause)]
    BY <1>5 DEF Retry
  <2>2. call[w].attempt + 1 \in 1 .. MaxRetries
    BY <1>1, <1>5, AuditLedgerAssumption DEF CallRow
  <2>3. call'[w] = Again(call[w], "read", cause)
    BY <2>1, <1>1 DEF TypeOK
  <2>4. call'[w] \in CallRow
    <3> DEFINE failed == IF cause = "collision" THEN call[w].failed
                                                ELSE call[w].failed + 1
    <3>1. failed \in Nat
      BY <1>1 DEF CallRow
    <3>2. call'[w] = [[[call[w] EXCEPT !.pc = "read"]
                         EXCEPT !.attempt = call[w].attempt + 1] EXCEPT !.failed = failed]
      BY <2>3 DEF Again
    <3> HIDE DEF failed
    <3>3. call'[w] = [pc |-> "read", event |-> call[w].event,
                      attempt |-> call[w].attempt + 1, since |-> call[w].since,
                      failed |-> failed, sequence |-> call[w].sequence,
                      previous |-> call[w].previous]
      BY <3>2, <1>1 DEF CallRow
    <3> QED
      BY <2>2, <3>1, <3>3, <1>1 DEF CallRow
  <2>5. call'[w].pc = "read" /\ call'[w].event = call[w].event
    BY <2>3, <1>1 DEF CallRow, Again
  <2>6. outcome' \in [Events -> {"new", "calling", "lost", "appended", "raised"}]
    BY <2>1 DEF TypeOK, Standing
  <2> QED
    BY <2>1, <2>4, <2>5, <2>6, <1>1, <1>3 DEF TypeOK
<1> QED
  BY <1>4, <1>5

\* The event of a session inside append_event.
LEMMA EventInHand ==
  ASSUME LedgerInv, NEW w \in Writers, call[w].pc \in {"read", "insert", "refresh"}
  PROVE  /\ w \in Sessions /\ call[w] \in CallRow /\ call[w].event \in Events
<1>1. w \in Sessions /\ call[w] \in CallRow /\ CallOK(w)
  BY DEF LedgerInv, TypeOK, Sessions
<1> QED
  BY <1>1 DEF CallOK, CallRow

LEMMA BeginStep ==
  ASSUME LedgerInv, NEW w \in Writers, NEW e \in Events, Begin(w, e)
  PROVE  /\ call' \in [Sessions -> CallRow]
         /\ outcome' \in [Events -> {"new", "calling", "lost", "appended", "raised"}]
         /\ \A s \in Sessions \ {w} : call'[s] = call[s]
         /\ call'[w].pc = "read" /\ call'[w].event = e
<1>1. TypeOK /\ w \in Sessions /\ call[w] \in CallRow
  BY DEF LedgerInv, TypeOK, Sessions
<1>2. PICK n \in Tips, hash \in Hashes :
        /\ IsTip(n, hash)
        /\ call' = [call EXCEPT ![w] = CallAt("read", e, n)]
  BY DEF Begin
<1>3. n \in Nat
  BY <1>1, <1>2, TipFacts
<1>4. CallAt("read", e, n) \in CallRow
  <2>1. Genesis \in Seq(Events) /\ 1 \in 1 .. MaxRetries /\ 0 \in Nat
    BY AuditLedgerAssumption DEF Genesis
  <2> QED
    BY <2>1, <1>3 DEF CallAt, CallRow
<1>5. call'[w] = CallAt("read", e, n)
  BY <1>1, <1>2 DEF TypeOK
<1>6. call' \in [Sessions -> CallRow] /\ \A s \in Sessions \ {w} : call'[s] = call[s]
  BY <1>1, <1>2, <1>4 DEF TypeOK
<1>7. outcome' \in [Events -> {"new", "calling", "lost", "appended", "raised"}]
  BY <1>1 DEF TypeOK, Begin
<1> QED
  BY <1>5, <1>6, <1>7 DEF CallAt

LEMMA CallAppendStep ==
  ASSUME LedgerInv, NEW w \in Writers, NEW e \in Events, CallAppend(w, e)
  PROVE  LedgerInv'
<1>1. Begin(w, e) /\ UNCHANGED <<ledger, unsaved, saved, books>>
  BY DEF CallAppend
<1>2. TypeOK'
  BY <1>1, BeginStep DEF LedgerInv, TypeOK, books
<1>3. VerifyChain' /\ VerifyAnchors'
  BY <1>1, ChainKept, AnchorsKept DEF LedgerInv
<1>4. CallOK(w)'
  BY <1>1, BeginStep, AuditLedgerAssumption DEF CallOK
<1> QED
  BY <1>1, <1>2, <1>3, <1>4, BeginStep, StepOf DEF Sessions

LEMMA ReadLatestStep ==
  ASSUME LedgerInv, NEW w \in Writers, ReadLatest(w)
  PROVE  LedgerInv'
<1>1. call[w].pc = "read" /\ UNCHANGED <<ledger, outcome, unsaved, saved, books>>
  BY DEF ReadLatest
<1>2. PICK n \in Tips, hash \in Hashes :
        /\ IsTip(n, hash)
        /\ call' = [call EXCEPT ![w].pc = "insert", ![w].sequence = n + 1,
                                ![w].previous = hash]
  BY DEF ReadLatest
<1>3. n \in Nat /\ hash \in Seq(Events) /\ Follows(n + 1, hash)
  BY <1>2, TipFacts DEF LedgerInv
<1>4. w \in Sessions /\ call[w] \in CallRow /\ call[w].event \in Events
  BY <1>1, EventInHand
<1>5. call'[w] = [call[w] EXCEPT !.pc = "insert", !.sequence = n + 1, !.previous = hash]
  BY <1>2, <1>4 DEF LedgerInv, TypeOK
<1>6. call'[w] \in CallRow
  <2>1. call'[w] = [pc |-> "insert", event |-> call[w].event,
                    attempt |-> call[w].attempt, since |-> call[w].since,
                    failed |-> call[w].failed, sequence |-> n + 1, previous |-> hash]
    BY <1>4, <1>5 DEF CallRow
  <2>2. n + 1 \in Nat
    BY <1>3
  <2> QED
    BY <1>3, <1>4, <2>1, <2>2 DEF CallRow
<1>7. call' \in [Sessions -> CallRow] /\ \A s \in Sessions \ {w} : call'[s] = call[s]
  BY <1>2, <1>4, <1>5, <1>6 DEF LedgerInv, TypeOK
<1>8. TypeOK'
  BY <1>1, <1>7 DEF LedgerInv, TypeOK, books
<1>9. VerifyChain' /\ VerifyAnchors'
  BY <1>1, ChainKept, AnchorsKept DEF LedgerInv
<1>10. /\ call'[w].pc = "insert" /\ call'[w].event = call[w].event
       /\ call'[w].sequence = n + 1 /\ call'[w].previous = hash
  BY <1>4, <1>5 DEF CallRow
<1>11. CallOK(w)'
  BY <1>1, <1>3, <1>4, <1>10, AuditLedgerAssumption DEF CallOK, Follows, RowsAt
<1> QED
  BY <1>1, <1>4, <1>7, <1>8, <1>9, <1>11, StepOf

LEMMA InsertRowStep ==
  ASSUME LedgerInv, NEW w \in Writers, InsertRow(w)
  PROVE  LedgerInv'
<1>1. /\ call[w].pc = "insert" /\ RowsAt(call[w].sequence) = {}
      /\ ledger' = ledger \cup {NewRow(w)}
      /\ saved' = saved \cup [company: unsaved[w], by: {w}]
      /\ unsaved' = [unsaved EXCEPT ![w] = {}]
      /\ call' = [call EXCEPT ![w].pc = "refresh"]
      /\ UNCHANGED books /\ UNCHANGED outcome
  BY DEF InsertRow, CommitAll
<1>2. w \in Sessions /\ call[w] \in CallRow /\ call[w].event \in Events
  BY <1>1, EventInHand
<1>3. NewRow(w) \in Row /\ VerifyChain'
  BY <1>1, Insertion
<1>4. VerifyAnchors'
  BY <1>1, AnchorsKept DEF LedgerInv
<1>5. call'[w] = [call[w] EXCEPT !.pc = "refresh"]
  BY <1>1, <1>2 DEF LedgerInv, TypeOK
<1>6. call' \in [Sessions -> CallRow] /\ \A s \in Sessions \ {w} : call'[s] = call[s]
  <2>1. call'[w] \in CallRow
    BY <1>2, <1>5 DEF CallRow
  <2> QED
    BY <1>1, <1>2, <2>1 DEF LedgerInv, TypeOK
<1>7. TypeOK'
  BY <1>1, <1>2, <1>3, <1>6 DEF LedgerInv, TypeOK, books
<1>8. CallOK(w)'
  BY <1>2, <1>5, AuditLedgerAssumption DEF CallOK, CallRow
<1> QED
  BY <1>1, <1>2, <1>3, <1>4, <1>6, <1>7, <1>8, StepOf

\* A rollback, with or without a commit before it that took effect.
LEMMA RetryStep ==
  ASSUME LedgerInv, NEW w \in Writers, call[w].pc \in {"read", "insert", "refresh"},
         NEW cause, Retry(w, cause), UNCHANGED books, ledger \subseteq ledger', ledger' \subseteq Row,
         VerifyChain', saved' \subseteq [company: Companies, by: Sessions]
  PROVE  LedgerInv'
<1>1. w \in Sessions /\ call[w] \in CallRow /\ call[w].event \in Events
  BY EventInHand
<1>2. /\ call' \in [Sessions -> CallRow]
      /\ outcome' \in [Events -> {"new", "calling", "lost", "appended", "raised"}]
      /\ unsaved' \in [Sessions -> SUBSET Companies]
      /\ \A s \in Sessions \ {w} : call'[s] = call[s]
      /\ call'[w].pc \in {"idle", "read"}
      /\ call'[w].pc = "read" => call'[w].event = call[w].event
  BY <1>1, RetryFacts DEF LedgerInv
<1>3. TypeOK'
  BY <1>2 DEF LedgerInv, TypeOK, books
<1>4. VerifyAnchors'
  BY AnchorsKept DEF LedgerInv
<1>5. CallOK(w)'
  BY <1>1, <1>2, AuditLedgerAssumption DEF CallOK
<1> QED
  BY <1>1, <1>2, <1>3, <1>4, <1>5, StepOf

LEMMA FailedStep ==
  ASSUME LedgerInv, NEW w \in Writers,
         InsertCollides(w) \/ DatabaseFails(w) \/ AckLost(w)
  PROVE  LedgerInv'
<1>1. CASE InsertCollides(w) \/ DatabaseFails(w)
  <2>1. PICK cause \in {"collision", "error", "lost"} :
          /\ Retry(w, cause) /\ UNCHANGED <<ledger, saved, books>>
          /\ call[w].pc \in {"read", "insert", "refresh"}
    BY <1>1 DEF InsertCollides, DatabaseFails
  <2>2. ledger' \subseteq Row /\ saved' \subseteq [company: Companies, by: Sessions]
    BY <2>1 DEF LedgerInv, TypeOK
  <2>3. VerifyChain'
    BY <2>1, ChainKept DEF LedgerInv
  <2> QED
    BY <2>1, <2>2, <2>3, RetryStep
<1>2. CASE AckLost(w)
  <2>1. /\ call[w].pc = "insert" /\ RowsAt(call[w].sequence) = {}
        /\ ledger' = ledger \cup {NewRow(w)}
        /\ saved' = saved \cup [company: unsaved[w], by: {w}]
        /\ UNCHANGED books /\ Retry(w, "lost")
    BY <1>2 DEF AckLost, CommitAll
  <2>2. NewRow(w) \in Row /\ VerifyChain'
    BY <2>1, Insertion
  <2>3. ledger' \subseteq Row /\ saved' \subseteq [company: Companies, by: Sessions]
    BY <2>1, <2>2 DEF LedgerInv, TypeOK, Sessions
  <2> QED
    BY <2>1, <2>2, <2>3, RetryStep
<1> QED
  BY <1>1, <1>2

LEMMA ReturnStep ==
  ASSUME LedgerInv, NEW w \in Writers, Return(w)
  PROVE  LedgerInv'
<1>1. /\ call[w].pc = "refresh"
      /\ call' = [call EXCEPT ![w] = Returned]
      /\ outcome' = [outcome EXCEPT ![call[w].event] = "appended"]
      /\ UNCHANGED <<ledger, unsaved, saved, books>>
  BY DEF Return
<1>2. w \in Sessions /\ call[w].event \in Events
  BY <1>1, EventInHand
<1>3. Returned \in CallRow
  BY AuditLedgerAssumption DEF Returned, CallAt, CallRow, Genesis
<1>4. TypeOK'
  BY <1>1, <1>2, <1>3 DEF LedgerInv, TypeOK, books
<1>5. VerifyChain' /\ VerifyAnchors'
  BY <1>1, ChainKept, AnchorsKept DEF LedgerInv
<1>6. call'[w] = Returned /\ \A s \in Sessions \ {w} : call'[s] = call[s]
  BY <1>1, <1>2 DEF LedgerInv, TypeOK
<1>7. CallOK(w)'
  BY <1>6 DEF CallOK, Returned, CallAt
<1> QED
  BY <1>1, <1>2, <1>4, <1>5, <1>6, <1>7, StepOf

-----------------------------------------------------------------------------
(* Anchors.                                                                *)

LEMMA ComputeRootStep ==
  ASSUME LedgerInv, NEW s \in Sessions, NEW from, NEW to \in {"anchor", "line"},
         ComputeRoot(s, from, to)
  PROVE  LedgerInv'
<1>1. /\ ledger # {} /\ UNCHANGED <<ledger, outcome, unsaved, saved, books>>
  BY DEF ComputeRoot
<1>2. PICK n \in Tips, hash \in Hashes :
        /\ IsTip(n, hash)
        /\ call' = [call EXCEPT ![s].pc = to, ![s].sequence = n, ![s].previous = hash]
  BY DEF ComputeRoot
<1>3. n \in Nat /\ hash \in Seq(Events) /\ \E r \in RowsAt(n) : r.current = hash
  BY <1>1, <1>2, TipFacts DEF LedgerInv
<1>4. call[s] \in CallRow
  BY DEF LedgerInv, TypeOK
<1>5. call'[s] = [call[s] EXCEPT !.pc = to, !.sequence = n, !.previous = hash]
  BY <1>2 DEF LedgerInv, TypeOK
<1>6. call'[s] = [pc |-> to, event |-> call[s].event, attempt |-> call[s].attempt,
                  since |-> call[s].since, failed |-> call[s].failed,
                  sequence |-> n, previous |-> hash]
  BY <1>4, <1>5 DEF CallRow
<1>7. call'[s] \in CallRow
  BY <1>3, <1>4, <1>6 DEF CallRow
<1>8. call' \in [Sessions -> CallRow] /\ \A t \in Sessions \ {s} : call'[t] = call[t]
  BY <1>2, <1>5, <1>7 DEF LedgerInv, TypeOK
<1>9. TypeOK'
  BY <1>1, <1>8 DEF LedgerInv, TypeOK, books
<1>10. VerifyChain' /\ VerifyAnchors'
  BY <1>1, ChainKept, AnchorsKept DEF LedgerInv
<1>11. CallOK(s)'
  BY <1>1, <1>3, <1>6 DEF CallOK, RowsAt
<1> QED
  BY <1>1, <1>8, <1>9, <1>10, <1>11, StepOf

\* A session that has the number and the hash of a row in hand may anchor it.
LEMMA RootInHand ==
  ASSUME LedgerInv, NEW s \in Sessions, call[s].pc \in {"anchor", "line"}
  PROVE  /\ Line(s) \in Anchor
         /\ \E r \in RowsAt(Line(s).sequence) : r.current = Line(s).root
<1>1. PICK r \in RowsAt(call[s].sequence) : r.current = call[s].previous
  BY DEF LedgerInv, CallOK
<1>2. r \in Row /\ r.sequence = call[s].sequence
  BY DEF RowsAt, LedgerInv, TypeOK
<1>3. call[s].sequence \in Nat \ {0} /\ call[s].previous \in Seq(Events)
  BY <1>1, <1>2 DEF Row
<1> QED
  BY <1>1, <1>3 DEF Line, Anchor

LEMMA CommitAnchorStep ==
  ASSUME LedgerInv, NEW s \in Sessions, CommitAnchor(s)
  PROVE  LedgerInv'
<1>1. /\ call[s].pc = "anchor"
      /\ anchors' = anchors \cup {Line(s)}
      /\ call' = [call EXCEPT ![s].pc = "root"]
      /\ UNCHANGED <<ledger, outcome, unsaved, saved, file>>
  BY DEF CommitAnchor, Line
<1>2. call[s] \in CallRow
  BY DEF LedgerInv, TypeOK
<1>3. call'[s] = [call[s] EXCEPT !.pc = "root"]
  BY <1>1 DEF LedgerInv, TypeOK
<1>4. call' \in [Sessions -> CallRow] /\ \A t \in Sessions \ {s} : call'[t] = call[t]
  <2>1. call'[s] \in CallRow
    BY <1>2, <1>3 DEF CallRow
  <2> QED
    BY <1>1, <2>1 DEF LedgerInv, TypeOK
<1>5. TypeOK'
  BY <1>1, <1>4, RootInHand DEF LedgerInv, TypeOK
<1>6. VerifyAnchors'
  <2> SUFFICES ASSUME NEW a \in anchors \cup {Line(s)} \cup {file[i] : i \in DOMAIN file}
               PROVE  \E r \in RowsAt(a.sequence) : r.current = a.root
    BY <1>1 DEF VerifyAnchors, RowsAt
  <2> QED
    BY <1>1, RootInHand DEF LedgerInv, VerifyAnchors
<1>7. VerifyChain'
  BY <1>1, ChainKept DEF LedgerInv
<1>8. CallOK(s)'
  BY <1>2, <1>3 DEF CallOK, CallRow
<1> QED
  BY <1>1, <1>4, <1>5, <1>6, <1>7, <1>8, StepOf

LEMMA ShouldAnchorStep ==
  ASSUME LedgerInv, NEW s \in Sessions, ShouldAnchor(s)
  PROVE  LedgerInv'
<1>1. /\ call' = [call EXCEPT ![s].pc = "root"]
      /\ UNCHANGED <<ledger, outcome, unsaved, saved, books>>
  BY DEF ShouldAnchor
<1>2. call[s] \in CallRow /\ call'[s] = [call[s] EXCEPT !.pc = "root"]
  BY <1>1 DEF LedgerInv, TypeOK
<1>3. call' \in [Sessions -> CallRow] /\ \A t \in Sessions \ {s} : call'[t] = call[t]
  <2>1. call'[s] \in CallRow
    BY <1>2 DEF CallRow
  <2> QED
    BY <1>1, <2>1 DEF LedgerInv, TypeOK
<1>4. TypeOK'
  BY <1>1, <1>3 DEF LedgerInv, TypeOK, books
<1>5. VerifyChain' /\ VerifyAnchors'
  BY <1>1, ChainKept, AnchorsKept DEF LedgerInv
<1>6. CallOK(s)'
  BY <1>2 DEF CallOK, CallRow
<1> QED
  BY <1>1, <1>3, <1>4, <1>5, <1>6, StepOf

LEMMA WriteAnchorStep ==
  ASSUME LedgerInv, NEW s \in Sessions, WriteAnchor(s)
  PROVE  LedgerInv'
<1>1. /\ call[s].pc = "line" /\ UNCHANGED <<ledger, unsaved, saved, anchors>>
      /\ file' = Append(file, Line(s)) \/ file' = file
  BY DEF WriteAnchor, WriteLine, books
<1>2. Line(s) \in Anchor /\ \E r \in RowsAt(Line(s).sequence) : r.current = Line(s).root
  BY <1>1, RootInHand
<1>3. file \in Seq(Anchor)
  BY DEF LedgerInv, TypeOK
<1>4. file' \in Seq(Anchor)
  BY <1>1, <1>2, <1>3
<1>5. \A i \in DOMAIN file' : file'[i] = Line(s) \/ \E k \in DOMAIN file : file'[i] = file[k]
  BY <1>1, <1>2, <1>3
<1>6. VerifyAnchors'
  <2> SUFFICES ASSUME NEW a \in anchors \cup {file'[i] : i \in DOMAIN file'}
               PROVE  \E r \in RowsAt(a.sequence) : r.current = a.root
    BY <1>1 DEF VerifyAnchors, RowsAt
  <2>1. a = Line(s) \/ a \in anchors \cup {file[i] : i \in DOMAIN file}
    BY <1>5
  <2> QED
    BY <2>1, <1>2 DEF LedgerInv, VerifyAnchors
<1>7. VerifyChain'
  BY <1>1, ChainKept DEF LedgerInv
<1>8. CASE s \in Keepers
  <2>1. call' = [call EXCEPT ![s] = Returned] /\ outcome' = outcome
    BY <1>8 DEF WriteAnchor
  <2>2. Returned \in CallRow
    BY AuditLedgerAssumption DEF Returned, CallAt, CallRow, Genesis
  <2>3. call'[s] = Returned /\ \A t \in Sessions \ {s} : call'[t] = call[t]
    BY <2>1 DEF LedgerInv, TypeOK
  <2>4. TypeOK'
    BY <1>1, <1>4, <2>1, <2>2 DEF LedgerInv, TypeOK
  <2>5. CallOK(s)'
    BY <2>3 DEF CallOK, Returned, CallAt
  <2> QED
    BY <1>1, <1>6, <1>7, <2>3, <2>4, <2>5, StepOf
<1>9. CASE s \notin Keepers
  <2>1. s \in Writers
    BY <1>9 DEF Sessions
  <2>2. PICK e \in Events : Begin(s, e)
    BY <1>9 DEF WriteAnchor
  <2>3. TypeOK'
    BY <1>1, <1>4, <2>1, <2>2, BeginStep DEF LedgerInv, TypeOK
  <2>4. CallOK(s)'
    BY <2>1, <2>2, BeginStep, AuditLedgerAssumption DEF CallOK
  <2>5. \A t \in Sessions \ {s} : call'[t] = call[t]
    BY <2>1, <2>2, BeginStep
  <2> QED
    BY <1>1, <1>6, <1>7, <2>3, <2>4, <2>5, StepOf
<1> QED
  BY <1>8, <1>9

-----------------------------------------------------------------------------
(* The invariant and what follows from it.                                 *)

LEMMA LedgerInvInit ==
  ASSUME LedgerInit
  PROVE  LedgerInv
<1>1. Returned \in CallRow
  BY AuditLedgerAssumption DEF Returned, CallAt, CallRow, Genesis
<1>2. TypeOK
  BY <1>1 DEF LedgerInit, TypeOK
<1>3. VerifyChain /\ VerifyAnchors
  BY DEF LedgerInit, VerifyChain, VerifyAnchors
<1>4. \A s \in Sessions : CallOK(s)
  BY DEF LedgerInit, CallOK, Returned, CallAt
<1> QED
  BY <1>2, <1>3, <1>4 DEF LedgerInv

LEMMA LedgerInvStep ==
  ASSUME LedgerInv, [LedgerNext]_ledgerVars
  PROVE  LedgerInv'
<1>1. ASSUME NEW w \in Writers, AppendStep(w) PROVE LedgerInv'
  BY <1>1, ReadLatestStep, InsertRowStep, FailedStep, ReturnStep DEF AppendStep
<1>2. ASSUME NEW w \in Writers, NEW e \in Events, CallAppend(w, e) PROVE LedgerInv'
  BY <1>2, CallAppendStep
<1>3. ASSUME NEW s \in Sessions, AnchorStep(s) PROVE LedgerInv'
  BY <1>3, ComputeRootStep, CommitAnchorStep, ShouldAnchorStep, WriteAnchorStep
     DEF AnchorStep
<1>4. CASE UNCHANGED ledgerVars
  <2>1. UNCHANGED <<ledger, call, outcome, unsaved, saved, anchors, file>>
    BY <1>4 DEF ledgerVars, books
  <2>2. TypeOK' /\ VerifyChain' /\ VerifyAnchors'
    BY <2>1, ChainKept, AnchorsKept DEF LedgerInv, TypeOK, books
  <2>3. \A s \in Sessions : CallOK(s)'
    BY <2>1 DEF LedgerInv, CallOK, Follows, RowsAt
  <2> QED
    BY <2>2, <2>3 DEF LedgerInv
<1> QED
  BY <1>1, <1>2, <1>3, <1>4 DEF LedgerNext

\* Whatever sessions do and the database fails at, the ledger has its types,
\* its chain and anchors verify, and what sessions hold of it is still true.
THEOREM LedgerInvariant == LedgerSpec => []LedgerInv
<1>1. LedgerInit => LedgerInv
  BY LedgerInvInit
<1>2. LedgerInv /\ [LedgerNext]_ledgerVars => LedgerInv'
  BY LedgerInvStep
<1> QED
  BY <1>1, <1>2, PTL DEF LedgerSpec

\* verify_chain never reports tampering on a ledger that append_event wrote.
THEOREM ChainVerifies == LedgerSpec => []VerifyChain
<1>1. LedgerInv => VerifyChain
  BY DEF LedgerInv
<1> QED
  BY <1>1, LedgerInvariant, PTL

\* Nor do verify_anchor and verify_anchor_by_id, for any anchor ever made.
THEOREM AnchorsVerify == LedgerSpec => []VerifyAnchors
<1>1. LedgerInv => VerifyAnchors
  BY DEF LedgerInv
<1> QED
  BY <1>1, LedgerInvariant, PTL

-----------------------------------------------------------------------------
(* Contention.                                                             *)

\* The tip that a session reads is not before any number it knows of.
LEMMA TipIsLast ==
  ASSUME TypeOK, NEW n, NEW hash, IsTip(n, hash), NEW m \in Tips
  PROVE  n \in Nat /\ m \in Nat /\ m <= n
<1>1. CASE ledger = {}
  BY <1>1 DEF IsTip, Tips
<1>2. CASE ledger # {}
  <2>1. PICK r \in ledger : n = r.sequence /\ \A q \in ledger : q.sequence <= r.sequence
    BY <1>2 DEF IsTip
  <2>2. \A q \in ledger : q.sequence \in Nat
    BY DEF TypeOK, Row
  <2> QED
    BY <2>1, <2>2 DEF Tips
<1> QED
  BY <1>1, <1>2

LEMMA ContentionStep ==
  ASSUME LedgerInv, LedgerInv', ContentionInv, [LedgerNext]_ledgerVars
  PROVE  ContentionInv'
<1> DEFINE Known(w) ==
             \E n \in Tips : n + 1 + call[w].failed >= call[w].since + call[w].attempt
           Ahead(w) == call[w].sequence + call[w].failed >= call[w].since + call[w].attempt
           Fine(w) == /\ call[w].pc = "idle" =>
                           call[w].since + call[w].attempt = 1 /\ call[w].failed = 0
                      /\ call[w].pc # "idle" => Known(w)
                      /\ call[w].pc = "insert" => Ahead(w)
<1>1. \A w \in Writers : Fine(w) /\ call[w] \in CallRow
  BY DEF ContentionInv, CollisionsMeanProgress, LedgerInv, TypeOK, Sessions
<1>2. \A s \in Sessions : call[s] \in CallRow
  BY DEF LedgerInv, TypeOK
<1>3. \A n \in Tips : n \in Nat
  BY DEF Tips, LedgerInv, TypeOK, Row
<1>4. 0 \in Tips
  BY DEF Tips
<1> SUFFICES ASSUME NEW w \in Writers PROVE Fine(w)'
  BY DEF ContentionInv, CollisionsMeanProgress
<1>5. ASSUME call'[w] = call[w], ledger \subseteq ledger' PROVE Fine(w)'
  <2>1. Tips \subseteq Tips'
    BY <1>5 DEF Tips
  <2> QED
    BY <2>1, <1>1, <1>5
<1>6. w \in Sessions /\ call \in [Sessions -> CallRow]
  BY DEF Sessions, LedgerInv, TypeOK
<1>7. ASSUME NEW e \in Events, Begin(w, e), ledger' = ledger PROVE Fine(w)'
  <2>1. PICK n \in Tips, hash \in Hashes :
          call' = [call EXCEPT ![w] = CallAt("read", e, n)]
    BY <1>7 DEF Begin
  <2>2. call'[w] = CallAt("read", e, n)
    BY <2>1, <1>6
  <2>3. n \in Tips'
    BY <1>7 DEF Tips
  <2> QED
    BY <2>2, <2>3, <1>3 DEF CallAt
<1>8. ASSUME ReadLatest(w) PROVE Fine(w)'
  <2>1. PICK n \in Tips, hash \in Hashes :
          /\ IsTip(n, hash)
          /\ call' = [call EXCEPT ![w].pc = "insert", ![w].sequence = n + 1,
                                  ![w].previous = hash]
    BY <1>8 DEF ReadLatest
  <2>2. call'[w] = [call[w] EXCEPT !.pc = "insert", !.sequence = n + 1, !.previous = hash]
    BY <2>1, <1>6
  <2>3. /\ call'[w].pc = "insert" /\ call'[w].sequence = n + 1
        /\ call'[w].since = call[w].since /\ call'[w].attempt = call[w].attempt
        /\ call'[w].failed = call[w].failed
    BY <2>2, <1>1 DEF CallRow
  <2>4. PICK m \in Tips : m + 1 + call[w].failed >= call[w].since + call[w].attempt
    BY <1>1, <1>8 DEF ReadLatest
  <2>5. n \in Nat /\ m \in Nat /\ m <= n
    BY <2>1, TipIsLast DEF LedgerInv
  <2>6. call[w].since \in Nat /\ call[w].attempt \in Nat /\ call[w].failed \in Nat
    BY <1>1 DEF CallRow
  <2>7. n + 1 + call[w].failed >= call[w].since + call[w].attempt
    BY <2>4, <2>5, <2>6
  <2>8. n \in Tips'
    BY <1>8 DEF ReadLatest, Tips
  <2> QED
    BY <2>3, <2>7, <2>8
<1>9. ASSUME InsertRow(w) PROVE Fine(w)'
  <2>1. call'[w] = [call[w] EXCEPT !.pc = "refresh"] /\ ledger \subseteq ledger'
    BY <1>9, <1>6 DEF InsertRow, CommitAll
  <2>2. /\ call'[w].pc = "refresh"
        /\ call'[w].since = call[w].since /\ call'[w].attempt = call[w].attempt
        /\ call'[w].failed = call[w].failed
    BY <2>1, <1>1 DEF CallRow
  <2>3. Known(w) /\ Tips \subseteq Tips'
    BY <1>1, <1>9, <2>1 DEF InsertRow, Tips
  <2> QED
    BY <2>2, <2>3
<1>10. ASSUME NEW cause, Retry(w, cause), call[w].pc \in {"read", "insert", "refresh"},
              Tips \subseteq Tips',
              cause = "collision" =>
                call[w].pc = "insert" /\ RowsAt(call[w].sequence) # {}
       PROVE  Fine(w)'
  <2>1. CASE call[w].attempt = MaxRetries
    <3>1. call'[w] = Returned
      BY <1>6, <1>10, <2>1 DEF Retry
    <3> QED
      BY <3>1 DEF Returned, CallAt
  <2>2. CASE call[w].attempt # MaxRetries
    <3>1. call'[w] = Again(call[w], "read", cause)
      BY <1>6, <1>10, <2>2 DEF Retry
    <3>2. /\ call'[w].pc = "read" /\ call'[w].since = call[w].since
          /\ call'[w].attempt = call[w].attempt + 1
          /\ call'[w].failed = IF cause = "collision" THEN call[w].failed
                                                      ELSE call[w].failed + 1
      BY <3>1, <1>1 DEF CallRow, Again
    <3>3. /\ call[w].since \in Nat /\ call[w].attempt \in Nat /\ call[w].failed \in Nat
          /\ call[w].sequence \in Nat
      BY <1>1 DEF CallRow
    <3>4. CASE cause = "collision"
      <4>1. call[w].sequence \in Tips'
        BY <1>10, <3>4 DEF Tips, RowsAt
      <4>2. call[w].sequence + 1 + call[w].failed >= call[w].since + (call[w].attempt + 1)
        BY <1>1, <1>10, <3>3, <3>4
      <4> QED
        BY <3>2, <3>4, <4>1, <4>2
    <3>5. CASE cause # "collision"
      <4>1. PICK n \in Tips : n + 1 + call[w].failed >= call[w].since + call[w].attempt
        BY <1>1, <1>10
      <4>2. n \in Nat /\ n \in Tips'
        BY <1>3, <1>10
      <4>3. n + 1 + (call[w].failed + 1) >= call[w].since + (call[w].attempt + 1)
        BY <3>3, <4>1, <4>2
      <4> QED
        BY <3>2, <3>5, <4>2, <4>3
    <3> QED
      BY <3>4, <3>5
  <2> QED
    BY <2>1, <2>2
<1>11. ASSUME Return(w) PROVE Fine(w)'
  <2>1. call'[w] = Returned
    BY <1>11, <1>6 DEF Return
  <2> QED
    BY <2>1 DEF Returned, CallAt
<1>12. ASSUME NEW from, NEW to \in {"anchor", "line"}, ComputeRoot(w, from, to)
       PROVE  Fine(w)'
  <2>1. PICK n \in Tips, hash \in Hashes :
          call' = [call EXCEPT ![w].pc = to, ![w].sequence = n, ![w].previous = hash]
    BY <1>12 DEF ComputeRoot
  <2>2. call'[w] = [call[w] EXCEPT !.pc = to, !.sequence = n, !.previous = hash]
    BY <2>1, <1>6
  <2>3. /\ call'[w].pc = to
        /\ call'[w].since = call[w].since /\ call'[w].attempt = call[w].attempt
        /\ call'[w].failed = call[w].failed
    BY <2>2, <1>1 DEF CallRow
  <2>4. Known(w)
    BY <1>1, <1>4
  <2>5. Tips' = Tips
    BY <1>12 DEF ComputeRoot, Tips
  <2> QED
    BY <2>3, <2>4, <2>5
<1>13. ASSUME CommitAnchor(w) PROVE Fine(w)'
  <2>1. call'[w] = [call[w] EXCEPT !.pc = "root"] /\ Tips' = Tips
    BY <1>13, <1>6 DEF CommitAnchor, Tips
  <2>2. /\ call'[w].pc = "root"
        /\ call'[w].since = call[w].since /\ call'[w].attempt = call[w].attempt
        /\ call'[w].failed = call[w].failed
    BY <2>1, <1>1 DEF CallRow
  <2>3. Known(w)
    BY <1>1, <1>13 DEF CommitAnchor
  <2> QED
    BY <2>1, <2>2, <2>3
<1>14. w \notin Keepers
  BY AuditLedgerAssumption
<1>15. ASSUME WriteAnchor(w) PROVE Fine(w)'
  <2>1. ledger' = ledger /\ \E e \in Events : Begin(w, e)
    BY <1>14, <1>15 DEF WriteAnchor, WriteLine
  <2> QED
    BY <2>1, <1>7
<1>16. ASSUME NEW v \in Writers, v # w, AppendStep(v)
       PROVE  call'[w] = call[w] /\ ledger \subseteq ledger'
  BY <1>6, <1>16
     DEF AppendStep, ReadLatest, InsertRow, InsertCollides, DatabaseFails, AckLost, Return,
         Retry, CommitAll
<1>17. ASSUME NEW v \in Writers, NEW e \in Events, v # w, CallAppend(v, e)
       PROVE  call'[w] = call[w] /\ ledger' = ledger
  BY <1>6, <1>17 DEF CallAppend, Begin
<1>18. ASSUME NEW s \in Sessions, s # w, AnchorStep(s)
       PROVE  call'[w] = call[w] /\ ledger' = ledger
  BY <1>6, <1>18
     DEF AnchorStep, ComputeRoot, ShouldAnchor, CommitAnchor, WriteAnchor, WriteLine, Begin,
         books
<1>19. CASE \E v \in Writers : AppendStep(v) \/ \E e \in Events : CallAppend(v, e)
  <2>1. PICK v \in Writers : AppendStep(v) \/ \E e \in Events : CallAppend(v, e)
    BY <1>19
  <2>2. CASE v # w
    BY <2>1, <2>2, <1>5, <1>16, <1>17
  <2>3. CASE v = w /\ AppendStep(w)
    <3>1. CASE InsertCollides(w)
      BY <1>10, <3>1 DEF InsertCollides, Tips
    <3>2. CASE DatabaseFails(w)
      BY <1>10, <3>2 DEF DatabaseFails, Tips
    <3>3. CASE AckLost(w)
      BY <1>10, <3>3 DEF AckLost, CommitAll, Tips
    <3> QED
      BY <2>3, <3>1, <3>2, <3>3, <1>8, <1>9, <1>11 DEF AppendStep
  <2>4. CASE v = w /\ \E e \in Events : CallAppend(w, e)
    BY <2>4, <1>7 DEF CallAppend
  <2> QED
    BY <2>1, <2>2, <2>3, <2>4
<1>20. CASE \E s \in Sessions : AnchorStep(s)
  <2>1. PICK s \in Sessions : AnchorStep(s)
    BY <1>20
  <2>2. CASE s # w
    BY <2>1, <2>2, <1>5, <1>18
  <2>3. CASE s = w
    BY <2>1, <2>3, <1>12, <1>13, <1>14, <1>15 DEF AnchorStep
  <2> QED
    BY <2>2, <2>3
<1>21. CASE UNCHANGED ledgerVars
  BY <1>5, <1>21 DEF ledgerVars
<1> QED
  BY <1>19, <1>20, <1>21 DEF LedgerNext

\* Every collision of an append means that another one succeeded, whatever else
\* fails: MaxRetries of them are needed to make one give up for contention alone.
THEOREM ContentionIsProgress == LedgerSpec => []CollisionsMeanProgress
<1>1. LedgerInit => ContentionInv
  BY AuditLedgerAssumption
     DEF LedgerInit, ContentionInv, CollisionsMeanProgress, Returned, CallAt, Sessions
<1>2. LedgerInv /\ LedgerInv' /\ ContentionInv /\ [LedgerNext]_ledgerVars => ContentionInv'
  BY ContentionStep
<1>3. ContentionInv => CollisionsMeanProgress
  BY DEF ContentionInv
<1> QED
  BY <1>1, <1>2, <1>3, LedgerInvariant, PTL DEF LedgerSpec
-----------------------------------------------------------------------------
(* The ledger is an append-only log.                                       *)

Entry(i) == (CHOOSE r \in RowsAt(i) : TRUE).payload
TheLog == [i \in 1 .. Cardinality(ledger) |-> Entry(i)]
Lost == {e \in Events : outcome[e] = "lost"}

LEMMA LogTypes ==
  ASSUME LedgerInv, LogInv
  PROVE  /\ Cardinality(ledger) \in Nat
         /\ Len(TheLog) = Cardinality(ledger)
         /\ TheLog \in Seq({Entry(i) : i \in 1 .. Cardinality(ledger)})
<1>1. Cardinality(ledger) \in Nat
  BY FS_CardinalityType DEF LogInv
<1>2. TheLog \in Seq({Entry(i) : i \in 1 .. Cardinality(ledger)})
  BY <1>1 DEF TheLog
<1>3. Len(TheLog) = Cardinality(ledger)
  BY <1>1 DEF TheLog
<1> QED
  BY <1>1, <1>2, <1>3

\* The entry of a row is its payload.
LEMMA EntryOf ==
  ASSUME VerifyChain, NEW r \in ledger
  PROVE  Entry(r.sequence) = r.payload
<1>1. RowsAt(r.sequence) = {r}
  BY DEF VerifyChain
<1> QED
  BY <1>1 DEF Entry

\* What the log has recorded is what the ledger holds.
LEMMA RecordedIs ==
  ASSUME LedgerInv, LogInv, NEW e
  PROVE  Log!Recorded(e) <=> InLedger(e)
<1> DEFINE N == Cardinality(ledger)
<1>1. N \in Nat /\ Len(TheLog) = N
  BY LogTypes
<1>2. Log!Recorded(e) <=> \E i \in 1 .. Len(TheLog) : TheLog[i] = e
  BY DEF Log!Recorded, TheLog, Entry
<1>3. \A i \in 1 .. N : TheLog[i] = Entry(i)
  BY DEF TheLog
<1>4. ASSUME InLedger(e) PROVE \E i \in 1 .. N : Entry(i) = e
  <2>1. PICK r \in ledger : r.payload = e
    BY <1>4 DEF InLedger
  <2>2. r.sequence \in 1 .. N /\ Entry(r.sequence) = e
    BY <2>1, EntryOf DEF LedgerInv, LogInv
  <2> QED
    BY <2>2
<1>5. ASSUME NEW i \in 1 .. N, Entry(i) = e PROVE InLedger(e)
  <2>1. PICK r \in ledger : r.sequence = i
    BY DEF LogInv
  <2>2. Entry(i) = r.payload
    BY <2>1, EntryOf DEF LedgerInv
  <2> QED
    BY <1>5, <2>2 DEF InLedger
<1> HIDE DEF N
<1> QED
  BY <1>1, <1>2, <1>3, <1>4, <1>5

\* A row whose number was free has the number after the last, and its event is
\* the new last entry.
LEMMA LogGrows ==
  ASSUME LedgerInv, LogInv, NEW w \in Writers, call[w].pc = "insert",
         RowsAt(call[w].sequence) = {}, ledger' = ledger \cup {NewRow(w)}
  PROVE  /\ IsFiniteSet(ledger)'
         /\ ({r.sequence : r \in ledger} = 1 .. Cardinality(ledger))'
         /\ TheLog' = Append(TheLog, call[w].event)
         /\ \A e : InLedger(e)' <=> InLedger(e) \/ e = call[w].event
<1> DEFINE N == Cardinality(ledger)
           new == NewRow(w)
<1>1. w \in Sessions /\ call[w] \in CallRow /\ CallOK(w)
  BY DEF LedgerInv, TypeOK, Sessions
<1>2. /\ call[w].sequence \in Nat \ {0}
      /\ Follows(call[w].sequence, call[w].previous)
  BY <1>1 DEF CallOK, CallRow
<1>3. new.sequence = call[w].sequence /\ new.payload = call[w].event
  BY DEF NewRow
<1>4. N \in Nat /\ IsFiniteSet(ledger)
  BY LogTypes DEF LogInv
<1>5. \A n : RowsAt(n) # {} <=> n \in 1 .. N
  BY DEF LogInv, RowsAt
<1>6. call[w].sequence = N + 1
  <2>1. call[w].sequence \notin 1 .. N
    BY <1>5
  <2>2. call[w].sequence = 1 \/ call[w].sequence - 1 \in 1 .. N
    BY <1>2, <1>5 DEF Follows
  <2> HIDE DEF N
  <2> QED
    BY <2>1, <2>2, <1>2, <1>4
<1>7. new \notin ledger
  BY <1>3 DEF RowsAt
<1>8. IsFiniteSet(ledger)' /\ Cardinality(ledger)' = N + 1
  BY <1>4, <1>7, FS_AddElement
<1>9. {r.sequence : r \in ledger'} = {r.sequence : r \in ledger} \cup {N + 1}
  BY <1>3, <1>6
<1>10. (1 .. N) \cup {N + 1} = 1 .. N + 1
  BY <1>4
<1>11. ({r.sequence : r \in ledger} = 1 .. Cardinality(ledger))'
  BY <1>8, <1>9, <1>10 DEF LogInv
<1>12. \A n : RowsAt(n)' = IF n = N + 1 THEN {new} ELSE RowsAt(n)
  <2>1. RowsAt(N + 1) = {}
    BY <1>6
  <2> QED
    BY <1>3, <1>6, <2>1 DEF RowsAt
<1>13. \A i : Entry(i)' = IF i = N + 1 THEN new.payload ELSE Entry(i)
  <2> SUFFICES ASSUME NEW i
               PROVE  Entry(i)' = IF i = N + 1 THEN new.payload ELSE Entry(i)
    OBVIOUS
  <2>1. CASE i = N + 1
    <3>1. RowsAt(i)' = {new}
      BY <1>12, <2>1
    <3>2. (CHOOSE r \in {new} : TRUE) = new
      OBVIOUS
    <3> QED
      BY <2>1, <3>1, <3>2 DEF Entry
  <2>2. CASE i # N + 1
    <3>1. RowsAt(i)' = RowsAt(i)
      BY <1>12, <2>2
    <3> QED
      BY <2>2, <3>1 DEF Entry
  <2> QED
    BY <2>1, <2>2
<1>14. TheLog' = Append(TheLog, call[w].event)
  <2>1. TheLog' = [i \in 1 .. N + 1 |-> Entry(i)']
    BY <1>8 DEF TheLog
  <2>2. TheLog = [i \in 1 .. N |-> Entry(i)]
    BY DEF TheLog
  <2>3. PICK S : TheLog \in Seq(S) /\ call[w].event \in S
    <3>1. TheLog \in Seq({Entry(i) : i \in 1 .. N} \cup {call[w].event})
      BY LogTypes
    <3> QED
      BY <3>1
  <2>4. Len(TheLog) = N
    BY LogTypes
  <2>5. /\ Append(TheLog, call[w].event) \in Seq(S)
        /\ Len(Append(TheLog, call[w].event)) = N + 1
        /\ \A i \in 1 .. N : Append(TheLog, call[w].event)[i] = TheLog[i]
        /\ Append(TheLog, call[w].event)[N + 1] = call[w].event
    BY <2>3, <2>4, <1>4
  <2>6. \A i \in 1 .. N + 1 : TheLog'[i] = Append(TheLog, call[w].event)[i]
    <3> SUFFICES ASSUME NEW i \in 1 .. N + 1
                 PROVE  TheLog'[i] = Append(TheLog, call[w].event)[i]
      OBVIOUS
    <3>1. TheLog'[i] = Entry(i)'
      BY <2>1
    <3>2. i = N + 1 \/ (i \in 1 .. N /\ i # N + 1)
      BY <1>4
    <3>3. CASE i = N + 1
      BY <3>1, <3>3, <2>5, <1>3, <1>13
    <3>4. CASE i \in 1 .. N /\ i # N + 1
      <4>1. TheLog[i] = Entry(i) /\ Entry(i)' = Entry(i)
        BY <3>4, <2>2, <1>13
      <4>2. Append(TheLog, call[w].event)[i] = TheLog[i]
        BY <3>4, <2>5
      <4> QED
        BY <3>1, <4>1, <4>2
    <3> HIDE DEF N
    <3> QED
      BY <3>2, <3>3, <3>4
  <2>7. Append(TheLog, call[w].event) =
          [i \in 1 .. N + 1 |-> Append(TheLog, call[w].event)[i]]
    <3> DEFINE longer == Append(TheLog, call[w].event)
    <3>1. longer \in Seq(S) /\ Len(longer) = N + 1
      BY <2>5
    <3> HIDE DEF longer
    <3>2. longer = [i \in 1 .. N + 1 |-> longer[i]]
      BY <3>1
    <3> QED
      BY <3>2 DEF longer
  <2> QED
    BY <2>1, <2>6, <2>7
<1>15. \A e : InLedger(e)' <=> InLedger(e) \/ e = call[w].event
  BY <1>3 DEF InLedger
<1> QED
  BY <1>8, <1>11, <1>14, <1>15
\* What a step has to be for the log: nothing, a record, or a doubt.
Abstractly ==
  \/ \E e \in Events : Log!Record(e) \/ Log!Doubt(e)
  \/ UNCHANGED <<TheLog, Lost>>

LEMMA LostIs ==
  ASSUME NEW e \in Events, \A d \in Events \ {e} : outcome'[d] = outcome[d]
  PROVE  Lost' = IF outcome'[e] = "lost" THEN Lost \cup {e} ELSE Lost \ {e}
BY DEF Lost

LEMMA RecordStep ==
  ASSUME LedgerInv, LogInv, NEW e \in Events, InLedger(e) => outcome[e] = "lost",
         \A d \in Events \ {e} : outcome'[d] = outcome[d], TheLog' = Append(TheLog, e)
  PROVE  Abstractly
<1>1. Log!Recorded(e) => e \in Lost
  BY RecordedIs DEF Lost
<1>2. Lost' \in {Lost, Lost \cup {e}, Lost \ {e}}
  BY LostIs
<1>3. Log!Record(e)
  BY <1>1, <1>2 DEF Log!Record, TheLog, Entry, Lost
<1> QED
  BY <1>3 DEF Abstractly

\* A call that ends or fails changes the standing of its own event only.
LEMMA DoubtStep ==
  ASSUME LedgerInv, LogInv, NEW e \in Events, TheLog' = TheLog,
         outcome[e] = "lost" \/ outcome'[e] = "lost" => InLedger(e),
         \A d \in Events \ {e} : outcome'[d] = outcome[d]
  PROVE  Abstractly
<1>1. CASE InLedger(e)
  <2>1. Log!Recorded(e)
    BY <1>1, RecordedIs
  <2>2. Lost' \in {Lost \cup {e}, Lost \ {e}}
    BY LostIs
  <2>3. Log!Doubt(e)
    BY <2>1, <2>2 DEF Log!Doubt, TheLog, Entry, Lost
  <2> QED
    BY <2>3 DEF Abstractly
<1>2. CASE ~ InLedger(e)
  <2>1. Lost' = Lost
    BY <1>2 DEF Lost
  <2> QED
    BY <2>1 DEF Abstractly
<1> QED
  BY <1>1, <1>2

\* The event of a session inside append_event is an event, whoever it is.
LEMMA EventOf ==
  ASSUME LedgerInv, NEW s \in Sessions, Appending(s)
  PROVE  call[s].event \in Events
BY DEF LedgerInv, TypeOK, CallRow, CallOK, Appending

\* A step of an append keeps LogInv if it does so for its own event.
LEMMA AppendKeeps ==
  ASSUME LedgerInv, LogInv, NEW w \in Sessions, Appending(w), NEW e, e = call[w].event,
         \A s \in Sessions \ {w} : call'[s] = call[s],
         \A d \in Events \ {e} : outcome'[d] = outcome[d] /\ (InLedger(d)' <=> InLedger(d)),
         IsFiniteSet(ledger)', ({r.sequence : r \in ledger} = 1 .. Cardinality(ledger))',
         outcome'[e] # "new", outcome'[e] = "lost" => InLedger(e)',
         Appending(w)' =>
           /\ call'[w].event = e
           /\ outcome'[e] \in {"calling", "lost"}
           /\ call'[w].pc = "refresh" => InLedger(e)'
           /\ call'[w].pc # "refresh" /\ InLedger(e)' => outcome'[e] = "lost"
  PROVE  LogInv'
<1> DEFINE Good(d, pc) == /\ outcome[d] \in {"calling", "lost"}
                          /\ pc = "refresh" => InLedger(d)
                          /\ pc # "refresh" /\ InLedger(d) => outcome[d] = "lost"
           Better(d, pc) == /\ outcome'[d] \in {"calling", "lost"}
                            /\ pc = "refresh" => InLedger(d)'
                            /\ pc # "refresh" /\ InLedger(d)' => outcome'[d] = "lost"
<1>1. e \in Events
  BY EventOf
<1>2. ASSUME NEW s \in Sessions \ {w}, Appending(s)'
      PROVE  /\ Appending(s) /\ call'[s] = call[s]
             /\ call[s].event \in Events \ {e}
  <2>1. call'[s] = call[s]
    OBVIOUS
  <2>2. Appending(s)
    BY <1>2, <2>1 DEF Appending
  <2>3. call[s].event # e
    BY <2>2 DEF LogInv
  <2> QED
    BY <2>1, <2>2, <2>3, EventOf
<1>3. ASSUME NEW s \in Sessions, Appending(s)', NEW d, d = call'[s].event
      PROVE  Better(d, call'[s].pc)
  <2>1. CASE s = w
    BY <1>3, <2>1
  <2>2. CASE s # w
    <3>1. Appending(s) /\ call'[s] = call[s] /\ d \in Events \ {e} /\ d = call[s].event
      BY <1>2, <1>3, <2>2
    <3>2. Good(d, call[s].pc)
      BY <3>1 DEF LogInv
    <3>3. outcome'[d] = outcome[d] /\ (InLedger(d)' <=> InLedger(d))
      BY <3>1
    <3> QED
      BY <3>1, <3>2, <3>3
  <2> QED
    BY <2>1, <2>2
<1>4. \A s \in Sessions : Appending(s)' =>
        \A t \in Sessions \ {s} : Appending(t)' => call'[t].event # call'[s].event
  <2> SUFFICES ASSUME NEW s \in Sessions, Appending(s)', NEW t \in Sessions \ {s},
                      Appending(t)'
               PROVE  call'[t].event # call'[s].event
    OBVIOUS
  <2>1. CASE s = w
    BY <2>1, <1>2
  <2>2. CASE t = w
    BY <2>2, <1>2
  <2>3. CASE s # w /\ t # w
    <3>1. Appending(s) /\ Appending(t) /\ call'[s] = call[s] /\ call'[t] = call[t]
      BY <2>3, <1>2
    <3> QED
      BY <3>1 DEF LogInv
  <2> QED
    BY <2>1, <2>2, <2>3
<1>5. ASSUME NEW d \in Events
      PROVE  /\ outcome'[d] = "new" => ~ InLedger(d)'
             /\ outcome'[d] = "lost" => InLedger(d)'
  <2>1. CASE d = e
    BY <2>1
  <2>2. CASE d # e
    BY <2>2 DEF LogInv
  <2> QED
    BY <2>1, <2>2
<1>6. \A s \in Sessions : Appending(s)' =>
        /\ outcome'[call'[s].event] \in {"calling", "lost"}
        /\ call'[s].pc = "refresh" => InLedger(call[s].event)'
        /\ call'[s].pc # "refresh" /\ InLedger(call[s].event)' =>
             outcome'[call'[s].event] = "lost"
  <2> SUFFICES ASSUME NEW s \in Sessions, Appending(s)'
               PROVE  /\ outcome'[call'[s].event] \in {"calling", "lost"}
                      /\ call'[s].pc = "refresh" => InLedger(call[s].event)'
                      /\ call'[s].pc # "refresh" /\ InLedger(call[s].event)' =>
                           outcome'[call'[s].event] = "lost"
    OBVIOUS
  <2>1. PICK d : d = call'[s].event
    OBVIOUS
  <2>2. Better(d, call'[s].pc)
    BY <1>3, <2>1
  <2>3. InLedger(d)' <=> InLedger(call[s].event)'
    BY <2>1 DEF InLedger
  <2> QED
    BY <2>1, <2>2, <2>3
<1> QED
  BY <1>4, <1>5, <1>6 DEF LogInv

\* Nor does a step with no append in it touch the log.
LEMMA AsideKeeps ==
  ASSUME LedgerInv, LogInv, NEW w \in Sessions,
         \A s \in Sessions \ {w} : call'[s] = call[s], ~ Appending(w)',
         UNCHANGED <<ledger, outcome>>
  PROVE  LogInv' /\ Abstractly
<1>1. \A s \in Sessions : Appending(s)' => call'[s] = call[s] /\ Appending(s)
  BY DEF Appending
<1>2. \A d : InLedger(d)' <=> InLedger(d)
  BY DEF InLedger
<1>3. LogInv'
  BY <1>1, <1>2 DEF LogInv, Appending, InLedger
<1>4. UNCHANGED <<TheLog, Lost>>
  BY DEF TheLog, Lost, Entry, RowsAt
<1> QED
  BY <1>3, <1>4 DEF Abstractly
\* A new append takes an event that nobody appends and that is not there.
LEMMA BeginLogs ==
  ASSUME LedgerInv, LogInv, NEW w \in Writers, NEW e \in Events, Begin(w, e), ledger' = ledger
  PROVE  LogInv' /\ Abstractly
<1>1. /\ \A s \in Sessions \ {w} : call'[s] = call[s]
      /\ call'[w].pc = "read" /\ call'[w].event = e
  BY BeginStep
<1>2. /\ outcome[e] = "new" /\ outcome'[e] = "calling"
      /\ \A d \in Events \ {e} : outcome'[d] = outcome[d]
  BY DEF Begin, LedgerInv, TypeOK
<1>3. \A d : InLedger(d)' <=> InLedger(d)
  BY DEF InLedger
<1>4. ~ InLedger(e)
  BY <1>2 DEF LogInv
<1>5. \A s \in Sessions : Appending(s) => call[s].event \in Events \ {e}
  BY <1>2, EventOf DEF LogInv
<1>6. \A s \in Sessions \ {w} : Appending(s)' <=> Appending(s)
  BY <1>1 DEF Appending
<1>7. ASSUME NEW s \in Sessions, Appending(s)', NEW d, d = call'[s].event
      PROVE  /\ outcome'[d] \in {"calling", "lost"}
             /\ call'[s].pc = "refresh" => InLedger(d)'
             /\ call'[s].pc # "refresh" /\ InLedger(d)' => outcome'[d] = "lost"
             /\ \A t \in Sessions \ {s} : Appending(t)' => call'[t].event # d
  <2>1. CASE s = w
    BY <2>1, <1>1, <1>2, <1>3, <1>4, <1>5, <1>6, <1>7
  <2>2. CASE s # w
    <3>1. Appending(s) /\ call'[s] = call[s] /\ d = call[s].event /\ d \in Events \ {e}
      BY <2>2, <1>1, <1>5, <1>6, <1>7
    <3>2. /\ outcome[d] \in {"calling", "lost"}
          /\ call[s].pc = "refresh" => InLedger(d)
          /\ call[s].pc # "refresh" /\ InLedger(d) => outcome[d] = "lost"
          /\ \A t \in Sessions \ {s} : Appending(t) => call[t].event # d
      BY <3>1 DEF LogInv
    <3> QED
      BY <3>1, <3>2, <1>1, <1>2, <1>3, <1>6
  <2> QED
    BY <2>1, <2>2
<1>8. \A s \in Sessions : InLedger(call[s].event)' <=> \E d : d = call'[s].event /\ InLedger(d)'
  BY DEF InLedger
<1>9. \A d \in Events : /\ outcome'[d] = "new" => ~ InLedger(d)'
                        /\ outcome'[d] = "lost" => InLedger(d)'
  BY <1>2, <1>3 DEF LogInv
<1>10. IsFiniteSet(ledger)' /\ ({r.sequence : r \in ledger} = 1 .. Cardinality(ledger))'
  BY DEF LogInv
<1>11. LogInv'
  BY <1>7, <1>8, <1>9, <1>10 DEF LogInv
<1>12. TheLog' = TheLog /\ Lost' = Lost
  BY <1>2 DEF TheLog, Entry, RowsAt, Lost
<1> QED
  BY <1>11, <1>12 DEF Abstractly

\* A rollback, with or without a commit of the row before it.
LEMMA RetryLogs ==
  ASSUME LedgerInv, LogInv, NEW w \in Writers, Appending(w), NEW cause, Retry(w, cause),
         NEW e, e = call[w].event,
         cause = "lost" => InLedger(e)',
         InLedger(e)' => outcome[e] = "lost" \/ cause = "lost",
         \A d \in Events : InLedger(d) => InLedger(d)',
         \A d \in Events \ {e} : InLedger(d)' <=> InLedger(d),
         IsFiniteSet(ledger)', ({r.sequence : r \in ledger} = 1 .. Cardinality(ledger))'
  PROVE  /\ LogInv'
         /\ \A d \in Events \ {e} : outcome'[d] = outcome[d]
         /\ outcome'[e] = "lost" => outcome[e] = "lost" \/ cause = "lost"
<1>1. w \in Sessions /\ call[w] \in CallRow /\ e \in Events
  BY EventInHand DEF Appending
<1>2. /\ \A s \in Sessions \ {w} : call'[s] = call[s]
      /\ call'[w].pc \in {"idle", "read"}
      /\ call'[w].pc = "read" => call'[w].event = e
  BY <1>1, RetryFacts DEF LedgerInv
<1>3. outcome[e] \in {"calling", "lost"}
  BY <1>1 DEF LogInv
<1>4. /\ \A d \in Events \ {e} : outcome'[d] = outcome[d]
      /\ outcome'[e] = IF call[w].attempt = MaxRetries THEN "raised"
                       ELSE IF cause = "lost" THEN "lost" ELSE outcome[e]
      /\ call[w].attempt = MaxRetries => call'[w].pc = "idle"
  <2>1. CASE call[w].attempt = MaxRetries
    BY <2>1, <1>1 DEF Retry, LedgerInv, TypeOK, Returned, CallAt
  <2>2. CASE call[w].attempt # MaxRetries
    BY <2>2, <1>1 DEF Retry, LedgerInv, TypeOK, Standing
  <2> QED
    BY <2>1, <2>2
<1>5. Appending(w)' => call'[w].pc = "read" /\ outcome'[e] \in {"calling", "lost"}
  BY <1>2, <1>3, <1>4 DEF Appending
<1>6. outcome'[e] = "lost" => InLedger(e)'
  BY <1>1, <1>4 DEF LogInv
<1>7. InLedger(e)' /\ Appending(w)' => outcome'[e] = "lost"
  BY <1>4, <1>5
<1>8. outcome'[e] # "new"
  BY <1>3, <1>4
<1>9. LogInv'
  BY <1>1, <1>2, <1>4, <1>5, <1>6, <1>7, <1>8, AppendKeeps
<1> QED
  BY <1>4, <1>9
LEMMA AppendLogs ==
  ASSUME LedgerInv, LogInv, NEW w \in Writers, AppendStep(w)
  PROVE  LogInv' /\ Abstractly
<1>1. Appending(w)
  BY DEF AppendStep, ReadLatest, InsertRow, InsertCollides, DatabaseFails, AckLost, Return,
         Appending
<1>2. PICK e \in Events : e = call[w].event
  BY <1>1, EventInHand DEF Appending
<1>3. w \in Sessions /\ call \in [Sessions -> CallRow] /\ call[w] \in CallRow
  BY DEF Sessions, LedgerInv, TypeOK
<1>4. /\ outcome[e] \in {"calling", "lost"}
      /\ call[w].pc = "refresh" => InLedger(e)
      /\ call[w].pc # "refresh" /\ InLedger(e) => outcome[e] = "lost"
  BY <1>1, <1>2, <1>3 DEF LogInv
<1>5. IsFiniteSet(ledger) /\ {r.sequence : r \in ledger} = 1 .. Cardinality(ledger)
  BY DEF LogInv
<1>6. ASSUME UNCHANGED ledger
      PROVE  /\ \A d : InLedger(d)' <=> InLedger(d)
             /\ TheLog' = TheLog
             /\ IsFiniteSet(ledger)'
             /\ ({r.sequence : r \in ledger} = 1 .. Cardinality(ledger))'
  BY <1>5, <1>6 DEF InLedger, TheLog, Entry, RowsAt
<1>7. CASE ReadLatest(w)
  <2>1. /\ UNCHANGED <<ledger, outcome>>
        /\ call[w].pc = "read" /\ call'[w].pc = "insert" /\ call'[w].event = e
        /\ \A s \in Sessions \ {w} : call'[s] = call[s]
    <3>1. PICK n \in Tips, hash \in Hashes :
            call' = [call EXCEPT ![w].pc = "insert", ![w].sequence = n + 1,
                                 ![w].previous = hash]
      BY <1>7 DEF ReadLatest
    <3>2. call'[w] = [call[w] EXCEPT !.pc = "insert", !.sequence = n + 1, !.previous = hash]
      BY <3>1, <1>3
    <3> QED
      BY <1>2, <1>3, <1>7, <3>1, <3>2 DEF ReadLatest, CallRow
  <2>2. LogInv'
    BY <2>1, <1>1, <1>2, <1>3, <1>4, <1>6, AppendKeeps DEF LogInv
  <2>3. TheLog' = TheLog /\ Lost' = Lost
    BY <2>1, <1>6 DEF Lost
  <2> QED
    BY <2>2, <2>3 DEF Abstractly
<1>8. CASE InsertRow(w)
  <2>1. /\ call[w].pc = "insert" /\ RowsAt(call[w].sequence) = {}
        /\ ledger' = ledger \cup {NewRow(w)}
        /\ call' = [call EXCEPT ![w].pc = "refresh"] /\ UNCHANGED outcome
    BY <1>8 DEF InsertRow, CommitAll
  <2>2. /\ IsFiniteSet(ledger)'
        /\ ({r.sequence : r \in ledger} = 1 .. Cardinality(ledger))'
        /\ TheLog' = Append(TheLog, e)
        /\ \A d : InLedger(d)' <=> InLedger(d) \/ d = e
    BY <2>1, <1>2, LogGrows
  <2>3. /\ call'[w].pc = "refresh" /\ call'[w].event = e
        /\ \A s \in Sessions \ {w} : call'[s] = call[s]
    BY <2>1, <1>2, <1>3 DEF CallRow
  <2>4. LogInv'
    BY <2>1, <2>2, <2>3, <1>1, <1>2, <1>3, <1>4, AppendKeeps
  <2>5. Abstractly
    BY <2>1, <2>2, <1>4, RecordStep
  <2> QED
    BY <2>4, <2>5
<1>9. CASE InsertCollides(w) \/ DatabaseFails(w)
  <2>1. PICK cause : /\ Retry(w, cause) /\ UNCHANGED ledger
                     /\ cause = "lost" => call[w].pc = "refresh"
                     /\ call[w].pc = "refresh" => cause = "lost"
    BY <1>9 DEF InsertCollides, DatabaseFails
  <2>2. /\ cause = "lost" => InLedger(e)'
        /\ InLedger(e)' => outcome[e] = "lost" \/ cause = "lost"
    BY <2>1, <1>4, <1>6
  <2>3. /\ LogInv'
        /\ \A d \in Events \ {e} : outcome'[d] = outcome[d]
        /\ outcome'[e] = "lost" => outcome[e] = "lost" \/ cause = "lost"
    BY <2>1, <2>2, <1>1, <1>2, <1>6, RetryLogs
  <2>4. outcome[e] = "lost" \/ outcome'[e] = "lost" => InLedger(e)
    BY <2>1, <2>2, <2>3, <1>6 DEF LogInv
  <2>5. Abstractly
    BY <2>1, <2>3, <2>4, <1>6, DoubtStep
  <2> QED
    BY <2>3, <2>5
<1>10. CASE AckLost(w)
  <2>1. /\ call[w].pc = "insert" /\ RowsAt(call[w].sequence) = {}
        /\ ledger' = ledger \cup {NewRow(w)} /\ Retry(w, "lost")
    BY <1>10 DEF AckLost, CommitAll
  <2>2. /\ IsFiniteSet(ledger)'
        /\ ({r.sequence : r \in ledger} = 1 .. Cardinality(ledger))'
        /\ TheLog' = Append(TheLog, e)
        /\ \A d : InLedger(d)' <=> InLedger(d) \/ d = e
    BY <2>1, <1>2, LogGrows
  <2>3. LogInv' /\ \A d \in Events \ {e} : outcome'[d] = outcome[d]
    BY <2>1, <2>2, <1>1, <1>2, RetryLogs
  <2>4. Abstractly
    BY <2>1, <2>2, <2>3, <1>4, RecordStep
  <2> QED
    BY <2>3, <2>4
<1>11. CASE Return(w)
  <2>1. /\ call[w].pc = "refresh" /\ UNCHANGED ledger
        /\ call'[w].pc = "idle" /\ outcome'[e] = "appended"
        /\ \A s \in Sessions \ {w} : call'[s] = call[s]
        /\ \A d \in Events \ {e} : outcome'[d] = outcome[d]
    BY <1>2, <1>3, <1>11 DEF Return, Returned, CallAt, LedgerInv, TypeOK
  <2>2. ~ Appending(w)'
    BY <2>1 DEF Appending
  <2>3. LogInv'
    BY <2>1, <2>2, <1>1, <1>2, <1>3, <1>6, AppendKeeps
  <2>4. Abstractly
    BY <2>1, <1>4, <1>6, DoubtStep
  <2> QED
    BY <2>3, <2>4
<1> QED
  BY <1>7, <1>8, <1>9, <1>10, <1>11 DEF AppendStep

LEMMA AnchorLogs ==
  ASSUME LedgerInv, LogInv, NEW s \in Sessions, AnchorStep(s)
  PROVE  LogInv' /\ Abstractly
<1>1. call \in [Sessions -> CallRow] /\ call[s] \in CallRow
  BY DEF LedgerInv, TypeOK
<1>2. CASE WriteAnchor(s) /\ s \notin Keepers
  <2>1. s \in Writers /\ ledger' = ledger /\ \E e \in Events : Begin(s, e)
    BY <1>2 DEF Sessions, WriteAnchor, WriteLine
  <2> QED
    BY <2>1, BeginLogs
<1>3. CASE ~ (WriteAnchor(s) /\ s \notin Keepers)
  <2>1. PICK pc \in {"idle", "anchor", "root", "line"} :
          /\ call'[s].pc = pc /\ UNCHANGED <<ledger, outcome>>
          /\ \A t \in Sessions \ {s} : call'[t] = call[t]
    <3>1. ASSUME NEW from, NEW to \in {"anchor", "line"}, ComputeRoot(s, from, to)
          PROVE  /\ call'[s].pc = to /\ UNCHANGED <<ledger, outcome>>
                 /\ \A t \in Sessions \ {s} : call'[t] = call[t]
      <4>1. PICK n \in Tips, hash \in Hashes :
              call' = [call EXCEPT ![s].pc = to, ![s].sequence = n, ![s].previous = hash]
        BY <3>1 DEF ComputeRoot
      <4>2. call'[s] = [call[s] EXCEPT !.pc = to, !.sequence = n, !.previous = hash]
        BY <4>1, <1>1
      <4> QED
        BY <3>1, <4>1, <4>2, <1>1 DEF ComputeRoot, CallRow
    <3>2. ASSUME ShouldAnchor(s) \/ CommitAnchor(s)
          PROVE  /\ call'[s].pc = "root" /\ UNCHANGED <<ledger, outcome>>
                 /\ \A t \in Sessions \ {s} : call'[t] = call[t]
      BY <3>2, <1>1 DEF ShouldAnchor, CommitAnchor, CallRow
    <3>3. ASSUME WriteAnchor(s), s \in Keepers
          PROVE  /\ call'[s].pc = "idle" /\ UNCHANGED <<ledger, outcome>>
                 /\ \A t \in Sessions \ {s} : call'[t] = call[t]
      BY <3>3, <1>1 DEF WriteAnchor, WriteLine, Returned, CallAt
    <3> QED
      BY <3>1, <3>2, <3>3, <1>3 DEF AnchorStep
  <2>2. ~ Appending(s)'
    BY <2>1 DEF Appending
  <2> QED
    BY <2>1, <2>2, AsideKeeps
<1> QED
  BY <1>2, <1>3

LEMMA LogInvInit ==
  ASSUME LedgerInit
  PROVE  LogInv /\ TheLog = <<>> /\ Lost = {}
<1>1. IsFiniteSet(ledger) /\ Cardinality(ledger) = 0
  BY FS_EmptySet DEF LedgerInit
<1>2. {r.sequence : r \in ledger} = 1 .. Cardinality(ledger)
  BY <1>1 DEF LedgerInit
<1>3. \A s \in Sessions : ~ Appending(s)
  BY DEF LedgerInit, Returned, CallAt, Appending
<1>4. \A e \in Events : outcome[e] = "new" /\ ~ InLedger(e)
  BY DEF LedgerInit, InLedger
<1>5. TheLog = <<>>
  BY <1>1 DEF TheLog
<1> QED
  BY <1>1, <1>2, <1>3, <1>4, <1>5 DEF LogInv, Lost

LEMMA LogInvStep ==
  ASSUME LedgerInv, LogInv, [LedgerNext]_ledgerVars
  PROVE  LogInv' /\ Abstractly
<1>1. ASSUME NEW w \in Writers, NEW e \in Events, CallAppend(w, e)
      PROVE  LogInv' /\ Abstractly
  BY <1>1, BeginLogs DEF CallAppend
<1>2. CASE UNCHANGED ledgerVars
  <2>1. UNCHANGED <<ledger, call, outcome>>
    BY <1>2 DEF ledgerVars
  <2>2. LogInv'
    BY <2>1 DEF LogInv, Appending, InLedger
  <2>3. TheLog' = TheLog /\ Lost' = Lost
    BY <2>1 DEF TheLog, Entry, RowsAt, Lost
  <2> QED
    BY <2>2, <2>3 DEF Abstractly
<1> QED
  BY <1>1, <1>2, AppendLogs, AnchorLogs DEF LedgerNext

\* The ledger's numbers have no gap, whatever fails and whoever competes.
THEOREM LogInvariant == LedgerSpec => []LogInv
<1>1. LedgerInit => LogInv
  BY LogInvInit
<1>2. LedgerInv /\ LogInv /\ [LedgerNext]_ledgerVars => LogInv'
  BY LogInvStep
<1> QED
  BY <1>1, <1>2, LedgerInvariant, PTL DEF LedgerSpec

\* The audit ledger implements an append-only log: with lost answers, errors and
\* concurrent sessions, nothing recorded changes, and an event is recorded again
\* only while the caller has had no answer to the first time.
THEOREM LedgerImplementsLog == LedgerSpec => ImplementsLog
<1>1. LedgerInit => Log!LogInit
  BY LogInvInit DEF Log!LogInit, TheLog, Entry, Lost
<1>2. LedgerInv /\ LogInv /\ [LedgerNext]_ledgerVars =>
        [\E e \in Events : Log!Record(e) \/ Log!Doubt(e)]_<<TheLog, Lost>>
  BY LogInvStep DEF Abstractly
<1> QED
  BY <1>1, <1>2, LedgerInvariant, LogInvariant, PTL
     DEF LedgerSpec, ImplementsLog, Log!LogSpec, TheLog, Entry, Lost
=============================================================================
