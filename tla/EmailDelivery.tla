--------------------------- MODULE EmailDelivery ---------------------------
(***************************************************************************)
(* The mail worker (app/notify/email.py): every API process selects the    *)
(* notifications whose mail is due, sends them one by one and records the  *)
(* outcome on the rows it selected, by now perhaps stale. The last failure *)
(* is reported to the audit ledger in the session that records it.         *)
(***************************************************************************)
EXTENDS Notifications, Sequences, SequencesExt

CONSTANTS Mailers,         \* worker processes
          MaxAttempts,     \* notification_email_max_attempts
          EmailLimit,      \* rows selected at once
          MaxFaults        \* bound on crashes and on audit appends that roll back

ASSUME EmailAssumption ==
    /\ MaxAttempts \in Nat \ {0} /\ EmailLimit \in Nat \ {0} /\ MaxFaults \in Nat
    /\ Null \notin {"sent", "failed"}

VARIABLES mailer,          \* worker -> [todo, copies, result]
          accepted,        \* id -> times the server took the mail, up to two
          failures,        \* ids with an EMAIL_DELIVERY_FAILED event
          faults           \* crashes and rollbacks so far

emailVars == <<mailer, accepted, failures, faults>>

Resting == [todo |-> <<>>, copies |-> [id \in Ids |-> Null], result |-> Null]

EmailInit ==
    /\ mailer = [w \in Mailers |-> Resting]
    /\ accepted = [id \in Ids |-> 0]
    /\ failures = {}
    /\ faults = 0

Due == {id \in Ids : notes[id] # Null /\ notes[id].status = "PENDING" /\ ~notes[id].waiting}

\* The oldest first. Rows of one announcement are of one age.
InOrder(todo) == \A i, j \in DOMAIN todo : i < j => notes[todo[i]].occasion =< notes[todo[j]].occasion

SelectDue(w) ==
    /\ mailer[w].todo = <<>> /\ Due # {}
    /\ \E todo \in {s \in UNION {[1..n -> Due] : n \in 1..EmailLimit} :
                       /\ IsInjective(s) /\ InOrder(s)
                       /\ Len(s) = EmailLimit \/ Range(s) = Due} :
          mailer' = [mailer EXCEPT ![w] = [todo |-> todo, result |-> Null,
                                           copies |-> [id \in Ids |-> IF id \in Range(todo)
                                                                        THEN notes[id] ELSE Null]]]
    /\ UNCHANGED <<notes, accepted, failures, faults>>

\* What the session sees of a row: its copy, or the row after a rollback.
Seen(w, id) == IF mailer[w].copies[id] = Null THEN notes[id] ELSE mailer[w].copies[id]

Done(w) == [mailer[w] EXCEPT !.todo = Tail(@), !.result = Null]

\* Without an address the row is failed at once; the append of the event comes
\* after it: it may get lost, or roll back and expire the copies.
NoAddress(w) ==
    LET id == Head(mailer[w].todo)
    IN  /\ mailer[w].todo # <<>>
        /\ ~UserRow[id[1]].address
        /\ notes' = [notes EXCEPT ![id].status = "FAILED"]
        /\ \E told \in BOOLEAN : failures' = IF told THEN failures \cup {id} ELSE failures
        /\ \E expired \in BOOLEAN :
              mailer' = [mailer EXCEPT ![w] = IF expired THEN [Done(w) EXCEPT !.copies = Resting.copies]
                                              ELSE Done(w)]
        /\ UNCHANGED <<accepted, faults>>

\* render_email: which text is sent is up to the event, its category and, for
\* a cancellation, the copy; a failing template falls back to the row's own.
Template(key, category) ==
    CASE key[1] = "SCHEDULE_PROPOSED" -> IF category = "APPROVAL" THEN "approval required" ELSE "proposed"
      [] key[1] = "JOB_CANCELLED" -> IF key[3] = "admin" THEN "cancelled, for admins" ELSE "cancelled"
      [] OTHER -> key[1]

\* _deliver_one reads the row when there is no copy of it any more; then
\* send_email answers, fails, or fails after the server has taken the mail.
Send(w) ==
    LET id == Head(mailer[w].todo)
    IN  /\ mailer[w].todo # <<>> /\ mailer[w].result = Null
        /\ UserRow[id[1]].address
        /\ \E taken, answered \in BOOLEAN :
              /\ answered => taken
              /\ accepted' = [accepted EXCEPT ![id] = IF taken /\ @ < 2 THEN @ + 1 ELSE @]
              /\ mailer' = [mailer EXCEPT ![w].copies[id] = Seen(w, id),
                                          ![w].result = IF answered THEN "sent" ELSE "failed"]
        /\ UNCHANGED <<notes, failures, faults>>

\* A flush writes the columns that differ from the copy.
Flushed(w, id, new) ==
    LET old == Seen(w, id)
    IN  [notes[id] EXCEPT !.attempts = new.attempts,
                          !.status = IF new.status = old.status THEN @ ELSE new.status,
                          !.waiting = IF new.waiting = old.waiting THEN @ ELSE new.waiting]

RecordSent(w) ==
    LET id == Head(mailer[w].todo)
        old == Seen(w, id)
    IN  /\ mailer[w].result = "sent"
        /\ notes' = [notes EXCEPT ![id] =
                Flushed(w, id, [old EXCEPT !.attempts = @ + 1, !.status = "SENT", !.waiting = FALSE])]
        /\ mailer' = [mailer EXCEPT ![w] = Done(w)]
        /\ UNCHANGED <<accepted, failures, faults>>

\* Mutant: the count of attempts is not kept.
RecordRetry_Uncounted(w) ==
    LET id == Head(mailer[w].todo)
        old == Seen(w, id)
    IN  /\ mailer[w].result = "failed" /\ old.attempts + 1 < MaxAttempts
        /\ notes' = [notes EXCEPT ![id] = Flushed(w, id, [old EXCEPT !.waiting = TRUE])]
        /\ mailer' = [mailer EXCEPT ![w] = Done(w)]
        /\ UNCHANGED <<accepted, failures, faults>>

RecordRetry(w) ==
    LET id == Head(mailer[w].todo)
        old == Seen(w, id)
    IN  /\ mailer[w].result = "failed" /\ old.attempts + 1 < MaxAttempts
        /\ notes' = [notes EXCEPT ![id] =
                Flushed(w, id, [old EXCEPT !.attempts = @ + 1, !.waiting = TRUE])]
        /\ mailer' = [mailer EXCEPT ![w] = Done(w)]
        /\ UNCHANGED <<accepted, failures, faults>>

\* Mutant: the row is committed before the event is appended.
RecordFailure_CommitsFirst(w) ==
    LET id == Head(mailer[w].todo)
        old == Seen(w, id)
    IN  /\ mailer[w].result = "failed" /\ old.attempts + 1 >= MaxAttempts
        /\ notes' = [notes EXCEPT ![id] =
                Flushed(w, id, [old EXCEPT !.attempts = @ + 1, !.status = "FAILED", !.waiting = FALSE])]
        /\ \E told \in BOOLEAN : failures' = IF told THEN failures \cup {id} ELSE failures
        /\ mailer' = [mailer EXCEPT ![w] = Done(w)]
        /\ UNCHANGED <<accepted, faults>>

\* The commit of append_event commits the row as well.
RecordFailure(w) ==
    LET id == Head(mailer[w].todo)
        old == Seen(w, id)
    IN  /\ mailer[w].result = "failed" /\ old.attempts + 1 >= MaxAttempts
        /\ notes' = [notes EXCEPT ![id] =
                Flushed(w, id, [old EXCEPT !.attempts = @ + 1, !.status = "FAILED", !.waiting = FALSE])]
        /\ failures' = failures \cup {id}
        /\ mailer' = [mailer EXCEPT ![w] = Done(w)]
        /\ UNCHANGED <<accepted, faults>>

\* append_event collides and rolls back: the changes of the row are gone, all
\* copies expire, and the event is appended alone, or after too many attempts
\* not at all.
LoseFailure(w) ==
    LET id == Head(mailer[w].todo)
    IN  /\ mailer[w].result = "failed" /\ Seen(w, id).attempts + 1 >= MaxAttempts
        /\ faults < MaxFaults
        /\ faults' = faults + 1
        /\ \E told \in BOOLEAN : failures' = IF told THEN failures \cup {id} ELSE failures
        /\ mailer' = [mailer EXCEPT ![w] = [Done(w) EXCEPT !.copies = Resting.copies]]
        /\ UNCHANGED <<notes, accepted>>

BackoffElapses ==
    /\ \E id \in Ids :
          /\ notes[id] # Null /\ notes[id].waiting
          /\ notes' = [notes EXCEPT ![id].waiting = FALSE]
    /\ UNCHANGED emailVars

CrashMailer(w) ==
    /\ mailer[w] # Resting
    /\ faults < MaxFaults
    /\ faults' = faults + 1
    /\ mailer' = [mailer EXCEPT ![w] = Resting]
    /\ UNCHANGED <<notes, accepted, failures>>

MailerStep(w) ==
    \/ SelectDue(w) \/ NoAddress(w) \/ Send(w)
    \/ RecordSent(w) \/ RecordRetry(w) \/ RecordFailure(w) \/ LoseFailure(w)

EmailStep ==
    \/ \E w \in Mailers : MailerStep(w) \/ CrashMailer(w)
    \/ BackoffElapses

webVars == <<preferences, sender, streams, occasions>>
DeliveryInit == NotifyInit /\ EmailInit
DeliveryNext ==
    \/ NotifyNext /\ UNCHANGED emailVars
    \/ EmailStep /\ UNCHANGED webVars

deliveryVars == <<notifyVars, emailVars>>
DeliverySpec == DeliveryInit /\ [][DeliveryNext]_deliveryVars

\* The orchestrator calls the worker every five seconds, and time passes.
DeliveryFairness ==
    /\ \A w \in Mailers : WF_deliveryVars(MailerStep(w) /\ UNCHANGED webVars)
    /\ WF_deliveryVars(BackoffElapses /\ UNCHANGED webVars)
---------------------------------------------------------------------------
HasStatus(id, statuses) == notes[id] # Null /\ notes[id].status \in statuses

\* Whatever stale copies two workers write over one another, a row says SENT only
\* if the mail server took the mail, and FAILED only if the audit ledger says so
\* too: that event and the row are committed together or not at all
\* (email.py:113-142), unless there was no address to try.
OutcomeIsTruthful ==
    \A id \in Ids :
        /\ HasStatus(id, {"SENT"}) => accepted[id] > 0
        /\ HasStatus(id, {"FAILED"}) /\ UserRow[id[1]].address => id \in failures

\* When no more is announced, every mail that is wanted is sent or given up,
\* although workers overwrite each other's counts, crash and lose what they
\* recorded.
MailsSettle == <>[](\A id \in Ids : ~HasStatus(id, {"PENDING"}))

\* Whoever is told of a job, other than its submitter, may decide on it, and the
\* mail that asks for the approval goes to those and to nobody else: audience
\* (decide/service.py:250-275), text (templates.py) and the check that
\* approval/service.py makes when the answer comes agree.
OnlyApproversAreAsked ==
    \A id \in Ids : notes[id] # Null =>
        LET owner == Owner[id[2][2]]
            asked == Template(id[2], notes[id].category) = "approval required"
        IN  /\ id[1] = owner.submitter \/ MayDecide(id[1], owner)
            /\ asked <=> id[2][1] = "SCHEDULE_PROPOSED" /\ id[1] # owner.submitter
===========================================================================
