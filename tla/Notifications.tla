--------------------------- MODULE Notifications ---------------------------
(***************************************************************************)
(* In-app notifications (app/notify/service.py, app/notify/realtime.py):   *)
(* services announce events of jobs to users, one row for each recipient   *)
(* and de-duplication key, and push a new row to the streams the recipient *)
(* has open.                                                               *)
(***************************************************************************)
EXTENDS Naturals, FiniteSets

CONSTANTS Null,
          UserRow,         \* user -> [role, tenant, active, address]
          Topics,          \* the events: [event, category, job, suffix]
          Owner,           \* job -> [tenant, submitter]
          Senders,         \* sessions that announce
          MaxOccasions,    \* bound on the announcements made
          Viewers,         \* users who use the web interface
          Edited           \* the categories they change, some of Optional

Users == DOMAIN UserRow
Optional == {"WORKLOAD", "SCHEDULING", "APPROVAL", "EXECUTION"}

\* A row of notifications; its recipient and its key are its place in notes.
NoteRow == [occasion : Nat, category : {topic.category : topic \in Topics},
            url : {"approvals", "workload"}, status : {"PENDING", "SENT", "FAILED", "NOT_REQUIRED"},
            attempts : Nat, waiting : BOOLEAN, read : BOOLEAN]

\* A proposal is announced under the category APPROVAL to those who decide, and
\* to them only; no event has the name of a text.
ASSUME NotifyAssumption ==
    /\ Viewers \subseteq Users /\ Edited \subseteq Optional
    /\ Null \notin NoteRow
    /\ \A topic \in Topics :
          /\ Owner[topic.job].submitter \in Users
          /\ topic.event # "approval required"
          /\ topic.event = "SCHEDULE_PROPOSED" => (topic.category = "APPROVAL" <=> topic.suffix # Null)

VARIABLES notes,           \* <<user, key>> -> row of notifications, or Null
          preferences,     \* user -> the categories mailed, or Null without a row
          sender,          \* session -> the announcement it makes
          streams,         \* user -> the keys pushed, a set of <<key, sender, occasion>>, or Null
          occasions        \* announcements made so far

notifyVars == <<notes, preferences, sender, streams, occasions>>

DedupKey(topic) == <<topic.event, topic.job, topic.suffix>>
Ids == Users \X {DedupKey(topic) : topic \in Topics}

TenantAdmins(tenant) ==
    {u \in Users : /\ UserRow[u].role = "COMPANY_ADMIN"
                   /\ UserRow[u].tenant = tenant /\ UserRow[u].active}
PlatformAdmins ==
    {u \in Users : UserRow[u].role = "PLATFORM_ADMIN" /\ UserRow[u].tenant = Null /\ UserRow[u].active}

\* Mutant: every company's administrators are asked.
Audience_AllCompanies(topic) ==
    IF topic.suffix = Null THEN {Owner[topic.job].submitter}
    ELSE {u \in Users : UserRow[u].role = "COMPANY_ADMIN"} \cup PlatformAdmins

\* Whom an event is announced to: its submitter, or in the copies for those
\* who decide the administrators of the tenant; a cancellation and what was
\* handed in on one's own account leave out the others.
Audience(topic) ==
    LET owner == Owner[topic.job]
    IN  IF topic.suffix = Null THEN {owner.submitter}
        ELSE (TenantAdmins(owner.tenant)
                \cup (IF topic.event = "JOB_CANCELLED" THEN {} ELSE PlatformAdmins))
             \ {owner.submitter}

\* check_user_approval_permission: whose approvals and declines are taken.
MayDecide(u, owner) ==
    \/ UserRow[u].role = "PLATFORM_ADMIN" /\ UserRow[u].tenant = Null
    \/ /\ UserRow[u].role \in {"PLATFORM_ADMIN", "COMPANY_ADMIN"}
       /\ Null \in {UserRow[u].tenant, owner.tenant} \/ UserRow[u].tenant = owner.tenant

ActionUrl(topic) ==
    IF topic.category = "APPROVAL" /\ topic.event = "SCHEDULE_PROPOSED" THEN "approvals" ELSE "workload"

Idle == [step |-> "idle"]

NotifyStart(n) ==
    /\ notes = [id \in Ids |-> Null]
    /\ preferences = [u \in Users |-> Null]
    /\ sender = [s \in Senders |-> Idle]
    /\ streams = [u \in Users |-> Null]
    /\ occasions = n

NotifyInit == NotifyStart(0)

\* The business change is committed; its session goes on to announce it.
BeginAnnouncement(s) ==
    /\ sender[s].step = "idle"
    /\ occasions < MaxOccasions
    /\ occasions' = occasions + 1
    /\ \E topic \in Topics :
          sender' = [sender EXCEPT ![s] = [step |-> "next", topic |-> topic, left |-> Audience(topic),
                                           occasion |-> occasions + 1]]
    /\ UNCHANGED <<notes, preferences, streams>>

\* get_or_create_preferences: everything is mailed until the user says else.
PreferencesOf(u) == IF preferences[u] = Null THEN Optional ELSE preferences[u]
Mailed(u, category) == category \notin Optional \/ category \in PreferencesOf(u)

\* The first half of create_notification for the next recipient: its
\* preferences are read, and made if missing; a row with the key ends it.
CheckRecipient(s) ==
    /\ sender[s].step = "next"
    /\ \E u \in sender[s].left :
          /\ preferences' =
                [preferences EXCEPT ![u] = IF sender[s].topic.category \in Optional
                                             THEN PreferencesOf(u) ELSE @]
          /\ sender' =
                IF notes[<<u, DedupKey(sender[s].topic)>>] # Null
                THEN [sender EXCEPT ![s].left = @ \ {u}]
                ELSE [sender EXCEPT ![s] =
                        [step |-> "insert", topic |-> @.topic, left |-> @.left \ {u},
                         occasion |-> @.occasion, to |-> u,
                         required |-> Mailed(u, @.topic.category)]]
    /\ UNCHANGED <<notes, streams, occasions>>

NewNote(s) ==
    LET at == sender[s]
    IN  [occasion |-> at.occasion, category |-> at.topic.category, url |-> ActionUrl(at.topic),
         status |-> IF at.required THEN "PENDING" ELSE "NOT_REQUIRED",
         attempts |-> 0, waiting |-> FALSE, read |-> FALSE]

Resume(at) == [step |-> "next", topic |-> at.topic, left |-> at.left, occasion |-> at.occasion]

\* Mutant: the one who comes second pushes as well.
InsertNote_PushesDuplicate(s) ==
    LET at == sender[s]
        id == <<at.to, DedupKey(at.topic)>>
    IN  /\ at.step = "insert"
        /\ notes' = [notes EXCEPT ![id] = IF @ = Null THEN NewNote(s) ELSE @]
        /\ sender' = [sender EXCEPT ![s].step = "push"]
        /\ UNCHANGED <<preferences, streams, occasions>>

\* The row is committed; when another session has committed one with the same
\* key since, the unique constraint rolls this one back and it is not pushed.
InsertNotification(s) ==
    LET at == sender[s]
        id == <<at.to, DedupKey(at.topic)>>
    IN  /\ at.step = "insert"
        /\ IF notes[id] = Null
           THEN /\ notes' = [notes EXCEPT ![id] = NewNote(s)]
                /\ sender' = [sender EXCEPT ![s].step = "push"]
           ELSE /\ sender' = [sender EXCEPT ![s] = Resume(at)]
                /\ UNCHANGED notes
        /\ UNCHANGED <<preferences, streams, occasions>>

\* publish_notification_event: to the streams that listen; Redis may be away.
Push(s) ==
    LET at == sender[s]
        item == <<DedupKey(at.topic), s, at.occasion>>
    IN  /\ at.step = "push"
        /\ \/ streams' = [streams EXCEPT ![at.to] = IF @ = Null THEN Null ELSE @ \cup {item}]
           \/ UNCHANGED streams
        /\ sender' = [sender EXCEPT ![s] = Resume(at)]
        /\ UNCHANGED <<notes, preferences, occasions>>

EndAnnouncement(s) ==
    /\ sender[s].step = "next" /\ sender[s].left = {}
    /\ sender' = [sender EXCEPT ![s] = Idle]
    /\ UNCHANGED <<notes, preferences, streams, occasions>>

\* The process dies, or an exception ends the announcement: it is swallowed.
AbandonAnnouncement(s) ==
    /\ sender[s].step # "idle"
    /\ sender' = [sender EXCEPT ![s] = Idle]
    /\ UNCHANGED <<notes, preferences, streams, occasions>>

OpenStream(u) ==
    /\ streams[u] = Null
    /\ streams' = [streams EXCEPT ![u] = {}]
    /\ UNCHANGED <<notes, preferences, sender, occasions>>

CloseStream(u) ==
    /\ streams[u] # Null
    /\ streams' = [streams EXCEPT ![u] = Null]
    /\ UNCHANGED <<notes, preferences, sender, occasions>>

\* Only the optional categories can be edited.
UpdatePreferences(u) ==
    /\ \E category \in Edited, on \in BOOLEAN :
          preferences' = [preferences EXCEPT ![u] =
                            IF on THEN PreferencesOf(u) \cup {category}
                            ELSE PreferencesOf(u) \ {category}]
    /\ UNCHANGED <<notes, sender, streams, occasions>>

MarkRead(u, ids) == [id \in Ids |-> IF id \in ids /\ id[1] = u /\ notes[id] # Null
                                    THEN [notes[id] EXCEPT !.read = TRUE] ELSE notes[id]]
Unread(u) == {id \in Ids : id[1] = u /\ notes[id] # Null /\ ~notes[id].read}

\* mark_read and mark_all_read: rows of the caller only.
ReadNotifications(u) ==
    /\ \E ids \in {{id} : id \in Unread(u)} \cup {Unread(u)} : notes' = MarkRead(u, ids)
    /\ Unread(u) # {}
    /\ UNCHANGED <<preferences, sender, streams, occasions>>

SenderStep(s) ==
    \/ BeginAnnouncement(s) \/ CheckRecipient(s) \/ InsertNotification(s)
    \/ Push(s) \/ EndAnnouncement(s) \/ AbandonAnnouncement(s)
ViewerStep(u) == OpenStream(u) \/ CloseStream(u) \/ UpdatePreferences(u) \/ ReadNotifications(u)

NotifyNext == (\E s \in Senders : SenderStep(s)) \/ (\E u \in Viewers : ViewerStep(u))
---------------------------------------------------------------------------
\* Two sessions that announce the same event to the same user push it once,
\* and what is pushed is the row that was stored (create_notification).
PushedOnce ==
    \A u \in Users : streams[u] # Null =>
        \A item \in streams[u] :
            /\ notes[<<u, item[1]>>] # Null
            /\ notes[<<u, item[1]>>].occasion = item[3]

===========================================================================
