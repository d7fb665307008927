----------------------- MODULE EmailDelivery_proofs -----------------------
(***************************************************************************)
(* Proofs about announcements and their mails, for any number of sessions, *)
(* workers, users and events, with crashes and lost records.               *)
(***************************************************************************)
EXTENDS EmailDelivery, SequenceTheorems, TLAPS

Keys == {DedupKey(topic) : topic \in Topics}
Item == Keys \X Senders \X Nat

SenderRow ==
    {Idle} \cup [step : {"next"}, topic : Topics, left : SUBSET Users, occasion : Nat]
      \cup [step : {"insert", "push"}, topic : Topics, left : SUBSET Users, occasion : Nat,
            to : Users, required : BOOLEAN]

MailerRow == [todo : Seq(Ids), copies : [Ids -> NoteRow \cup {Null}], result : {Null, "sent", "failed"}]

DeliveryTypeOK ==
    /\ notes \in [Ids -> NoteRow \cup {Null}]
    /\ sender \in [Senders -> SenderRow]
    /\ streams \in [Users -> (SUBSET Item) \cup {Null}]
    /\ occasions \in Nat
    /\ mailer \in [Mailers -> MailerRow]
    /\ accepted \in [Ids -> Nat]
    /\ failures \subseteq Ids

\* A row was made for somebody its topic is announced to.
RowOK(id) ==
    notes[id] # Null =>
        \E topic \in Topics :
            /\ id[2] = DedupKey(topic) /\ id[1] \in Audience(topic)
            /\ notes[id].category = topic.category

\* A session announces to its audience, and pushes only what it has stored.
SenderOK(s) ==
    LET at == sender[s]
    IN  /\ at.step # "idle" => at.left \subseteq Audience(at.topic)
        /\ at.step \in {"insert", "push"} => at.to \in Audience(at.topic)
        /\ at.step = "push" =>
              /\ notes[<<at.to, DedupKey(at.topic)>>] # Null
              /\ notes[<<at.to, DedupKey(at.topic)>>].occasion = at.occasion

\* A worker is at rows that exist, and what it holds as sent was taken.
MailerOK(w) ==
    /\ \A i \in 1 .. Len(mailer[w].todo) : notes[mailer[w].todo[i]] # Null
    /\ mailer[w].result # Null => mailer[w].todo # <<>>
    /\ mailer[w].result = "sent" => accepted[Head(mailer[w].todo)] > 0

DeliveryInv ==
    /\ DeliveryTypeOK
    /\ \A id \in Ids : RowOK(id)
    /\ \A s \in Senders : SenderOK(s)
    /\ \A w \in Mailers : MailerOK(w)
    /\ PushedOnce
    /\ OutcomeIsTruthful

-----------------------------------------------------------------------------
\* What any step may do to the rows: they stay, with their occasion and their
\* category.
RowsStay ==
    \A id \in Ids : notes[id] # Null =>
        /\ notes'[id] # Null
        /\ notes'[id].occasion = notes[id].occasion
        /\ notes'[id].category = notes[id].category

LEMMA RowsStayTheirs ==
  ASSUME DeliveryTypeOK, \A id \in Ids : RowOK(id), RowsStay,
         \A id \in Ids : notes[id] = Null => notes'[id] = Null
  PROVE  \A id \in Ids : RowOK(id)'
BY DEF RowOK, RowsStay

LEMMA SenderWaits ==
  ASSUME DeliveryTypeOK, RowsStay, NEW s \in Senders, SenderOK(s), sender'[s] = sender[s]
  PROVE  SenderOK(s)'
<1>1. ASSUME sender[s].step = "push"
      PROVE  <<sender[s].to, DedupKey(sender[s].topic)>> \in Ids
  BY <1>1 DEF DeliveryTypeOK, SenderRow, Idle, Ids
<1> QED
  BY <1>1 DEF SenderOK, RowsStay

LEMMA MailerWaits ==
  ASSUME DeliveryTypeOK, RowsStay, NEW w \in Mailers, MailerOK(w), mailer'[w] = mailer[w],
         \A id \in Ids : accepted'[id] >= accepted[id], accepted' \in [Ids -> Nat]
  PROVE  MailerOK(w)'
<1>1. mailer[w].todo \in Seq(Ids)
  BY DEF DeliveryTypeOK, MailerRow
<1>2. \A i \in 1 .. Len(mailer[w].todo) : mailer[w].todo[i] \in Ids
  BY <1>1
<1>3. mailer[w].todo # <<>> => Head(mailer[w].todo) \in Ids
  BY <1>1
<1>4. mailer[w].result = "sent" => mailer[w].todo # <<>>
  BY EmailAssumption DEF MailerOK
<1> QED
  BY <1>2, <1>3, <1>4 DEF MailerOK, RowsStay, DeliveryTypeOK

LEMMA PushedStay ==
  ASSUME DeliveryTypeOK, RowsStay, PushedOnce, UNCHANGED streams
  PROVE  PushedOnce'
<1> SUFFICES ASSUME NEW u \in Users, streams[u] # Null, NEW item \in streams[u]
             PROVE  notes'[<<u, item[1]>>] # Null /\ notes'[<<u, item[1]>>].occasion = item[3]
  BY DEF PushedOnce
<1>1. <<u, item[1]>> \in Ids
  BY DEF DeliveryTypeOK, Item, Ids, Keys
<1> QED
  BY <1>1 DEF PushedOnce, RowsStay

-----------------------------------------------------------------------------
LEMMA AudienceIsUsers ==
  ASSUME NEW topic \in Topics
  PROVE  Audience(topic) \in SUBSET Users
BY NotifyAssumption DEF Audience, TenantAdmins, PlatformAdmins

\* What a step of the web does to the rows: they stay, and a status it writes
\* is one of a new row.
StatusStays ==
    \A id \in Ids : notes'[id] # Null =>
        \/ notes'[id].status \in {"PENDING", "NOT_REQUIRED"}
        \/ notes[id] # Null /\ notes'[id].status = notes[id].status

LEMMA OutcomeStays ==
  ASSUME DeliveryTypeOK, OutcomeIsTruthful, StatusStays, failures \subseteq failures',
         \A id \in Ids : accepted'[id] >= accepted[id], accepted' \in [Ids -> Nat]
  PROVE  OutcomeIsTruthful'
BY DEF DeliveryTypeOK, OutcomeIsTruthful, HasStatus, StatusStays

LEMMA SenderRows ==
  ASSUME DeliveryTypeOK, NEW s \in Senders
  PROVE  /\ sender[s].step = "next" =>
               sender[s] \in [step : {"next"}, topic : Topics, left : SUBSET Users, occasion : Nat]
         /\ sender[s].step \in {"insert", "push"} =>
               sender[s] \in [step : {"insert", "push"}, topic : Topics, left : SUBSET Users,
                              occasion : Nat, to : Users, required : BOOLEAN]
BY DEF DeliveryTypeOK, SenderRow, Idle

LEMMA MailedIsBoolean ==
  ASSUME NEW u, NEW category
  PROVE  Mailed(u, category) \in BOOLEAN
BY DEF Mailed

\* What the web's own steps leave to show: only their session and its row.
LEMMA WebFrame ==
  ASSUME DeliveryInv, DeliveryTypeOK', RowsStay, StatusStays, UNCHANGED emailVars,
         \A id \in Ids : RowOK(id)', \A s \in Senders : SenderOK(s)', PushedOnce'
  PROVE  DeliveryInv'
<1>1. \A w \in Mailers : MailerOK(w)'
  BY MailerWaits DEF DeliveryInv, emailVars, DeliveryTypeOK
<1>2. OutcomeIsTruthful'
  BY OutcomeStays DEF DeliveryInv, emailVars, DeliveryTypeOK
<1> QED
  BY <1>1, <1>2 DEF DeliveryInv

\* A step of a session that leaves the rows and the streams alone.
LEMMA SessionFrame ==
  ASSUME DeliveryInv, NEW s \in Senders, NEW row \in SenderRow,
         sender' = [sender EXCEPT ![s] = row], SenderOK(s)', occasions' \in Nat,
         UNCHANGED <<notes, streams>>, UNCHANGED emailVars
  PROVE  DeliveryInv'
<1>1. DeliveryTypeOK'
  BY DEF DeliveryInv, DeliveryTypeOK, emailVars
<1>2. RowsStay /\ StatusStays
  BY DEF RowsStay, StatusStays
<1>3. \A id \in Ids : RowOK(id)'
  BY DEF DeliveryInv, RowOK
<1>4. ASSUME NEW t \in Senders PROVE SenderOK(t)'
  <2>1. CASE t = s
    BY <2>1
  <2>2. CASE t # s
    <3>1. sender'[t] = sender[t]
      BY <2>2 DEF DeliveryInv, DeliveryTypeOK
    <3> QED BY <3>1, <1>2, SenderWaits DEF DeliveryInv
  <2> QED BY <2>1, <2>2
<1>5. PushedOnce'
  BY DEF DeliveryInv, PushedOnce
<1> QED
  BY <1>1, <1>2, <1>3, <1>4, <1>5, WebFrame

-----------------------------------------------------------------------------
\* One lemma for each step of a session.
LEMMA BeginKeeps ==
  ASSUME DeliveryInv, NEW s \in Senders, BeginAnnouncement(s), UNCHANGED emailVars
  PROVE  DeliveryInv'
<1>1. PICK topic \in Topics :
          sender' = [sender EXCEPT ![s] = [step |-> "next", topic |-> topic, left |-> Audience(topic),
                                           occasion |-> occasions + 1]]
  BY DEF BeginAnnouncement
<1> DEFINE row == [step |-> "next", topic |-> topic, left |-> Audience(topic), occasion |-> occasions + 1]
<1>2. row \in SenderRow
  BY AudienceIsUsers DEF SenderRow, DeliveryInv, DeliveryTypeOK
<1>3. SenderOK(s)'
  BY <1>1 DEF SenderOK, DeliveryInv, DeliveryTypeOK
<1>4. occasions' \in Nat /\ UNCHANGED <<notes, streams>>
  BY DEF BeginAnnouncement, DeliveryInv, DeliveryTypeOK
<1>5. sender' = [sender EXCEPT ![s] = row]
  BY <1>1
<1> QED
  BY <1>2, <1>3, <1>4, <1>5, SessionFrame

LEMMA CheckKeeps ==
  ASSUME DeliveryInv, NEW s \in Senders, CheckRecipient(s), UNCHANGED emailVars
  PROVE  DeliveryInv'
<1> DEFINE at == sender[s]
<1>1. PICK u \in at.left :
          sender' = IF notes[<<u, DedupKey(at.topic)>>] # Null
                    THEN [sender EXCEPT ![s].left = @ \ {u}]
                    ELSE [sender EXCEPT ![s] =
                            [step |-> "insert", topic |-> @.topic, left |-> @.left \ {u},
                             occasion |-> @.occasion, to |-> u,
                             required |-> Mailed(u, @.topic.category)]]
  BY DEF CheckRecipient
<1>2. at \in [step : {"next"}, topic : Topics, left : SUBSET Users, occasion : Nat] /\ at.step = "next"
  BY SenderRows DEF CheckRecipient, DeliveryInv
<1>3. at.left \subseteq Audience(at.topic)
  BY <1>2 DEF DeliveryInv, SenderOK
<1>4. CASE notes[<<u, DedupKey(at.topic)>>] # Null
  <2> DEFINE row == [at EXCEPT !.left = @ \ {u}]
  <2>1. row \in SenderRow
    BY <1>2 DEF SenderRow
  <2>2. sender' = [sender EXCEPT ![s] = row]
    BY <1>1, <1>4
  <2>3. SenderOK(s)'
    BY <1>2, <1>3, <2>2 DEF SenderOK, DeliveryInv, DeliveryTypeOK
  <2> QED
    BY <2>1, <2>2, <2>3, SessionFrame DEF CheckRecipient, DeliveryInv, DeliveryTypeOK
<1>5. CASE notes[<<u, DedupKey(at.topic)>>] = Null
  <2> DEFINE row == [step |-> "insert", topic |-> at.topic, left |-> at.left \ {u},
                     occasion |-> at.occasion, to |-> u, required |-> Mailed(u, at.topic.category)]
  <2>1. row \in SenderRow
    <3>1. Mailed(u, at.topic.category) \in BOOLEAN
      BY MailedIsBoolean
    <3> HIDE DEF at
    <3> QED BY <1>2, <3>1 DEF SenderRow
  <2>2. sender' = [sender EXCEPT ![s] = row]
    BY <1>1, <1>5
  <2>3. SenderOK(s)'
    BY <1>2, <1>3, <2>2 DEF SenderOK, DeliveryInv, DeliveryTypeOK
  <2> QED
    BY <2>1, <2>2, <2>3, SessionFrame DEF CheckRecipient, DeliveryInv, DeliveryTypeOK
<1> QED
  BY <1>4, <1>5

LEMMA ResumeRow ==
  ASSUME DeliveryInv, NEW s \in Senders, sender[s].step \in {"insert", "push"}
  PROVE  /\ Resume(sender[s]) \in SenderRow
         /\ Resume(sender[s]).step = "next" /\ Resume(sender[s]).topic = sender[s].topic
         /\ Resume(sender[s]).left = sender[s].left
         /\ sender[s].left \subseteq Audience(sender[s].topic)
BY SenderRows DEF DeliveryInv, SenderRow, Resume, SenderOK

LEMMA InsertKeeps ==
  ASSUME DeliveryInv, NEW s \in Senders, InsertNotification(s), UNCHANGED emailVars
  PROVE  DeliveryInv'
<1> DEFINE at == sender[s]
           id == <<at.to, DedupKey(at.topic)>>
<1>1. /\ at \in [step : {"insert", "push"}, topic : Topics, left : SUBSET Users,
                 occasion : Nat, to : Users, required : BOOLEAN]
      /\ at.step = "insert"
  BY SenderRows DEF InsertNotification, DeliveryInv
<1>2. id \in Ids
  BY <1>1 DEF Ids
<1>3. at.left \subseteq Audience(at.topic) /\ at.to \in Audience(at.topic)
  BY <1>1 DEF DeliveryInv, SenderOK
<1>4. CASE notes[id] = Null
  <2>1. NewNote(s) \in NoteRow
    BY <1>1 DEF NewNote, NoteRow, ActionUrl
  <2>2. notes' = [notes EXCEPT ![id] = NewNote(s)] /\ UNCHANGED <<streams, occasions>>
    BY <1>4 DEF InsertNotification
  <2>3. sender' = [sender EXCEPT ![s].step = "push"]
    BY <1>4 DEF InsertNotification
  <2> DEFINE row == [at EXCEPT !.step = "push"]
  <2>4. row \in SenderRow
    BY <1>1 DEF SenderRow
  <2>5. sender' = [sender EXCEPT ![s] = row]
    BY <2>3
  <2>6. NewNote(s) # Null
    BY <2>1, NotifyAssumption
  <2>7. DeliveryTypeOK'
    BY <1>2, <2>1, <2>2, <2>4, <2>5 DEF DeliveryInv, DeliveryTypeOK, emailVars
  <2>8. RowsStay
    BY <1>4, <2>2 DEF RowsStay, DeliveryInv, DeliveryTypeOK
  <2>9. StatusStays
    BY <1>4, <2>2, <1>2 DEF StatusStays, DeliveryInv, DeliveryTypeOK, NewNote
  <2>10. ASSUME NEW other \in Ids PROVE RowOK(other)'
    <3>1. CASE other = id
      <4>1. notes'[id].category = at.topic.category
        BY <1>2, <2>2 DEF NewNote, DeliveryInv, DeliveryTypeOK
      <4>2. id[1] = at.to /\ id[2] = DedupKey(at.topic)
        OBVIOUS
      <4> QED BY <3>1, <4>1, <4>2, <1>1, <1>3 DEF RowOK
    <3>2. CASE other # id
      BY <3>2, <2>2 DEF RowOK, DeliveryInv, DeliveryTypeOK
    <3> QED BY <3>1, <3>2
  <2>11. ASSUME NEW t \in Senders PROVE SenderOK(t)'
    <3>1. CASE t = s
      <4>1. sender'[s] = row
        BY <2>5 DEF DeliveryInv, DeliveryTypeOK
      <4>2. row.to = at.to /\ row.topic = at.topic /\ row.left = at.left /\ row.occasion = at.occasion
        BY <1>1
      <4>3. notes'[id] = NewNote(s) /\ NewNote(s).occasion = at.occasion
        BY <1>2, <2>2 DEF NewNote, DeliveryInv, DeliveryTypeOK
      <4> QED BY <3>1, <4>1, <4>2, <4>3, <2>6, <1>3 DEF SenderOK
    <3>2. CASE t # s
      <4>1. sender'[t] = sender[t]
        BY <3>2, <2>5 DEF DeliveryInv, DeliveryTypeOK
      <4> QED BY <4>1, <2>8, SenderWaits DEF DeliveryInv
    <3> QED BY <3>1, <3>2
  <2>12. PushedOnce'
    BY <2>2, <2>8, PushedStay DEF DeliveryInv
  <2> QED
    BY <2>7, <2>8, <2>9, <2>10, <2>11, <2>12, WebFrame
<1>5. CASE notes[id] # Null
  <2>1. /\ sender' = [sender EXCEPT ![s] = Resume(at)]
        /\ UNCHANGED <<notes, streams, occasions>>
    BY <1>5 DEF InsertNotification
  <2>2. SenderOK(s)'
    BY <2>1, ResumeRow, <1>1 DEF SenderOK, DeliveryInv, DeliveryTypeOK
  <2> QED
    BY <2>1, <2>2, ResumeRow, <1>1, SessionFrame DEF DeliveryInv, DeliveryTypeOK
<1> QED
  BY <1>4, <1>5

LEMMA PushKeeps ==
  ASSUME DeliveryInv, NEW s \in Senders, Push(s), UNCHANGED emailVars
  PROVE  DeliveryInv'
<1> DEFINE at == sender[s]
           item == <<DedupKey(at.topic), s, at.occasion>>
<1>1. /\ at \in [step : {"insert", "push"}, topic : Topics, left : SUBSET Users,
                 occasion : Nat, to : Users, required : BOOLEAN]
      /\ at.step = "push"
  BY SenderRows DEF Push, DeliveryInv
<1>2. /\ notes[<<at.to, DedupKey(at.topic)>>] # Null
      /\ notes[<<at.to, DedupKey(at.topic)>>].occasion = at.occasion
  BY <1>1 DEF DeliveryInv, SenderOK
<1>3. item \in Item
  BY <1>1 DEF Item, Keys
<1>4. /\ \/ streams' = [streams EXCEPT ![at.to] = IF @ = Null THEN Null ELSE @ \cup {item}]
         \/ UNCHANGED streams
      /\ sender' = [sender EXCEPT ![s] = Resume(at)]
      /\ UNCHANGED <<notes, occasions>>
  BY DEF Push
<1>5. Resume(at) \in SenderRow
  BY <1>1, ResumeRow
<1>6. streams' \in [Users -> (SUBSET Item) \cup {Null}]
  <2>1. streams \in [Users -> (SUBSET Item) \cup {Null}] /\ at.to \in Users
    BY <1>1 DEF DeliveryInv, DeliveryTypeOK
  <2> HIDE DEF at, item
  <2> QED BY <2>1, <1>3, <1>4
<1>7. DeliveryTypeOK'
  BY <1>4, <1>5, <1>6 DEF DeliveryInv, DeliveryTypeOK, emailVars
<1>8. RowsStay /\ StatusStays
  BY <1>4 DEF RowsStay, StatusStays
<1>9. \A id \in Ids : RowOK(id)'
  BY <1>4 DEF DeliveryInv, RowOK
<1>10. ASSUME NEW t \in Senders PROVE SenderOK(t)'
  <2>1. CASE t = s
    BY <2>1, <1>1, <1>4, ResumeRow DEF SenderOK, DeliveryInv, DeliveryTypeOK
  <2>2. CASE t # s
    <3>1. sender'[t] = sender[t]
      BY <2>2, <1>4 DEF DeliveryInv, DeliveryTypeOK
    <3> QED BY <3>1, <1>8, SenderWaits DEF DeliveryInv
  <2> QED BY <2>1, <2>2
<1>11. PushedOnce'
  <2>1. item[1] = DedupKey(at.topic) /\ item[3] = at.occasion
    OBVIOUS
  <2>2. ASSUME NEW u \in Users, streams'[u] # Null, NEW one \in streams'[u]
        PROVE  \/ streams[u] # Null /\ one \in streams[u]
               \/ u = at.to /\ one = item
    <3>1. streams \in [Users -> (SUBSET Item) \cup {Null}] /\ at.to \in Users
      BY <1>1 DEF DeliveryInv, DeliveryTypeOK
    <3> HIDE DEF at, item
    <3> QED BY <2>2, <3>1, <1>4
  <2>3. SUFFICES ASSUME NEW u \in Users, streams'[u] # Null, NEW one \in streams'[u]
                 PROVE  notes[<<u, one[1]>>] # Null /\ notes[<<u, one[1]>>].occasion = one[3]
    BY <1>4 DEF PushedOnce
  <2>4. CASE streams[u] # Null /\ one \in streams[u]
    BY <2>4 DEF PushedOnce, DeliveryInv
  <2>5. CASE u = at.to /\ one = item
    BY <2>5, <2>1, <1>2
  <2> QED BY <2>2, <2>3, <2>4, <2>5
<1> QED
  BY <1>7, <1>8, <1>9, <1>10, <1>11, WebFrame

LEMMA EndKeeps ==
  ASSUME DeliveryInv, NEW s \in Senders, EndAnnouncement(s) \/ AbandonAnnouncement(s),
         UNCHANGED emailVars
  PROVE  DeliveryInv'
<1>1. sender' = [sender EXCEPT ![s] = Idle] /\ UNCHANGED <<notes, streams, occasions>>
  BY DEF EndAnnouncement, AbandonAnnouncement
<1>2. Idle \in SenderRow
  BY DEF SenderRow
<1>3. SenderOK(s)'
  BY <1>1 DEF SenderOK, Idle, DeliveryInv, DeliveryTypeOK
<1>4. occasions' \in Nat /\ UNCHANGED <<notes, streams>>
  BY <1>1 DEF DeliveryInv, DeliveryTypeOK
<1> QED
  BY <1>1, <1>2, <1>3, <1>4, SessionFrame

\* A viewer's step leaves the sessions alone.
LEMMA ViewerFrame ==
  ASSUME DeliveryInv, DeliveryTypeOK', RowsStay, StatusStays, PushedOnce',
         \A id \in Ids : notes[id] = Null => notes'[id] = Null,
         UNCHANGED sender, UNCHANGED emailVars
  PROVE  DeliveryInv'
<1>1. \A id \in Ids : RowOK(id)'
  BY RowsStayTheirs DEF DeliveryInv
<1>2. \A s \in Senders : SenderOK(s)'
  BY SenderWaits DEF DeliveryInv
<1> QED
  BY <1>1, <1>2, WebFrame

LEMMA ViewerKeeps ==
  ASSUME DeliveryInv, NEW u \in Users, ViewerStep(u), UNCHANGED emailVars
  PROVE  DeliveryInv'
<1>1. CASE OpenStream(u) \/ CloseStream(u)
  <2>1. /\ streams' = [streams EXCEPT ![u] = {}] \/ streams' = [streams EXCEPT ![u] = Null]
        /\ UNCHANGED <<notes, sender, occasions>>
    BY <1>1 DEF OpenStream, CloseStream
  <2>2. DeliveryTypeOK'
    BY <2>1 DEF DeliveryInv, DeliveryTypeOK, emailVars
  <2>3. RowsStay /\ StatusStays
    BY <2>1 DEF RowsStay, StatusStays
  <2>4. PushedOnce'
    BY <2>1 DEF DeliveryInv, DeliveryTypeOK, PushedOnce
  <2> QED
    BY <2>1, <2>2, <2>3, <2>4, ViewerFrame
<1>2. CASE UpdatePreferences(u)
  <2>1. UNCHANGED <<notes, sender, streams, occasions>>
    BY <1>2 DEF UpdatePreferences
  <2>2. DeliveryTypeOK'
    BY <2>1 DEF DeliveryInv, DeliveryTypeOK, emailVars
  <2>3. RowsStay /\ StatusStays
    BY <2>1 DEF RowsStay, StatusStays
  <2>4. PushedOnce'
    BY <2>1 DEF DeliveryInv, PushedOnce
  <2> QED
    BY <2>1, <2>2, <2>3, <2>4, ViewerFrame
<1>3. CASE ReadNotifications(u)
  <2>1. PICK ids : notes' = MarkRead(u, ids)
    BY <1>3 DEF ReadNotifications
  <2>2. UNCHANGED <<sender, streams, occasions>>
    BY <1>3 DEF ReadNotifications
  <2>3. ASSUME NEW id \in Ids
        PROVE  /\ notes'[id] \in NoteRow \cup {Null}
               /\ notes[id] = Null => notes'[id] = Null
               /\ notes[id] # Null => /\ notes'[id] # Null
                                      /\ notes'[id].occasion = notes[id].occasion
                                      /\ notes'[id].category = notes[id].category
                                      /\ notes'[id].status = notes[id].status
    <3>1. notes[id] \in NoteRow \cup {Null}
      BY DEF DeliveryInv, DeliveryTypeOK
    <3>2. notes'[id] = IF id \in ids /\ id[1] = u /\ notes[id] # Null
                       THEN [notes[id] EXCEPT !.read = TRUE] ELSE notes[id]
      BY <2>1 DEF MarkRead
    <3>3. ASSUME NEW row \in NoteRow
          PROVE  /\ [row EXCEPT !.read = TRUE] \in NoteRow
                 /\ [row EXCEPT !.read = TRUE].occasion = row.occasion
                 /\ [row EXCEPT !.read = TRUE].category = row.category
                 /\ [row EXCEPT !.read = TRUE].status = row.status
      BY DEF NoteRow
    <3>4. \A row \in NoteRow : row # Null
      BY NotifyAssumption
    <3>5. CASE notes[id] = Null
      BY <3>5, <3>2
    <3>6. CASE notes[id] # Null
      BY <3>6, <3>1, <3>2, <3>3, <3>4
    <3> QED BY <3>5, <3>6
  <2>4. notes' \in [Ids -> NoteRow \cup {Null}]
    <3>1. notes' = [id \in Ids |-> notes'[id]]
      BY <2>1 DEF MarkRead
    <3> QED BY <3>1, <2>3
  <2>5. DeliveryTypeOK'
    BY <2>2, <2>4 DEF DeliveryInv, DeliveryTypeOK, emailVars
  <2>6. RowsStay /\ StatusStays
    BY <2>3 DEF RowsStay, StatusStays
  <2>7. PushedOnce'
    BY <2>2, <2>6, PushedStay DEF DeliveryInv
  <2> QED
    BY <2>2, <2>3, <2>5, <2>6, <2>7, ViewerFrame
<1> QED
  BY <1>1, <1>2, <1>3 DEF ViewerStep

LEMMA WebKeeps ==
  ASSUME DeliveryInv, NotifyNext, UNCHANGED emailVars
  PROVE  DeliveryInv'
<1>1. ASSUME NEW s \in Senders, SenderStep(s) PROVE DeliveryInv'
  BY <1>1, BeginKeeps, CheckKeeps, InsertKeeps, PushKeeps, EndKeeps DEF SenderStep
<1>2. ASSUME NEW u \in Viewers, ViewerStep(u) PROVE DeliveryInv'
  BY <1>2, ViewerKeeps, NotifyAssumption
<1> QED
  BY <1>1, <1>2 DEF NotifyNext

-----------------------------------------------------------------------------
\* The worker's steps: the row it is at, what it sees of it, what it leaves.
LEMMA AtRow ==
  ASSUME DeliveryInv, NEW w \in Mailers, mailer[w].todo # <<>>
  PROVE  /\ Head(mailer[w].todo) \in Ids
         /\ notes[Head(mailer[w].todo)] \in NoteRow
         /\ Seen(w, Head(mailer[w].todo)) \in NoteRow
<1>1. mailer[w] \in MailerRow
  BY DEF DeliveryInv, DeliveryTypeOK
<1>2. mailer[w].todo \in Seq(Ids) /\ mailer[w].copies \in [Ids -> NoteRow \cup {Null}]
  BY <1>1 DEF MailerRow
<1>3. Head(mailer[w].todo) \in Ids /\ Head(mailer[w].todo) = mailer[w].todo[1]
      /\ 1 \in 1 .. Len(mailer[w].todo)
  BY <1>2
<1>4. notes[mailer[w].todo[1]] # Null
  BY <1>3 DEF DeliveryInv, MailerOK
<1>5. notes[Head(mailer[w].todo)] \in NoteRow
  BY <1>3, <1>4 DEF DeliveryInv, DeliveryTypeOK
<1> QED
  BY <1>2, <1>3, <1>5 DEF Seen

LEMMA FlushedRow ==
  ASSUME DeliveryInv, NEW w \in Mailers, mailer[w].todo # <<>>, NEW new \in NoteRow
  PROVE  LET id == Head(mailer[w].todo)
         IN  /\ Flushed(w, id, new) \in NoteRow
             /\ Flushed(w, id, new).occasion = notes[id].occasion
             /\ Flushed(w, id, new).category = notes[id].category
             /\ Flushed(w, id, new).status \in {notes[id].status, new.status}
             /\ new.status = Seen(w, id).status => Flushed(w, id, new).status = notes[id].status
<1> DEFINE id == Head(mailer[w].todo)
<1>1. notes[id] \in NoteRow /\ Seen(w, id) \in NoteRow
  BY AtRow
<1>2. PICK row \in NoteRow : row = notes[id]
  BY <1>1
<1>3. PICK old \in NoteRow : old = Seen(w, id)
  BY <1>1
<1>4. PICK next : next = [row EXCEPT !.attempts = new.attempts,
                                     !.status = IF new.status = old.status THEN @ ELSE new.status,
                                     !.waiting = IF new.waiting = old.waiting THEN @ ELSE new.waiting]
  OBVIOUS
<1>5. Flushed(w, id, new) = next
  BY <1>2, <1>3, <1>4 DEF Flushed
<1>6. /\ next \in NoteRow
      /\ next.occasion = row.occasion /\ next.category = row.category
      /\ next.status \in {row.status, new.status}
      /\ new.status = old.status => next.status = row.status
  BY <1>4 DEF NoteRow
<1> QED
  BY <1>2, <1>3, <1>5, <1>6

\* The worker goes on to its next row, with fewer copies or the same.
LEMMA NextRow ==
  ASSUME DeliveryInv, NEW w \in Mailers, mailer[w].todo # <<>>, NEW expired \in BOOLEAN
  PROVE  LET next == IF expired THEN [Done(w) EXCEPT !.copies = Resting.copies] ELSE Done(w)
         IN  /\ next \in MailerRow
             /\ next.result = Null
             /\ \A i \in 1 .. Len(next.todo) : notes[next.todo[i]] # Null
<1>1. mailer[w] \in MailerRow
  BY DEF DeliveryInv, DeliveryTypeOK
<1>2. mailer[w].todo \in Seq(Ids)
  BY <1>1 DEF MailerRow
<1>3. Tail(mailer[w].todo) \in Seq(Ids) /\ Len(Tail(mailer[w].todo)) = Len(mailer[w].todo) - 1
  BY <1>2
<1>4. \A i \in 1 .. Len(Tail(mailer[w].todo)) :
          /\ Tail(mailer[w].todo)[i] = mailer[w].todo[i + 1]
          /\ i + 1 \in 1 .. Len(mailer[w].todo)
  BY <1>2
<1>5. \A i \in 1 .. Len(Tail(mailer[w].todo)) : notes[Tail(mailer[w].todo)[i]] # Null
  BY <1>4 DEF DeliveryInv, MailerOK
<1>6. Resting.copies \in [Ids -> NoteRow \cup {Null}]
  BY DEF Resting
<1>7. Done(w) \in MailerRow /\ Done(w).result = Null /\ Done(w).todo = Tail(mailer[w].todo)
  BY <1>1, <1>3 DEF Done, MailerRow
<1> DEFINE next == IF expired THEN [Done(w) EXCEPT !.copies = Resting.copies] ELSE Done(w)
<1>8. next \in MailerRow /\ next.result = Null /\ next.todo = Tail(mailer[w].todo)
  BY <1>6, <1>7 DEF MailerRow
<1> QED
  BY <1>5, <1>8

\* What a worker's step leaves to show: its own row, the types and the outcomes.
LEMMA MailFrame ==
  ASSUME DeliveryInv, NEW w \in Mailers, NEW next \in MailerRow,
         mailer' = [mailer EXCEPT ![w] = next],
         \A i \in 1 .. Len(next.todo) : notes'[next.todo[i]] # Null,
         next.result # Null => next.todo # <<>>,
         next.result = "sent" => accepted'[Head(next.todo)] > 0,
         notes' \in [Ids -> NoteRow \cup {Null}], RowsStay,
         \A id \in Ids : notes[id] = Null => notes'[id] = Null,
         accepted' \in [Ids -> Nat], \A id \in Ids : accepted'[id] >= accepted[id],
         failures' \subseteq Ids, OutcomeIsTruthful', UNCHANGED webVars
  PROVE  DeliveryInv'
<1>1. DeliveryTypeOK'
  BY DEF DeliveryInv, DeliveryTypeOK, webVars
<1>2. \A id \in Ids : RowOK(id)'
  BY RowsStayTheirs DEF DeliveryInv
<1>3. \A s \in Senders : SenderOK(s)'
  BY SenderWaits DEF DeliveryInv, webVars
<1>4. PushedOnce'
  BY PushedStay DEF DeliveryInv, webVars
<1>5. ASSUME NEW v \in Mailers PROVE MailerOK(v)'
  <2>1. CASE v = w
    <3>1. mailer'[w] = next
      BY DEF DeliveryInv, DeliveryTypeOK
    <3> QED BY <2>1, <3>1 DEF MailerOK
  <2>2. CASE v # w
    <3>1. mailer'[v] = mailer[v]
      BY <2>2 DEF DeliveryInv, DeliveryTypeOK
    <3> QED BY <3>1, MailerWaits DEF DeliveryInv
  <2> QED BY <2>1, <2>2
<1> QED
  BY <1>1, <1>2, <1>3, <1>4, <1>5 DEF DeliveryInv

\* A worker that keeps the rows as they are.
LEMMA RowsUntouched ==
  ASSUME DeliveryInv, UNCHANGED notes, failures \subseteq failures',
         accepted' \in [Ids -> Nat], \A id \in Ids : accepted'[id] >= accepted[id]
  PROVE  /\ notes' \in [Ids -> NoteRow \cup {Null}] /\ RowsStay
         /\ \A id \in Ids : notes[id] = Null => notes'[id] = Null
         /\ OutcomeIsTruthful'
<1>1. StatusStays
  BY DEF StatusStays
<1>2. OutcomeIsTruthful'
  BY <1>1, OutcomeStays DEF DeliveryInv
<1>3. RowsStay /\ \A id \in Ids : notes[id] = Null => notes'[id] = Null
  BY DEF RowsStay
<1>4. notes' \in [Ids -> NoteRow \cup {Null}]
  BY DEF DeliveryInv, DeliveryTypeOK
<1> QED
  BY <1>2, <1>3, <1>4

\* A worker that writes one row, and with its status what makes it true.
LEMMA RowWritten ==
  ASSUME DeliveryInv, NEW id \in Ids, notes[id] # Null, NEW row \in NoteRow,
         notes' = [notes EXCEPT ![id] = row],
         row.occasion = notes[id].occasion, row.category = notes[id].category,
         UNCHANGED accepted, failures \subseteq failures',
         \/ row.status = notes[id].status
         \/ row.status = "SENT" /\ accepted[id] > 0
         \/ row.status = "FAILED" /\ (UserRow[id[1]].address => id \in failures')
  PROVE  /\ notes' \in [Ids -> NoteRow \cup {Null}] /\ RowsStay
         /\ \A other \in Ids : notes[other] = Null => notes'[other] = Null
         /\ OutcomeIsTruthful'
<1>1. notes \in [Ids -> NoteRow \cup {Null}]
  BY DEF DeliveryInv, DeliveryTypeOK
<1>2. notes' \in [Ids -> NoteRow \cup {Null}]
  BY <1>1
<1>3. row # Null
  BY NotifyAssumption
<1>4. ASSUME NEW other \in Ids
      PROVE  IF other = id THEN notes'[other] = row ELSE notes'[other] = notes[other]
  BY <1>1
<1>5. RowsStay /\ \A other \in Ids : notes[other] = Null => notes'[other] = Null
  BY <1>3, <1>4 DEF RowsStay
<1>6. ASSUME NEW other \in Ids
      PROVE  /\ HasStatus(other, {"SENT"})' => accepted'[other] > 0
             /\ HasStatus(other, {"FAILED"})' /\ UserRow[other[1]].address => other \in failures'
  <2>1. /\ HasStatus(other, {"SENT"}) => accepted[other] > 0
        /\ HasStatus(other, {"FAILED"}) /\ UserRow[other[1]].address => other \in failures
    BY DEF DeliveryInv, OutcomeIsTruthful
  <2> QED BY <2>1, <1>3, <1>4 DEF HasStatus
<1> QED
  BY <1>2, <1>5, <1>6 DEF OutcomeIsTruthful

LEMMA SelectKeeps ==
  ASSUME DeliveryInv, NEW w \in Mailers, SelectDue(w), UNCHANGED webVars
  PROVE  DeliveryInv'
<1>0. PICK todo \in UNION {[1 .. n -> Due] : n \in 1 .. EmailLimit} :
          mailer' = [mailer EXCEPT ![w] = [todo |-> todo, result |-> Null,
                                           copies |-> [id \in Ids |-> IF id \in Range(todo)
                                                                        THEN notes[id] ELSE Null]]]
  BY DEF SelectDue
<1>1. PICK n \in 1 .. EmailLimit : todo \in [1 .. n -> Due]
  OBVIOUS
<1> DEFINE next == [todo |-> todo, result |-> Null,
                    copies |-> [id \in Ids |-> IF id \in Range(todo) THEN notes[id] ELSE Null]]
<1>2. todo \in Seq(Ids) /\ todo \in Seq(Due)
  <2>1. n \in Nat
    BY EmailAssumption
  <2>2. todo \in Seq(Due)
    BY <1>1, <2>1
  <2> QED BY <2>2 DEF Due
<1>3. next.copies \in [Ids -> NoteRow \cup {Null}]
  BY DEF DeliveryInv, DeliveryTypeOK
<1>4. next \in MailerRow
  BY <1>2, <1>3 DEF MailerRow
<1>5. \A i \in 1 .. Len(next.todo) : notes[next.todo[i]] # Null
  <2>1. \A i \in 1 .. Len(todo) : todo[i] \in Due
    BY <1>2
  <2> QED BY <2>1 DEF Due
<1>6. UNCHANGED <<notes, accepted, failures>>
  BY DEF SelectDue
<1>7. accepted' \in [Ids -> Nat] /\ \A id \in Ids : accepted'[id] >= accepted[id]
  BY <1>6 DEF DeliveryInv, DeliveryTypeOK
<1>8. next.result = Null /\ next.result # "sent"
  BY EmailAssumption
<1>9. failures' \subseteq Ids /\ failures \subseteq failures'
  BY <1>6 DEF DeliveryInv, DeliveryTypeOK
<1>10. mailer' = [mailer EXCEPT ![w] = next] /\ \A i \in 1 .. Len(next.todo) : notes'[next.todo[i]] # Null
  BY <1>0, <1>5, <1>6
<1> HIDE DEF next
<1> QED
  BY <1>4, <1>6, <1>7, <1>8, <1>9, <1>10, RowsUntouched, MailFrame

LEMMA SendKeeps ==
  ASSUME DeliveryInv, NEW w \in Mailers, Send(w), UNCHANGED webVars
  PROVE  DeliveryInv'
<1> DEFINE id == Head(mailer[w].todo)
<1>1. mailer[w].todo # <<>> /\ UNCHANGED <<notes, failures>>
  BY DEF Send
<1>2. PICK taken \in BOOLEAN, answered \in BOOLEAN :
          /\ answered => taken
          /\ accepted' = [accepted EXCEPT ![id] = IF taken /\ @ < 2 THEN @ + 1 ELSE @]
          /\ mailer' = [mailer EXCEPT ![w].copies[id] = Seen(w, id),
                                      ![w].result = IF answered THEN "sent" ELSE "failed"]
  BY DEF Send
<1>3. id \in Ids /\ accepted \in [Ids -> Nat]
  BY <1>1, AtRow DEF DeliveryInv, DeliveryTypeOK
<1>4. /\ accepted' \in [Ids -> Nat] /\ \A other \in Ids : accepted'[other] >= accepted[other]
      /\ answered => accepted'[id] > 0
  <2> HIDE DEF id
  <2> QED BY <1>2, <1>3
<1> DEFINE next == [mailer[w] EXCEPT !.copies[id] = Seen(w, id),
                                     !.result = IF answered THEN "sent" ELSE "failed"]
<1>5. /\ next \in MailerRow /\ next.todo = mailer[w].todo
      /\ next.result = "sent" => answered
  <2>1. mailer[w] \in MailerRow
    BY DEF DeliveryInv, DeliveryTypeOK
  <2>2. PICK row : row = Seen(w, id) /\ row \in NoteRow
    BY <1>1, AtRow
  <2> HIDE DEF id
  <2> QED BY <1>3, <2>1, <2>2 DEF MailerRow
<1>6. mailer' = [mailer EXCEPT ![w] = next]
  <2> HIDE DEF id
  <2> QED BY <1>2
<1>7. \A i \in 1 .. Len(next.todo) : notes'[next.todo[i]] # Null
  BY <1>1, <1>5 DEF DeliveryInv, MailerOK
<1>8. next.result = "sent" => accepted'[Head(next.todo)] > 0
  BY <1>4, <1>5
<1>9. failures' \subseteq Ids /\ failures \subseteq failures'
  BY <1>1 DEF DeliveryInv, DeliveryTypeOK
<1> HIDE DEF next
<1> QED
  BY <1>1, <1>4, <1>5, <1>6, <1>7, <1>8, <1>9, RowsUntouched, MailFrame

\* The five steps that end a row; what they leave is written once.
LEMMA EndOfRow ==
  ASSUME DeliveryInv, NEW w \in Mailers, mailer[w].todo # <<>>, NEW expired \in BOOLEAN,
         mailer' = [mailer EXCEPT ![w] = IF expired THEN [Done(w) EXCEPT !.copies = Resting.copies]
                                         ELSE Done(w)],
         notes' \in [Ids -> NoteRow \cup {Null}], RowsStay,
         \A id \in Ids : notes[id] = Null => notes'[id] = Null,
         failures' \subseteq Ids, OutcomeIsTruthful', UNCHANGED accepted, UNCHANGED webVars
  PROVE  DeliveryInv'
<1> DEFINE next == IF expired THEN [Done(w) EXCEPT !.copies = Resting.copies] ELSE Done(w)
<1>1. /\ next \in MailerRow /\ next.result = Null
      /\ \A i \in 1 .. Len(next.todo) : notes[next.todo[i]] # Null
  BY NextRow
<1>2. next.todo \in Seq(Ids)
  BY <1>1 DEF MailerRow
<1>3. mailer' = [mailer EXCEPT ![w] = next]
  OBVIOUS
<1> HIDE DEF next
<1>4. \A i \in 1 .. Len(next.todo) : next.todo[i] \in Ids
  BY <1>2
<1>5. \A i \in 1 .. Len(next.todo) : notes'[next.todo[i]] # Null
  BY <1>1, <1>4 DEF RowsStay
<1>6. next.result # "sent"
  BY <1>1, EmailAssumption
<1>7. accepted' \in [Ids -> Nat] /\ \A id \in Ids : accepted'[id] >= accepted[id]
  BY DEF DeliveryInv, DeliveryTypeOK
<1> QED
  BY <1>1, <1>3, <1>5, <1>6, <1>7, MailFrame

LEMMA NoAddressKeeps ==
  ASSUME DeliveryInv, NEW w \in Mailers, NoAddress(w), UNCHANGED webVars
  PROVE  DeliveryInv'
<1> DEFINE id == Head(mailer[w].todo)
           row == [notes[id] EXCEPT !.status = "FAILED"]
<1>1. /\ mailer[w].todo # <<>> /\ ~UserRow[id[1]].address
      /\ notes' = [notes EXCEPT ![id] = row] /\ UNCHANGED accepted
      /\ failures' = failures \cup {id} \/ failures' = failures
  BY DEF NoAddress
<1>2. id \in Ids /\ notes[id] \in NoteRow /\ notes[id] # Null
  BY <1>1, AtRow, NotifyAssumption
<1>3. /\ row \in NoteRow /\ row.status = "FAILED"
      /\ row.occasion = notes[id].occasion /\ row.category = notes[id].category
  <2> HIDE DEF id
  <2> QED BY <1>2 DEF NoteRow
<1>4. failures' \subseteq Ids /\ failures \subseteq failures'
  BY <1>1, <1>2 DEF DeliveryInv, DeliveryTypeOK
<1> HIDE DEF id, row
<1>5. /\ notes' \in [Ids -> NoteRow \cup {Null}] /\ RowsStay
      /\ \A other \in Ids : notes[other] = Null => notes'[other] = Null
      /\ OutcomeIsTruthful'
  BY <1>1, <1>2, <1>3, <1>4, RowWritten
<1>6. PICK expired \in BOOLEAN :
          mailer' = [mailer EXCEPT ![w] = IF expired THEN [Done(w) EXCEPT !.copies = Resting.copies]
                                          ELSE Done(w)]
  BY DEF NoAddress
<1> QED
  BY <1>1, <1>4, <1>5, <1>6, EndOfRow

\* The outcome that a session records: the row it writes over the one it saw.
LEMMA RecordKeeps ==
  ASSUME DeliveryInv, NEW w \in Mailers, mailer[w].todo # <<>>, NEW new \in NoteRow,
         notes' = [notes EXCEPT ![Head(mailer[w].todo)] = Flushed(w, Head(mailer[w].todo), new)],
         mailer' = [mailer EXCEPT ![w] = Done(w)],
         UNCHANGED accepted, failures \subseteq failures', failures' \subseteq Ids, UNCHANGED webVars,
         \/ new.status = Seen(w, Head(mailer[w].todo)).status
         \/ new.status = "SENT" /\ accepted[Head(mailer[w].todo)] > 0
         \/ new.status = "FAILED" /\ Head(mailer[w].todo) \in failures'
  PROVE  DeliveryInv'
<1> DEFINE id == Head(mailer[w].todo)
           row == Flushed(w, id, new)
<1>1. id \in Ids /\ notes[id] \in NoteRow /\ notes[id] # Null
  BY AtRow, NotifyAssumption
<1>2. /\ row \in NoteRow
      /\ row.occasion = notes[id].occasion /\ row.category = notes[id].category
      /\ row.status \in {notes[id].status, new.status}
      /\ new.status = Seen(w, id).status => row.status = notes[id].status
  BY FlushedRow
<1>3. \/ row.status = notes[id].status
      \/ row.status = "SENT" /\ accepted[id] > 0
      \/ row.status = "FAILED" /\ (UserRow[id[1]].address => id \in failures')
  BY <1>2
<1>4. notes' = [notes EXCEPT ![id] = row]
  OBVIOUS
<1> HIDE DEF id, row
<1>5. /\ notes' \in [Ids -> NoteRow \cup {Null}] /\ RowsStay
      /\ \A other \in Ids : notes[other] = Null => notes'[other] = Null
      /\ OutcomeIsTruthful'
  BY <1>1, <1>2, <1>3, <1>4, RowWritten
<1>6. mailer' = [mailer EXCEPT ![w] = IF FALSE THEN [Done(w) EXCEPT !.copies = Resting.copies]
                                      ELSE Done(w)]
  OBVIOUS
<1> QED
  BY <1>5, <1>6, EndOfRow

LEMMA WorkerAtRow ==
  ASSUME DeliveryInv, NEW w \in Mailers, mailer[w].result \in {"sent", "failed"}
  PROVE  mailer[w].todo # <<>>
BY EmailAssumption DEF DeliveryInv, MailerOK

LEMMA RecordSentKeeps ==
  ASSUME DeliveryInv, NEW w \in Mailers, RecordSent(w), UNCHANGED webVars
  PROVE  DeliveryInv'
<1> DEFINE id == Head(mailer[w].todo)
<1>1. mailer[w].todo # <<>> /\ accepted[id] > 0
  BY WorkerAtRow DEF RecordSent, DeliveryInv, MailerOK
<1>2. PICK old \in NoteRow : old = Seen(w, id)
  BY <1>1, AtRow
<1>3. PICK n \in Nat : n = old.attempts + 1
  BY <1>2 DEF NoteRow
<1> DEFINE new == [old EXCEPT !.attempts = n, !.status = "SENT", !.waiting = FALSE]
<1>4. new \in NoteRow /\ new.status = "SENT"
  BY <1>2, <1>3 DEF NoteRow
<1>5. notes' = [notes EXCEPT ![id] = Flushed(w, id, new)]
  BY <1>2, <1>3 DEF RecordSent
<1>6. mailer' = [mailer EXCEPT ![w] = Done(w)] /\ UNCHANGED <<accepted, failures>>
  BY DEF RecordSent
<1>7. failures' \subseteq Ids /\ failures \subseteq failures'
  BY <1>6 DEF DeliveryInv, DeliveryTypeOK
<1> HIDE DEF id, new
<1> QED
  BY <1>1, <1>2, <1>4, <1>5, <1>6, <1>7, RecordKeeps DEF id

LEMMA RecordRetryKeeps ==
  ASSUME DeliveryInv, NEW w \in Mailers, RecordRetry(w), UNCHANGED webVars
  PROVE  DeliveryInv'
<1> DEFINE id == Head(mailer[w].todo)
<1>1. mailer[w].todo # <<>>
  BY WorkerAtRow DEF RecordRetry
<1>2. PICK old \in NoteRow : old = Seen(w, id)
  BY <1>1, AtRow
<1>3. PICK n \in Nat : n = old.attempts + 1
  BY <1>2 DEF NoteRow
<1> DEFINE new == [old EXCEPT !.attempts = n, !.waiting = TRUE]
<1>4. new \in NoteRow /\ new.status = old.status
  BY <1>2, <1>3 DEF NoteRow
<1>5. notes' = [notes EXCEPT ![id] = Flushed(w, id, new)]
  BY <1>2, <1>3 DEF RecordRetry
<1>6. mailer' = [mailer EXCEPT ![w] = Done(w)] /\ UNCHANGED <<accepted, failures>>
  BY DEF RecordRetry
<1>7. failures' \subseteq Ids /\ failures \subseteq failures'
  BY <1>6 DEF DeliveryInv, DeliveryTypeOK
<1> HIDE DEF id, new
<1> QED
  BY <1>1, <1>2, <1>4, <1>5, <1>6, <1>7, RecordKeeps DEF id

LEMMA RecordFailureKeeps ==
  ASSUME DeliveryInv, NEW w \in Mailers, RecordFailure(w), UNCHANGED webVars
  PROVE  DeliveryInv'
<1> DEFINE id == Head(mailer[w].todo)
<1>1. mailer[w].todo # <<>>
  BY WorkerAtRow DEF RecordFailure
<1>2. PICK old \in NoteRow : old = Seen(w, id)
  BY <1>1, AtRow
<1>3. PICK n \in Nat : n = old.attempts + 1
  BY <1>2 DEF NoteRow
<1> DEFINE new == [old EXCEPT !.attempts = n, !.status = "FAILED", !.waiting = FALSE]
<1>4. new \in NoteRow /\ new.status = "FAILED"
  BY <1>2, <1>3 DEF NoteRow
<1>5. notes' = [notes EXCEPT ![id] = Flushed(w, id, new)]
  BY <1>2, <1>3 DEF RecordFailure
<1>6. /\ mailer' = [mailer EXCEPT ![w] = Done(w)] /\ UNCHANGED accepted
      /\ failures' = failures \cup {id}
  BY DEF RecordFailure
<1>7. failures' \subseteq Ids /\ failures \subseteq failures' /\ id \in failures'
  BY <1>1, <1>6, AtRow DEF DeliveryInv, DeliveryTypeOK
<1> HIDE DEF id, new
<1> QED
  BY <1>1, <1>2, <1>4, <1>5, <1>6, <1>7, RecordKeeps DEF id

LEMMA LoseFailureKeeps ==
  ASSUME DeliveryInv, NEW w \in Mailers, LoseFailure(w), UNCHANGED webVars
  PROVE  DeliveryInv'
<1> DEFINE id == Head(mailer[w].todo)
<1>1. mailer[w].todo # <<>>
  BY WorkerAtRow DEF LoseFailure
<1>2. /\ failures' = failures \cup {id} \/ failures' = failures
      /\ UNCHANGED <<notes, accepted>>
  BY DEF LoseFailure
<1>3. failures' \subseteq Ids /\ failures \subseteq failures'
  BY <1>1, <1>2, AtRow DEF DeliveryInv, DeliveryTypeOK
<1>4. accepted' \in [Ids -> Nat] /\ \A other \in Ids : accepted'[other] >= accepted[other]
  BY <1>2 DEF DeliveryInv, DeliveryTypeOK
<1>5. mailer' = [mailer EXCEPT ![w] = IF TRUE THEN [Done(w) EXCEPT !.copies = Resting.copies]
                                      ELSE Done(w)]
  BY DEF LoseFailure
<1> QED
  BY <1>1, <1>2, <1>3, <1>4, <1>5, RowsUntouched, EndOfRow

LEMMA CrashKeeps ==
  ASSUME DeliveryInv, NEW w \in Mailers, CrashMailer(w), UNCHANGED webVars
  PROVE  DeliveryInv'
<1>1. mailer' = [mailer EXCEPT ![w] = Resting] /\ UNCHANGED <<notes, accepted, failures>>
  BY DEF CrashMailer
<1>2. /\ Resting \in MailerRow /\ Resting.result = Null /\ Resting.result # "sent"
      /\ \A i \in 1 .. Len(Resting.todo) : notes'[Resting.todo[i]] # Null
  BY EmailAssumption DEF Resting, MailerRow
<1>3. accepted' \in [Ids -> Nat] /\ \A other \in Ids : accepted'[other] >= accepted[other]
  BY <1>1 DEF DeliveryInv, DeliveryTypeOK
<1>4. failures' \subseteq Ids /\ failures \subseteq failures'
  BY <1>1 DEF DeliveryInv, DeliveryTypeOK
<1> QED
  BY <1>1, <1>2, <1>3, <1>4, RowsUntouched, MailFrame

\* Time passes over one row: nobody is at work.
LEMMA BackoffKeeps ==
  ASSUME DeliveryInv, BackoffElapses, UNCHANGED webVars
  PROVE  DeliveryInv'
<1>1. PICK id \in Ids : notes[id] # Null /\ notes' = [notes EXCEPT ![id].waiting = FALSE]
  BY DEF BackoffElapses
<1>2. UNCHANGED emailVars
  BY DEF BackoffElapses
<1>3. notes[id] \in NoteRow
  BY <1>1 DEF DeliveryInv, DeliveryTypeOK
<1>4. PICK row \in NoteRow : row = [notes[id] EXCEPT !.waiting = FALSE]
  BY <1>3 DEF NoteRow
<1>5. row.status = notes[id].status /\ row.occasion = notes[id].occasion /\ row.category = notes[id].category
  BY <1>3, <1>4 DEF NoteRow
<1>6. notes' = [notes EXCEPT ![id] = row]
  BY <1>1, <1>4
<1>7. /\ notes' \in [Ids -> NoteRow \cup {Null}] /\ RowsStay
      /\ \A other \in Ids : notes[other] = Null => notes'[other] = Null
  BY <1>1, <1>2, <1>5, <1>6, RowWritten DEF emailVars
<1>8. StatusStays
  BY <1>1, <1>5, <1>6 DEF StatusStays, DeliveryInv, DeliveryTypeOK
<1>9. DeliveryTypeOK' /\ PushedOnce'
  BY <1>2, <1>7, PushedStay DEF DeliveryInv, DeliveryTypeOK, emailVars, webVars
<1> QED
  BY <1>2, <1>7, <1>8, <1>9, ViewerFrame DEF webVars

LEMMA MailKeeps ==
  ASSUME DeliveryInv, EmailStep, UNCHANGED webVars
  PROVE  DeliveryInv'
<1>1. ASSUME NEW w \in Mailers, MailerStep(w) PROVE DeliveryInv'
  BY <1>1, SelectKeeps, SendKeeps, NoAddressKeeps, RecordSentKeeps, RecordRetryKeeps,
     RecordFailureKeeps, LoseFailureKeeps DEF MailerStep
<1> QED
  BY <1>1, CrashKeeps, BackoffKeeps DEF EmailStep

-----------------------------------------------------------------------------
LEMMA DeliveryStarts == DeliveryInit => DeliveryInv
<1> SUFFICES ASSUME DeliveryInit PROVE DeliveryInv
  OBVIOUS
<1>1. /\ notes = [id \in Ids |-> Null] /\ sender = [s \in Senders |-> Idle]
      /\ streams = [u \in Users |-> Null] /\ occasions = 0
      /\ mailer = [w \in Mailers |-> Resting] /\ accepted = [id \in Ids |-> 0] /\ failures = {}
  BY DEF DeliveryInit, NotifyInit, NotifyStart, EmailInit
<1>2. Idle \in SenderRow /\ Resting \in MailerRow
  BY DEF SenderRow, Resting, MailerRow
<1>3. DeliveryTypeOK
  BY <1>1, <1>2 DEF DeliveryTypeOK
<1>4. \A id \in Ids : RowOK(id)
  BY <1>1 DEF RowOK
<1>5. \A s \in Senders : SenderOK(s)
  BY <1>1 DEF SenderOK, Idle
<1>6. \A w \in Mailers : MailerOK(w)
  BY <1>1, EmailAssumption DEF MailerOK, Resting
<1>7. PushedOnce /\ OutcomeIsTruthful
  BY <1>1 DEF PushedOnce, OutcomeIsTruthful, HasStatus
<1> QED
  BY <1>3, <1>4, <1>5, <1>6, <1>7 DEF DeliveryInv

\* The inductive invariant: rows are for their audience, sessions push what
\* they have stored, and workers hold as sent what the server took
\* (notify/service.py, notify/email.py).
THEOREM DeliveryInvariant == DeliverySpec => []DeliveryInv
<1>1. DeliveryInv /\ [DeliveryNext]_deliveryVars => DeliveryInv'
  <2> SUFFICES ASSUME DeliveryInv, [DeliveryNext]_deliveryVars PROVE DeliveryInv'
    OBVIOUS
  <2>1. CASE NotifyNext /\ UNCHANGED emailVars
    BY <2>1, WebKeeps
  <2>2. CASE EmailStep /\ UNCHANGED webVars
    BY <2>2, MailKeeps
  <2>3. CASE UNCHANGED deliveryVars
    <3>1. UNCHANGED <<notes, sender, streams, occasions>> /\ UNCHANGED emailVars
      BY <2>3 DEF deliveryVars, notifyVars
    <3>2. DeliveryTypeOK'
      BY <3>1 DEF DeliveryInv, DeliveryTypeOK, emailVars
    <3>3. RowsStay /\ StatusStays
      BY <3>1 DEF RowsStay, StatusStays
    <3>4. PushedOnce'
      BY <3>1, <3>3, PushedStay DEF DeliveryInv
    <3> QED
      BY <3>1, <3>2, <3>3, <3>4, ViewerFrame
  <2> QED
    BY <2>1, <2>2, <2>3 DEF DeliveryNext
<1> QED
  BY <1>1, DeliveryStarts, PTL DEF DeliverySpec

\* However many sessions announce one event, a stream shows the row that was
\* stored, and only the session that stored it (create_notification).
THEOREM PushedOnceAlways == DeliverySpec => []PushedOnce
<1>1. DeliveryInv => PushedOnce
  BY DEF DeliveryInv
<1> QED
  BY <1>1, DeliveryInvariant, PTL

\* Whatever the workers write over one another, SENT and FAILED are true of the
\* mail (email.py:113-142).
THEOREM OutcomeIsTruthfulAlways == DeliverySpec => []OutcomeIsTruthful
<1>1. DeliveryInv => OutcomeIsTruthful
  BY DEF DeliveryInv
<1> QED
  BY <1>1, DeliveryInvariant, PTL

\* Those who are announced to, other than the submitter, may decide.
LEMMA AudienceDecides ==
  ASSUME NEW topic \in Topics, NEW u \in Audience(topic)
  PROVE  LET owner == Owner[topic.job]
         IN  /\ topic.suffix = Null <=> u = owner.submitter
             /\ topic.suffix # Null => MayDecide(u, owner)
BY DEF Audience, TenantAdmins, PlatformAdmins, MayDecide

\* The mail that asks for an approval goes to those whose answer is taken, and to
\* nobody else (decide/service.py:250-275, approval/service.py).
THEOREM OnlyApproversAreAskedAlways == DeliverySpec => []OnlyApproversAreAsked
<1>1. DeliveryInv => OnlyApproversAreAsked
  <2> SUFFICES ASSUME DeliveryInv, NEW id \in Ids, notes[id] # Null
               PROVE  LET owner == Owner[id[2][2]]
                          asked == Template(id[2], notes[id].category) = "approval required"
                      IN  /\ id[1] = owner.submitter \/ MayDecide(id[1], owner)
                          /\ asked <=> id[2][1] = "SCHEDULE_PROPOSED" /\ id[1] # owner.submitter
    BY DEF OnlyApproversAreAsked
  <2>1. PICK topic \in Topics :
            /\ id[2] = DedupKey(topic) /\ id[1] \in Audience(topic)
            /\ notes[id].category = topic.category
    BY DEF DeliveryInv, RowOK
  <2>2. id[2][1] = topic.event /\ id[2][2] = topic.job /\ id[2][3] = topic.suffix
    BY <2>1 DEF DedupKey
  <2> DEFINE owner == Owner[topic.job]
             asked == Template(id[2], topic.category) = "approval required"
  <2>3. /\ topic.suffix = Null <=> id[1] = owner.submitter
        /\ topic.suffix # Null => MayDecide(id[1], owner)
    BY <2>1, AudienceDecides
  <2>4. asked <=> topic.event = "SCHEDULE_PROPOSED" /\ topic.category = "APPROVAL"
    BY <2>2, NotifyAssumption DEF Template
  <2>5. topic.event = "SCHEDULE_PROPOSED" => (topic.category = "APPROVAL" <=> topic.suffix # Null)
    BY NotifyAssumption
  <2> HIDE DEF asked
  <2>6. asked <=> topic.event = "SCHEDULE_PROPOSED" /\ id[1] # owner.submitter
    BY <2>3, <2>4, <2>5
  <2> QED
    BY <2>1, <2>2, <2>3, <2>6 DEF asked
<1> QED
  BY <1>1, DeliveryInvariant, PTL
=============================================================================
