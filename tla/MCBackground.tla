---------------------------- MODULE MCBackground ----------------------------
(* Small instances of what goes on behind the requests, for TLC: starting a   *)
(* process, loading the dataset, announcing events, mailing what was          *)
(* announced, and refreshing carbon curves.  They share no table that is      *)
(* modelled but the notifications, which the mail worker finds announced:     *)
(* each plays in a scene of its own, and is fair while it plays.              *)
EXTENDS EmailDelivery, CarbonCache, WorkloadArrival, Startup, TLC

CONSTANTS s1, m1, m2, r1, g1

User(role, tenant, address) ==
  [role |-> role, tenant |-> tenant, active |-> TRUE, address |-> address]
SomeUsers ==
  ("sub" :> User("COMPANY_USER", "t1", TRUE)) @@ ("adm" :> User("COMPANY_ADMIN", "t1", FALSE))
    @@ ("oth" :> User("COMPANY_ADMIN", "t2", TRUE)) @@ ("plat" :> User("PLATFORM_ADMIN", Null, TRUE))
Proposal(category, suffix) ==
  [event |-> "SCHEDULE_PROPOSED", category |-> category, job |-> "j1", suffix |-> suffix]
SomeTopics == {Proposal("SCHEDULING", Null), Proposal("APPROVAL", "approver")}
SomeOwner == "j1" :> [tenant |-> "t1", submitter |-> "sub"]

Entry(id, submit, earliest, deadline, runtime, slack) ==
  [id |-> id, submit |-> submit, earliest |-> earliest, deadline |-> deadline,
   runtime |-> runtime, slack |-> slack, sound |-> TRUE]
SomeDataSet ==
  <<Entry(2, 2, 2, 8, 3, 1), Entry(1, 1, 1, 9, 8, Unreadable), Entry(3, 3, 4, 30, 6, 0),
    Entry(4, 1, 5, 3, 1, 1), Entry(6, 3, Unreadable, 9, 1, 1),
    [Entry(5, 2, 2, 9, 1, 1) EXCEPT !.sound = FALSE]>>

Left(release, stamped) == [release |-> release, stamped |-> stamped]
SomeOrigins == {Left(0, FALSE)} \cup {Left(r, s) : r \in {8, 12}, s \in BOOLEAN}
Account(role, tenant) == [role |-> role, tenant |-> tenant]
SomeAccounts ==
  ("a" :> Account("ADMIN", FALSE)) @@ ("b" :> Account("ADMIN", TRUE))
    @@ ("c" :> Account("TEAM_LEAD", TRUE)) @@ ("d" :> Account("VIEWER", TRUE))

VARIABLE scene
stageVars == <<scene, deliveryVars, carbonVars, arrivalVars, startupVars>>

\* What a scene leaves alone starts in one way only.
Init ==
  /\ DeliveryInit /\ CarbonInit /\ ArrivalInit /\ StartupInit
  /\ scene \in {"startup", "arrival", "mail", "carbon"}
  /\ scene # "carbon" => apiUp
  /\ scene # "startup" => origin.release = 0

Boot == StartupNext /\ UNCHANGED <<deliveryVars, carbonVars, arrivalVars>>
Load == ArrivalNext /\ UNCHANGED <<deliveryVars, carbonVars, startupVars>>
Mail ==
  /\ \/ SenderStep(s1) /\ UNCHANGED emailVars
     \/ EmailStep /\ UNCHANGED webVars
  /\ UNCHANGED <<carbonVars, arrivalVars, startupVars>>
Refresh == CarbonNext /\ UNCHANGED <<deliveryVars, arrivalVars, startupVars>>

Next ==
  /\ UNCHANGED scene
  /\ \/ scene = "startup" /\ Boot
     \/ scene = "arrival" /\ Load
     \/ scene = "mail" /\ Mail
     \/ scene = "carbon" /\ Refresh

\* Fairness of the two scenes that have promises to keep in the end; the mail
\* worker and the request of one number are fair as one, for they never meet.
Proceeds(w, r) ==
  /\ \/ scene = "mail" /\ MailerStep(w) /\ UNCHANGED <<webVars, carbonVars>>
     \/ scene = "carbon" /\ RequestStep(r) /\ UNCHANGED deliveryVars
  /\ UNCHANGED <<scene, arrivalVars, startupVars>>

Backoff ==
  /\ scene = "mail" /\ BackoffElapses
  /\ UNCHANGED <<scene, webVars, carbonVars, arrivalVars, startupVars>>
Clock == scene = "carbon" /\ CarbonTick /\ UNCHANGED <<scene, deliveryVars, arrivalVars, startupVars>>

Spec ==
  /\ Init /\ [][Next]_stageVars
  /\ WF_stageVars(Proceeds(m1, r1)) /\ WF_stageVars(Proceeds(m2, g1)) /\ WF_stageVars(Backoff)
  /\ ([]<><<Clock>>_stageVars) \/ ([]<>Timeless)
=============================================================================
