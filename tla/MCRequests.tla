----------------------------- MODULE MCRequests -----------------------------
(* Small instances of the requests the API handles, for TLC.  They share no  *)
(* table that is modelled, so each behaviour plays in one scene: planning a  *)
(* batch (half-hour ticks, hours 0..3) while policies change, pricing the    *)
(* hours of a region, announcing events, administering accounts, or          *)
(* registering companies.                                                    *)
EXTENDS BatchScheduler, Tariffs, Notifications, Membership, Registration, TLC

CONSTANTS a1, w1, w2, e1, e2, e3, e4, c1, c2

Amount(cpu, memory, gpu) ==
  [r \in Resources |-> CASE r = "cpu" -> cpu [] r = "memory" -> memory [] r = "gpu" -> gpu]

Hourly(values) ==
  {[at |-> 2 * (n - 1), value |-> values[n], fallback |-> FALSE] : n \in DOMAIN values}
Curve == [region \in {"north"} |-> Hourly(<<20, 10, 19, 19>>)]
Price == [region \in {"north"} |-> Hourly(<<5, 6, 4, 4>>)]
NoTemplate == [region \in {"north"} |-> [hour \in 0..23 |-> 9]]
Busy == [t \in 0..20 |-> IF t \in {4, 5} THEN 1 ELSE 0]

Work(tenant, priority, deferrable, earliest, deadline, runtime, budget, demand) ==
  [tenant |-> tenant, region |-> "north", priority |-> priority, deferrable |-> deferrable,
   submitted |-> 0, earliest |-> earliest, deadline |-> deadline, runtime |-> runtime,
   energy |-> 1, budget |-> budget, demand |-> demand]
SomeShapes ==
  {Work("t1", 0, FALSE, 3, 5, 2, Unset, Amount(1, 1, 0)),
   Work("t1", 2, TRUE, Unset, 8, 2, Unset, Amount(1, 1, 0)),
   Work("t1", 2, TRUE, 3, 7, 3, 15, Amount(2, 1, 0)),
   Work("t2", 3, TRUE, 4, 8, 1, Unset, Amount(1, 1, 1)),
   Work("t2", 1, TRUE, 2, 3, 2, Unset, Amount(1, 1, 0))}

Node(name, ready, cpu, gpu) ==
  [name |-> name, ready |-> ready, allocatable |-> Amount(cpu, 2, gpu),
   requested |-> Amount(0, 1, 0)]
Cluster(available, answers, podsListed, nodes) ==
  [available |-> available, answers |-> answers, podsListed |-> podsListed,
   floating |-> Nothing, nodes |-> nodes]
SomeClusters ==
  {Cluster(FALSE, FALSE, FALSE, {}), Cluster(TRUE, FALSE, FALSE, {}),
   Cluster(TRUE, TRUE, TRUE, {Node("n1", TRUE, 1, 1), Node("n2", FALSE, 1, 0)}),
   Cluster(TRUE, TRUE, FALSE, {Node("n1", TRUE, 1, 0)})}

\* North is half an hour off, west changes its clock at tick 100 and its season at
\* tick 110; the second file has no prices for north and one season for west.
Rate(a, b) == [h \in 0..23 |-> IF h \in 6..8 THEN b ELSE a + h]
SomeFiles ==
  <<("north" :> ("ALL-YEAR" :> Rate(10, 50)))
      @@ ("west" :> (("SUMMER" :> Rate(20, 60)) @@ ("WINTER" :> Rate(30, 70)))),
    ("west" :> ("WINTER" :> [h \in 0..12 |-> 90 + h]))>>
SomeOffset ==
  [region \in {"north", "west"} |->
     [t \in 0..150 |-> CASE region = "north" -> 11 [] region = "west" /\ t < 100 -> -16 [] OTHER -> -14]]
SomeWindows == {<<97, 101>>, <<107, 110>>}

User(role, tenant) == [role |-> role, tenant |-> tenant, active |-> TRUE, address |-> TRUE]
SomeUsers ==
  ("sub" :> User("COMPANY_USER", "t1")) @@ ("adm" :> User("COMPANY_ADMIN", "t1"))
    @@ ("oth" :> User("COMPANY_ADMIN", "t2")) @@ ("plat" :> User("PLATFORM_ADMIN", Null))
SomeTopics ==
  {[event |-> "SCHEDULE_PROPOSED", category |-> "SCHEDULING", job |-> "j1", suffix |-> Null],
   [event |-> "SCHEDULE_PROPOSED", category |-> "APPROVAL", job |-> "j1", suffix |-> "approver"]}
SomeOwner == "j1" :> [tenant |-> "t1", submitter |-> "sub"]

Member(role, tenant, team) ==
  [role |-> role, tenant |-> tenant, team |-> team, approval |-> "APPROVED", active |-> TRUE]
SomeRows ==
  ("plat" :> Member("PLATFORM_ADMIN", Absent, Absent))
    @@ ("adm" :> Member("COMPANY_ADMIN", "t1", Absent))
    @@ ("sub" :> Member("COMPANY_USER", "t1", "x")) @@ ("oth" :> Member("COMPANY_ADMIN", "t2", "x"))

Order(op, name) ==
  [op |-> op, name |-> name, firm |-> Absent, team |-> Absent, role |-> Absent,
   approval |-> Absent, active |-> Absent]
SomeOrders ==
  {Order("register", "new"), Order("deactivate", "adm"), Order("deactivate", "sub"),
   Order("revoke_key", Absent), [Order("create_firm", Absent) EXCEPT !.firm = "t3"],
   [Order("update_firm", Absent) EXCEPT !.firm = "t1", !.active = "no"],
   [Order("create_key", Absent) EXCEPT !.firm = "t1"],
   [Order("own_team", "new") EXCEPT !.role = "COMPANY_USER"],
   [Order("status", "sub") EXCEPT !.active = "yes"],
   [Order("own_user", "new") EXCEPT !.role = "COMPANY_USER", !.team = "x"],
   [Order("admin_create_user", "new") EXCEPT !.firm = "t3", !.role = "COMPANY_USER"]}
  \cup {[Order("create_user", "new") EXCEPT !.firm = "t1", !.role = r] :
          r \in {"COMPANY_ADMIN", "PLATFORM_ADMIN"}}
  \cup {[Order("status", p) EXCEPT !.approval = v] :
          p \in {"new", "sub"}, v \in {"APPROVED", "REJECTED"}}
  \cup {[Order("status", "sub") EXCEPT !.role = r] : r \in {"COMPANY_ADMIN", "PLATFORM_ADMIN"}}
SomeWorkloads == [tenant : {Absent, "t1", "t2"}, team : {Absent, "x"}]

Created == (w1 :> e1) @@ (w2 :> e2)
Admin == (w1 :> e3) @@ (w2 :> e4)

VARIABLE scene
planningVars == <<batchVars, settingsVars>>

Scenes == {"planning", "tariffs", "announcements", "accounts", "registration"}

\* An id only breaks ties, so the jobs to plan are given in one order of their
\* priorities, the last to be placed first; the other scenes plan nothing.
Init ==
  /\ PlanningInit /\ TariffInit /\ NotifyInit /\ MembersInit /\ RegistrationInit
  /\ scene \in Scenes
  /\ IF scene = "planning" THEN \A i, j \in Jobs : i < j => work[i].priority >= work[j].priority
     ELSE work \in [Jobs -> {job \in Shapes : job.priority = 0}]

Plan == PlanningNext /\ UNCHANGED <<tariffVars, notifyVars, membersVars, registrationVars>>
Tell == TariffNext /\ UNCHANGED <<planningVars, notifyVars, membersVars, registrationVars>>
Announce == NotifyNext /\ UNCHANGED <<planningVars, tariffVars, membersVars, registrationVars>>
Administer == MembersNext /\ UNCHANGED <<planningVars, tariffVars, notifyVars, registrationVars>>
Register == RegistrationNext /\ UNCHANGED <<planningVars, tariffVars, notifyVars, membersVars>>

Next ==
  /\ UNCHANGED scene
  /\ \/ scene = "planning" /\ Plan
     \/ scene = "tariffs" /\ Tell
     \/ scene = "announcements" /\ Announce
     \/ scene = "accounts" /\ Administer
     \/ scene = "registration" /\ Register

requestVars ==
  <<scene, planningVars, tariffVars, notifyVars, membersVars, registrationVars>>
Spec == Init /\ [][Next]_requestVars

\* Bound: how many events the registrations record, repetitions included.
FewEvents == Cardinality(ledger) =< 4
=============================================================================
