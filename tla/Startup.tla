------------------------------ MODULE Startup ------------------------------
(***************************************************************************)
(* How an API process brings the database to its models before it serves   *)
(* (app/shared/database.py init_db, alembic/env.py, alembic/versions), and  *)
(* the operator's own upgrades and downgrades, on PostgreSQL.              *)
(*                                                                         *)
(* The schema is a set of <<table, part>>: a table and what the models or  *)
(* a migration give it beyond its first form (columns, indexes, checks, a  *)
(* trigger, the range of its role type). Definitions of data types inside  *)
(* a part are not told apart.                                              *)
(***************************************************************************)
EXTENDS Naturals, Sequences, FiniteSets

CONSTANTS Replicas,       \* API processes
          MaxRetries,     \* attempts of init_db
          Origins,        \* [release, stamped]: which release left the database, and how
          Accounts,       \* account -> the legacy [role, tenant] it may have
          OldestRevision, \* the oldest revision an operator returns to
          MaxStarts       \* bound on the times a process starts

Legacy == {"ADMIN", "TEAM_LEAD", "OPERATOR", "USER", "VIEWER"}

\* Below revision 5 a downgrade drops the accounts themselves.
ASSUME StartupAssumption ==
    /\ MaxRetries \in Nat \ {0} /\ MaxStarts \in Nat
    /\ OldestRevision \in 5 .. 15
    /\ Origins \subseteq [release : 0 .. 15, stamped : BOOLEAN]
    /\ \A a \in DOMAIN Accounts :
         Accounts[a].role \in Legacy /\ Accounts[a].tenant \in BOOLEAN

VARIABLES schema,         \* parts that exist
          version,        \* row of alembic_version, 0 without one
          roles,          \* account -> role in its row
          origin,         \* element of Origins the database started as
          replica,        \* process -> [pc, attempt, missing, from]
          starts          \* starts so far

startupVars == <<schema, version, roles, origin, replica, starts>>

Part(tables, parts) == tables \X parts

\* What each migration adds. "tables" are created when missing; "parts" are
\* added when missing to a table that is there; "strict" are made by statements
\* that fail when they are there already; "dropped" tables are removed.
Adds(tables, parts) == [tables |-> Part(tables, {"table"}), parts |-> parts, strict |-> {}, dropped |-> {}]

Checked == {"jobs", "schedule_decisions", "approvals", "kubernetes_executions",
            "carbon_data", "tariff_data", "regional_tariffs"}
Indexed == {"jobs", "schedule_decisions", "approvals", "kubernetes_executions",
            "audit_events", "regional_tariffs"}
Reports == {"brsr"}

\* Mutant: nobody wrote the migration for the new column.
AddPolicies_TableOnly == Adds({"optimization_policies"}, {})

Initial == Adds({"tenants", "jobs", "schedule_decisions", "kubernetes_executions",
                 "audit_events", "carbon_data", "tariff_data", "regional_tariffs"}, {})
AddApprovals == Adds({"approvals"}, {})
AddIndexes == Adds({}, Part(Indexed, {"lookup"}))
AddConstraints == [Adds({}, {}) EXCEPT !.strict = Part(Checked, {"checks"})]
AddUsers == Adds({"users", "api_keys"}, {})
AddExplainability == Adds({}, {<<"schedule_decisions", "explained">>})
AddContention == Adds({}, {<<"schedule_decisions", "contention">>})
AddNotifications == Adds({"notifications"}, {<<"jobs", "submitter">>})
\* Its updates compare the role with legacy values, an error once the type of the
\* column has its three.
ConsolidateRoles == [Adds({}, {}) EXCEPT !.strict = {<<"users", "three_roles">>}]
AddPreferences == Adds({"notification_preferences"}, {})
AddReports == Adds(Reports, {})
AddAuditContext == Adds({"audit_anchors"}, Part({"audit_events"}, {"context", "append_only"}))
AddCompanies == Adds({"teams"}, {<<"tenants", "profile">>})
RemoveReports == [Adds({}, {}) EXCEPT !.dropped = Part(Reports, {"table"})]
AddPolicies == Adds({"optimization_policies"}, {<<"schedule_decisions", "tolerance">>})

Migrations ==
    <<Initial, AddApprovals, AddIndexes, AddConstraints, AddUsers, AddExplainability,
      AddContention, AddNotifications, ConsolidateRoles, AddPreferences, AddReports,
      AddAuditContext, AddCompanies, RemoveReports, AddPolicies>>

Latest == Len(Migrations)

\* What the ORM models declare: every part that stands at the head.
Models ==
    Part({"tenants", "jobs", "schedule_decisions", "kubernetes_executions", "audit_events",
          "carbon_data", "tariff_data", "regional_tariffs", "approvals", "users", "api_keys",
          "notifications", "notification_preferences", "audit_anchors", "teams",
          "optimization_policies"}, {"table"})
      \cup Part(Indexed, {"lookup"}) \cup Part(Checked, {"checks"})
      \cup Part({"schedule_decisions"}, {"explained", "contention", "tolerance"})
      \cup Part({"audit_events"}, {"context", "append_only"})
      \cup {<<"jobs", "submitter">>, <<"users", "three_roles">>, <<"tenants", "profile">>}

HasTable(table, in) == <<table, "table">> \in in
Tables == {part \in Models : part[2] = "table"}

\* What run_schema_migrations can add by itself.
Fallback == Part({"schedule_decisions"}, {"explained", "contention"})

-----------------------------------------------------------------------------
\* One revision up; CannotUp when a statement of it fails.
Up(m, now) ==
    (now \cup m.tables \cup {part \in m.parts : HasTable(part[1], now)}
         \cup {part \in m.strict : HasTable(part[1], now)}) \ m.dropped
CannotUp(m, now) == m.strict \cap now # {}

\* Mutant: the removed tables are not made again.
Down_KeepsDropped(m, now) == {part \in now : <<part[1], "table">> \notin m.tables} \ (m.parts \cup m.strict)

\* One revision down: its parts and tables go, what it dropped is made again.
\* The roles of 009 stay as they are.
Down(m, now) ==
    ({part \in now : <<part[1], "table">> \notin m.tables}
         \ ((m.parts \cup m.strict) \ {<<"users", "three_roles">>})) \cup m.dropped

\* The schemas that migrations v+1, v+2, ... make of one at revision v.
UpPath(v, now) ==
    LET path[k \in v .. Latest] == IF k = v THEN now ELSE Up(Migrations[k], path[k - 1])
    IN  path

\* "upgrade head" goes that path unless a statement on it fails.
Upgradable(v, now) == \A k \in v + 1 .. Latest : ~CannotUp(Migrations[k], UpPath(v, now)[k - 1])
Upgraded(v, now) == UpPath(v, now)[Latest]

\* The schema that migrations 1..v make of an empty database.
ChainTo == UpPath(0, {})

\* Mutant: administrators of companies are converted before the global ones.
Canonical_CompaniesFirst(role, tenant) ==
    CASE role \in {"ADMIN", "TEAM_LEAD"} -> "COMPANY_ADMIN"
      [] role \in {"OPERATOR", "USER", "VIEWER"} -> "COMPANY_USER"
      [] OTHER -> role

\* The three UPDATEs of 009 and of run_schema_migrations, one after the other.
Canonical(role, tenant) ==
    CASE role = "ADMIN" /\ ~tenant -> "PLATFORM_ADMIN"
      [] role = "TEAM_LEAD" \/ (role = "ADMIN" /\ tenant) -> "COMPANY_ADMIN"
      [] role \in {"OPERATOR", "USER", "VIEWER"} -> "COMPANY_USER"
      [] OTHER -> role

Normalized == [a \in DOMAIN Accounts |-> Canonical(roles[a], Accounts[a].tenant)]

-----------------------------------------------------------------------------
Stopped == [pc |-> "stopped", attempt |-> 0, missing |-> {}, from |-> 0]

\* An earlier release's create_all left what its own models had, unstamped, or
\* its migrations ran on the empty database first and it is stamped. Accounts of
\* a database without legacy ones have one of the three roles.
StartupInit ==
    /\ origin \in Origins
    /\ schema = ChainTo[origin.release]
    /\ version = IF origin.stamped THEN origin.release ELSE 0
    /\ roles = [a \in DOMAIN Accounts |->
                  IF origin.release \in 5 .. 8 THEN Accounts[a].role
                  ELSE Canonical(Accounts[a].role, Accounts[a].tenant)]
    /\ replica = [p \in Replicas |-> Stopped]
    /\ starts = 0

Goes(p, pc) == replica' = [replica EXCEPT ![p].pc = pc]

Start(p) ==
    /\ replica[p].pc = "stopped"
    /\ starts < MaxStarts
    /\ starts' = starts + 1
    /\ replica' = [replica EXCEPT ![p] = [Stopped EXCEPT !.pc = "create", !.attempt = 1]]
    /\ UNCHANGED <<schema, version, roles, origin>>

\* create_all looks which tables are missing ...
LookForTables(p) ==
    /\ replica[p].pc = "create"
    /\ replica' = [replica EXCEPT ![p].pc = "creating", ![p].missing = Tables \ schema]
    /\ UNCHANGED <<schema, version, roles, origin, starts>>

\* ... and creates them in one transaction, complete with all their parts; when
\* another process was faster the whole attempt is repeated.
CreateTables(p) ==
    LET at == replica[p]
        lost == at.missing \cap schema # {}
        new == {part \in Models : <<part[1], "table">> \in at.missing}
    IN  /\ at.pc = "creating"
        /\ IF lost
           THEN /\ replica' = [replica EXCEPT ![p] =
                      IF at.attempt = MaxRetries THEN [at EXCEPT !.pc = "failed"]
                      ELSE [at EXCEPT !.pc = "create", !.attempt = @ + 1]]
                /\ UNCHANGED schema
           ELSE /\ schema' = schema \cup new
                /\ Goes(p, "upgrade")
        /\ UNCHANGED <<version, roles, origin, starts>>

ReadVersion(p) ==
    /\ replica[p].pc = "upgrade"
    /\ replica' = [replica EXCEPT ![p].pc = "upgrading", ![p].from = version]
    /\ UNCHANGED <<schema, version, roles, origin, starts>>

\* command.upgrade to head is one transaction: it fails when a statement fails
\* or when another process has moved the version, and takes nothing with it.
\* run_alembic_migrations answers False and the start goes on.
UpgradeToHead(p) ==
    LET from == replica[p].from
    IN  /\ replica[p].pc = "upgrading"
        /\ IF version = from /\ Upgradable(from, schema)
           THEN /\ schema' = Upgraded(from, schema) /\ version' = Latest
                /\ roles' = IF from < 9 THEN Normalized ELSE roles
           ELSE UNCHANGED <<schema, version, roles>>
        /\ Goes(p, "fallback")
        /\ UNCHANGED <<origin, starts>>

\* run_schema_migrations is one transaction as well. Once the role type has its
\* three values, comparing it with a legacy one is an error that aborts it: the
\* error is swallowed and the columns are gone with it.
AddMissingColumns(p) ==
    /\ replica[p].pc = "fallback"
    /\ IF <<"users", "three_roles">> \in schema
       THEN UNCHANGED <<schema, roles>>
       ELSE /\ schema' = schema \cup {part \in Fallback : HasTable(part[1], schema)}
            /\ roles' = Normalized
    /\ Goes(p, "serving")
    /\ UNCHANGED <<version, origin, starts>>

\* A process ends at any moment; an open transaction ends with it.
Stop(p) ==
    /\ replica[p].pc # "stopped"
    /\ replica' = [replica EXCEPT ![p] = Stopped]
    /\ UNCHANGED <<schema, version, roles, origin, starts>>

\* The operator's "alembic upgrade head" and "alembic downgrade", with no
\* process running.
Upgrade ==
    /\ \A p \in Replicas : replica[p].pc = "stopped"
    /\ version < Latest /\ Upgradable(version, schema)
    /\ schema' = Upgraded(version, schema) /\ version' = Latest
    /\ roles' = IF version < 9 THEN Normalized ELSE roles
    /\ UNCHANGED <<origin, replica, starts>>

\* A downgrade over several revisions is several of these.
Downgrade ==
    /\ \A p \in Replicas : replica[p].pc = "stopped"
    /\ version > OldestRevision
    /\ schema' = Down(Migrations[version], schema) /\ version' = version - 1
    /\ UNCHANGED <<roles, origin, replica, starts>>

ReplicaStep(p) ==
    \/ LookForTables(p) \/ CreateTables(p) \/ ReadVersion(p) \/ UpgradeToHead(p)
    \/ AddMissingColumns(p)

StartupNext ==
    \/ \E p \in Replicas : Start(p) \/ ReplicaStep(p) \/ Stop(p)
    \/ Upgrade \/ Downgrade

StartupSpec == StartupInit /\ [][StartupNext]_startupVars
-----------------------------------------------------------------------------
Serving(p) == replica[p].pc = "serving"

\* The databases on which no upgrade goes through once a process has started: those
\* that an earlier release made without a stamp, and those below revision 9 whose
\* users are of the three roles, after a downgrade or because create_all made them.
Stranded ==
    \/ version = 0 /\ origin.release # 0
    \/ version \in 1 .. 8 /\ <<"users", "three_roles">> \in schema

\* No start fails, although processes that start at once race for the tables, and
\* except on a stranded database, every part of the models is there whenever a
\* process serves, however many of them start at once, end half-way, or come after
\* a downgrade (database.py init_db).
StartedHasModels ==
    \A p \in Replicas :
        replica[p].pc # "failed" /\ (Serving(p) => Models \subseteq schema \/ Stranded)

\* alembic_version tells the truth: all that the chain makes up to that revision
\* is there, and nothing else but what the models have.
VersionIsTruthful ==
    version > 0 => /\ ChainTo[version] \subseteq schema
                   /\ schema \subseteq ChainTo[version] \cup Models

\* Whoever administered the platform still does, and nobody else, after the
\* roles were folded into three, whichever of the two conversions did it and
\* however often (009_consolidate_user_roles.py).
AdminsKeepTheirReach ==
    (\E p \in Replicas : Serving(p)) =>
        \A a \in DOMAIN Accounts :
            /\ roles[a] \in {"PLATFORM_ADMIN", "COMPANY_ADMIN", "COMPANY_USER"}
            /\ roles[a] = "PLATFORM_ADMIN" <=> Accounts[a].role = "ADMIN" /\ ~Accounts[a].tenant

=============================================================================
