------------------------------ MODULE Membership ------------------------------
(***************************************************************************)
(* Accounts, companies and API keys: registration, login, the gate every   *)
(* request passes, the administration endpoints and the company's own, and *)
(* which jobs a caller sees.                                               *)
(* A request is admitted, loads and checks rows, commits and reports, each *)
(* in a step of its own, with other requests in between.  Whatever refuses *)
(* a request leaves everything as it is: only the accepted ones are steps. *)
(***************************************************************************)
EXTENDS Naturals, FiniteSets

CONSTANTS
  Absent,     \* no row; SQL NULL
  People,     \* account names; a name stands for user name and email
  FirstRows,  \* the rows of users at the beginning
  Firms,      \* company ids
  OpenFirms,  \* those that exist at the beginning
  KeyIds,     \* the ids API keys may get
  Handlers,   \* requests that may be handled at once
  Orders,     \* request bodies
  MaxOrders,  \* bound: requests handled
  Workloads   \* jobs [tenant, team]

Roles == {"PLATFORM_ADMIN", "COMPANY_ADMIN", "COMPANY_USER"}
Approvals == {"APPROVED", "PENDING", "REJECTED"}
Homes == Firms \cup {Absent}
Squads ==
  {Absent} \cup {FirstRows[p].team : p \in DOMAIN FirstRows} \cup {o.team : o \in Orders}

MemberRows ==
  [role : Roles, tenant : Homes, team : Squads, approval : Approvals, active : BOOLEAN]
KeyRows == [role : {"COMPANY_USER"}, tenant : Firms, active : BOOLEAN]

Creations == {"register", "admin_create_user", "create_user", "own_user"}
Changes == {"status", "deactivate"}

\* The request models: a role is one of three; whoever is created has one.
ASSUME MembershipAssumption ==
  /\ DOMAIN FirstRows \subseteq People /\ OpenFirms \subseteq Firms /\ MaxOrders \in Nat
  /\ \A p \in DOMAIN FirstRows : FirstRows[p] \in MemberRows
  /\ Absent \notin Firms /\ Absent \notin MemberRows /\ Absent \notin KeyRows
  /\ \A o \in Orders :
       /\ o.op \in Creations \cup Changes \cup
            {"own_team", "create_firm", "update_firm", "create_key", "revoke_key"}
       /\ o.op \in Creations \cup Changes => o.name \in People
       /\ o.op \in Creations \ {"register"} => o.role \in Roles
       /\ o.firm \in Homes /\ o.role \in Roles \cup {Absent}
       /\ o.approval \in Approvals \cup {Absent}

Public == [id |-> Absent, role |-> Absent, tenant |-> Absent, team |-> Absent]

VARIABLES
  members,   \* users: name -> row, or Absent
  firms,     \* tenants: company -> [active], or Absent
  teams,     \* teams: <<tenant, name>>
  keys,      \* api_keys: id -> row, or Absent
  tokens,    \* the accounts that hold a token
  handler,   \* what a request has admitted and loaded
  handled,   \* how many have been admitted
  told,      \* <<event, account>>: the audit events about accounts
  missed     \* those that a request should have recorded, and did not

membersVars == <<members, firms, teams, keys, tokens, handler, handled, told, missed>>

Waiting == [pc |-> "idle", who |-> Public, order |-> Absent, loaded |-> Absent, new |-> Absent]

MembersInit ==
  /\ members = [p \in People |-> IF p \in DOMAIN FirstRows THEN FirstRows[p] ELSE Absent]
  /\ firms = [f \in Firms |-> IF f \in OpenFirms THEN [active |-> TRUE] ELSE Absent]
  /\ teams = {} /\ keys = [k \in KeyIds |-> Absent]
  /\ tokens = DOMAIN FirstRows
  /\ handler = [h \in Handlers |-> Waiting] /\ handled = 0
  /\ told = {} /\ missed = {}
-----------------------------------------------------------------------------
CompanyIsInactive(u) ==
  u.tenant # Absent /\ firms[u.tenant] # Absent /\ ~firms[u.tenant].active

\* get_current_identity and get_current_user have each a copy of these checks.
IdentityGate(u) ==
  IF ~u.active THEN "deactivated"
  ELSE IF u.approval = "PENDING" THEN "pending"
  ELSE IF u.approval = "REJECTED" THEN "declined"
  ELSE IF CompanyIsInactive(u) THEN "company inactive" ELSE "ok"

UserGate(u) ==
  IF ~u.active THEN "deactivated"
  ELSE IF u.approval = "PENDING" THEN "pending"
  ELSE IF u.approval = "REJECTED" THEN "declined"
  ELSE IF CompanyIsInactive(u) THEN "company inactive" ELSE "ok"

\* /auth/login, and word for word /auth/login-email.
LoginGate(u) ==
  IF ~u.active \/ u.approval = "PENDING"
  THEN IF ~u.active /\ u.approval = "APPROVED" THEN "deactivated" ELSE "pending"
  ELSE IF u.approval = "REJECTED" THEN "declined"
  ELSE IF CompanyIsInactive(u) THEN "company inactive" ELSE "ok"

IsPlatformAdmin(i) == i.role = "PLATFORM_ADMIN"
IsCompanyAdmin(i) == i.role \in {"PLATFORM_ADMIN", "COMPANY_ADMIN"}

Identity(p) ==
  [id |-> p, role |-> members[p].role, tenant |-> members[p].tenant, team |-> members[p].team]

\* An API key has no team; its role is never administrative.
KeyIdentity(k) ==
  [id |-> k, role |-> keys[k].role, tenant |-> keys[k].tenant, team |-> Absent]

Callers ==
  {Identity(p) : p \in {q \in tokens : members[q] # Absent /\ IdentityGate(members[q]) = "ok"}}
    \cup {KeyIdentity(k) : k \in {l \in KeyIds : keys[l] # Absent /\ keys[l].active}}

\* require_company_admin_of_own_company: the platform administrator is excluded
\* from the endpoints under /companies/me, and so are API keys.
AdminOfOwnCompany(i) == i.id \in People /\ i.tenant # Absent /\ i.role = "COMPANY_ADMIN"

\* The dependencies of the endpoints.
Permits(op, i) ==
  CASE op \in {"create_firm", "admin_create_user"} -> IsPlatformAdmin(i)
    [] op \in {"own_user", "own_team"}             -> AdminOfOwnCompany(i)
    [] OTHER                                       -> IsCompanyAdmin(i)

Reaches(i, tenant) == IsPlatformAdmin(i) \/ tenant = i.tenant

\* Where a creating request puts what it creates; a key is never without a company.
OrDefault(tenant) == IF tenant = Absent THEN "tenant-default" ELSE tenant
Target(i, o) ==
  CASE o.op = "register" -> Absent
    [] o.op \in {"own_user", "own_team"} -> i.tenant
    [] o.op = "create_key" -> OrDefault(IF o.firm = Absent THEN i.tenant ELSE o.firm)
    [] OTHER -> IF o.firm = Absent THEN i.tenant ELSE o.firm
-----------------------------------------------------------------------------
\* The endpoints that need no account.
AdmitPublic(h) ==
  /\ handler[h].pc = "idle" /\ handled < MaxOrders
  /\ \E o \in {p \in Orders : p.op = "register"} :
        handler' = [handler EXCEPT ![h] = [Waiting EXCEPT !.pc = "load", !.order = o]]
  /\ handled' = handled + 1
  /\ UNCHANGED <<members, firms, teams, keys, tokens, told, missed>>

\* The role is the one of the row now, not the token's.  The row of the caller
\* stays in the session.
Admit(h) ==
  /\ handler[h].pc = "idle" /\ handled < MaxOrders
  /\ \E o \in {p \in Orders : p.op # "register"}, i \in Callers :
        /\ Permits(o.op, i)
        /\ handler' = [handler EXCEPT ![h] =
             [Waiting EXCEPT !.pc = "load", !.who = i, !.order = o,
                             !.loaded = IF i.id \in People THEN members[i.id] ELSE Absent]]
  /\ handled' = handled + 1
  /\ UNCHANGED <<members, firms, teams, keys, tokens, told, missed>>

Finish(h) == handler' = [handler EXCEPT ![h] = Waiting]

Prepared(h, loaded, new) ==
  handler' = [handler EXCEPT ![h].pc = "save", ![h].loaded = loaded, ![h].new = new]

NewMember(i, o) ==
  [role |-> IF o.op = "register" THEN "COMPANY_USER" ELSE o.role,
   tenant |-> Target(i, o), team |-> o.team,
   approval |-> IF o.op = "register" THEN "PENDING" ELSE "APPROVED",
   active |-> o.op # "register"]

\* register, admin_create_user, create_user, create_own_company_user.
PrepareMember(h) ==
  LET i == handler[h].who
      o == handler[h].order
  IN  /\ handler[h].pc = "load"
      /\ o.op \in {"register", "admin_create_user", "create_user", "own_user"}
      /\ IF /\ members[o.name] = Absent
            /\ o.role = "PLATFORM_ADMIN" => IsPlatformAdmin(i) \/ o.op = "register"
            /\ o.op = "create_user" => IsPlatformAdmin(i) \/ o.firm \in {Absent, i.tenant}
         THEN Prepared(h, Absent, NewMember(i, o))
         ELSE Finish(h)
      /\ UNCHANGED <<members, firms, teams, keys, tokens, handled, told, missed>>

\* Mutant: the company of the row is not compared with the caller's.
Updatable_AnyCompany(i, o, row) == o.role # Absent => o.name # i.id

Updatable(i, o, row) ==
  /\ Reaches(i, row.tenant)
  /\ o.role # Absent => o.name # i.id
  /\ o.role = "PLATFORM_ADMIN" => IsPlatformAdmin(i)

\* An explicit is_active goes over the one that the verdict implies.
Updated(row, o) ==
  [row EXCEPT !.approval = IF o.approval = Absent THEN @ ELSE o.approval,
              !.active = IF o.active # Absent THEN o.active = "yes"
                         ELSE IF o.approval \in {"APPROVED", "REJECTED"} THEN o.approval = "APPROVED"
                         ELSE @,
              !.role = IF o.role = Absent THEN @ ELSE o.role]

\* update_user_status; whoever changes the own account gets the row that the
\* session has.
PrepareStatus(h) ==
  LET i == handler[h].who
      o == handler[h].order
      row == IF o.name = i.id THEN handler[h].loaded ELSE members[o.name]
  IN  /\ handler[h].pc = "load" /\ o.op = "status"
      /\ IF row # Absent /\ Updatable(i, o, row)
         THEN Prepared(h, row, Updated(row, o))
         ELSE Finish(h)
      /\ UNCHANGED <<members, firms, teams, keys, tokens, handled, told, missed>>

\* deactivate_user.
PrepareDeactivation(h) ==
  LET i == handler[h].who
      o == handler[h].order
      row == IF o.name = i.id THEN handler[h].loaded ELSE members[o.name]
  IN  /\ handler[h].pc = "load" /\ o.op = "deactivate"
      /\ IF row # Absent /\ Reaches(i, row.tenant) /\ row.active
         THEN Prepared(h, row, [row EXCEPT !.active = FALSE])
         ELSE Finish(h)
      /\ UNCHANGED <<members, firms, teams, keys, tokens, handled, told, missed>>

\* create_company and update_company.
PrepareFirm(h) ==
  LET i == handler[h].who
      o == handler[h].order
      row == firms[o.firm]
  IN  /\ handler[h].pc = "load" /\ o.op \in {"create_firm", "update_firm"}
      /\ CASE o.op = "create_firm" /\ row = Absent -> Prepared(h, Absent, [active |-> TRUE])
           [] o.op = "update_firm" /\ row # Absent /\ IsPlatformAdmin(i) ->
                Prepared(h, row, [active |-> o.active = "yes"])
           [] OTHER -> Finish(h)
      /\ UNCHANGED <<members, firms, teams, keys, tokens, handled, told, missed>>

\* create_own_company_team.
PrepareTeam(h) ==
  LET team == <<handler[h].who.tenant, handler[h].order.name>> IN
  /\ handler[h].pc = "load" /\ handler[h].order.op = "own_team"
  /\ IF team \in teams THEN Finish(h) ELSE Prepared(h, Absent, team)
  /\ UNCHANGED <<members, firms, teams, keys, tokens, handled, told, missed>>

\* create_api_key: the company has to exist, the role is COMPANY_USER.
PrepareKey(h) ==
  LET i == handler[h].who
      o == handler[h].order
      tenant == Target(i, o)
  IN  /\ handler[h].pc = "load" /\ o.op = "create_key"
      /\ IF /\ IsPlatformAdmin(i) \/ o.firm \in {Absent, i.tenant}
            /\ tenant \in Firms /\ firms[tenant] # Absent
         THEN Prepared(h, Absent, [role |-> "COMPANY_USER", tenant |-> tenant, active |-> TRUE])
         ELSE Finish(h)
      /\ UNCHANGED <<members, firms, teams, keys, tokens, handled, told, missed>>

\* revoke_api_key, of any key that is in use.
PrepareRevocation(h) ==
  /\ handler[h].pc = "load" /\ handler[h].order.op = "revoke_key"
  /\ \/ \E k \in KeyIds :
          /\ keys[k] # Absent /\ Reaches(handler[h].who, keys[k].tenant) /\ keys[k].active
          /\ handler' = [handler EXCEPT ![h].pc = "save", ![h].loaded = keys[k], ![h].new = k]
     \/ Finish(h)
  /\ UNCHANGED <<members, firms, teams, keys, tokens, handled, told, missed>>
-----------------------------------------------------------------------------
\* A flush inserts the new row, or writes the columns that differ from the
\* loaded row and leaves the others to whoever wrote them last.
Written(now, loaded, new) ==
  IF loaded = Absent THEN new
  ELSE [f \in DOMAIN now |-> IF new[f] # loaded[f] THEN new[f] ELSE now[f]]

\* What the foreign key of users and the unique columns refuse is not inserted.
Existing == {f \in Firms : firms[f] # Absent} \cup {Absent}

SaveMember(h) ==
  LET at == handler[h]
      p == at.order.name
  IN  /\ at.pc = "save"
      /\ at.order.op \in {"register", "admin_create_user", "create_user", "own_user",
                          "status", "deactivate"}
      /\ IF at.loaded = Absent /\ (members[p] # Absent \/ at.new.tenant \notin Existing)
         THEN Finish(h) /\ UNCHANGED members
         ELSE /\ members' = [members EXCEPT ![p] = Written(@, at.loaded, at.new)]
              /\ handler' = [handler EXCEPT ![h].pc = "report"]
      /\ UNCHANGED <<firms, teams, keys, tokens, handled, told, missed>>

SaveFirm(h) ==
  LET at == handler[h]
      f == at.order.firm
  IN  /\ at.pc = "save" /\ at.order.op \in {"create_firm", "update_firm"}
      /\ firms' = [firms EXCEPT ![f] =
           IF at.loaded = Absent /\ @ # Absent THEN @ ELSE Written(@, at.loaded, at.new)]
      /\ Finish(h)
      /\ UNCHANGED <<members, teams, keys, tokens, handled, told, missed>>

SaveTeam(h) ==
  /\ handler[h].pc = "save" /\ handler[h].order.op = "own_team"
  /\ teams' = teams \cup {handler[h].new}
  /\ Finish(h)
  /\ UNCHANGED <<members, firms, keys, tokens, handled, told, missed>>

SaveKey(h) ==
  LET at == handler[h] IN
  /\ at.pc = "save"
  /\ \/ /\ at.order.op = "create_key"
        /\ \E k \in KeyIds : keys[k] = Absent /\ keys' = [keys EXCEPT ![k] = at.new]
     \/ /\ at.order.op = "revoke_key"
        /\ keys' = [keys EXCEPT ![at.new].active = FALSE]
  /\ Finish(h)
  /\ UNCHANGED <<members, firms, teams, tokens, handled, told, missed>>

\* Mutant: the row has been changed when its old state is noted.
Verdict_NotedLate(at, row) ==
  CASE at.loaded.approval = "PENDING" /\ row.active /\ row.approval = "APPROVED" ->
         {"AUTH_USER_ACTIVATED"}
    [] OTHER -> {}

\* What update_user_status reports, from the row as it was loaded and as it is
\* read again after the commit.
Verdict(at, row) ==
  CASE /\ ~at.loaded.active \/ at.loaded.approval = "PENDING"
       /\ row.active /\ row.approval = "APPROVED" -> {"AUTH_USER_ACTIVATED"}
    [] at.loaded.active /\ ~row.active            -> {"AUTH_USER_DEACTIVATED"}
    [] OTHER                                      -> {}

\* The append comes after the commit: when it fails the error is swallowed, and
\* when the process dies there is none.
Report(h) ==
  LET at == handler[h]
      p == at.order.name
      events == CASE at.order.op = "status"     -> Verdict(at, members[p])
                  [] at.order.op = "deactivate" -> {"AUTH_USER_DEACTIVATED"}
                  [] OTHER                      -> {"AUTH_USER_REGISTERED"}
      records == {<<e, p>> : e \in events}
  IN  /\ at.pc = "report"
      /\ \/ told' = told \cup records /\ UNCHANGED missed
         \/ missed' = missed \cup records /\ UNCHANGED told
      /\ Finish(h)
      /\ UNCHANGED <<members, firms, teams, keys, tokens, handled>>

Login(p) ==
  /\ members[p] # Absent /\ p \notin tokens /\ LoginGate(members[p]) = "ok"
  /\ tokens' = tokens \cup {p}
  /\ UNCHANGED <<members, firms, teams, keys, handler, handled, told, missed>>

HandlerStep(h) ==
  \/ AdmitPublic(h) \/ Admit(h)
  \/ PrepareMember(h) \/ PrepareStatus(h) \/ PrepareDeactivation(h) \/ PrepareFirm(h)
  \/ PrepareTeam(h) \/ PrepareKey(h) \/ PrepareRevocation(h)
  \/ SaveMember(h) \/ SaveFirm(h) \/ SaveTeam(h) \/ SaveKey(h) \/ Report(h)

MembersNext == (\E h \in Handlers : HandlerStep(h)) \/ (\E p \in People : Login(p))

MembersSpec == MembersInit /\ [][MembersNext]_membersVars
-----------------------------------------------------------------------------
TeamRestricted(i) == ~IsPlatformAdmin(i) /\ ~IsCompanyAdmin(i)

\* Mutant: a user without a team is not restricted to one.
Listed_NoTeamSeesAll(i, j) ==
  /\ IsPlatformAdmin(i) \/ i.tenant = Absent \/ j.tenant = i.tenant
  /\ TeamRestricted(i) => i.team = Absent \/ j.team = i.team

\* get_tenant_jobs: the list ...
Listed(i, j) ==
  /\ IsPlatformAdmin(i) \/ i.tenant = Absent \/ j.tenant = i.tenant
  /\ TeamRestricted(i) => j.team = i.team

\* ... and a single job.
Opened(i, j) ==
  \/ IsPlatformAdmin(i)
  \/ /\ j.tenant # Absent /\ i.tenant # Absent => j.tenant = i.tenant
     /\ TeamRestricted(i) => j.team = i.team

\* list_users and list_api_keys: what an administrator is shown.
ShownMembers(i) ==
  {p \in People : members[p] # Absent /\ (IsPlatformAdmin(i) \/ members[p].tenant = i.tenant)}
ShownKeys(i) ==
  {k \in KeyIds : keys[k] # Absent /\ (IsPlatformAdmin(i) \/ keys[k].tenant = OrDefault(i.tenant))}

\* submit_new_job: the job gets the tenant of the caller.
MaySubmit(i, team) == i.role = "COMPANY_USER" => team = i.team
Submitted(i, team) == [tenant |-> i.tenant, team |-> team]
-----------------------------------------------------------------------------
\* Whoever lost the access has been noticed by a request, once nothing is under
\* way, however the requests about the account were interleaved: the event is on
\* record, unless the append of that very event failed or the process died before
\* it (admin_router.py update_user_status, deactivate_user).
DeactivationIsNoticed ==
  (\A h \in Handlers : handler[h].pc = "idle") =>
    \A p \in DOMAIN FirstRows :
      FirstRows[p].active /\ ~members[p].active =>
        <<"AUTH_USER_DEACTIVATED", p>> \in told \cup missed

\* An account changes or appears only in the company of the administrator whose
\* request it is, unless that is a platform administrator, and only a platform
\* administrator makes another (admin_router.py, companies/service.py).
ChangesStayHome ==
  [][\A p \in People : members'[p] # members[p] =>
       \E h \in Handlers :
         /\ handler[h].pc = "save" /\ handler[h].order.name = p
         /\ handler[h].order.op = "register" \/ Reaches(handler[h].who, members'[p].tenant)
         /\ \/ members'[p].role # "PLATFORM_ADMIN" \/ IsPlatformAdmin(handler[h].who)
            \/ members[p] # Absent /\ members[p].role = "PLATFORM_ADMIN"]_membersVars

\* The four copies of the account checks: two logins, two dependencies.
GatesAgree ==
  \A p \in People : members[p] # Absent =>
    /\ (LoginGate(members[p]) = "ok") = (IdentityGate(members[p]) = "ok")
    /\ UserGate(members[p]) = IdentityGate(members[p])

\* What is written more than once says the same of every account and caller,
\* whatever the races of administrators have left of the rows: all gates let the
\* same accounts pass; who may submit a job finds it in the list; what is in the
\* list can be opened; whatever accounts and keys an administrator may change are
\* listed (shared/auth.py, routers/auth.py, admin_router.py, get_tenant_jobs).
ChecksAgree ==
  /\ GatesAgree
  /\ \A i \in Callers :
       /\ \A j \in Workloads : Listed(i, j) => Opened(i, j)
       /\ \A j \in Workloads : MaySubmit(i, j.team) => Listed(i, Submitted(i, j.team))
       /\ Permits("status", i) =>
            /\ \A p \in People \ ShownMembers(i) : members[p] # Absent => ~Reaches(i, members[p].tenant)
            /\ \A k \in KeyIds \ ShownKeys(i) : keys[k] # Absent => ~Reaches(i, keys[k].tenant)

(***************************************************************************)
(* Why administrators stay at home and nothing goes unnoticed: what a      *)
(* request holds when it saves, which is checked against rows loaded       *)
(* before.  Companies of accounts never change.                            *)
(***************************************************************************)
Identities == [id : People \cup KeyIds, role : Roles, tenant : Homes, team : Squads]

SameHome(row, p) == members[p] \in MemberRows /\ members[p].tenant = row.tenant

\* A new account: only a platform administrator makes one elsewhere, or another.
MayCreate(i, o, new) ==
  /\ new \in MemberRows
  /\ new.role = "PLATFORM_ADMIN" => IsPlatformAdmin(i)
  /\ o.op # "register" => Reaches(i, new.tenant)

\* A change of the account p, from the row that was loaded to a new one.
MayChange(i, p, loaded, new) ==
  /\ loaded \in MemberRows /\ new \in MemberRows
  /\ SameHome(loaded, p) /\ new.tenant = loaded.tenant /\ Reaches(i, loaded.tenant)
  /\ new.role = "PLATFORM_ADMIN" => loaded.role = "PLATFORM_ADMIN" \/ IsPlatformAdmin(i)

Asked(at) ==
  /\ at.order \in Orders
  /\ at.order.op # "register" => at.who \in Identities /\ Permits(at.order.op, at.who)

OwnRow(at) ==
  at.loaded # Absent =>
    at.who.id \in People /\ at.loaded \in MemberRows /\ SameHome(at.loaded, at.who.id)

MaySave(at) ==
  /\ at.order.op \in Creations => at.loaded = Absent /\ MayCreate(at.who, at.order, at.new)
  /\ at.order.op \in Changes => MayChange(at.who, at.order.name, at.loaded, at.new)
  /\ at.order.op = "create_key" => at.new \in KeyRows
  /\ at.order.op = "revoke_key" => at.new \in KeyIds /\ keys[at.new] \in KeyRows

HandlerOK(at) ==
  /\ DOMAIN at = DOMAIN Waiting
  /\ at.pc \in {"idle", "load", "save", "report"}
  /\ at.pc # "idle" => Asked(at)
  /\ at.pc = "load" => OwnRow(at)
  /\ at.pc = "save" => MaySave(at)

\* The request is about to report that p has lost the access.
WillTell(at, p) ==
  /\ at.pc = "report" /\ at.order.name = p
  /\ at.order.op = "deactivate" \/ (at.order.op = "status" /\ at.loaded.active)

LossIsTold(p) ==
  FirstRows[p].active /\ ~members[p].active =>
    \/ <<"AUTH_USER_DEACTIVATED", p>> \in told \cup missed
    \/ \E h \in Handlers : WillTell(handler[h], p)

MembersInv ==
  /\ members \in [People -> MemberRows \cup {Absent}]
  /\ keys \in [KeyIds -> KeyRows \cup {Absent}]
  /\ tokens \subseteq People
  /\ DOMAIN handler = Handlers
  /\ \A h \in Handlers : HandlerOK(handler[h])
  /\ \A p \in DOMAIN FirstRows : members[p] \in MemberRows /\ LossIsTold(p)
=============================================================================
