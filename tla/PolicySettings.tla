-------------------------- MODULE PolicySettings --------------------------
(***************************************************************************)
(* The optimization policy of a company: one row per tenant, read by the   *)
(* schedulers and changed by company admins                                *)
(* (app/settings/optimization_policy_service.py).                          *)
(*                                                                         *)
(* A request loads the row, validates, and commits. A commit writes only   *)
(* the columns that differ from what was loaded (JobTable says why).       *)
(***************************************************************************)
EXTENDS OptimizationPolicy

CONSTANTS Tenants,       \* companies
          Admins,        \* requests that may be in progress at once
          Tolerances,    \* percentages that clients send
          MaxUpdates     \* bound on accepted updates

VARIABLES policyRow,     \* tenant -> row of optimization_policies, or Unset
          update,        \* request -> what it loaded and is about to write, or Unset
          updates        \* number of updates begun

settingsVars == <<policyRow, update, updates>>

Update == [tenant : Tenants, loaded : Policy \cup {Unset}, new : Policy]

ASSUME SettingsAssumption == Unset \notin Update /\ Tolerances \subseteq Int

SettingsInit ==
    /\ policyRow = [t \in Tenants |-> Unset]
    /\ update = [a \in Admins |-> Unset]
    /\ updates = 0

\* A tolerance is required by one policy and refused by the others.
ValidUpdate(p) ==
    /\ ValidPolicy(p.policy)
    /\ IF p.policy = "CARBON_CONSTRAINED"
       THEN p.tolerance # Unset /\ ValidTolerance(p.tolerance)
       ELSE p.tolerance = Unset

\* update_own_company_policy up to the commit; a refused request changes nothing.
BeginUpdate(a, t) ==
    /\ update[a] = Unset
    /\ updates < MaxUpdates
    /\ \E p \in [policy : Policies, tolerance : Tolerances \cup {Unset}] :
          /\ ValidUpdate(p)
          /\ update' = [update EXCEPT ![a] = [tenant |-> t, loaded |-> policyRow[t], new |-> p]]
    /\ updates' = updates + 1
    /\ UNCHANGED policyRow

\* The row after a flush of what the request changed.
WrittenOver(row, u) ==
    IF u.loaded = Unset THEN u.new
    ELSE [policy    |-> IF u.new.policy # u.loaded.policy THEN u.new.policy ELSE row.policy,
          tolerance |-> IF u.new.tolerance # u.loaded.tolerance THEN u.new.tolerance
                        ELSE row.tolerance]

\* The first row of a tenant is inserted, and a second insert is refused by
\* the unique tenant_id.
CommitUpdate(a) ==
    /\ update[a] # Unset
    /\ LET u == update[a]
           refused == u.loaded = Unset /\ policyRow[u.tenant] # Unset
       IN  policyRow' = IF refused THEN policyRow
                        ELSE [policyRow EXCEPT ![u.tenant] = WrittenOver(@, u)]
    /\ update' = [update EXCEPT ![a] = Unset]
    /\ UNCHANGED updates

SettingsNext == \E a \in Admins : CommitUpdate(a) \/ \E t \in Tenants : BeginUpdate(a, t)

\* Rows are typed, and one that a request has loaded is still there.
SettingsOK ==
    /\ policyRow \in [Tenants -> Policy \cup {Unset}]
    /\ update \in [Admins -> Update \cup {Unset}]
    /\ \A a \in Admins : update[a] # Unset /\ update[a].loaded # Unset =>
                            policyRow[update[a].tenant] # Unset

\* resolve_effective_policy: the default where no row is, and a tolerance only
\* for the policy that has one.
EffectivePolicy(t) ==
    IF policyRow[t] = Unset THEN DefaultPolicy
    ELSE [policyRow[t] EXCEPT !.tolerance =
             IF policyRow[t].policy = "CARBON_CONSTRAINED" THEN @ ELSE Unset]
===========================================================================
