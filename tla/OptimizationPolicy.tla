------------------------ MODULE OptimizationPolicy ------------------------
(***************************************************************************)
(* How a company ranks the windows that are open to a job: the three       *)
(* policies of app/decide/optimization_policy.py, as lexicographic keys.   *)
(* A candidate is a record with the fields start, carbon and cost; carbon  *)
(* and cost are natural numbers, or Unset when there is no data.            *)
(***************************************************************************)
EXTENDS Integers, FiniteSets

CONSTANT Unset            \* no value (SQL NULL, Python None)

Figure == Nat \cup {Unset}

Policies == {"CARBON_FIRST", "COST_FIRST", "CARBON_CONSTRAINED"}
DEFAULT_POLICY == "CARBON_FIRST"
DEFAULT_CARBON_TOLERANCE_PCT == 5

\* A policy in force: what resolve_effective_policy returns.
Policy == [policy : Policies, tolerance : Figure]
DefaultPolicy == [policy |-> DEFAULT_POLICY, tolerance |-> Unset]

ASSUME PolicyAssumption == Unset \notin Int /\ Unset \notin Policy

\* Values that a client may send and the validators accept.
ValidPolicy(value) == value \in Policies
ValidTolerance(pct) == pct \in 0..100

OrZero(value) == IF value = Unset THEN 0 ELSE value

\* The first place where two keys of equal length differ decides.
LexLess(a, b) ==
    \E n \in DOMAIN a : a[n] < b[n] /\ \A m \in 1 .. n - 1 : a[m] = b[m]

MinCarbon(candidates) ==
    LET figures == {OrZero(c.carbon) : c \in candidates}
    IN  CHOOSE least \in figures : \A other \in figures : least =< other

Tolerance(p) == IF p.tolerance = Unset THEN DEFAULT_CARBON_TOLERANCE_PCT ELSE p.tolerance

\* carbon <= min_carbon * (1 + tolerance / 100)
WithinTolerance(c, candidates, p) ==
    100 * OrZero(c.carbon) =< MinCarbon(candidates) * (100 + Tolerance(p))

\* Mutant: the tolerance does not set the other candidates back.
SortKey_NoLimit(c, candidates, p, cost) ==
    IF p.policy = "CARBON_FIRST" THEN <<OrZero(c.carbon), OrZero(cost[c]), c.start>>
    ELSE <<OrZero(cost[c]), OrZero(c.carbon), c.start>>

\* The key rank_feasible_candidates sorts candidates by; cost[c] is the cost
\* that the caller ranks on.
SortKey(c, candidates, p, cost) ==
    CASE p.policy = "CARBON_FIRST" -> <<OrZero(c.carbon), OrZero(cost[c]), c.start>>
      [] p.policy = "COST_FIRST" -> <<OrZero(cost[c]), OrZero(c.carbon), c.start>>
      [] p.policy = "CARBON_CONSTRAINED" ->
            IF WithinTolerance(c, candidates, p)
            THEN <<0, OrZero(cost[c]), c.start, 0>>
            ELSE <<1, OrZero(c.carbon), OrZero(cost[c]), c.start>>

\* The place of c among the ranked candidates, from 0.
RankOf(c, candidates, p, cost) ==
    Cardinality({d \in candidates : LexLess(SortKey(d, candidates, p, cost),
                                            SortKey(c, candidates, p, cost))})

\* The candidate that rank_feasible_candidates puts first.
First(candidates, p, cost) ==
    CHOOSE c \in candidates : RankOf(c, candidates, p, cost) = 0
===========================================================================
