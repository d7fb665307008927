------------------------ MODULE CandidateScheduler ------------------------
(***************************************************************************)
(* How one job is scheduled (app/decide/scheduler.py): the windows it may  *)
(* start in, what each costs, which are feasible, and which is chosen.     *)
(*                                                                         *)
(* Telemetry is a set of points, each with the tick it is for, a value and *)
(* whether it is an estimate that stands in for measured data.             *)
(***************************************************************************)
EXTENDS OptimizationPolicy, ClusterState

CONSTANTS CarbonCurve,     \* region -> set of carbon points
          TariffCurve,     \* region -> set of tariff points
          TariffTemplate   \* region -> hour of the day -> price, or Unset

Point == [at : Nat, value : Nat, fallback : BOOLEAN]

ASSUME CurveAssumption ==
    /\ \A points \in {CarbonCurve[region] : region \in DOMAIN CarbonCurve}
                       \cup {TariffCurve[region] : region \in DOMAIN TariffCurve} :
          points \subseteq Point /\ IsFiniteSet(points)
    /\ \A region \in DOMAIN TariffTemplate : TariffTemplate[region] \in [0 .. 23 -> Figure]

\* A row of jobs, as far as scheduling reads it.
JobRow == [tenant : STRING, region : STRING, priority : 0..3, deferrable : BOOLEAN,
           submitted : Nat, earliest : Figure, deadline : Nat, runtime : Nat, energy : Nat,
           budget : Figure, demand : Amounts]

Distance(a, b) == IF a > b THEN a - b ELSE b - a

\* The first of the points that are nearest to t.
Nearest(points, t) ==
    CHOOSE p \in points :
        \A q \in points :
            p.at = q.at \/ LexLess(<<Distance(p.at, t), p.at>>, <<Distance(q.at, t), q.at>>)

\* Within two hours of a point there is data; an estimate serves at any distance.
InterpolateCarbon(points, t) ==
    IF points = {} THEN Unset
    ELSE LET best == Nearest(points, t)
         IN  IF Distance(best.at, t) > 2 * PerHour /\ ~best.fallback THEN Unset ELSE best.value

InterpolateTariff(points, template, t) ==
    LET near == {p \in points : Distance(p.at, t) =< 2 * PerHour}
    IN  IF near # {} THEN Nearest(near, t).value ELSE template[HourOf(t) % 24]

\* _generate_candidate_slots: the bound itself, and every full hour after it
\* from which the job ends in time.
CandidateStarts(bound, deadline, runtime, deferrable) ==
    IF deadline - runtime < bound THEN {}
    ELSE IF ~deferrable THEN {bound}
    ELSE {bound} \cup {t \in bound .. deadline - runtime : t % PerHour = 0}

\* Mutant: a start that was asked for is not moved out of the past.
StartBound_AsRequested(requested, now) == IF requested = Unset THEN now ELSE requested

\* Nothing starts in the past, and nothing before the start that was asked for.
StartBound(requested, now) ==
    IF requested = Unset \/ requested < now THEN now ELSE requested

Times(energy, value) == IF value = Unset THEN Unset ELSE energy * value

\* What both schedulers know of a job that starts at t.
Candidate(job, t) ==
    [start  |-> t,
     end    |-> t + job.runtime,
     carbon |-> Times(job.energy, InterpolateCarbon(CarbonCurve[job.region], t)),
     cost   |-> Times(job.energy, InterpolateTariff(TariffCurve[job.region],
                                                    TariffTemplate[job.region], t))]

OverBudget(job, c) == job.budget # Unset /\ c.carbon # Unset /\ c.carbon > job.budget

\* The reasons for which a candidate is rejected, whatever the cluster holds.
WindowReasons(job, c) ==
    {reason \in {"SLA_VIOLATION", "CARBON_DATA_UNAVAILABLE",
                 "COST_DATA_UNAVAILABLE", "CARBON_BUDGET_EXCEEDED"} :
        CASE reason = "SLA_VIOLATION" -> c.end > job.deadline
          [] reason = "CARBON_DATA_UNAVAILABLE" -> c.carbon = Unset
          [] reason = "COST_DATA_UNAVAILABLE" -> c.cost = Unset
          [] reason = "CARBON_BUDGET_EXCEEDED" -> OverBudget(job, c)}

Reasons(job, c, snapshot) ==
    WindowReasons(job, c)
        \cup (IF ResourceFeasible(snapshot, job.demand) THEN {} ELSE {"RESOURCE_UNAVAILABLE"})

\* Why no window was found, in the order the causes are looked for.
Cause(job, candidates, snapshot) ==
    IF job.budget # Unset /\ \A c \in candidates : c.carbon # Unset => OverBudget(job, c)
    THEN "carbon budget"
    ELSE IF \A c \in candidates : c.carbon = Unset THEN "carbon data"
    ELSE IF ~ResourceFeasible(snapshot, job.demand) THEN "capacity" ELSE "no window"

BaseCost(candidates) == [c \in candidates |-> c.cost]

\* calculate_impact: the choice against running at once.
Impact(job, baseline, chosen) ==
    [carbonAvoided |-> IF OrZero(baseline.carbon) > OrZero(chosen.carbon)
                       THEN OrZero(baseline.carbon) - OrZero(chosen.carbon) ELSE 0,
     costAvoided   |-> OrZero(baseline.cost) - OrZero(chosen.cost),
     delay         |-> chosen.start - baseline.start,
     slaMet        |-> chosen.end =< job.deadline]

\* Running at the first start; what is not known of it is taken from the choice.
Known(figure, standIn) == IF figure = Unset THEN standIn ELSE figure
Baseline(job, first, chosen) ==
    [Candidate(job, first) EXCEPT !.carbon = Known(@, chosen.carbon), !.cost = Known(@, chosen.cost)]

\* What the job may still emit of its carbon budget.
Remaining(job, chosen) ==
    IF job.budget = Unset \/ chosen.carbon = Unset THEN Unset ELSE job.budget - chosen.carbon

\* The decision on a job, with the figures that explain it.
Decided(job, first, best) ==
    [chosen |-> best, cause |-> Unset, remaining |-> Remaining(job, best),
     impact |-> Impact(job, Baseline(job, first, best), best)]

\* _execute_schedule_job: the start that is chosen, or the cause of the error.
ScheduleJob(job, now, p, snapshot) ==
    LET bound == StartBound(job.earliest, now)
        candidates == {Candidate(job, t) :
                          t \in CandidateStarts(bound, job.deadline, job.runtime, job.deferrable)}
        feasible == {c \in candidates : Reasons(job, c, snapshot) = {}}
    IN  IF candidates = {} THEN [chosen |-> Unset, cause |-> "deadline too soon"]
        ELSE IF feasible = {} THEN [chosen |-> Unset, cause |-> Cause(job, candidates, snapshot)]
        ELSE Decided(job, bound, First(feasible, p, BaseCost(feasible)))
===========================================================================
