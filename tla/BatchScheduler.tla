-------------------------- MODULE BatchScheduler --------------------------
(***************************************************************************)
(* schedule_batch (app/decide/batch_scheduler.py): the jobs of a batch are *)
(* placed one by one, the most urgent first, each in the best window that  *)
(* has room in the hourly slots, or in the least loaded one when none has, *)
(* while admins change the policies of their companies.                    *)
(***************************************************************************)
EXTENDS CandidateScheduler, PolicySettings

CONSTANTS Jobs,          \* job ids, natural numbers
          Shapes,        \* the rows that a job may have
          Clusters,      \* the states the cluster may be in
          Pressure       \* tick -> demand the forecaster predicts: 0 or 1

ASSUME BatchAssumption ==
    /\ Jobs \subseteq Nat /\ IsFiniteSet(Jobs)
    /\ Shapes \subseteq JobRow
    /\ \A job \in Shapes :
          /\ job.tenant \in Tenants
          /\ job.region \in DOMAIN CarbonCurve
          /\ job.region \in DOMAIN TariffCurve \cap DOMAIN TariffTemplate
    /\ \A c \in Clusters : CollectClusterState(c).free \in Amounts

VARIABLES work,          \* job -> its row in jobs
          batch,         \* the batch in progress, or Unset
          slots,         \* its registry of slots
          placed         \* job -> its place in this batch, or Unset

batchVars == <<work, batch, slots, placed>>

Now == 1                 \* a batch is short against a tick
CONTENTION_WEIGHT == 5   \* percent

BatchRow == [todo : SUBSET Jobs, snapshot : {CollectClusterState(c) : c \in Clusters},
             mlActive : BOOLEAN, policyCache : [Tenants -> Policy \cup {Unset}]]

CandidateRow == [start : Nat, end : Nat, carbon : Figure, cost : Figure]
ImpactRow == [carbonAvoided : Nat, costAvoided : Int, delay : Int, slaMet : BOOLEAN]
DecisionRow == [chosen : CandidateRow, policy : Policy, fits : BOOLEAN, spilled : BOOLEAN,
                preferredFull : BOOLEAN, remaining : Int \cup {Unset}, impact : ImpactRow]

ASSUME RowAssumption == Unset \notin BatchRow /\ Unset \notin DecisionRow

BatchInit ==
    /\ work \in [Jobs -> Shapes]
    /\ batch = Unset
    /\ slots = EmptyRegistry
    /\ placed = [j \in Jobs |-> Unset]

\* A fresh registry, with what the cluster has free as the capacity of a slot.
StartBatch ==
    /\ batch = Unset
    /\ \E c \in Clusters, ml \in BOOLEAN, todo \in SUBSET Jobs \ {{}} :
          batch' = [todo |-> todo, snapshot |-> CollectClusterState(c), mlActive |-> ml,
                    policyCache |-> [t \in Tenants |-> Unset]]
    /\ UNCHANGED <<work, slots, placed>>

Capacity == batch.snapshot.free

\* _urgency_key: priority, not deferrable first, slack, job id.
UrgencyKey(j) ==
    LET job == work[j]
        earliest == IF job.earliest = Unset THEN Now ELSE job.earliest
    IN  <<job.priority, IF job.deferrable THEN 1 ELSE 0, job.deadline - earliest - job.runtime, j>>

\* Mutant: jobs are placed in the order they were given.
MostUrgent_AsGiven(jobs) == CHOOSE j \in jobs : \A i \in jobs : j =< i

MostUrgent(jobs) == CHOOSE j \in jobs : \A i \in jobs \ {j} : LexLess(UrgencyKey(j), UrgencyKey(i))

\* _policy_for: asked once for a tenant, and remembered for the batch.
PolicyFor(t) == IF batch.policyCache[t] = Unset THEN EffectivePolicy(t) ELSE batch.policyCache[t]

\* Cost with at most CONTENTION_WEIGHT percent added where demand is expected,
\* in hundredths.
EffectiveCost(c) ==
    IF c.cost = Unset THEN Unset
    ELSE IF batch.mlActive THEN c.cost * (100 + CONTENTION_WEIGHT * Pressure[c.start])
    ELSE c.cost * 100

RequestedStart(job) == IF job.earliest = Unset THEN job.submitted ELSE job.earliest

\* Mutant: only full hours are offered.
StartsOf_Aligned(job) ==
    LET bound == StartBound(RequestedStart(job), Now)
        starts == {t \in CandidateStarts(bound, job.deadline, job.runtime, job.deferrable) :
                      t % PerHour = 0}
    IN  IF starts = {} THEN {bound} ELSE starts

\* Every window of a job, or its bound when there is none.
StartsOf(job) ==
    LET bound == StartBound(RequestedStart(job), Now)
        starts == CandidateStarts(bound, job.deadline, job.runtime, job.deferrable)
    IN  IF starts = {} THEN {bound} ELSE starts

ASSUME PressureAssumption ==
    \A job \in Shapes : \A t \in StartsOf(job) : t \in DOMAIN Pressure /\ Pressure[t] \in {0, 1}

Evaluations(job) == {Candidate(job, t) : t \in StartsOf(job)}

\* The feasible candidates, or the first one when none is.
Eligible(job) ==
    LET feasible == {c \in Evaluations(job) : WindowReasons(job, c) = {}}
    IN  IF feasible # {} THEN feasible
        ELSE {c \in Evaluations(job) : \A d \in Evaluations(job) : c.start =< d.start}

HasCapacity(job, c) == CanFit(slots, Capacity, job.region, c.start, job.runtime, job.demand)
Load(job, c) == Utilization(slots, Capacity, job.region, c.start)

LeastLoaded(job, candidates, p) ==
    CHOOSE c \in candidates :
        \A d \in candidates \ {c} :
            LexLess(<<Load(job, c), RankOf(c, candidates, p, BaseCost(candidates))>>,
                    <<Load(job, d), RankOf(d, candidates, p, BaseCost(candidates))>>)

\* Running at once. A figure that is missing or zero is taken from the choice.
BatchBaseline(job, chosen) ==
    LET first == CHOOSE t \in StartsOf(job) : \A u \in StartsOf(job) : t =< u
        known(figure, standIn) == IF OrZero(figure) = 0 THEN OrZero(standIn) ELSE figure
    IN  [Candidate(job, first) EXCEPT !.carbon = known(@, chosen.carbon),
                                      !.cost = known(@, chosen.cost)]

\* The decision as it is returned, with the figures that explain it.
Decision(job, p, fits, preferred, chosen) ==
    [chosen    |-> chosen,
     policy    |-> p,
     fits      |-> fits,
     spilled   |-> ~fits \/ chosen.start # preferred.start,
     preferredFull |-> ~HasCapacity(job, preferred),
     remaining |-> Remaining(job, chosen),
     impact    |-> Impact(job, BatchBaseline(job, chosen), chosen)]

\* With room in the slots, the best of the windows that have room; otherwise the
\* least loaded one.
Choice(job, p) ==
    LET eligible == Eligible(job)
        roomy == {c \in eligible : HasCapacity(job, c)}
        preferred == First(eligible, p, BaseCost(eligible))
        chosen == IF roomy # {} THEN First(roomy, p, [c \in roomy |-> EffectiveCost(c)])
                  ELSE LeastLoaded(job, eligible, p)
    IN  Decision(job, p, roomy # {}, preferred, chosen)

\* One turn of the loop over the sorted jobs. What registry.allocate answers
\* is not looked at.
PlaceNext ==
    /\ batch # Unset
    /\ batch.todo # {}
    /\ LET j == MostUrgent(batch.todo)
           job == work[j]
           p == PolicyFor(job.tenant)
           choice == Choice(job, p)
       IN  /\ placed' = [placed EXCEPT ![j] = choice]
           /\ slots' = Allocate(slots, Capacity, job.region, choice.chosen.start,
                                job.runtime, job.demand)
           /\ batch' = [batch EXCEPT !.todo = @ \ {j}, !.policyCache[job.tenant] = p]
    /\ UNCHANGED work

\* The decisions are returned, and the registry goes with the call.
ReturnBatch ==
    /\ batch # Unset
    /\ batch.todo = {}
    /\ batch' = Unset
    /\ slots' = EmptyRegistry
    /\ placed' = [j \in Jobs |-> Unset]
    /\ UNCHANGED work

BatchNext == StartBatch \/ PlaceNext \/ ReturnBatch

PlanningInit == BatchInit /\ SettingsInit
PlanningNext ==
    \/ BatchNext /\ UNCHANGED settingsVars
    \/ SettingsNext /\ UNCHANGED batchVars
PlanningSpec == PlanningInit /\ [][PlanningNext]_<<batchVars, settingsVars>>
---------------------------------------------------------------------------
Placed == {j \in Jobs : placed[j] # Unset}
WithRoom == {j \in Placed : placed[j].fits}

\* What the jobs of a set take of a slot, counted unit by unit.
Hours(j) == SlotsOf(work[j].region, placed[j].chosen.start, work[j].runtime)
Units(jobs, key, r) ==
    UNION {{j} \X (1 .. work[j].demand[r]) : j \in {i \in jobs : key \in Hours(i)}}
TakenBy(jobs, key) == [r \in Resources |-> Cardinality(Units(jobs, key, r))]

MoreUrgent(j) == {i \in WithRoom : LexLess(UrgencyKey(i), UrgencyKey(j))}

\* The windows that had room for j when it was placed: only the jobs before it
\* had taken any.
RoomyFor(j) ==
    {c \in Eligible(work[j]) :
        \A key \in SlotsOf(work[j].region, c.start, work[j].runtime), r \in Resources :
            TakenBy(MoreUrgent(j), key)[r] + work[j].demand[r] =< Capacity[r]}

\* Every slot holds what the jobs placed in it with room ask for, and no more
\* than the cluster had free: a job takes all of its hours or none of them,
\* and one that is placed in full slots takes nothing (slot_capacity.py).
SlotsAreAccounted ==
    batch # Unset =>
        \A key \in DOMAIN slots, r \in Resources :
            /\ slots[key][r] = TakenBy(WithRoom, key)[r]
            /\ slots[key][r] =< Capacity[r]

\* A job is placed without room only if it would have had none with all the
\* less urgent jobs of the batch left out, and it leaves its preferred window
\* only because that is full, unless the forecaster is at work or the policy has
\* a tolerance (batch_scheduler.py, steps 1 and 3).
OnlyTheUrgentDisplace ==
    batch # Unset => \A j \in Placed :
        /\ placed[j].fits <=> RoomyFor(j) # {}
        /\ placed[j].policy.policy # "CARBON_CONSTRAINED" /\ ~batch.mlActive =>
              (placed[j].spilled => placed[j].preferredFull)

\* "Graceful spillover to next feasible slot when preferred slot is full"
\* (batch_scheduler.py:7), and the reason says so, whatever the policy.
SpillsWhenFull ==
    batch # Unset => \A j \in Placed :
        placed[j].spilled /\ ~batch.mlActive => placed[j].preferredFull

\* Admins may change the policy meanwhile (the policy cache of schedule_batch).
OnePolicyPerBatch ==
    \A i, j \in Placed : work[i].tenant = work[j].tenant => placed[i].policy = placed[j].policy

\* All jobs of a company in one batch are ranked by one policy, and each gets what
\* that promises, among the windows that had room: no window with less carbon,
\* none that costs less, none that costs less within the tolerance
\* (optimization_policy.py, module docstring). The forecaster may trade cost.
PolicyIsKept ==
    batch # Unset => OnePolicyPerBatch /\ \A j \in WithRoom :
        LET p == placed[j].policy
            c == placed[j].chosen
            least == MinCarbon(RoomyFor(j))
            limit == {d \in RoomyFor(j) : 100 * OrZero(d.carbon) =< least * (100 + Tolerance(p))}
        IN  /\ p.policy = "CARBON_FIRST" => OrZero(c.carbon) = least
            /\ p.policy = "COST_FIRST" /\ ~batch.mlActive =>
                  \A d \in RoomyFor(j) : OrZero(c.cost) =< OrZero(d.cost)
            /\ p.policy = "CARBON_CONSTRAINED" =>
                  /\ c \in limit
                  /\ ~batch.mlActive => \A d \in limit : OrZero(c.cost) =< OrZero(d.cost)

\* Only the batch waits for the date of submission, if that is ahead of now.
CompetesWithNobody(j) ==
    /\ MoreUrgent(j) = {} /\ ~batch.mlActive
    /\ work[j].earliest = Unset => work[j].submitted =< Now

\* A job that competes with nobody gets from the batch scheduler the start that
\* POST /schedule would give it, if that finds one, and the same gain over
\* running at once and the same rest of its carbon budget are reported for it,
\* but for the gain over a start that is free, which only the batch takes for
\* one of unknown cost.
AgreesWithSingle ==
    batch # Unset => \A j \in WithRoom :
        LET bound == StartBound(work[j].earliest, Now)
            alone == ScheduleJob(work[j], Now, placed[j].policy, batch.snapshot)
        IN  CompetesWithNobody(j) /\ alone.chosen # Unset
                => /\ placed[j].chosen = alone.chosen
                   /\ placed[j].remaining = alone.remaining
                   /\ Candidate(work[j], bound).cost # 0 => placed[j].impact = alone.impact

\* A job ends after its deadline only if it cannot end before it at all, and
\* never starts before the time that was asked for or in the past.
DeadlineIsKept ==
    \A j \in Placed :
        LET job == work[j] c == placed[j].chosen
            bound == StartBound(RequestedStart(job), Now)
        IN  /\ c.start >= Now /\ c.start >= RequestedStart(job)
            /\ c.end > job.deadline => bound + job.runtime > job.deadline

(***************************************************************************)
(* Why: the jobs are taken in the order of their urgency, so that what a   *)
(* job met in the slots is what the more urgent ones with room took, then  *)
(* and for the rest of the batch; and its decision is a function of that.  *)
(***************************************************************************)
Preferred(j) ==
    LET eligible == Eligible(work[j])
    IN  First(eligible, placed[j].policy, BaseCost(eligible))

PlacedOK(j) ==
    LET best == First(RoomyFor(j), placed[j].policy,
                      [c \in RoomyFor(j) |-> EffectiveCost(c)])
    IN  /\ placed[j].policy = batch.policyCache[work[j].tenant]
        /\ placed[j].chosen \in Eligible(work[j])
        /\ placed[j].fits <=> RoomyFor(j) # {}
        /\ placed[j].fits => placed[j].chosen = best
        /\ placed[j].spilled <=>
              ~placed[j].fits \/ placed[j].chosen.start # Preferred(j).start
        /\ placed[j].preferredFull <=> Preferred(j) \notin RoomyFor(j)
        /\ placed[j].remaining = Remaining(work[j], placed[j].chosen)
        /\ placed[j].impact = Impact(work[j], BatchBaseline(work[j], placed[j].chosen),
                                     placed[j].chosen)

SlotsOK ==
    /\ \A key \in DOMAIN slots : slots[key] \in Amounts
    /\ \A j \in WithRoom : Hours(j) \subseteq DOMAIN slots
    /\ SlotsAreAccounted

PlanInv ==
    /\ SettingsOK
    /\ work \in [Jobs -> Shapes]
    /\ placed \in [Jobs -> DecisionRow \cup {Unset}]
    /\ IF batch = Unset THEN slots = EmptyRegistry /\ Placed = {}
       ELSE /\ batch \in BatchRow
            /\ \A i \in Placed, j \in batch.todo : LexLess(UrgencyKey(i), UrgencyKey(j))
            /\ \A j \in Placed : PlacedOK(j)
            /\ SlotsOK

===========================================================================
