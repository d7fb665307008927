--------------------------- MODULE SlotCapacity ---------------------------
(***************************************************************************)
(* The registry of hourly slots that a batch fills                         *)
(* (app/decide/slot_capacity.py). A registry is a function from the slots  *)
(* created so far, <<region, hour>>, to what is allocated in each; time is *)
(* counted in ticks, PerHour of them to the hour.                          *)
(***************************************************************************)
EXTENDS Integers, FiniteSets

CONSTANTS PerHour,       \* ticks in an hour
          Resources      \* what a job asks for: "cpu", "memory", "gpu"

ASSUME SlotCapacityAssumption == PerHour \in Nat \ {0} /\ "cpu" \in Resources

Amounts == [Resources -> Nat]
Nothing == [r \in Resources |-> 0]
EmptyRegistry == [key \in {} |-> Nothing]

\* normalize_time: the hour a tick lies in.
HourOf(t) == t \div PerHour

\* _get_span_hours: the duration rounded up to hours, at least one.
SpanHours(runtime) ==
    IF runtime = 0 THEN 1 ELSE (runtime + PerHour - 1) \div PerHour

\* The slots that can_fit and allocate visit for a job.
SlotsOf(region, start, runtime) ==
    {<<region, h>> : h \in HourOf(start) .. HourOf(start) + SpanHours(runtime) - 1}

AllocatedIn(slots, key) == IF key \in DOMAIN slots THEN slots[key] ELSE Nothing

CanFit(slots, capacity, region, start, runtime, demand) ==
    \A key \in SlotsOf(region, start, runtime), r \in Resources :
        AllocatedIn(slots, key)[r] + demand[r] =< capacity[r]

\* Mutant: every slot is filled on its own, without asking for all of them first.
Allocate_SlotBySlot(slots, capacity, region, start, runtime, demand) ==
    LET keys == SlotsOf(region, start, runtime)
        open == {key \in keys : \A r \in Resources :
                    AllocatedIn(slots, key)[r] + demand[r] =< capacity[r]}
    IN  [key \in DOMAIN slots \cup keys |->
            IF key \in open THEN [r \in Resources |-> AllocatedIn(slots, key)[r] + demand[r]]
            ELSE AllocatedIn(slots, key)]

\* All the slots of the job, or none of them.
Allocate(slots, capacity, region, start, runtime, demand) ==
    IF CanFit(slots, capacity, region, start, runtime, demand)
    THEN LET keys == SlotsOf(region, start, runtime)
         IN  [key \in DOMAIN slots \cup keys |->
                 IF key \in keys
                 THEN [r \in Resources |-> AllocatedIn(slots, key)[r] + demand[r]]
                 ELSE slots[key]]
    ELSE slots

\* utilization_at, in cpu of the capacity instead of percent: a slot that was
\* never created is empty, one of a cluster without cpu is full.
Utilization(slots, capacity, region, t) ==
    LET key == <<region, HourOf(t)>>
    IN  IF key \notin DOMAIN slots THEN 0
        ELSE IF capacity["cpu"] = 0 THEN 1
        ELSE IF slots[key]["cpu"] > capacity["cpu"] THEN capacity["cpu"]
        ELSE slots[key]["cpu"]
===========================================================================
