----------------------------- MODULE MCPlanning -----------------------------
(* Small instances of the batch scheduler for TLC: one region, half-hour     *)
(* ticks, and three full hours to choose from, the greenest the dearest.     *)
EXTENDS BatchScheduler

CONSTANT a1

OneOf == [r \in Resources |-> 1]

Hourly(values) ==
  {[at |-> 2 * n, value |-> values[n], fallback |-> FALSE] : n \in DOMAIN values}
Curve == [region \in {"north"} |-> Hourly(<<100, 104, 108>>)]
Price == [region \in {"north"} |-> Hourly(<<10, 5, 3>>)]
NoTemplate == [region \in {"north"} |-> [hour \in 0 .. 23 |-> 9]]
Calm == [t \in 0 .. 20 |-> 0]

Work(priority, deferrable) ==
  [tenant |-> "t1", region |-> "north", priority |-> priority, deferrable |-> deferrable,
   submitted |-> 0, earliest |-> 2, deadline |-> 8, runtime |-> 2, energy |-> 1,
   budget |-> Unset, demand |-> OneOf]
SomeShapes == {Work(0, FALSE), Work(2, TRUE)}

SomeClusters ==
  {[available |-> TRUE, answers |-> TRUE, podsListed |-> TRUE, floating |-> Nothing,
    nodes |-> {[name |-> "n1", ready |-> TRUE, allocatable |-> OneOf, requested |-> Nothing]}]}
=============================================================================
