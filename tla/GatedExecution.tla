--------------------------- MODULE GatedExecution ---------------------------
(***************************************************************************)
(* What GreenShift promises of a job, without its services: nothing runs   *)
(* before it is authorised, and it runs once.  An authorisation can be     *)
(* withdrawn (the job is resubmitted and scheduled again).                 *)
(***************************************************************************)
CONSTANT Jobs

VARIABLES
  authorised,  \* jobs whose schedule stands approved
  starts       \* how often each job was handed to Kubernetes

gatedVars == <<authorised, starts>>

GatedInit == authorised = {} /\ starts = [j \in Jobs |-> 0]

Authorise(j) ==
  /\ authorised' = authorised \cup {j}
  /\ UNCHANGED starts

Withdraw(j) ==
  /\ authorised' = authorised \ {j}
  /\ UNCHANGED starts

Start(j) ==
  /\ j \in authorised /\ starts[j] = 0
  /\ starts' = [starts EXCEPT ![j] = 1]
  /\ UNCHANGED authorised

GatedNext == \E j \in Jobs : Authorise(j) \/ Withdraw(j) \/ Start(j)

GatedSpec == GatedInit /\ [][GatedNext]_gatedVars
=============================================================================
