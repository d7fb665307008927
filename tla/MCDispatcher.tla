---------------------------- MODULE MCDispatcher ----------------------------
(* Small instances of the dispatcher for TLC. *)
EXTENDS Dispatcher, TLC

CONSTANTS j1, j2, w1, w2, c1, c2

RankOne == [j \in Jobs |-> 1]
RankTwo == (j1 :> 1) @@ (j2 :> 2)

AnyStep == Steps \ {"idle"}

\* The steps of a tick that hold no DISPATCHING job.
BeforeDispatching == {"recover", "promote_read", "promote", "claim", "dispatch", "mark",
                      "poll_read", "poll", "sync"}

\* Bound: how many of the workers and callers are at work at once.
AtMostTwoBusy == Cardinality({s \in Sessions : session[s].pc # "idle"}) =< 2
=============================================================================
