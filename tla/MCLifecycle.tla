---------------------------- MODULE MCLifecycle ----------------------------
(* Small instances of the whole life of a job for TLC. *)
EXTENDS Lifecycle, TLC

CONSTANTS j1, j2, w1, w2, c1, u1, u2, d1, s1, b1

RankOne == [j \in Jobs |-> 1]

\* A worker dies in its tick, but not once its job is DISPATCHING.
BeforeDispatching == {"recover", "promote_read", "promote", "claim", "dispatch", "mark",
                      "poll_read", "poll", "sync"}

\* Bound: how many sessions are at work at once.
Busy == {w \in Sessions : session[w].pc # "idle"}
          \cup {u \in Users : request[u] # None} \cup {d \in Deciders : pass[d].pc # "idle"}
AtMostTwoBusy == Cardinality(Busy) =< 2
=============================================================================
