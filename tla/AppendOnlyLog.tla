--------------------------- MODULE AppendOnlyLog ---------------------------
(***************************************************************************)
(* What the audit ledger promises its callers: one log, to whose end       *)
(* events are added, and of which nothing is ever changed.  An event is    *)
(* added once, or again while its caller has no answer to the first time.  *)
(***************************************************************************)
EXTENDS Naturals, Sequences

CONSTANT Events

VARIABLES log, unanswered

LogInit == log = <<>> /\ unanswered = {}

Recorded(e) == \E i \in 1 .. Len(log) : log[i] = e

Record(e) ==
  /\ Recorded(e) => e \in unanswered
  /\ log' = Append(log, e)
  /\ unanswered' \in {unanswered, unanswered \cup {e}, unanswered \ {e}}

\* The answer to a commit is lost afterwards, or the caller gets one.
Doubt(e) ==
  /\ Recorded(e)
  /\ unanswered' \in {unanswered \cup {e}, unanswered \ {e}}
  /\ UNCHANGED log

LogSpec ==
  LogInit /\ [][\E e \in Events : Record(e) \/ Doubt(e)]_<<log, unanswered>>
=============================================================================
