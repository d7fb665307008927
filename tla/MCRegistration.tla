--------------------------- MODULE MCRegistration ---------------------------
(* Small instances of company registration for TLC. *)
EXTENDS Registration, TLC

CONSTANTS w1, w2, e1, e2, e3, e4, c1, c2

Created == (w1 :> e1) @@ (w2 :> e2)
Admin == (w1 :> e3) @@ (w2 :> e4)
=============================================================================
