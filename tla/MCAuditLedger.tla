--------------------------- MODULE MCAuditLedger ---------------------------
(* Small instances of the audit ledger for TLC. *)
EXTENDS AuditLedger

CONSTANTS w1, w2, k1, e1, e2, e3
=============================================================================
