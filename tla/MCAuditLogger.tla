--------------------------- MODULE MCAuditLogger ----------------------------
(* A small instance of AuditLogger for TLC. *)
EXTENDS AuditLogger

CONSTANTS e1, e2, e3, e4, c1, c2

FourEvents == {e1, e2, e3, e4}
LastBad == {e4}
TwoCallers == {c1, c2}
=============================================================================
