------------------------------ MODULE MCAudit -------------------------------
(* AuditLog for TLC: four requests, interchangeable.                       *)
EXTENDS AuditLog, TLC

CONSTANTS r1, r2, r3, r4

MCRequests == {r1, r2, r3, r4}
=============================================================================
