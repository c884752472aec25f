--------------------------- MODULE AppendOnlyTree ---------------------------
(***************************************************************************)
(* What the audit table promises whatever the interleaving of the requests *)
(* that write it: records are only ever added, each under an identifier of *)
(* its own, and each names as its predecessor either no record or one that *)
(* is already in the table with a smaller identifier.  Walking back from   *)
(* any record therefore ends at a first record.  This is a tree; that it   *)
(* be a chain is more than the table promises (see AuditLog).              *)
(***************************************************************************)
EXTENDS Naturals

VARIABLE records    \* set of [id |-> ..., prev |-> ...]; prev = 0 is NULL

Init == records = {}

Append ==
    \E r \in records' \ records :
        /\ records' = records \cup {r}
        /\ \A s \in records : s.id # r.id
        /\ r.prev = 0 \/ \E s \in records : s.id = r.prev /\ s.id < r.id

Spec == Init /\ [][Append]_records
=============================================================================
