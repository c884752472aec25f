------------------------------ MODULE Platform -------------------------------
(***************************************************************************)
(* What the modules of single components share.                            *)
(***************************************************************************)

CONSTANTS
    Process,    \* instances of the API
    Tenant,     \* numbers: the ids are ordered
    None        \* a NULL column, an answer there is not
=============================================================================
