----------------------------- MODULE MCBilling ------------------------------
(* Billing for TLC.                                                        *)
EXTENDS Billing

CONSTANTS t1, t2, w1, w2

MCTenants == {t1, t2}
MCWorkers == {w1, w2}
MCPlans == {"pro"}
MCStatuses == {"unpaid"}
=============================================================================
