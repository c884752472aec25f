----------------------------- MODULE Entitlement -----------------------------
(***************************************************************************)
(* The gate in front of the premium endpoints                              *)
(* (services/api/ipermit_api/entitlements.py) next to the subscription it  *)
(* stands for.  Stripe reports a subscription in events; the gate knows    *)
(* the billing row that the events leave (routers/billing.py).  Here       *)
(* events are handled one at a time and in order: what reordering and      *)
(* overlapping webhooks do to the row is module Billing's subject.         *)
(***************************************************************************)
EXTENDS Clock, Sequences

CONSTANTS
    Period,         \* what a payment buys, in units of the clock
    MaxChanges      \* bound: what happens to subscriptions

ASSUME PeriodAssumption == Period \in Nat /\ MaxNow \in Nat
ASSUME NoneIsNoTime == None \notin Int

VARIABLES
    subscription,   \* Stripe: the latest subscription of each tenant
    outbox,         \* Stripe: the events not yet handled
    billing,        \* TenantBilling rows
    decision,       \* the gate's answer in the last step, if it gave one
    changes

entitlementVars == <<subscription, outbox, billing, decision, changes>>

\* reported: an event carried the end of the subscription's present period.
NoSubscription == [status |-> "none", end |-> 0, reported |-> TRUE]

NoRow == [plan |-> "free", status |-> "none", end |-> None]

EntitlementInit ==
    /\ now = 0
    /\ subscription = [t \in Tenant |-> NoSubscription]
    /\ outbox = [t \in Tenant |-> <<>>]
    /\ billing = [t \in Tenant |-> NoRow]
    /\ decision = None
    /\ changes = 0

-----------------------------------------------------------------------------
(* Stripe                                                                  *)

\* The event types the webhook handles: a created subscription is not one.
Becomes(t, s, type) ==
    /\ changes < MaxChanges
    /\ changes' = changes + 1
    /\ subscription' = [subscription EXCEPT ![t] = s]
    /\ outbox' = [outbox EXCEPT ![t] = Append(@, [type |-> type, status |-> s.status, end |-> s.end])]
    /\ decision' = None
    /\ UNCHANGED <<now, billing>>

Ended(t) == subscription[t].status \in {"none", "canceled"}

Subscribe(t) ==
    /\ Ended(t)
    /\ Becomes(t, [status |-> "active", end |-> now + Period, reported |-> FALSE], "checkout")

\* Renewed, in arrears, or reported as it is.
Report(t) ==
    /\ ~Ended(t)
    /\ \E status \in {"active", "past_due"}, end \in {subscription[t].end, now + Period} :
          Becomes(t, [status |-> status, end |-> end, reported |-> TRUE], "updated")

Cancel(t) ==
    /\ ~Ended(t)
    /\ Becomes(t, [subscription[t] EXCEPT !.status = "canceled", !.reported = TRUE], "deleted")

-----------------------------------------------------------------------------
(* The platform                                                            *)

\* Faulty variant: an update leaves the period end as it is.
RowKeepingEnd(row, e) ==
    IF e.type = "checkout" THEN [row EXCEPT !.plan = "pro", !.status = "active"]
    ELSE [row EXCEPT !.status = e.status]

\* _on_checkout_completed, which leaves the period end; _on_subscription_change.
RowAfterEvent(row, e) ==
    IF e.type = "checkout" THEN [row EXCEPT !.plan = "pro", !.status = "active"]
    ELSE [row EXCEPT !.status = e.status, !.end = e.end]

Handle(t) ==
    /\ outbox[t] # <<>>
    /\ billing' = [billing EXCEPT ![t] = RowAfterEvent(@, Head(outbox[t]))]
    /\ outbox' = [outbox EXCEPT ![t] = Tail(@)]
    /\ decision' = None
    /\ UNCHANGED <<now, subscription, changes>>

_is_active(row) == row.status = "active" /\ (row.end = None \/ now < row.end)

\* _check_entitlement: an absent row and the free plan are refused alike.
_check_entitlement(t, plans) == _is_active(billing[t]) /\ billing[t].plan \in plans

\* An export is asked for.
Check(t) ==
    /\ decision' = [tenant |-> t, granted |-> _check_entitlement(t, {"starter", "pro"})]
    /\ UNCHANGED <<now, subscription, outbox, billing, changes>>

EntitlementNext ==
    \/ \E t \in Tenant : Subscribe(t) \/ Report(t) \/ Cancel(t) \/ Handle(t) \/ Check(t)
    \/ Tick /\ decision' = None /\ UNCHANGED <<subscription, outbox, billing, changes>>

EntitlementSpec == EntitlementInit /\ [][EntitlementNext]_<<now, entitlementVars>>

-----------------------------------------------------------------------------
(* Hazard: the gate judges by a row that several events wrote, at the end  *)
(* of a period, and after a new checkout (entitlements.py:98,              *)
(* billing.py:206).  Once the events are handled and one of them carried   *)
(* the period, the gate grants exactly what Stripe has been paid for, to   *)
(* the moment.  Before that, a live subscription is turned away only       *)
(* because the row kept the end of an earlier one.                         *)
ExportsWereEntitled ==
    decision # None =>
        LET t == decision.tenant
            live == subscription[t].status = "active" /\ now < subscription[t].end
            handled == outbox[t] = <<>>
        IN  /\ handled /\ subscription[t].reported => (decision.granted <=> live)
            /\ handled /\ live /\ ~decision.granted =>
                 billing[t].status = "active" /\ billing[t].end # None /\ billing[t].end <= now
=============================================================================
