------------------------------ MODULE Billing -------------------------------
(***************************************************************************)
(* Subscriptions: the checkout endpoint, the Stripe webhook and the        *)
(* TenantBilling row they share (services/api/ipermit_api/billing.py and   *)
(* routers/billing.py, the TenantBilling and ProcessedStripeEvent tables), *)
(* with Stripe as the environment.                                         *)
(*                                                                         *)
(* Each request runs in a database transaction of its own (READ COMMITTED, *)
(* no explicit locks) on one of several workers: threads for checkouts,    *)
(* the event loops of the two or more processes for webhooks.  A row is    *)
(* loaded into memory, changed there, and flushed: an absent row is        *)
(* inserted, a loaded one gets an UPDATE of the columns whose value        *)
(* changed, and of no others.  From the flush to the commit the row is     *)
(* locked; an insert into a unique key waits for another transaction's     *)
(* pending insert of it, and fails once that is committed.                 *)
(*                                                                         *)
(* Stripe delivers an event any number of times, in any order, until it is *)
(* acknowledged and possibly after.                                        *)
(***************************************************************************)
EXTENDS Naturals, Sequences, FiniteSets

CONSTANTS
    Tenants,
    Workers,        \* requests the deployment serves at once
    Plans,          \* the paid plans
    Statuses,       \* subscription statuses Stripe reports
    None,           \* a NULL column, an absent metadata entry
    NoRow,          \* the tenant has no billing row
    MaxEvents,      \* bound: events Stripe emits
    MaxCheckouts,   \* bound: checkout requests
    MaxFailures     \* bound: requests that fail for reasons of their own

VARIABLES
    billing,    \* committed TenantBilling rows, by tenant
    ledger,     \* committed ProcessedStripeEvent ids
    trail,      \* committed audit records of entitlement changes, in commit order
    txn,        \* the request each worker runs
    (* Stripe *)
    customers,  \* the customers created for each tenant
    sessions,   \* checkout sessions whose URL reached the caller
    events,     \* what Stripe has to report; the index is the event id
    acked,      \* events answered with a 200
    (* bounds *)
    checkouts, failures

db == <<billing, ledger, trail>>
stripe == <<customers, sessions, events, acked>>
vars == <<db, txn, stripe, checkouts, failures>>

-----------------------------------------------------------------------------
Columns == {"customer", "sub", "plan", "status", "end"}

\* The rows of the table; a NULL and an absent row are no values of theirs.
Row == [customer : Nat \cup {None}, sub : Nat \cup {None}, plan : Plans \cup {"free"},
        status : {"none", "active", "past_due", "canceled", "incomplete"},
        end : Nat \cup {None}]

ASSUME BillingAssumption ==
    /\ None \notin Tenants
    /\ NoRow \notin Row
    /\ IsFiniteSet(Tenants)

NewRow == [customer |-> None, sub |-> None, plan |-> "free", status |-> "none", end |-> None]

Idle == [stage |-> "idle", kind |-> None, event |-> 0, tenant |-> None, plan |-> None,
         loaded |-> NoRow, row |-> NoRow, seen |-> 0]

\* map_status: what is not recognised is incomplete.
MapStatus(status) ==
    CASE status \in {"active", "trialing"}    -> "active"
      [] status \in {"past_due", "unpaid"}    -> "past_due"
      [] status = "canceled"                  -> "canceled"
      [] OTHER                                -> "incomplete"

\* The handler finds the tenant an event is about in its metadata.
Routed(e) == events[e].type # "other" /\ events[e].tenant # None

\* _on_checkout_completed and _on_subscription_change, on the row in memory.
Apply(c, row) ==
    LET planned == [row EXCEPT !.plan = IF c.plan = None THEN @ ELSE c.plan,
                               !.sub = c.sub]
    IN IF c.type = "checkout"
       THEN [planned EXCEPT !.status = "active",
                            !.customer = IF c.customer = None THEN @ ELSE c.customer]
       ELSE [planned EXCEPT !.status = IF c.type = "deleted" THEN "canceled"
                                       ELSE MapStatus(c.status),
                            !.end = c.end]

-----------------------------------------------------------------------------
(* The unit of work: what a transaction writes, locks and commits.         *)

\* A pending INSERT, or an UPDATE of at least one column.
Writes(x) == x.tenant # None /\ x.row # x.loaded

HoldsRow(x, t) == x.stage \in {"record", "session", "commit"} /\ Writes(x) /\ x.tenant = t

HoldsKey(x, e) == x.stage = "commit" /\ x.kind = "webhook" /\ x.event = e

\* Faulty variant: the loaded row is detached, its changes are not flushed.
MergedDetached(x, current) == IF x.loaded = NoRow THEN x.row ELSE current

\* The row after the flushed statement commits, on top of what others committed.
Merged(x, current) ==
    IF x.loaded = NoRow THEN x.row
    ELSE [c \in Columns |-> IF x.row[c] # x.loaded[c] THEN x.row[c] ELSE current[c]]

Goto(w, stage) == txn' = [txn EXCEPT ![w].stage = stage]

\* The session closes without a commit.
Rollback(w) == txn' = [txn EXCEPT ![w] = Idle]

Flush(w) ==
    LET x == txn[w]
    IN  /\ x.stage = "flush"
        /\ Writes(x) => \A v \in Workers \ {w} : ~HoldsRow(txn[v], x.tenant)
        /\ IF x.loaded = NoRow /\ billing[x.tenant] # NoRow
           THEN Rollback(w)                     \* unique (tenant_id) violated
           ELSE Goto(w, IF x.kind = "webhook" THEN "record" ELSE "session")
        /\ UNCHANGED <<db, stripe, checkouts, failures>>

-----------------------------------------------------------------------------
(* POST /billing/webhook                                                   *)

\* Faulty variant: the answer is sent before the event is processed.
ReceiveAnswersFirst(w, e) ==
    /\ txn[w].stage = "idle"
    /\ e \in 1..Len(events)
    /\ acked' = acked \cup {e}
    /\ txn' = IF e \in ledger THEN txn
              ELSE [txn EXCEPT ![w] = [Idle EXCEPT !.kind = "webhook", !.event = e,
                                       !.stage = IF Routed(e) THEN "load" ELSE "record"]]
    /\ UNCHANGED <<db, customers, sessions, events, checkouts, failures>>

\* Faulty variant: a duplicate is refused, not acknowledged.
ReceiveRefusesDuplicates(w, e) ==
    /\ txn[w].stage = "idle"
    /\ e \in 1..Len(events)
    /\ txn' = IF e \in ledger THEN txn
              ELSE [txn EXCEPT ![w] = [Idle EXCEPT !.kind = "webhook", !.event = e,
                                       !.stage = IF Routed(e) THEN "load" ELSE "record"]]
    /\ UNCHANGED <<db, stripe, checkouts, failures>>

\* The body is verified and the ledger consulted.
Receive(w, e) ==
    /\ txn[w].stage = "idle"
    /\ e \in 1..Len(events)
    /\ IF e \in ledger
       THEN acked' = acked \cup {e} /\ UNCHANGED txn      \* "duplicate"
       ELSE /\ txn' = [txn EXCEPT ![w] =
                  [Idle EXCEPT !.kind = "webhook", !.event = e,
                               !.stage = IF Routed(e) THEN "load" ELSE "record"]]
            /\ UNCHANGED acked
    /\ UNCHANGED <<db, customers, sessions, events, checkouts, failures>>

\* _upsert_billing, then the column assignments.
Load(w) ==
    LET c == events[txn[w].event]
        row == billing[c.tenant]
    IN  /\ txn[w].stage = "load"
        /\ txn' = [txn EXCEPT ![w] =
              [@ EXCEPT !.stage = "flush", !.tenant = c.tenant, !.loaded = row,
                        !.row = Apply(c, IF row = NoRow THEN NewRow ELSE row),
                        !.seen = Len(trail)]]
        /\ UNCHANGED <<db, stripe, checkouts, failures>>

\* Faulty variant: the ledger has no primary key on the event id.
RecordUnkeyed(w) ==
    /\ txn[w].stage = "record"
    /\ Goto(w, "commit")
    /\ UNCHANGED <<db, stripe, checkouts, failures>>

\* _record_event: the id is the ledger's primary key.
Record(w) ==
    LET e == txn[w].event
    IN  /\ txn[w].stage = "record"
        /\ \A v \in Workers \ {w} : ~HoldsKey(txn[v], e)
        /\ IF e \in ledger THEN Rollback(w) ELSE Goto(w, "commit")
        /\ UNCHANGED <<db, stripe, checkouts, failures>>

CommitWebhook(w) ==
    LET x == txn[w]
    IN  /\ x.stage = "commit" /\ x.kind = "webhook"
        /\ ledger' = ledger \cup {x.event}
        /\ IF x.tenant = None
           THEN UNCHANGED <<billing, trail>>
           ELSE /\ billing' = [billing EXCEPT ![x.tenant] = Merged(x, @)]
                /\ trail' = Append(trail, [event |-> x.event, tenant |-> x.tenant,
                                           plan |-> x.row.plan, status |-> x.row.status,
                                           seen |-> x.seen])
        /\ Goto(w, "respond")
        /\ UNCHANGED <<stripe, checkouts, failures>>

\* The answer reaches Stripe.
Respond(w) ==
    /\ txn[w].stage = "respond"
    /\ acked' = acked \cup {txn[w].event}
    /\ Rollback(w)
    /\ UNCHANGED <<db, customers, sessions, events, checkouts, failures>>

-----------------------------------------------------------------------------
(* POST /billing/checkout                                                  *)

\* Faulty variant: the checkout already enters the plan.
BeginCheckoutGrants(w, t, p) ==
    /\ txn[w].stage = "idle"
    /\ checkouts < MaxCheckouts
    /\ checkouts' = checkouts + 1
    /\ LET row == IF billing[t] = NoRow THEN NewRow ELSE billing[t] IN
       txn' = [txn EXCEPT ![w] =
          [Idle EXCEPT !.kind = "checkout", !.tenant = t, !.plan = p, !.loaded = billing[t],
                       !.row = [row EXCEPT !.plan = p],
                       !.stage = IF row.customer = None THEN "customer" ELSE "flush"]]
    /\ UNCHANGED <<db, stripe, failures>>

\* Faulty variant: the row is selected without its tenant.
BeginCheckoutUnscoped(w, t, p) ==
    /\ txn[w].stage = "idle"
    /\ checkouts < MaxCheckouts
    /\ checkouts' = checkouts + 1
    /\ \E u \in Tenants :
          LET row == IF billing[u] = NoRow THEN NewRow ELSE billing[u] IN
          txn' = [txn EXCEPT ![w] =
             [Idle EXCEPT !.kind = "checkout", !.tenant = t, !.plan = p,
                          !.loaded = billing[u], !.row = row,
                          !.stage = IF row.customer = None THEN "customer" ELSE "flush"]]
    /\ UNCHANGED <<db, stripe, failures>>

\* ensure_customer up to the call of Stripe.
BeginCheckout(w, t, p) ==
    LET row == IF billing[t] = NoRow THEN NewRow ELSE billing[t]
    IN  /\ txn[w].stage = "idle"
        /\ checkouts < MaxCheckouts
        /\ checkouts' = checkouts + 1
        /\ txn' = [txn EXCEPT ![w] =
              [Idle EXCEPT !.kind = "checkout", !.tenant = t, !.plan = p,
                           !.loaded = billing[t], !.row = row,
                           !.stage = IF row.customer = None THEN "customer" ELSE "flush"]]
        /\ UNCHANGED <<db, stripe, failures>>

\* Stripe creates a customer: nothing the transaction does later undoes it.
CreateCustomer(w) ==
    LET t == txn[w].tenant
        new == Cardinality(UNION {customers[u] : u \in Tenants}) + 1
    IN  /\ txn[w].stage = "customer"
        /\ customers' = [customers EXCEPT ![t] = @ \cup {new}]
        /\ txn' = [txn EXCEPT ![w] = [@ EXCEPT !.stage = "flush", !.row.customer = new]]
        /\ UNCHANGED <<db, sessions, events, acked, checkouts, failures>>

\* create_checkout_session: the session exists at Stripe, its URL is not out.
CreateSession(w) ==
    /\ txn[w].stage = "session"
    /\ Goto(w, "commit")
    /\ UNCHANGED <<db, stripe, checkouts, failures>>

CommitCheckout(w) ==
    LET x == txn[w]
    IN  /\ x.stage = "commit" /\ x.kind = "checkout"
        /\ billing' = IF Writes(x) THEN [billing EXCEPT ![x.tenant] = Merged(x, @)] ELSE billing
        /\ sessions' = sessions \cup {[tenant |-> x.tenant, plan |-> x.plan,
                                       customer |-> x.row.customer]}
        /\ Rollback(w)
        /\ UNCHANGED <<ledger, trail, customers, events, acked, checkouts, failures>>

-----------------------------------------------------------------------------
\* A handler raises, a call of Stripe fails, a process stops, an answer is
\* lost: the transaction is gone, what is committed stays.
Fail(w) ==
    /\ txn[w].stage # "idle"
    /\ failures < MaxFailures
    /\ failures' = failures + 1
    /\ Rollback(w)
    /\ UNCHANGED <<db, stripe, checkouts>>

(* Stripe: a customer pays in a session, a subscription changes or ends,   *)
(* and there are events that are not for this handler or name no tenant.   *)
Emit(c) ==
    /\ Len(events) < MaxEvents
    /\ events' = Append(events, c)
    /\ UNCHANGED <<db, txn, customers, sessions, acked, checkouts, failures>>

Pay ==
    \E s \in sessions :
        Emit([type |-> "checkout", tenant |-> s.tenant, plan |-> s.plan, status |-> None,
              customer |-> s.customer, sub |-> Len(events) + 1, end |-> None])

\* The subscriptions Stripe still has, named by the event that started them.
Subscriptions ==
    {e \in 1..Len(events) :
        /\ events[e].type = "checkout"
        /\ \A d \in 1..Len(events) : events[d].type = "deleted" => events[d].sub # e}

ChangeSubscription ==
    \E s \in Subscriptions, type \in {"updated", "deleted"}, status \in Statuses :
        Emit([type |-> type, tenant |-> events[s].tenant, plan |-> events[s].plan,
              status |-> status, customer |-> None, sub |-> s, end |-> 1])

Unrouted ==
    \E type \in {"other", "updated"}, status \in Statuses :
        Emit([type |-> type, tenant |-> None, plan |-> None, status |-> status,
              customer |-> None, sub |-> 0, end |-> None])

-----------------------------------------------------------------------------
Init ==
    /\ billing = [t \in Tenants |-> NoRow]
    /\ ledger = {}
    /\ trail = <<>>
    /\ txn = [w \in Workers |-> Idle]
    /\ customers = [t \in Tenants |-> {}]
    /\ sessions = {}
    /\ events = <<>>
    /\ acked = {}
    /\ checkouts = 0
    /\ failures = 0

\* What a worker does with the request it has taken.
Step(w) ==
    \/ Load(w) \/ Flush(w) \/ Record(w) \/ CommitWebhook(w) \/ Respond(w)
    \/ CreateCustomer(w) \/ CreateSession(w) \/ CommitCheckout(w)

Deliver(e) == \E w \in Workers : Receive(w, e)

Next ==
    \/ \E w \in Workers : Step(w) \/ Fail(w)
    \/ \E e \in 1..MaxEvents : Deliver(e)
    \/ \E w \in Workers, t \in Tenants, p \in Plans : BeginCheckout(w, t, p)
    \/ Pay \/ ChangeSubscription \/ Unrouted

Spec == Init /\ [][Next]_vars

(* A worker finishes what it has begun, and Stripe retries every event it  *)
(* has no answer to; nobody has to pay, cancel or check out.               *)
Fairness ==
    /\ \A w \in Workers : WF_vars(Step(w))
    /\ \A e \in 1..MaxEvents : SF_vars(e \notin acked /\ Deliver(e))

FairSpec == Spec /\ Fairness

-----------------------------------------------------------------------------
(* An event takes effect at most once however often it is delivered and by *)
(* however many workers at the same time, and its effect is in the ledger  *)
(* exactly when it is in the audit trail (routers/billing.py:12, "a        *)
(* redelivery is a no-op").                                                *)
EffectsOnce ==
    \A e \in 1..Len(events) :
        Cardinality({i \in 1..Len(trail) : trail[i].event = e})
            = IF e \in ledger /\ Routed(e) THEN 1 ELSE 0

(* Stripe is told 200 only when the event is durably processed: an answer  *)
(* is never ahead of the commit (stripe_webhook).                          *)
AnsweredOnlyWhenProcessed == acked \subseteq ledger

(* Plan and status change only in the commit of an event about that very   *)
(* tenant: never by a checkout that shares the row, never for another      *)
(* tenant (routers/billing.py:10, "written ONLY from verified webhook      *)
(* events").                                                               *)
Entitlement(row) == IF row = NoRow THEN <<"free", "none">> ELSE <<row.plan, row.status>>

EntitlementOnlyFromEvents ==
    [][\A t \in Tenants : Entitlement(billing[t])' # Entitlement(billing[t]) =>
          \E e \in ledger' \ ledger : events[e].tenant = t]_vars

(* The row shows what the tenant's last audit record says, provided that   *)
(* record's request loaded the row after the one before it had committed:  *)
(* only events processed at the same time can leave a row that no record   *)
(* describes (_audit_billing records the row in memory).                   *)
About(t) == {i \in 1..Len(trail) : trail[i].tenant = t}

RowFollowsTrail ==
    \A t \in Tenants : \A i \in About(t) :
        (\A j \in About(t) : j <= i /\ (j < i => j <= trail[i].seen)) =>
            Entitlement(billing[t]) = <<trail[i].plan, trail[i].status>>

(* A row names a customer Stripe created for that tenant, even when a      *)
(* checkout and a webhook write it together (ensure_customer,              *)
(* _on_checkout_completed).                                                *)
CustomerIsTheTenants ==
    \A t \in Tenants : billing[t] # NoRow =>
        billing[t].customer \in customers[t] \cup {None}

(* "The Stripe customer is created at most once per tenant"                *)
(* (ensure_customer): it is not, when the request that created it fails,   *)
(* or when two first checkouts run at the same time.                       *)
OneCustomerPerTenant == \A t \in Tenants : Cardinality(customers[t]) <= 1

(* Every event Stripe emits is eventually processed and acknowledged:      *)
(* waiting for rows and keys ends, and a delivery that failed is repeated. *)
EventsAreProcessed == \A e \in 1..MaxEvents : e \in 1..Len(events) ~> e \in acked
=============================================================================
