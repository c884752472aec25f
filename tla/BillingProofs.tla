--------------------------- MODULE BillingProofs -----------------------------
(***************************************************************************)
(* Proofs about Billing for any tenants, any number of workers and events. *)
(* What each request holds in memory stays true of the tables while the    *)
(* others commit, because two requests never hold the same row or the same *)
(* ledger key.                                                             *)
(***************************************************************************)
EXTENDS Billing, FiniteSetTheorems, SequenceTheorems, TLAPS

Event == [type : {"checkout", "updated", "deleted", "other"}, tenant : Tenants \cup {None},
          plan : Plans \cup {None}, status : Statuses \cup {None},
          customer : Nat \cup {None}, sub : Nat, end : Nat \cup {None}]

AuditRecord == [event : Nat, tenant : Tenants, plan : Plans \cup {"free"},
            status : {"none", "active", "past_due", "canceled", "incomplete"}, seen : Nat]

Session == [tenant : Tenants, plan : Plans, customer : Nat \cup {None}]

Webhook == {"load", "flush", "record", "commit", "respond"}
Checkout == {"customer", "flush", "session", "commit"}

Request == [stage : Webhook \cup Checkout \cup {"idle"}, kind : {None, "webhook", "checkout"},
            event : Nat, tenant : Tenants \cup {None}, plan : Plans \cup {None},
            loaded : Row \cup {NoRow}, row : Row \cup {NoRow}, seen : Nat]

TypeOK ==
    /\ billing \in [Tenants -> Row \cup {NoRow}]
    /\ ledger \subseteq 1..Len(events)
    /\ trail \in Seq(AuditRecord)
    /\ txn \in [Workers -> Request]
    /\ customers \in [Tenants -> SUBSET Nat]
    /\ \A t \in Tenants : IsFiniteSet(customers[t])
    /\ sessions \subseteq Session
    /\ events \in Seq(Event)

\* A webhook is about an event, in the tenant the event names, and commits it first.
WebhookOK(x) ==
    x.kind = "webhook" =>
        /\ x.stage \in Webhook
        /\ x.event \in 1..Len(events)
        /\ x.stage \in {"load", "flush"} => Routed(x.event)
        /\ x.stage \in {"flush", "record", "commit"} =>
              x.tenant = IF Routed(x.event) THEN events[x.event].tenant ELSE None
        /\ x.stage = "commit" => x.event \notin ledger
        /\ x.stage = "respond" => x.event \in ledger

\* A checkout carries the entitlement it found.
CheckoutOK(x) ==
    x.kind = "checkout" =>
        /\ x.stage \in Checkout
        /\ x.tenant # None
        /\ x.plan \in Plans
        /\ Entitlement(x.row) = Entitlement(x.loaded)

\* A request that has a row in memory.
InMemory(x) == x.stage \in {"customer", "flush", "record", "session", "commit"} /\ x.tenant # None

\* The row in memory names a known customer; the row it was loaded from is
\* still there, and a row to insert is still absent once it is flushed.
RowOK(x) ==
    InMemory(x) =>
        /\ x.row \in Row
        /\ x.row.customer \in customers[x.tenant] \cup {None}
        /\ x.loaded # NoRow => billing[x.tenant] # NoRow
        /\ HoldsRow(x, x.tenant) /\ x.loaded = NoRow => billing[x.tenant] = NoRow

\* A webhook's row is the committed one, but for the events since it was loaded.
SeenOK(x) ==
    x.kind = "webhook" /\ x.stage # "load" /\ InMemory(x) =>
        /\ x.seen <= Len(trail)
        /\ (\A j \in About(x.tenant) : j <= x.seen) =>
              Entitlement(billing[x.tenant]) = Entitlement(x.loaded)

RequestOK(x) ==
    /\ x.stage # "idle" => x.kind \in {"webhook", "checkout"}
    /\ x.stage # "idle" => WebhookOK(x) /\ CheckoutOK(x) /\ RowOK(x) /\ SeenOK(x)

RequestsOK == \A w \in Workers : RequestOK(txn[w])

\* Two requests hold neither the same ledger key nor the same row.
Compatible(x, y) ==
    /\ \A e \in 1..Len(events) : ~(HoldsKey(x, e) /\ HoldsKey(y, e))
    /\ \A t \in Tenants : ~(HoldsRow(x, t) /\ HoldsRow(y, t))

Exclusive == \A v, w \in Workers : v # w => Compatible(txn[v], txn[w])

\* The audit trail holds one record for each routed event of the ledger.
TrailOK ==
    /\ \A i \in 1..Len(trail) :
          /\ trail[i].event \in ledger /\ Routed(trail[i].event)
    /\ \A i, j \in 1..Len(trail) : trail[i].event = trail[j].event => i = j
    /\ \A e \in ledger : Routed(e) => \E i \in 1..Len(trail) : trail[i].event = e

\* Everything Stripe says of a tenant names a customer of that tenant.
CustomersKnown ==
    /\ CustomerIsTheTenants
    /\ \A s \in sessions : s.customer \in customers[s.tenant] \cup {None}
    /\ \A e \in 1..Len(events) : events[e].tenant # None =>
          events[e].customer \in customers[events[e].tenant] \cup {None}

IInv ==
    /\ TypeOK /\ RequestsOK /\ Exclusive /\ TrailOK /\ CustomersKnown
    /\ AnsweredOnlyWhenProcessed /\ RowFollowsTrail

-----------------------------------------------------------------------------

\* An absent row starts as a row of the free plan, and an idle worker is a request.
LEMMA Starts == NewRow \in Row /\ Idle \in Request
BY DEF NewRow, Row, Idle, Request

\* What a handler makes of a row is a row, of the same or of the event's customer.
LEMMA Applied ==
    ASSUME NEW c \in Event, NEW row \in Row, c.type # "other", c.sub \in Nat
    PROVE  /\ Apply(c, row) \in Row
           /\ Apply(c, row).customer \in {row.customer, c.customer}
<1> DEFINE planned == [row EXCEPT !.plan = IF c.plan = None THEN @ ELSE c.plan, !.sub = c.sub]
<1>1. planned \in Row /\ planned.customer = row.customer
  BY DEF Row, Event
<1>2. CASE c.type = "checkout"
  <2> DEFINE customer == IF c.customer = None THEN row.customer ELSE c.customer
  <2>1. customer \in Nat \cup {None} /\ customer \in {row.customer, c.customer}
    BY DEF Row, Event
  <2>2. Apply(c, row) = [planned EXCEPT !.status = "active", !.customer = customer]
    BY <1>1, <1>2 DEF Apply
  <2> HIDE DEF planned, customer
  <2>3. QED
    BY <1>1, <2>1, <2>2 DEF Row
<1>3. CASE c.type # "checkout"
  <2> DEFINE status == IF c.type = "deleted" THEN "canceled" ELSE MapStatus(c.status)
  <2>1. /\ c.end \in Nat \cup {None}
        /\ status \in {"none", "active", "past_due", "canceled", "incomplete"}
    BY DEF Event, MapStatus
  <2>2. Apply(c, row) = [planned EXCEPT !.status = status, !.end = c.end]
    BY <1>3 DEF Apply
  <2> HIDE DEF planned, status
  <2>3. QED
    BY <1>1, <2>1, <2>2 DEF Row
<1>4. QED
  BY <1>2, <1>3

\* A commit on top of what others committed writes the columns that changed.
LEMMA MergedRow ==
    ASSUME NEW x \in Request, x.row \in Row, NEW current \in Row \cup {NoRow},
           x.loaded # NoRow => current # NoRow
    PROVE  /\ Merged(x, current) \in Row
           /\ Merged(x, current).customer \in {x.row.customer, current.customer}
           /\ x.row = x.loaded => Merged(x, current) = current
           /\ Entitlement(current) = Entitlement(x.loaded) =>
                 Entitlement(Merged(x, current)) = Entitlement(x.row)
           /\ (x.loaded = NoRow => current = NoRow)
              /\ Entitlement(x.row) = Entitlement(x.loaded) =>
                 Entitlement(Merged(x, current)) = Entitlement(current)
<1>0. NoRow \notin Row
  BY BillingAssumption
<1>1. CASE x.loaded = NoRow
  <2>1. Merged(x, current) = x.row
    BY <1>1 DEF Merged
  <2>2. QED
    BY <1>0, <1>1, <2>1
<1>2. CASE x.loaded # NoRow
  <2> DEFINE m == Merged(x, current)
  <2>1. x.loaded \in Row /\ current \in Row
    BY <1>2 DEF Request
  <2>2. m = [c \in Columns |-> IF x.row[c] # x.loaded[c] THEN x.row[c] ELSE current[c]]
    BY <1>2 DEF Merged
  <2>3. m = [customer |-> IF x.row.customer # x.loaded.customer THEN x.row.customer
                          ELSE current.customer,
             sub |-> IF x.row.sub # x.loaded.sub THEN x.row.sub ELSE current.sub,
             plan |-> IF x.row.plan # x.loaded.plan THEN x.row.plan ELSE current.plan,
             status |-> IF x.row.status # x.loaded.status THEN x.row.status
                        ELSE current.status,
             end |-> IF x.row.end # x.loaded.end THEN x.row.end ELSE current.end]
    BY <2>2 DEF Columns
  <2>4. m \in Row
    BY <2>1, <2>3 DEF Row
  <2>5. x.row = x.loaded => m = current
    BY <2>1, <2>3 DEF Row
  <2>6. /\ m.plan = IF x.row.plan # x.loaded.plan THEN x.row.plan ELSE current.plan
        /\ m.status = IF x.row.status # x.loaded.status THEN x.row.status
                      ELSE current.status
        /\ m.customer \in {x.row.customer, current.customer}
    BY <2>3
  <2> HIDE DEF m
  <2>7. /\ Entitlement(m) = <<m.plan, m.status>>
        /\ Entitlement(current) = <<current.plan, current.status>>
        /\ Entitlement(x.loaded) = <<x.loaded.plan, x.loaded.status>>
        /\ Entitlement(x.row) = <<x.row.plan, x.row.status>>
    BY <1>0, <2>1, <2>4 DEF Entitlement
  <2>8. QED
    BY <2>1, <2>4, <2>5, <2>6, <2>7 DEF m
<1>3. QED
  BY <1>1, <1>2

-----------------------------------------------------------------------------

\* Nothing is in memory, locked or recorded at the start.
LEMMA InitIInv == Init => IInv
<1> SUFFICES ASSUME Init PROVE IInv
  OBVIOUS
<1>1. Len(events) = 0 /\ Len(trail) = 0
  BY EmptySeq DEF Init
<1>2. TypeOK
  <2>1. events \in Seq(Event) /\ trail \in Seq(AuditRecord)
    BY EmptySeq DEF Init
  <2>2. QED
    BY <1>1, <2>1, Starts, FS_EmptySet DEF Init, TypeOK
<1>3. \A w \in Workers : txn[w].stage = "idle"
  BY DEF Init, Idle
<1>4. RequestsOK
  BY <1>3 DEF RequestsOK, RequestOK
<1>5. Exclusive
  BY <1>3 DEF Exclusive, Compatible, HoldsKey, HoldsRow
<1>6. TrailOK /\ CustomersKnown /\ AnsweredOnlyWhenProcessed /\ RowFollowsTrail
  BY <1>1 DEF Init, TrailOK, CustomersKnown, CustomerIsTheTenants,
              AnsweredOnlyWhenProcessed, RowFollowsTrail, About
<1>7. QED
  BY <1>2, <1>4, <1>5, <1>6 DEF IInv

\* A step that touches one worker's request and no table keeps the invariant,
\* when the request it leaves is in order and compatible with the others.
LEMMA RequestChanges ==
    ASSUME IInv, NEW w \in Workers, NEW y \in Request,
           txn' = [txn EXCEPT ![w] = y],
           UNCHANGED <<billing, ledger, trail, customers, sessions, events>>,
           acked' \subseteq ledger,
           RequestOK(y),
           \A v \in Workers \ {w} : Compatible(y, txn[v])
    PROVE  IInv'
<1>1. /\ txn'[w] = y
      /\ \A v \in Workers \ {w} : txn'[v] = txn[v]
  BY DEF IInv, TypeOK
<1>2. TypeOK'
  BY DEF IInv, TypeOK
<1>3. \A x \in Request : RequestOK(x) => RequestOK(x)'
  BY DEF RequestOK, WebhookOK, CheckoutOK, RowOK, SeenOK, InMemory, HoldsRow, Writes,
         Routed, About, Entitlement
<1>4. RequestsOK'
  <2> SUFFICES ASSUME NEW v \in Workers PROVE RequestOK(txn[v])'
    BY DEF RequestsOK
  <2>1. RequestOK(txn'[v]) /\ txn'[v] \in Request
    BY <1>1, <1>2 DEF IInv, RequestsOK, TypeOK
  <2>2. QED
    BY <2>1, <1>3
<1>5. Exclusive'
  <2> SUFFICES ASSUME NEW u \in Workers, NEW v \in Workers, u # v
               PROVE  Compatible(txn[u], txn[v])'
    BY DEF Exclusive
  <2>1. Compatible(txn'[u], txn'[v])
    BY <1>1 DEF IInv, Exclusive, Compatible
  <2>2. QED
    BY <2>1 DEF Compatible, HoldsKey, HoldsRow, Writes
<1>6. TrailOK' /\ CustomersKnown' /\ AnsweredOnlyWhenProcessed' /\ RowFollowsTrail'
  BY DEF IInv, TrailOK, CustomersKnown, CustomerIsTheTenants, AnsweredOnlyWhenProcessed,
         RowFollowsTrail, About, Routed, Entitlement
<1>7. QED
  BY <1>2, <1>4, <1>5, <1>6 DEF IInv

\* A worker that has let its request go is compatible with every other.
LEMMA IdleIsOK == /\ Idle \in Request /\ RequestOK(Idle)
                  /\ \A x \in Request : Compatible(Idle, x)
BY Starts DEF Idle, RequestOK, Compatible, HoldsKey, HoldsRow

\* A request that ends without a commit takes what it held in memory with it.
LEMMA RollbackIInv ==
    ASSUME IInv, NEW w \in Workers, Rollback(w), acked' \subseteq ledger,
           UNCHANGED <<billing, ledger, trail, customers, sessions, events>>
    PROVE  IInv'
BY IdleIsOK, RequestChanges DEF Rollback, IInv, TypeOK

\* A request that only moves to another stage.
LEMMA GotoRequest ==
    ASSUME IInv, NEW w \in Workers, NEW stage \in Webhook \cup Checkout, Goto(w, stage)
    PROVE  LET y == [txn[w] EXCEPT !.stage = stage]
           IN  /\ txn' = [txn EXCEPT ![w] = y]
               /\ y \in Request
               /\ y.stage = stage
               /\ /\ y.kind = txn[w].kind /\ y.event = txn[w].event
                  /\ y.tenant = txn[w].tenant /\ y.plan = txn[w].plan
                  /\ y.loaded = txn[w].loaded /\ y.row = txn[w].row
                  /\ y.seen = txn[w].seen
BY DEF Goto, IInv, TypeOK, Request, Webhook, Checkout

\* A webhook enters with nothing in memory, for an event not in the ledger.
LEMMA ReceiveIInv ==
    ASSUME IInv, NEW w \in Workers, NEW e, Receive(w, e)
    PROVE  IInv'
<1>1. UNCHANGED <<billing, ledger, trail, customers, sessions, events>>
  BY DEF Receive, db
<1>2. CASE e \in ledger
  <2>1. acked' \subseteq ledger /\ txn' = [txn EXCEPT ![w] = txn[w]]
    BY <1>2 DEF Receive, IInv, TypeOK, AnsweredOnlyWhenProcessed
  <2>2. txn[w] \in Request /\ RequestOK(txn[w])
        /\ \A v \in Workers \ {w} : Compatible(txn[w], txn[v])
    BY DEF IInv, TypeOK, RequestsOK, Exclusive
  <2>3. QED
    BY <1>1, <2>1, <2>2, RequestChanges
<1>3. CASE e \notin ledger
  <2> DEFINE y == [Idle EXCEPT !.kind = "webhook", !.event = e,
                               !.stage = IF Routed(e) THEN "load" ELSE "record"]
  <2>1. txn' = [txn EXCEPT ![w] = y] /\ acked' \subseteq ledger /\ e \in 1..Len(events)
    BY <1>3 DEF Receive, IInv, AnsweredOnlyWhenProcessed
  <2>2. e \in Nat
    BY <2>1, LenProperties DEF IInv, TypeOK
  <2>3. y \in Request
    BY <2>2, Starts DEF Request, Idle, Webhook
  <2>4. /\ y.kind = "webhook" /\ y.event = e /\ y.tenant = None
        /\ y.stage = IF Routed(e) THEN "load" ELSE "record"
    BY DEF Idle
  <2> HIDE DEF y
  <2>5. RequestOK(y)
    BY <2>1, <2>4 DEF RequestOK, WebhookOK, CheckoutOK, RowOK, SeenOK, InMemory, Webhook
  <2>6. \A x \in Request : Compatible(y, x)
    BY <2>4 DEF Compatible, HoldsKey, HoldsRow, Writes
  <2>7. QED
    BY <1>1, <2>1, <2>3, <2>5, <2>6, RequestChanges DEF IInv, TypeOK
<1>4. QED
  BY <1>2, <1>3

\* A loaded row is the committed one, changed by the event.
LEMMA LoadIInv ==
    ASSUME IInv, NEW w \in Workers, Load(w)
    PROVE  IInv'
<1> DEFINE c == events[txn[w].event]
           row == billing[c.tenant]
           base == IF row = NoRow THEN NewRow ELSE row
           y == [txn[w] EXCEPT !.stage = "flush", !.tenant = c.tenant, !.loaded = row,
                               !.row = Apply(c, base), !.seen = Len(trail)]
<1>1. /\ UNCHANGED <<billing, ledger, trail, customers, sessions, events>>
      /\ acked' \subseteq ledger
  BY DEF Load, db, stripe, IInv, AnsweredOnlyWhenProcessed
<1>2. txn[w].stage = "load" /\ txn[w] \in Request /\ txn' = [txn EXCEPT ![w] = y]
  BY DEF Load, IInv, TypeOK
<1>3. RequestOK(txn[w]) /\ txn[w].kind = "webhook"
  BY <1>2 DEF IInv, RequestsOK, RequestOK, CheckoutOK, Checkout
<1>4. txn[w].event \in 1..Len(events) /\ Routed(txn[w].event)
  BY <1>2, <1>3 DEF RequestOK, WebhookOK
<1>5. c \in Event /\ c.type # "other" /\ c.tenant \in Tenants /\ c.sub \in Nat
  <2>1. c \in Event
    BY <1>4, ElementOfSeq DEF IInv, TypeOK
  <2>2. QED
    BY <1>4, <2>1 DEF Routed, Event
<1>6. row \in Row \cup {NoRow} /\ base \in Row
  BY <1>5, Starts DEF IInv, TypeOK
<1>7. /\ base.customer \in customers[c.tenant] \cup {None}
      /\ c.customer \in customers[c.tenant] \cup {None}
  BY <1>4, <1>5, <1>6, BillingAssumption
     DEF IInv, CustomersKnown, CustomerIsTheTenants, NewRow
<1>8. /\ Apply(c, base) \in Row
      /\ Apply(c, base).customer \in customers[c.tenant] \cup {None}
  BY <1>5, <1>6, <1>7, Applied
<1>9. Len(trail) \in Nat /\ About(c.tenant) \subseteq 1..Len(trail)
  BY LenProperties DEF IInv, TypeOK, About
<1>10. /\ y \in Request
       /\ y.stage = "flush" /\ y.kind = "webhook" /\ y.event = txn[w].event
       /\ y.tenant = c.tenant /\ y.loaded = row /\ y.row = Apply(c, base)
       /\ y.seen = Len(trail)
  BY <1>2, <1>3, <1>5, <1>6, <1>8, <1>9 DEF Request, Webhook
<1>11. WebhookOK(y) /\ CheckoutOK(y)
  BY <1>4, <1>10 DEF WebhookOK, CheckoutOK, Webhook
<1> HIDE DEF y
<1>12. RowOK(y)
  BY <1>8, <1>10 DEF RowOK, HoldsRow
<1>13. SeenOK(y)
  BY <1>9, <1>10 DEF SeenOK
<1>14. RequestOK(y)
  BY <1>10, <1>11, <1>12, <1>13 DEF RequestOK
<1>15. \A x \in Request : Compatible(y, x)
  BY <1>10 DEF Compatible, HoldsKey, HoldsRow
<1>16. QED
  BY <1>1, <1>2, <1>10, <1>14, <1>15, RequestChanges DEF IInv, TypeOK

\* A flush waits for the row, and fails when another has inserted it.
LEMMA FlushIInv ==
    ASSUME IInv, NEW w \in Workers, Flush(w)
    PROVE  IInv'
<1> DEFINE x == txn[w]
           stage == IF x.kind = "webhook" THEN "record" ELSE "session"
           y == [x EXCEPT !.stage = stage]
<1>1. /\ UNCHANGED <<billing, ledger, trail, customers, sessions, events>>
      /\ acked' \subseteq ledger
  BY DEF Flush, db, stripe, IInv, AnsweredOnlyWhenProcessed
<1>2. CASE Rollback(w)
  BY <1>1, <1>2, RollbackIInv
<1>3. CASE Goto(w, stage) /\ ~(x.loaded = NoRow /\ billing[x.tenant] # NoRow)
  <2>1. /\ x.stage = "flush" /\ x \in Request /\ RequestOK(x)
        /\ Writes(x) => \A v \in Workers \ {w} : ~HoldsRow(txn[v], x.tenant)
    BY DEF Flush, IInv, TypeOK, RequestsOK
  <2>2. /\ txn' = [txn EXCEPT ![w] = y] /\ y \in Request /\ y.stage = stage
        /\ y.kind = x.kind /\ y.event = x.event /\ y.tenant = x.tenant /\ y.plan = x.plan
        /\ y.loaded = x.loaded /\ y.row = x.row /\ y.seen = x.seen
    <3>1. stage \in Webhook \cup Checkout
      BY DEF Webhook, Checkout
    <3> HIDE DEF stage
    <3>2. QED
      BY <1>3, <3>1, GotoRequest
  <2> HIDE DEF y, x
  <2>3. WebhookOK(y) /\ CheckoutOK(y)
    BY <2>1, <2>2 DEF RequestOK, WebhookOK, CheckoutOK, Webhook, Checkout
  <2>4. RowOK(y) /\ SeenOK(y)
    BY <1>3, <2>1, <2>2 DEF RequestOK, RowOK, SeenOK, InMemory
  <2>5. RequestOK(y)
    BY <2>1, <2>2, <2>3, <2>4 DEF RequestOK
  <2>6. \A v \in Workers \ {w} : Compatible(y, txn[v])
    BY <2>1, <2>2 DEF Compatible, HoldsKey, HoldsRow, Writes
  <2>7. QED
    BY <1>1, <2>2, <2>5, <2>6, RequestChanges
<1>4. QED
  BY <1>2, <1>3 DEF Flush

\* The ledger key is taken when no other request holds it and none has committed it.
LEMMA RecordIInv ==
    ASSUME IInv, NEW w \in Workers, Record(w)
    PROVE  IInv'
<1> DEFINE x == txn[w]
           y == [x EXCEPT !.stage = "commit"]
<1>1. /\ UNCHANGED <<billing, ledger, trail, customers, sessions, events>>
      /\ acked' \subseteq ledger
  BY DEF Record, db, stripe, IInv, AnsweredOnlyWhenProcessed
<1>2. CASE Rollback(w)
  BY <1>1, <1>2, RollbackIInv
<1>3. CASE Goto(w, "commit") /\ x.event \notin ledger
  <2>1. /\ x.stage = "record" /\ x \in Request /\ RequestOK(x)
        /\ \A v \in Workers \ {w} : ~HoldsKey(txn[v], x.event)
        /\ \A v \in Workers \ {w} : Compatible(x, txn[v])
    BY DEF Record, IInv, TypeOK, RequestsOK, Exclusive
  <2>2. /\ txn' = [txn EXCEPT ![w] = y] /\ y \in Request /\ y.stage = "commit"
        /\ y.kind = x.kind /\ y.event = x.event /\ y.tenant = x.tenant /\ y.plan = x.plan
        /\ y.loaded = x.loaded /\ y.row = x.row /\ y.seen = x.seen
    <3>1. "commit" \in Webhook \cup Checkout
      BY DEF Webhook
    <3>2. QED
      BY <1>3, <2>1, <3>1, GotoRequest
  <2> HIDE DEF y, x
  <2>3. WebhookOK(y) /\ CheckoutOK(y)
    BY <1>3, <2>1, <2>2 DEF RequestOK, WebhookOK, CheckoutOK, Webhook, Checkout
  <2>4. RowOK(y) /\ SeenOK(y)
    BY <2>1, <2>2 DEF RequestOK, RowOK, SeenOK, InMemory, HoldsRow, Writes
  <2>5. RequestOK(y)
    BY <2>1, <2>2, <2>3, <2>4 DEF RequestOK
  <2>6. \A v \in Workers \ {w} : Compatible(y, txn[v])
    BY <2>1, <2>2 DEF Compatible, HoldsKey, HoldsRow, Writes
  <2>7. QED
    BY <1>1, <2>2, <2>5, <2>6, RequestChanges
<1>4. QED
  BY <1>2, <1>3 DEF Record

\* The answer goes out for an event in the ledger.
LEMMA RespondIInv ==
    ASSUME IInv, NEW w \in Workers, Respond(w)
    PROVE  IInv'
<1>1. txn[w].event \in ledger
  BY DEF Respond, IInv, RequestsOK, RequestOK, WebhookOK, CheckoutOK, Checkout
<1>2. acked' \subseteq ledger
  BY <1>1 DEF Respond, IInv, AnsweredOnlyWhenProcessed
<1>3. QED
  BY <1>2, RollbackIInv DEF Respond, db

\* A failure is a rollback.
LEMMA FailIInv ==
    ASSUME IInv, NEW w \in Workers, Fail(w)
    PROVE  IInv'
BY RollbackIInv DEF Fail, db, stripe, IInv, AnsweredOnlyWhenProcessed

\* A checkout asks for its session before it commits.
LEMMA CreateSessionIInv ==
    ASSUME IInv, NEW w \in Workers, CreateSession(w)
    PROVE  IInv'
<1> DEFINE x == txn[w]
           y == [x EXCEPT !.stage = "commit"]
<1>1. /\ UNCHANGED <<billing, ledger, trail, customers, sessions, events>>
      /\ acked' \subseteq ledger
  BY DEF CreateSession, db, stripe, IInv, AnsweredOnlyWhenProcessed
<1>2. /\ x.stage = "session" /\ x \in Request /\ RequestOK(x)
      /\ \A v \in Workers \ {w} : Compatible(x, txn[v])
  BY DEF CreateSession, IInv, TypeOK, RequestsOK, Exclusive
<1>3. /\ txn' = [txn EXCEPT ![w] = y] /\ y \in Request /\ y.stage = "commit"
      /\ y.kind = x.kind /\ y.event = x.event /\ y.tenant = x.tenant /\ y.plan = x.plan
      /\ y.loaded = x.loaded /\ y.row = x.row /\ y.seen = x.seen
  <2>1. "commit" \in Webhook \cup Checkout /\ Goto(w, "commit")
    BY DEF CreateSession, Webhook
  <2>2. QED
    BY <1>2, <2>1, GotoRequest
<1> HIDE DEF y, x
<1>4. x.kind = "checkout"
  BY <1>2 DEF RequestOK, WebhookOK, Webhook
<1>5. RequestOK(y)
  BY <1>2, <1>3, <1>4
     DEF RequestOK, WebhookOK, CheckoutOK, RowOK, SeenOK, InMemory, HoldsRow, Writes, Checkout
<1>6. \A v \in Workers \ {w} : Compatible(y, txn[v])
  BY <1>2, <1>3, <1>4 DEF Compatible, HoldsKey, HoldsRow, Writes
<1>7. QED
  BY <1>1, <1>3, <1>5, <1>6, RequestChanges

\* A checkout starts from the committed row, or from a row of the free plan.
LEMMA BeginCheckoutIInv ==
    ASSUME IInv, NEW w \in Workers, NEW t \in Tenants, NEW p \in Plans, BeginCheckout(w, t, p)
    PROVE  IInv'
<1> DEFINE row == IF billing[t] = NoRow THEN NewRow ELSE billing[t]
           y == [Idle EXCEPT !.kind = "checkout", !.tenant = t, !.plan = p,
                             !.loaded = billing[t], !.row = row,
                             !.stage = IF row.customer = None THEN "customer" ELSE "flush"]
<1>1. /\ UNCHANGED <<billing, ledger, trail, customers, sessions, events>>
      /\ acked' \subseteq ledger /\ txn' = [txn EXCEPT ![w] = y]
  BY DEF BeginCheckout, db, stripe, IInv, AnsweredOnlyWhenProcessed
<1>2. /\ billing[t] \in Row \cup {NoRow} /\ row \in Row
      /\ row.customer \in customers[t] \cup {None}
  BY Starts DEF IInv, TypeOK, CustomersKnown, CustomerIsTheTenants, NewRow
<1>3. Entitlement(row) = Entitlement(billing[t])
  BY BillingAssumption, Starts DEF Entitlement, NewRow
<1> HIDE DEF row
<1>4. y \in Request
  BY <1>2, Starts DEF Request, Idle, Checkout
<1>5. /\ y.kind = "checkout" /\ y.tenant = t /\ y.plan = p /\ y.loaded = billing[t]
      /\ y.row = row /\ y.stage \in {"customer", "flush"}
  BY DEF Idle
<1> HIDE DEF y
<1>6. RequestOK(y)
  BY <1>2, <1>3, <1>5, BillingAssumption
     DEF RequestOK, WebhookOK, CheckoutOK, RowOK, SeenOK, HoldsRow, Checkout
<1>7. \A x \in Request : Compatible(y, x)
  BY <1>5 DEF Compatible, HoldsKey, HoldsRow
<1>8. QED
  BY <1>1, <1>4, <1>6, <1>7, RequestChanges DEF IInv, TypeOK

\* An event Stripe adds leaves those it reported before as they are.
LEMMA EmitIInv ==
    ASSUME IInv, NEW c \in Event, Emit(c),
           c.tenant # None => c.customer \in customers[c.tenant] \cup {None}
    PROVE  IInv'
<1>1. /\ UNCHANGED <<billing, ledger, trail, txn, customers, sessions, acked>>
      /\ events' = Append(events, c) /\ events \in Seq(Event)
  BY DEF Emit, db, IInv, TypeOK
<1>2. /\ events' \in Seq(Event) /\ Len(events) \in Nat /\ Len(events') = Len(events) + 1
      /\ \A e \in 1..Len(events) : events'[e] = events[e]
      /\ events'[Len(events) + 1] = c
  BY <1>1, AppendProperties, LenProperties
<1>3. /\ 1..Len(events) \subseteq 1..Len(events')
      /\ \A e \in 1..Len(events) : Routed(e) = Routed(e)'
  BY <1>2 DEF Routed
<1>4. TypeOK'
  BY <1>1, <1>2, <1>3 DEF IInv, TypeOK
<1>5. RequestsOK'
  <2> SUFFICES ASSUME NEW w \in Workers PROVE RequestOK(txn[w])'
    BY DEF RequestsOK
  <2>1. RequestOK(txn[w])
    BY DEF IInv, RequestsOK
  <2>2. WebhookOK(txn[w]) => WebhookOK(txn[w])'
    BY <1>1, <1>2, <1>3 DEF WebhookOK
  <2>3. CheckoutOK(txn[w]) => CheckoutOK(txn[w])'
    BY <1>1 DEF CheckoutOK, Entitlement
  <2>4. RowOK(txn[w]) /\ SeenOK(txn[w]) => RowOK(txn[w])' /\ SeenOK(txn[w])'
    BY <1>1 DEF RowOK, SeenOK, InMemory, HoldsRow, Writes, About, Entitlement
  <2>5. QED
    BY <1>1, <2>1, <2>2, <2>3, <2>4 DEF RequestOK
<1>6. Exclusive'
  <2> SUFFICES ASSUME NEW v \in Workers, NEW w \in Workers, v # w
               PROVE  Compatible(txn[v], txn[w])'
    BY DEF Exclusive
  <2>1. RequestOK(txn[v]) /\ RequestOK(txn[w]) /\ Compatible(txn[v], txn[w])
    BY DEF IInv, RequestsOK, Exclusive
  <2>2. \A e : HoldsKey(txn[v], e) => e \in 1..Len(events)
    BY <2>1 DEF HoldsKey, RequestOK, WebhookOK
  <2>3. QED
    BY <1>1, <2>1, <2>2 DEF Compatible, HoldsKey, HoldsRow, Writes
<1>7. TrailOK'
  BY <1>1, <1>3 DEF IInv, TypeOK, TrailOK
<1>8. CustomersKnown'
  <2>1. \A e \in 1..Len(events') : events'[e].tenant # None =>
           events'[e].customer \in customers[events'[e].tenant] \cup {None}
    BY <1>2 DEF IInv, CustomersKnown
  <2>2. QED
    BY <1>1, <2>1 DEF IInv, CustomersKnown, CustomerIsTheTenants
<1>9. AnsweredOnlyWhenProcessed' /\ RowFollowsTrail'
  BY <1>1 DEF IInv, AnsweredOnlyWhenProcessed, RowFollowsTrail, About, Entitlement
<1>10. QED
  BY <1>4, <1>5, <1>6, <1>7, <1>8, <1>9 DEF IInv

\* What Stripe reports names the customer of a session, or none.
LEMMA StripeIInv ==
    ASSUME IInv, Pay \/ ChangeSubscription \/ Unrouted
    PROVE  IInv'
<1>0. Len(events) \in Nat
  BY LenProperties DEF IInv, TypeOK
<1>1. CASE Pay
  <2>1. PICK s \in sessions :
           Emit([type |-> "checkout", tenant |-> s.tenant, plan |-> s.plan, status |-> None,
                 customer |-> s.customer, sub |-> Len(events) + 1, end |-> None])
    BY <1>1 DEF Pay
  <2>2. s \in Session /\ s.customer \in customers[s.tenant] \cup {None}
    BY DEF IInv, TypeOK, CustomersKnown
  <2>3. [type |-> "checkout", tenant |-> s.tenant, plan |-> s.plan, status |-> None,
         customer |-> s.customer, sub |-> Len(events) + 1, end |-> None] \in Event
    BY <1>0, <2>2 DEF Session, Event
  <2>4. QED
    BY <2>1, <2>2, <2>3, EmitIInv
<1>2. CASE ChangeSubscription
  <2>1. PICK s \in Subscriptions, type \in {"updated", "deleted"}, status \in Statuses :
           Emit([type |-> type, tenant |-> events[s].tenant, plan |-> events[s].plan,
                 status |-> status, customer |-> None, sub |-> s, end |-> 1])
    BY <1>2 DEF ChangeSubscription
  <2>2. s \in Nat /\ events[s] \in Event
    <3>1. s \in 1..Len(events)
      BY DEF Subscriptions
    <3>2. QED
      BY <1>0, <3>1, ElementOfSeq DEF IInv, TypeOK
  <2>3. [type |-> type, tenant |-> events[s].tenant, plan |-> events[s].plan,
         status |-> status, customer |-> None, sub |-> s, end |-> 1] \in Event
    BY <2>2 DEF Event
  <2>4. QED
    BY <2>1, <2>3, EmitIInv
<1>3. CASE Unrouted
  <2>1. PICK type \in {"other", "updated"}, status \in Statuses :
           Emit([type |-> type, tenant |-> None, plan |-> None, status |-> status,
                 customer |-> None, sub |-> 0, end |-> None])
    BY <1>3 DEF Unrouted
  <2>2. [type |-> type, tenant |-> None, plan |-> None, status |-> status,
         customer |-> None, sub |-> 0, end |-> None] \in Event
    BY DEF Event
  <2>3. QED
    BY <2>1, <2>2, EmitIInv
<1>4. QED
  BY <1>1, <1>2, <1>3

\* There are finitely many customers, so a new one has a number.
LEMMA NewCustomer == IInv => Cardinality(UNION {customers[u] : u \in Tenants}) + 1 \in Nat
<1> SUFFICES ASSUME IInv PROVE Cardinality(UNION {customers[u] : u \in Tenants}) + 1 \in Nat
  OBVIOUS
<1> DEFINE all == {customers[u] : u \in Tenants}
<1>1. customers \in Surjection(Tenants, all)
  BY DEF IInv, TypeOK, Surjection
<1>2. IsFiniteSet(all)
  BY <1>1, FS_Surjection, BillingAssumption
<1>3. \A T \in all : IsFiniteSet(T)
  BY DEF IInv, TypeOK
<1>4. IsFiniteSet(UNION all)
  BY <1>2, <1>3, FS_UNION
<1>5. QED
  BY <1>4, FS_CardinalityType

\* A new customer is one of the checkout's own tenant.
LEMMA CreateCustomerIInv ==
    ASSUME IInv, NEW w \in Workers, CreateCustomer(w)
    PROVE  IInv'
<1> DEFINE x == txn[w]
           t == x.tenant
           new == Cardinality(UNION {customers[u] : u \in Tenants}) + 1
           y == [x EXCEPT !.stage = "flush", !.row.customer = new]
<1>1. /\ UNCHANGED <<billing, ledger, trail, sessions, events, acked>>
      /\ customers' = [customers EXCEPT ![t] = @ \cup {new}]
      /\ txn' = [txn EXCEPT ![w] = y]
      /\ x.stage = "customer" /\ x \in Request /\ RequestOK(x)
  BY DEF CreateCustomer, db, IInv, TypeOK, RequestsOK
<1>2. new \in Nat
  BY NewCustomer
<1>3. /\ x.kind = "checkout" /\ x.tenant \in Tenants /\ x.row \in Row
      /\ Entitlement(x.row) = Entitlement(x.loaded)
      /\ x.loaded # NoRow => billing[t] # NoRow
      /\ x.plan \in Plans
  BY <1>1 DEF RequestOK, WebhookOK, CheckoutOK, RowOK, InMemory, Webhook, Request
<1> HIDE DEF new
<1>4. /\ y \in Request /\ y.stage = "flush" /\ y.kind = "checkout" /\ y.tenant = t
      /\ y.loaded = x.loaded /\ y.row \in Row /\ y.row.customer = new
      /\ y.row.plan = x.row.plan /\ y.row.status = x.row.status /\ y.plan = x.plan
  BY <1>1, <1>2, <1>3 DEF Request, Row, Checkout
<1>5. Entitlement(y.row) = Entitlement(x.row)
  BY <1>3, <1>4, BillingAssumption DEF Entitlement
<1>6. /\ \A u \in Tenants : customers[u] \subseteq customers'[u]
      /\ new \in customers'[t]
      /\ customers' \in [Tenants -> SUBSET Nat]
      /\ \A u \in Tenants : customers'[u] = customers[u]
                            \/ customers'[u] = customers[u] \cup {new}
  BY <1>1, <1>2, <1>3 DEF IInv, TypeOK
<1> HIDE DEF y, x, t
<1>7. TypeOK'
  <2>1. \A u \in Tenants : IsFiniteSet(customers'[u])
    <3>1. \A S : IsFiniteSet(S) => IsFiniteSet(S \cup {new})
      BY FS_AddElement
    <3>2. QED
      BY <1>6, <3>1 DEF IInv, TypeOK
  <2>2. QED
    BY <1>1, <1>4, <1>6, <2>1 DEF IInv, TypeOK
<1>8. /\ txn'[w] = y
      /\ \A v \in Workers \ {w} : txn'[v] = txn[v]
  BY <1>1 DEF IInv, TypeOK
<1>9. RequestsOK'
  <2> SUFFICES ASSUME NEW v \in Workers PROVE RequestOK(txn[v])'
    BY DEF RequestsOK
  <2>1. CASE v = w
    BY <1>1, <1>3, <1>4, <1>5, <1>6, <1>8, <2>1
       DEF RequestOK, WebhookOK, CheckoutOK, RowOK, SeenOK, HoldsRow, Checkout, Entitlement, t
  <2>2. CASE v # w
    <3>1. RequestOK(txn[v]) /\ txn'[v] = txn[v] /\ txn[v] \in Request
      BY <1>8, <2>2 DEF IInv, RequestsOK, TypeOK
    <3>2. RowOK(txn[v]) => RowOK(txn[v])'
      BY <1>1, <1>6, <3>1, BillingAssumption
         DEF RowOK, InMemory, HoldsRow, Writes, Request
    <3>3. QED
      BY <1>1, <3>1, <3>2
         DEF RequestOK, WebhookOK, CheckoutOK, SeenOK, InMemory, About, Entitlement, Routed
  <2>3. QED
    BY <2>1, <2>2
<1>10. Exclusive'
  <2>1. \A v \in Workers \ {w} : Compatible(y, txn[v]) /\ Compatible(txn[v], y)
    BY <1>4 DEF Compatible, HoldsKey, HoldsRow
  <2> SUFFICES ASSUME NEW u \in Workers, NEW v \in Workers, u # v
               PROVE  Compatible(txn[u], txn[v])'
    BY DEF Exclusive
  <2>2. Compatible(txn'[u], txn'[v])
    BY <1>8, <2>1 DEF IInv, Exclusive
  <2>3. QED
    BY <1>1, <2>2 DEF Compatible, HoldsKey, HoldsRow, Writes
<1>11. CustomersKnown'
  <2>1. \A u \in Tenants : billing'[u] # NoRow =>
           billing'[u].customer \in customers'[u] \cup {None}
    BY <1>1, <1>6 DEF IInv, CustomersKnown, CustomerIsTheTenants
  <2>2. \A s \in sessions' : s.customer \in customers'[s.tenant] \cup {None}
    BY <1>1, <1>6 DEF IInv, TypeOK, CustomersKnown, Session
  <2>3. \A e \in 1..Len(events') : events'[e].tenant # None =>
           events'[e].customer \in customers'[events'[e].tenant] \cup {None}
    <3> SUFFICES ASSUME NEW e \in 1..Len(events), events[e].tenant # None
                 PROVE  events[e].customer \in customers'[events[e].tenant] \cup {None}
      BY <1>1
    <3>1. events[e] \in Event
      BY ElementOfSeq DEF IInv, TypeOK
    <3>2. events[e].tenant \in Tenants
      BY <3>1 DEF Event
    <3>3. QED
      BY <1>6, <3>2 DEF IInv, CustomersKnown
  <2>4. QED
    BY <2>1, <2>2, <2>3 DEF CustomersKnown, CustomerIsTheTenants
<1>12. TrailOK' /\ AnsweredOnlyWhenProcessed' /\ RowFollowsTrail'
  <2>1. TrailOK' /\ AnsweredOnlyWhenProcessed'
    BY <1>1 DEF IInv, TrailOK, AnsweredOnlyWhenProcessed, Routed
  <2>2. RowFollowsTrail'
    BY <1>1 DEF IInv, RowFollowsTrail, About, Entitlement
  <2>3. QED
    BY <2>1, <2>2
<1>13. QED
  BY <1>7, <1>9, <1>10, <1>11, <1>12 DEF IInv

-----------------------------------------------------------------------------

\* What a commit needs of the request that makes it.
Committing(x, t) ==
    /\ x \in Request /\ RequestOK(x)
    /\ x.stage = "commit" /\ x.tenant = t /\ t \in Tenants

\* A commit leaves a row; when it changes one, no other request holds it.
LEMMA CommittedRow ==
    ASSUME IInv, NEW t, NEW x, Committing(x, t)
    PROVE  /\ x.row \in Row
           /\ x.loaded # NoRow => billing[t] # NoRow
           /\ ~Writes(x) => x.loaded # NoRow /\ Merged(x, billing[t]) = billing[t]
           /\ Writes(x) => HoldsRow(x, t) /\ (x.loaded = NoRow => billing[t] = NoRow)
           /\ Merged(x, billing[t]) \in Row
           /\ Merged(x, billing[t]).customer \in customers[t] \cup {None}
<1>1. RowOK(x) /\ t # None /\ billing[t] \in Row \cup {NoRow}
  BY BillingAssumption DEF Committing, RequestOK, IInv, TypeOK
<1>2. /\ x.row \in Row /\ x.row.customer \in customers[t] \cup {None}
      /\ x.loaded # NoRow => billing[t] # NoRow
      /\ Writes(x) => HoldsRow(x, t) /\ (x.loaded = NoRow => billing[t] = NoRow)
  BY <1>1 DEF Committing, RowOK, InMemory, HoldsRow
<1>3. ~Writes(x) => x.row = x.loaded /\ x.loaded # NoRow
  BY <1>1, <1>2, BillingAssumption DEF Committing, Writes
<1>4. /\ Merged(x, billing[t]) \in Row
      /\ Merged(x, billing[t]).customer \in {x.row.customer, billing[t].customer}
      /\ x.row = x.loaded => Merged(x, billing[t]) = billing[t]
  BY <1>1, <1>2, MergedRow DEF Committing
<1>5. billing[t] # NoRow => billing[t].customer \in customers[t] \cup {None}
  BY DEF Committing, IInv, CustomersKnown, CustomerIsTheTenants
<1>6. Merged(x, billing[t]).customer \in customers[t] \cup {None}
  <2>1. CASE x.loaded = NoRow
    BY <1>2, <2>1 DEF Merged
  <2>2. CASE x.loaded # NoRow
    BY <1>2, <1>4, <1>5, <2>2
  <2>3. QED
    BY <2>1, <2>2
<1>7. QED
  BY <1>2, <1>3, <1>4, <1>6

\* A commit of another request leaves the row a request has in memory in order.
LEMMA CommitKeepsRows ==
    ASSUME IInv, NEW t, NEW x, Committing(x, t), NEW y \in Request, RowOK(y), Compatible(x, y),
           billing' = [billing EXCEPT ![t] = Merged(x, @)], UNCHANGED customers
    PROVE  RowOK(y)'
<1> SUFFICES ASSUME InMemory(y)
             PROVE  /\ y.row \in Row
                    /\ y.row.customer \in customers[y.tenant] \cup {None}
                    /\ y.loaded # NoRow => billing'[y.tenant] # NoRow
                    /\ HoldsRow(y, y.tenant) /\ y.loaded = NoRow => billing'[y.tenant] = NoRow
  BY DEF RowOK, InMemory, HoldsRow, Writes
<1>1. /\ y.row \in Row
      /\ y.row.customer \in customers[y.tenant] \cup {None}
      /\ y.loaded # NoRow => billing[y.tenant] # NoRow
      /\ HoldsRow(y, y.tenant) /\ y.loaded = NoRow => billing[y.tenant] = NoRow
      /\ y.tenant \in Tenants
  BY DEF RowOK, InMemory, Request
<1>2. CASE y.tenant # t
  BY <1>1, <1>2 DEF IInv, TypeOK, Committing
<1>3. CASE y.tenant = t
  <2>1. billing'[t] = Merged(x, billing[t]) /\ billing'[t] \in Row
    BY CommittedRow DEF Committing, IInv, TypeOK
  <2>2. ~(HoldsRow(y, t) /\ y.loaded = NoRow)
    BY <1>1, <1>3, CommittedRow DEF Compatible, Committing
  <2>3. QED
    BY <1>1, <1>3, <2>1, <2>2, BillingAssumption
<1>4. QED
  BY <1>2, <1>3

\* The checkout's commit brings its row, and no entitlement.
LEMMA CommittedCheckout ==
    ASSUME IInv, NEW w \in Workers, CommitCheckout(w)
    PROVE  LET x == txn[w]
               t == x.tenant
           IN  /\ Committing(x, t) /\ x.plan \in Plans
               /\ x.row \in Row /\ x.row.customer \in customers[t] \cup {None}
               /\ billing' = [billing EXCEPT ![t] = Merged(x, @)]
               /\ billing'[t] \in Row
               /\ billing'[t].customer \in customers[t] \cup {None}
               /\ \A u \in Tenants : u # t => billing'[u] = billing[u]
               /\ \A u \in Tenants : Entitlement(billing'[u]) = Entitlement(billing[u])
<1> DEFINE x == txn[w]
           t == x.tenant
<1>1. /\ UNCHANGED <<ledger, trail, customers, events, acked>>
      /\ txn' = [txn EXCEPT ![w] = Idle]
      /\ sessions' = sessions \cup {[tenant |-> t, plan |-> x.plan, customer |-> x.row.customer]}
      /\ billing' = IF Writes(x) THEN [billing EXCEPT ![t] = Merged(x, @)] ELSE billing
      /\ x.stage = "commit" /\ x.kind = "checkout"
  BY DEF CommitCheckout, Rollback
<1>2. x \in Request /\ RequestOK(x)
  BY DEF IInv, TypeOK, RequestsOK
<1>3. /\ x.plan \in Plans /\ t \in Tenants /\ Entitlement(x.row) = Entitlement(x.loaded)
      /\ x.row.customer \in customers[t] \cup {None} /\ x.row \in Row
  BY <1>1, <1>2 DEF RequestOK, CheckoutOK, RowOK, InMemory, Request
<1>4. Committing(x, t)
  BY <1>1, <1>2, <1>3 DEF Committing
<1>5. billing' = [billing EXCEPT ![t] = Merged(x, @)]
  <2>1. ~Writes(x) => [billing EXCEPT ![t] = Merged(x, @)] = billing
    BY <1>3, <1>4, CommittedRow DEF IInv, TypeOK
  <2>2. QED
    BY <1>1, <2>1
<1>6. /\ billing'[t] = Merged(x, billing[t]) /\ billing'[t] \in Row
      /\ billing'[t].customer \in customers[t] \cup {None}
      /\ \A u \in Tenants : u # t => billing'[u] = billing[u]
  BY <1>3, <1>4, <1>5, CommittedRow DEF IInv, TypeOK
<1>7. \A u \in Tenants : Entitlement(billing'[u]) = Entitlement(billing[u])
  <2>1. Entitlement(billing'[t]) = Entitlement(billing[t])
    <3>1. CASE Writes(x)
      <4>1. /\ billing[t] \in Row \cup {NoRow}
            /\ x.loaded # NoRow => billing[t] # NoRow
            /\ x.loaded = NoRow => billing[t] = NoRow
        BY <1>3, <1>4, <3>1, CommittedRow DEF IInv, TypeOK
      <4>2. QED
        BY <1>2, <1>3, <1>6, <4>1, MergedRow
    <3>2. CASE ~Writes(x)
      BY <1>1, <3>2
    <3>3. QED
      BY <3>1, <3>2
  <2>2. QED
    BY <1>6, <2>1
<1>8. QED
  BY <1>3, <1>4, <1>5, <1>6, <1>7

\* The commit of a checkout keeps the invariant.
LEMMA CommitCheckoutIInv ==
    ASSUME IInv, NEW w \in Workers, CommitCheckout(w)
    PROVE  IInv'
<1> DEFINE x == txn[w]
           t == x.tenant
<1>1. /\ UNCHANGED <<ledger, trail, customers, events, acked>>
      /\ txn' = [txn EXCEPT ![w] = Idle]
      /\ sessions' = sessions \cup {[tenant |-> t, plan |-> x.plan, customer |-> x.row.customer]}
  BY DEF CommitCheckout, Rollback
<1>2. /\ Committing(x, t) /\ x.plan \in Plans /\ t \in Tenants
      /\ x.row \in Row /\ x.row.customer \in customers[t] \cup {None}
      /\ billing' = [billing EXCEPT ![t] = Merged(x, @)]
      /\ billing'[t] \in Row /\ billing'[t].customer \in customers[t] \cup {None}
      /\ \A u \in Tenants : u # t => billing'[u] = billing[u]
      /\ \A u \in Tenants : Entitlement(billing'[u]) = Entitlement(billing[u])
  BY CommittedCheckout DEF Committing
<1>3. /\ txn'[w] = Idle
      /\ \A v \in Workers \ {w} : txn'[v] = txn[v]
  BY <1>1 DEF IInv, TypeOK
<1> HIDE DEF x, t
<1>4. TypeOK'
  <2>1. [tenant |-> t, plan |-> x.plan, customer |-> x.row.customer] \in Session
    BY <1>2 DEF Session, Row
  <2>2. billing' \in [Tenants -> Row \cup {NoRow}]
    BY <1>2 DEF IInv, TypeOK
  <2>3. txn' \in [Workers -> Request]
    BY <1>1, Starts DEF IInv, TypeOK
  <2>4. QED
    BY <1>1, <2>1, <2>2, <2>3 DEF IInv, TypeOK
<1>5. RequestsOK'
  <2> SUFFICES ASSUME NEW v \in Workers PROVE RequestOK(txn[v])'
    BY DEF RequestsOK
  <2>1. CASE v = w
    BY <1>3, <2>1 DEF RequestOK, Idle
  <2>2. CASE v # w
    <3>1. /\ RequestOK(txn[v]) /\ txn'[v] = txn[v] /\ txn[v] \in Request
          /\ Compatible(x, txn[v])
      BY <1>3, <2>2 DEF IInv, RequestsOK, TypeOK, Exclusive, x
    <3>2. RowOK(txn[v]) => RowOK(txn[v])'
      <4>1. \A y \in Request : RowOK(y) /\ Compatible(x, y) => RowOK(y)'
        BY <1>1, <1>2, CommitKeepsRows
      <4>2. QED
        BY <3>1, <4>1
    <3>3. SeenOK(txn[v]) => SeenOK(txn[v])'
      BY <1>1, <1>2, <3>1 DEF SeenOK, InMemory, About, Entitlement, Request
    <3>4. QED
      BY <1>1, <3>1, <3>2, <3>3 DEF RequestOK, WebhookOK, CheckoutOK, Entitlement, Routed
  <2>3. QED
    BY <2>1, <2>2
<1>6. Exclusive'
  <2> SUFFICES ASSUME NEW u \in Workers, NEW v \in Workers, u # v
               PROVE  Compatible(txn[u], txn[v])'
    BY DEF Exclusive
  <2>1. Compatible(txn'[u], txn'[v])
    BY <1>3 DEF IInv, Exclusive, Compatible, HoldsKey, HoldsRow, Idle
  <2>2. QED
    BY <1>1, <2>1 DEF Compatible, HoldsKey, HoldsRow, Writes
<1>7. CustomersKnown'
  <2>1. CustomerIsTheTenants'
    BY <1>1, <1>2 DEF IInv, CustomersKnown, CustomerIsTheTenants
  <2>2. \A s \in sessions' : s.customer \in customers'[s.tenant] \cup {None}
    BY <1>1, <1>2 DEF IInv, CustomersKnown
  <2>3. QED
    BY <1>1, <2>1, <2>2 DEF IInv, CustomersKnown
<1>8. RowFollowsTrail'
  <2>1. \A u \in Tenants : Entitlement(billing'[u]) = Entitlement(billing[u])
    BY <1>2
  <2> SUFFICES ASSUME NEW u \in Tenants, NEW i \in About(u)',
                      \A j \in About(u)' : j <= i /\ (j < i => j <= trail'[i].seen)
               PROVE  Entitlement(billing'[u]) = <<trail'[i].plan, trail'[i].status>>
    BY DEF RowFollowsTrail, Entitlement
  <2>2. About(u)' = About(u)
    BY <1>1 DEF About
  <2>3. Entitlement(billing[u]) = <<trail[i].plan, trail[i].status>>
    BY <1>1, <2>2 DEF IInv, RowFollowsTrail
  <2>4. QED
    BY <1>1, <2>1, <2>3
<1>9. TrailOK' /\ AnsweredOnlyWhenProcessed'
  BY <1>1 DEF IInv, TrailOK, AnsweredOnlyWhenProcessed, Routed
<1>10. QED
  BY <1>4, <1>5, <1>6, <1>7, <1>8, <1>9 DEF IInv

\* What the commit of a webhook knows of its event.
LEMMA CommittingWebhook ==
    ASSUME IInv, NEW w \in Workers, CommitWebhook(w)
    PROVE  /\ txn[w] \in Request /\ RequestOK(txn[w])
           /\ txn[w].event \in 1..Len(events) /\ txn[w].event \notin ledger
           /\ txn[w].tenant = IF Routed(txn[w].event) THEN events[txn[w].event].tenant
                              ELSE None
           /\ ledger' = ledger \cup {txn[w].event}
           /\ UNCHANGED <<customers, sessions, events, acked>>
           /\ LET y == [txn[w] EXCEPT !.stage = "respond"]
              IN  /\ txn'[w] = y /\ y \in Request /\ y.stage = "respond"
                  /\ y.kind = "webhook" /\ y.event = txn[w].event
           /\ \A v \in Workers \ {w} :
                 txn'[v] = txn[v] /\ Compatible(txn[w], txn[v])
           /\ txn' \in [Workers -> Request]
<1>1. /\ txn[w].stage = "commit" /\ txn[w].kind = "webhook"
      /\ ledger' = ledger \cup {txn[w].event} /\ Goto(w, "respond")
      /\ UNCHANGED <<customers, sessions, events, acked>>
  BY DEF CommitWebhook, stripe
<1>2. txn[w] \in Request /\ RequestOK(txn[w]) /\ txn \in [Workers -> Request]
  BY DEF IInv, TypeOK, RequestsOK
<1>3. /\ txn[w].event \in 1..Len(events) /\ txn[w].event \notin ledger
      /\ txn[w].tenant = IF Routed(txn[w].event) THEN events[txn[w].event].tenant ELSE None
  BY <1>1, <1>2 DEF RequestOK, WebhookOK
<1> DEFINE y == [txn[w] EXCEPT !.stage = "respond"]
<1>4. /\ txn' = [txn EXCEPT ![w] = y] /\ y \in Request /\ y.stage = "respond"
      /\ y.kind = "webhook" /\ y.event = txn[w].event
  BY <1>1, <1>2 DEF Goto, Request, Webhook, Checkout
<1> HIDE DEF y
<1>5. /\ txn'[w] = y
      /\ \A v \in Workers \ {w} : txn'[v] = txn[v] /\ Compatible(txn[w], txn[v])
      /\ txn' \in [Workers -> Request]
  BY <1>2, <1>4 DEF IInv, Exclusive
<1>6. QED
  BY <1>1, <1>2, <1>3, <1>4, <1>5 DEF y

\* The parts of the invariant that do not depend on which rows a webhook writes.
LEMMA CommitWebhookKeeps ==
    ASSUME IInv, NEW w \in Workers, CommitWebhook(w),
           \A v \in Workers \ {w} :
              RowOK(txn[v]) /\ SeenOK(txn[v]) => RowOK(txn[v])' /\ SeenOK(txn[v])'
    PROVE  RequestsOK' /\ Exclusive' /\ AnsweredOnlyWhenProcessed'
<1> DEFINE y == [txn[w] EXCEPT !.stage = "respond"]
<1>1. /\ ledger' = ledger \cup {txn[w].event} /\ UNCHANGED <<events, acked>>
      /\ txn'[w] = y /\ y.stage = "respond" /\ y.kind = "webhook"
      /\ y.event = txn[w].event /\ txn[w].event \in 1..Len(events)
      /\ \A v \in Workers \ {w} : txn'[v] = txn[v] /\ Compatible(txn[w], txn[v])
      /\ txn[w].stage = "commit" /\ txn[w].kind = "webhook"
  BY CommittingWebhook DEF CommitWebhook
<1> HIDE DEF y
<1>2. RequestsOK'
  <2> SUFFICES ASSUME NEW v \in Workers PROVE RequestOK(txn[v])'
    BY DEF RequestsOK
  <2>1. CASE v = w
    BY <1>1, <2>1
       DEF RequestOK, WebhookOK, CheckoutOK, RowOK, SeenOK, InMemory, Webhook
  <2>2. CASE v # w
    <3>1. RequestOK(txn[v]) /\ txn'[v] = txn[v] /\ Compatible(txn[w], txn[v])
      BY <1>1, <2>2 DEF IInv, RequestsOK
    <3>2. RowOK(txn[v]) /\ SeenOK(txn[v]) => RowOK(txn[v])' /\ SeenOK(txn[v])'
      BY <2>2
    <3>3. WebhookOK(txn[v]) => WebhookOK(txn[v])'
      BY <1>1, <3>1 DEF WebhookOK, Routed, Compatible, HoldsKey
    <3>4. CheckoutOK(txn[v]) => CheckoutOK(txn[v])'
      BY <3>1 DEF CheckoutOK, Entitlement
    <3>5. QED
      BY <3>1, <3>2, <3>3, <3>4 DEF RequestOK
  <2>3. QED
    BY <2>1, <2>2
<1>3. Exclusive'
  <2> SUFFICES ASSUME NEW u \in Workers, NEW v \in Workers, u # v
               PROVE  Compatible(txn[u], txn[v])'
    BY DEF Exclusive
  <2>1. Compatible(txn'[u], txn'[v])
    BY <1>1 DEF IInv, Exclusive, Compatible, HoldsKey, HoldsRow
  <2>2. QED
    BY <1>1, <2>1 DEF Compatible, HoldsKey, HoldsRow, Writes
<1>4. AnsweredOnlyWhenProcessed'
  BY <1>1 DEF IInv, AnsweredOnlyWhenProcessed
<1>5. QED
  BY <1>2, <1>3, <1>4

\* The commit of a webhook about no tenant enters the ledger and nothing else.
LEMMA CommitUnroutedIInv ==
    ASSUME IInv, NEW w \in Workers, CommitWebhook(w), txn[w].tenant = None
    PROVE  IInv'
<1>1. /\ UNCHANGED <<billing, trail, customers, sessions, events>>
      /\ ledger' = ledger \cup {txn[w].event} /\ txn[w].event \in 1..Len(events)
      /\ txn' \in [Workers -> Request]
      /\ \A v \in Workers \ {w} : txn'[v] = txn[v]
      /\ ~Routed(txn[w].event)
  BY CommittingWebhook DEF CommitWebhook, Routed
<1>2. RequestsOK' /\ Exclusive' /\ AnsweredOnlyWhenProcessed'
  <2>1. \A v \in Workers \ {w} :
           RowOK(txn[v]) /\ SeenOK(txn[v]) => RowOK(txn[v])' /\ SeenOK(txn[v])'
    BY <1>1 DEF RowOK, SeenOK, InMemory, HoldsRow, Writes, About, Entitlement
  <2>2. QED
    BY <2>1, CommitWebhookKeeps
<1>3. TypeOK'
  BY <1>1 DEF IInv, TypeOK
<1>4. TrailOK'
  BY <1>1 DEF IInv, TrailOK, Routed
<1>5. CustomersKnown' /\ RowFollowsTrail'
  BY <1>1 DEF IInv, CustomersKnown, CustomerIsTheTenants, RowFollowsTrail, About, Entitlement
<1>6. QED
  BY <1>2, <1>3, <1>4, <1>5 DEF IInv

\* The commit of a webhook about a tenant writes row, ledger and trail at once.
LEMMA CommitRoutedIInv ==
    ASSUME IInv, NEW w \in Workers, CommitWebhook(w),
           NEW x, x = txn[w], NEW t, t = x.tenant, t # None
    PROVE  IInv'
<1> DEFINE r == [event |-> x.event, tenant |-> t, plan |-> x.row.plan,
                 status |-> x.row.status, seen |-> x.seen]
<1>1. /\ UNCHANGED <<customers, sessions, events>>
      /\ ledger' = ledger \cup {x.event} /\ x.event \in 1..Len(events)
      /\ x.event \notin ledger /\ Routed(x.event) /\ events[x.event].tenant = t
      /\ txn' \in [Workers -> Request]
      /\ \A v \in Workers \ {w} : txn'[v] = txn[v] /\ Compatible(x, txn[v])
      /\ x \in Request /\ RequestOK(x)
  BY CommittingWebhook
<1>2. /\ billing' = [billing EXCEPT ![t] = Merged(x, @)]
      /\ trail' = Append(trail, r)
      /\ x.stage = "commit" /\ x.kind = "webhook" /\ t \in Tenants
  BY <1>1 DEF CommitWebhook, Request
<1>3. Committing(x, t)
  BY <1>1, <1>2 DEF Committing
<1>4. x.row \in Row
  BY <1>3, CommittedRow
<1>5. /\ billing'[t] = Merged(x, billing[t]) /\ billing'[t] \in Row
      /\ billing'[t].customer \in customers[t] \cup {None}
      /\ \A u \in Tenants : u # t => billing'[u] = billing[u]
  BY <1>2, <1>3, CommittedRow DEF IInv, TypeOK
<1>6. r \in AuditRecord
  <2>1. x.event \in Nat
    BY <1>1 DEF Request
  <2>2. x.seen \in Nat
    BY <1>1 DEF Request
  <2>3. QED
    BY <1>2, <1>4, <2>1, <2>2 DEF AuditRecord, Row
<1> DEFINE n == Len(trail) + 1
<1>7. /\ trail' \in Seq(AuditRecord) /\ Len(trail) \in Nat /\ Len(trail') = n
      /\ \A i \in 1..Len(trail) : trail'[i] = trail[i]
      /\ trail'[n] = r
  BY <1>2, <1>6, AppendProperties, LenProperties DEF IInv, TypeOK
<1>8. r.event = x.event /\ r.tenant = t /\ r.plan = x.row.plan
      /\ r.status = x.row.status /\ r.seen = x.seen
  OBVIOUS
<1> HIDE DEF r
<1>9. 1..n = 1..Len(trail) \cup {n} /\ n \in Nat /\ n > Len(trail)
  BY <1>7
<1>10. /\ About(t)' = About(t) \cup {n}
       /\ \A u \in Tenants : u # t => About(u)' = About(u)
       /\ \A u \in Tenants : About(u) \subseteq 1..Len(trail)
  <2>1. \A u \in Tenants : /\ About(u) \subseteq 1..Len(trail)
                           /\ About(u)' \subseteq 1..Len(trail) \cup {n}
    BY <1>7, <1>9 DEF About
  <2>2. \A u \in Tenants, i \in 1..Len(trail) : i \in About(u)' <=> i \in About(u)
    BY <1>7, <1>9 DEF About
  <2>3. \A u \in Tenants : n \in About(u)' <=> u = t
    BY <1>7, <1>8, <1>9 DEF About
  <2>4. n \notin 1..Len(trail) /\ t \in Tenants
    BY <1>2, <1>7, <1>9
  <2> HIDE DEF n
  <2>5. \A u \in Tenants : u # t => About(u)' = About(u)
    BY <2>1, <2>2, <2>3
  <2>6. About(t)' = About(t) \cup {n}
    BY <2>1, <2>2, <2>3, <2>4
  <2>7. QED
    BY <2>1, <2>5, <2>6
<1> HIDE DEF n
<1>11. RequestsOK' /\ Exclusive' /\ AnsweredOnlyWhenProcessed'
  <2>1. \A y \in Request : RowOK(y) /\ Compatible(x, y) => RowOK(y)'
    BY <1>1, <1>2, <1>3, CommitKeepsRows
  <2>2. \A y \in Request : SeenOK(y) => SeenOK(y)'
    <3> SUFFICES ASSUME NEW y \in Request, SeenOK(y),
                        y.kind = "webhook" /\ y.stage # "load" /\ InMemory(y)
                 PROVE  /\ y.seen <= Len(trail')
                        /\ (\A j \in About(y.tenant)' : j <= y.seen) =>
                              Entitlement(billing'[y.tenant]) = Entitlement(y.loaded)
      BY DEF SeenOK, InMemory, Entitlement
    <3>1. /\ y.tenant \in Tenants /\ y.seen \in Nat /\ y.seen <= Len(trail)
          /\ (\A j \in About(y.tenant) : j <= y.seen) =>
                Entitlement(billing[y.tenant]) = Entitlement(y.loaded)
      BY DEF SeenOK, InMemory, Request
    <3>2. CASE y.tenant = t
      <4>1. n \in About(y.tenant)'
        BY <1>10, <3>2
      <4>2. ~(n <= y.seen) /\ y.seen <= Len(trail')
        BY <1>7, <1>9, <3>1
      <4>3. QED
        BY <4>1, <4>2
    <3>3. CASE y.tenant # t
      BY <1>5, <1>7, <1>9, <1>10, <3>1, <3>3
    <3>4. QED
      BY <3>2, <3>3
  <2>3. \A v \in Workers \ {w} :
           RowOK(txn[v]) /\ SeenOK(txn[v]) => RowOK(txn[v])' /\ SeenOK(txn[v])'
    <3> SUFFICES ASSUME NEW v \in Workers \ {w}, RowOK(txn[v]), SeenOK(txn[v])
                 PROVE  RowOK(txn[v])' /\ SeenOK(txn[v])'
      OBVIOUS
    <3>1. txn[v] \in Request /\ Compatible(x, txn[v]) /\ txn'[v] = txn[v]
      BY <1>1 DEF IInv, TypeOK
    <3>2. QED
      BY <2>1, <2>2, <3>1
  <2>4. QED
    BY <2>3, CommitWebhookKeeps
<1>12. TypeOK'
  <2>1. billing' \in [Tenants -> Row \cup {NoRow}]
    BY <1>2, <1>5 DEF IInv, TypeOK
  <2>2. QED
    BY <1>1, <1>7, <2>1 DEF IInv, TypeOK
<1>13. TrailOK'
  <2>1. \A i \in 1..Len(trail') : trail'[i].event \in ledger' /\ Routed(trail'[i].event)
    BY <1>1, <1>7, <1>8, <1>9 DEF IInv, TrailOK
  <2>2. \A i, j \in 1..Len(trail') : trail'[i].event = trail'[j].event => i = j
    <3>1. \A i \in 1..Len(trail) : trail'[i].event \in ledger /\ trail'[n].event \notin ledger
      BY <1>1, <1>7, <1>8 DEF IInv, TrailOK
    <3>2. \A i, j \in 1..Len(trail) : trail'[i].event = trail'[j].event => i = j
      BY <1>7 DEF IInv, TrailOK
    <3>3. QED
      BY <1>7, <1>9, <3>1, <3>2
  <2>3. \A e \in ledger' : Routed(e) => \E i \in 1..Len(trail') : trail'[i].event = e
    BY <1>1, <1>7, <1>8, <1>9 DEF IInv, TrailOK
  <2>4. QED
    BY <1>1, <2>1, <2>2, <2>3 DEF TrailOK, Routed
<1>14. CustomersKnown'
  BY <1>1, <1>5 DEF IInv, CustomersKnown, CustomerIsTheTenants
<1>15. RowFollowsTrail'
  <2> SUFFICES ASSUME NEW u \in Tenants, NEW i \in About(u)',
                      \A j \in About(u)' : j <= i /\ (j < i => j <= trail'[i].seen)
               PROVE  Entitlement(billing'[u]) = <<trail'[i].plan, trail'[i].status>>
    BY DEF RowFollowsTrail, Entitlement
  <2>1. CASE u # t
    <3>1. i \in About(u) /\ trail'[i] = trail[i] /\ billing'[u] = billing[u]
          /\ About(u)' = About(u)
      BY <1>5, <1>7, <1>10, <2>1
    <3>2. QED
      BY <3>1 DEF IInv, RowFollowsTrail
  <2>2. CASE u = t
    <3>1. i = n
      <4>1. i \in 1..n /\ n \in About(u)'
        BY <1>2, <1>9, <1>10, <2>2
      <4>2. n <= i
        BY <4>1
      <4>3. QED
        BY <1>9, <4>1, <4>2
    <3>2. \A j \in About(t) : j <= x.seen
      <4> SUFFICES ASSUME NEW j \in About(t) PROVE j <= x.seen
        OBVIOUS
      <4>1. j \in 1..Len(trail) /\ j \in About(u)'
        BY <1>2, <1>10, <2>2
      <4>2. j < n
        BY <1>7, <1>9, <4>1
      <4>3. QED
        BY <1>7, <1>8, <3>1, <4>1, <4>2
    <3>3. Entitlement(billing[t]) = Entitlement(x.loaded)
      BY <1>1, <1>2, <3>2, BillingAssumption DEF RequestOK, SeenOK, InMemory
    <3>4. Entitlement(billing'[t]) = Entitlement(x.row)
      BY <1>1, <1>2, <1>3, <1>4, <1>5, <3>3, CommittedRow, MergedRow DEF IInv, TypeOK
    <3>5. Entitlement(x.row) = <<x.row.plan, x.row.status>>
      BY <1>4, BillingAssumption DEF Entitlement
    <3>6. QED
      BY <1>7, <1>8, <2>2, <3>1, <3>4, <3>5
  <2>3. QED
    BY <2>1, <2>2
<1>16. QED
  BY <1>11, <1>12, <1>13, <1>14, <1>15 DEF IInv

\* The invariant is inductive.
LEMMA StepIInv == IInv /\ [Next]_vars => IInv'
<1> SUFFICES ASSUME IInv, [Next]_vars PROVE IInv'
  OBVIOUS
<1>1. ASSUME NEW w \in Workers, Step(w) PROVE IInv'
  <2>1. ASSUME CommitWebhook(w) PROVE IInv'
    BY <2>1, CommitUnroutedIInv, CommitRoutedIInv
  <2>2. QED
    BY <1>1, <2>1, LoadIInv, FlushIInv, RecordIInv, RespondIInv, CreateCustomerIInv,
       CreateSessionIInv, CommitCheckoutIInv DEF Step
<1>2. ASSUME NEW e, Deliver(e) PROVE IInv'
  BY <1>2, ReceiveIInv DEF Deliver
<1>3. CASE UNCHANGED vars
  BY <1>3 DEF vars, db, stripe, IInv, TypeOK, RequestsOK, RequestOK, WebhookOK, CheckoutOK,
              RowOK, SeenOK, InMemory, Exclusive, Compatible, HoldsKey, HoldsRow, Writes,
              TrailOK, CustomersKnown, CustomerIsTheTenants, AnsweredOnlyWhenProcessed,
              RowFollowsTrail, About, Routed, Entitlement
<1>4. QED
  BY <1>1, <1>2, <1>3, FailIInv, BeginCheckoutIInv, StripeIInv DEF Next

\* The invariant holds in every reachable state.
LEMMA InvariantHolds == Spec => []IInv
BY InitIInv, StepIInv, PTL DEF Spec

-----------------------------------------------------------------------------
(* However often and by however many workers an event is delivered, it has *)
(* one audit record when it is in the ledger and routed, and none          *)
(* otherwise (routers/billing.py:12).                                      *)
THEOREM EventsTakeEffectOnce == Spec => []EffectsOnce
<1>1. IInv => EffectsOnce
  <2> SUFFICES ASSUME IInv, NEW e \in 1..Len(events)
               PROVE  Cardinality({i \in 1..Len(trail) : trail[i].event = e})
                         = IF e \in ledger /\ Routed(e) THEN 1 ELSE 0
    BY DEF EffectsOnce
  <2> DEFINE records == {i \in 1..Len(trail) : trail[i].event = e}
  <2>1. CASE e \in ledger /\ Routed(e)
    <3>1. PICK i \in 1..Len(trail) : trail[i].event = e
      BY <2>1 DEF IInv, TrailOK
    <3>2. records = {i}
      BY <3>1 DEF IInv, TrailOK
    <3>3. QED
      BY <2>1, <3>2, FS_Singleton
  <2>2. CASE ~(e \in ledger /\ Routed(e))
    <3>1. records = {}
      BY <2>2 DEF IInv, TrailOK
    <3>2. QED
      BY <2>2, <3>1, FS_EmptySet
  <2>3. QED
    BY <2>1, <2>2
<1>2. QED
  BY <1>1, InvariantHolds, PTL

(* Stripe is told 200 only for events whose processing has committed       *)
(* (stripe_webhook), whatever fails and however often it asks.             *)
THEOREM AnswersFollowCommits == Spec => []AnsweredOnlyWhenProcessed
<1>1. IInv => AnsweredOnlyWhenProcessed
  BY DEF IInv
<1>2. QED
  BY <1>1, InvariantHolds, PTL

(* When the requests behind a tenant's last audit record ran one after the *)
(* other, the row shows what that record says, with any number of          *)
(* checkouts and failed requests in between (_audit_billing).              *)
THEOREM TrailTellsTheRow == Spec => []RowFollowsTrail
<1>1. IInv => RowFollowsTrail
  BY DEF IInv
<1>2. QED
  BY <1>1, InvariantHolds, PTL

(* A row never names a customer Stripe created for another tenant, with    *)
(* any number of checkouts and webhooks merging their columns into it      *)
(* (ensure_customer, _on_checkout_completed).                              *)
THEOREM CustomersStayWithTheirTenant == Spec => []CustomerIsTheTenants
<1>1. IInv => CustomerIsTheTenants
  BY DEF IInv, CustomersKnown
<1>2. QED
  BY <1>1, InvariantHolds, PTL

(* Every step that changes a tenant's plan or status commits an event of   *)
(* that tenant that was not processed before: no checkout, no failure and  *)
(* no duplicate does (routers/billing.py:10).                              *)
THEOREM OnlyEventsEntitle == Spec => EntitlementOnlyFromEvents
<1> DEFINE Entitles == \A t \in Tenants :
              Entitlement(billing[t])' # Entitlement(billing[t]) =>
                 \E e \in ledger' \ ledger : events[e].tenant = t
<1>1. IInv /\ [Next]_vars => [Entitles]_vars
  <2> SUFFICES ASSUME IInv, Next PROVE Entitles
    OBVIOUS
  <2>1. ASSUME UNCHANGED billing PROVE Entitles
    BY <2>1 DEF Entitlement
  <2>2. ASSUME NEW w \in Workers, CommitWebhook(w) PROVE Entitles
    <3>1. CASE txn[w].tenant = None
      BY <2>1, <2>2, <3>1 DEF CommitWebhook
    <3>2. CASE txn[w].tenant # None
      <4>1. /\ txn[w].event \in ledger' \ ledger
            /\ events[txn[w].event].tenant = txn[w].tenant
        BY <2>2, <3>2, CommittingWebhook
      <4>2. \A t \in Tenants : t # txn[w].tenant => billing'[t] = billing[t]
        BY <2>2, <3>2 DEF CommitWebhook, IInv, TypeOK
      <4> SUFFICES ASSUME NEW t \in Tenants,
                          Entitlement(billing'[t]) # Entitlement(billing[t])
                   PROVE  \E e \in ledger' \ ledger : events[e].tenant = t
        BY DEF Entitlement
      <4>3. t = txn[w].tenant
        BY <4>2
      <4>4. QED
        BY <4>1, <4>3
    <3>3. QED
      BY <3>1, <3>2
  <2>3. ASSUME NEW w \in Workers, CommitCheckout(w) PROVE Entitles
    <3>1. \A t \in Tenants : Entitlement(billing'[t]) = Entitlement(billing[t])
      BY <2>3, CommittedCheckout
    <3>2. QED
      BY <3>1 DEF Entitlement
  <2>4. ASSUME NEW w \in Workers, Step(w) \/ Fail(w) PROVE Entitles
    <3>1. CASE CommitWebhook(w) \/ CommitCheckout(w)
      BY <2>2, <2>3, <3>1
    <3>2. CASE ~(CommitWebhook(w) \/ CommitCheckout(w))
      <4>1. UNCHANGED billing
        BY <2>4, <3>2 DEF Step, Load, Flush, Record, Respond, CreateCustomer, CreateSession,
                          Fail, db
      <4>2. QED
        BY <2>1, <4>1
    <3>3. QED
      BY <3>1, <3>2
  <2>5. CASE (\E e \in 1..MaxEvents : Deliver(e)) \/ Pay \/ ChangeSubscription \/ Unrouted
             \/ (\E w \in Workers, t \in Tenants, p \in Plans : BeginCheckout(w, t, p))
    <3>1. UNCHANGED billing
      BY <2>5 DEF Deliver, Receive, Pay, ChangeSubscription, Unrouted, Emit, BeginCheckout, db
    <3>2. QED
      BY <2>1, <3>1
  <2>6. QED
    BY <2>4, <2>5 DEF Next
<1>2. QED
  BY <1>1, InvariantHolds, PTL DEF Spec, EntitlementOnlyFromEvents
=============================================================================
