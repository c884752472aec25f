-------------------------- MODULE GovernanceProofs --------------------------
(***************************************************************************)
(* Proofs about Governance for any cases, workers and people, and any      *)
(* number of decisions.  The inductive invariant is Governance's IInv.     *)
(***************************************************************************)
EXTENDS Governance, TLAPS

\* What the trail and the rows alone say does not change while they do not.
History ==
    /\ ProposalsAreUndecided /\ SeparationOfDuties
    /\ RowFollowsTrail /\ StepsAreLegalUnlessOverlapped

\* A step that leaves rows and trail alone keeps what is said about them.
LEMMA HistoryKept ==
    ASSUME History, rows' = rows, trail' = trail
    PROVE  History'
BY DEF History, ProposalsAreUndecided, SeparationOfDuties, RowFollowsTrail, IsLast,
       StepsAreLegalUnlessOverlapped, Exists, About

\* A decision never leaves the status as it was.
LEMMA FollowsChanges ==
    ASSUME NEW s \in Statuses, NEW n \in Follows(s)
    PROVE  n # s /\ n \in {"approved", "rejected", "rolled_back", "confirmed"}
BY DEF Follows, Statuses

\* No case has been opened: the invariant holds of the empty tables.
LEMMA InitIInv == Init => IInv
<1> SUFFICES ASSUME Init PROVE IInv
  OBVIOUS
<1>2. TypeOK
  BY BoundIsNatural DEF Init, TypeOK
<1>a. DOMAIN trail = {}
  BY DEF Init
<1>3. \A c \in Cases : ~Exists(c) /\ About(c) = {}
  BY <1>a DEF Init, Exists, About
<1>4. KeysAreFresh /\ RequestsAreChecked /\ StaleOnlyIfOverlapped
  BY <1>3 DEF Init, KeysAreFresh, RequestsAreChecked, StaleOnlyIfOverlapped
<1>5. ProposalsAreUndecided /\ SeparationOfDuties
  BY <1>3 DEF ProposalsAreUndecided, SeparationOfDuties
<1>6. RowFollowsTrail /\ StepsAreLegalUnlessOverlapped
  BY <1>3 DEF RowFollowsTrail, StepsAreLegalUnlessOverlapped
<1>7. QED
  BY <1>2, <1>4, <1>5, <1>6 DEF IInv

\* propose_publication and submit_feedback up to the commit.
LEMMA OpenIInv ==
    ASSUME IInv, NEW w \in Workers, NEW who \in People, NEW kind \in Kinds,
           Open(w, who, kind)
    PROVE  IInv'
<1>1. PICK c \in Cases \ used :
         /\ used' = used \cup {c}
         /\ txn[w] = None
         /\ txn' = [txn EXCEPT ![w] =
               [stage |-> "commit", case |-> c, who |-> who, loaded |-> None,
                row |-> [kind |-> kind, status |-> Opened(kind), author |-> who,
                         decider |-> None],
                seen |-> Len(trail)]]
  BY DEF Open, Begin
<1>2. rows' = rows /\ trail' = trail /\ decisions' = decisions
  BY DEF Open
<1> DEFINE x == [stage |-> "commit", case |-> c, who |-> who, loaded |-> None,
                 row |-> [kind |-> kind, status |-> Opened(kind), author |-> who,
                          decider |-> None],
                 seen |-> Len(trail)]
<1>3. TypeOK /\ Opened(kind) \in Statuses /\ Len(trail) \in Nat
  BY DEF IInv, TypeOK, Opened, Statuses
<1>4. x \in Request
  BY <1>3 DEF Request, Row
<1>5. x # None /\ x.row # None
  BY <1>4, NoneIsNothingElse DEF Request
<1>6. /\ txn'[w] = x
      /\ \A v \in Workers \ {w} : txn'[v] = txn[v]
  BY <1>1, <1>3 DEF TypeOK
<1>7. TypeOK'
  BY <1>1, <1>2, <1>3, <1>4, <1>6 DEF TypeOK
<1>8. (\A d : Exists(d)' = Exists(d)) /\ (\A d : About(d)' = About(d))
  BY <1>2 DEF Exists, About
<1>9. ~Exists(c) /\ \A v \in Workers : txn[v] # None => txn[v].case # c
  BY <1>1 DEF IInv, KeysAreFresh
<1>10. KeysAreFresh'
  BY <1>1, <1>6, <1>8, <1>9 DEF IInv, KeysAreFresh
<1>11. RequestsAreChecked'
  <2>1. InsertIsNew(x)
    BY DEF InsertIsNew
  <2>2. ASSUME NEW v \in Workers \ {w}, txn[v] # None, txn[v].loaded # None
        PROVE  UpdateIsChecked(txn[v]) /\ UpdateIsChecked(txn[v])'
    BY <2>2, <1>2, <1>6, <1>8 DEF IInv, RequestsAreChecked, UpdateIsChecked
  <2>3. ASSUME NEW v \in Workers \ {w}, txn[v] # None, txn[v].loaded = None
        PROVE  InsertIsNew(txn'[v])
    BY <2>3, <1>6 DEF IInv, RequestsAreChecked
  <2>4. QED
    BY <2>1, <2>2, <2>3, <1>6 DEF RequestsAreChecked
<1>12. StaleOnlyIfOverlapped'
  BY <1>2, <1>3, <1>6, <1>8 DEF IInv, StaleOnlyIfOverlapped
<1>13. History'
  BY <1>2, HistoryKept DEF IInv, History
<1>14. QED
  BY <1>7, <1>10, <1>11, <1>12, <1>13 DEF IInv, History

\* _decide and disposition_feedback up to the flush, once their checks passed.
LEMMA AssignIInv ==
    ASSUME IInv, NEW w \in Workers, NEW who \in People, NEW c \in Cases, NEW new,
           Exists(c), new \in Follows(rows[c].status),
           rows[c].kind = "publication" /\ new \in {"approved", "rejected"}
              => who # rows[c].author /\ rows[c].decider = None,
           Assign(w, who, c, new)
    PROVE  IInv'
<1> DEFINE x == [stage |-> "write", case |-> c, who |-> who, loaded |-> rows[c],
                 row |-> [rows[c] EXCEPT !.status = new, !.decider = who],
                 seen |-> Len(trail)]
<1>1. /\ txn[w] = None
      /\ txn' = [txn EXCEPT ![w] = x]
      /\ rows' = rows /\ trail' = trail /\ used' = used
      /\ decisions < MaxDecisions /\ decisions' = decisions + 1
  BY DEF Assign, Begin
<1>2. TypeOK /\ rows[c] \in Row /\ Len(trail) \in Nat
  BY DEF IInv, TypeOK, Exists
<1>3. new \in Statuses
  BY <1>2, FollowsChanges DEF Row, Statuses
<1>4. x.row \in Row /\ x \in Request
  BY <1>2, <1>3 DEF Request, Row
<1>5. x # None /\ x.loaded # None
  BY <1>4, NoneIsNothingElse DEF Exists
<1>6. /\ txn'[w] = x
      /\ \A v \in Workers \ {w} : txn'[v] = txn[v]
  BY <1>1, <1>2 DEF TypeOK
<1>7. TypeOK'
  BY <1>1, <1>2, <1>4, BoundIsNatural DEF TypeOK
<1>8. (\A d : Exists(d)' = Exists(d)) /\ (\A d : About(d)' = About(d))
  BY <1>1 DEF Exists, About
<1>9. KeysAreFresh'
  BY <1>1, <1>5, <1>6, <1>8 DEF IInv, KeysAreFresh
<1>10. RequestsAreChecked'
  <2>a. /\ x.case = c /\ x.who = who /\ x.loaded = rows[c]
        /\ x.row.status = new /\ x.row.decider = who
        /\ x.row.kind = rows[c].kind /\ x.row.author = rows[c].author
    BY <1>2 DEF Row
  <2>1. UpdateIsChecked(txn[w])'
    <3> HIDE DEF x
    <3>1. rows'[x.case] # None /\ rows'[x.case] = rows[c]
      BY <2>a, <1>1 DEF Exists
    <3>2. QED
      BY <2>a, <3>1, <1>6 DEF UpdateIsChecked, Exists
  <2>2. ASSUME NEW v \in Workers \ {w}, txn[v] # None, txn[v].loaded # None
        PROVE  UpdateIsChecked(txn[v])'
    BY <2>2, <1>1, <1>6, <1>8 DEF IInv, RequestsAreChecked, UpdateIsChecked
  <2>3. ASSUME NEW v \in Workers \ {w}, txn[v] # None, txn[v].loaded = None
        PROVE  InsertIsNew(txn'[v])
    BY <2>3, <1>6 DEF IInv, RequestsAreChecked
  <2>4. QED
    BY <2>1, <2>2, <2>3, <1>5, <1>6 DEF RequestsAreChecked
<1>11. StaleOnlyIfOverlapped'
  BY <1>1, <1>2, <1>6, <1>8 DEF IInv, StaleOnlyIfOverlapped
<1>12. History'
  BY <1>1, HistoryKept DEF IInv, History
<1>13. QED
  BY <1>7, <1>9, <1>10, <1>11, <1>12 DEF IInv, History

\* approve, reject and rollback up to the flush keep the invariant.
LEMMA DecideIInv ==
    ASSUME IInv, NEW w \in Workers, NEW who \in People, NEW c \in Cases,
           NEW new \in {"approved", "rejected", "rolled_back"}, Decide(w, who, c, new)
    PROVE  IInv'
<1>1. /\ Exists(c) /\ rows[c].kind = "publication" /\ Assign(w, who, c, new)
      /\ rows[c].status = RequireFrom(new)
      /\ new # "rolled_back" => who # rows[c].author
  BY DEF Decide
<1>2. new \in Follows(rows[c].status)
  BY <1>1 DEF RequireFrom, Follows
<1>3. new \in {"approved", "rejected"} => rows[c].decider = None
  BY <1>1 DEF RequireFrom, IInv, ProposalsAreUndecided
<1>4. QED
  BY <1>1, <1>2, <1>3, AssignIInv

\* disposition_feedback up to the flush keeps the invariant.
LEMMA DispositionIInv ==
    ASSUME IInv, NEW w \in Workers, NEW who \in People, NEW c \in Cases,
           NEW new \in {"confirmed", "rejected"}, Disposition(w, who, c, new)
    PROVE  IInv'
<1>1. Exists(c) /\ rows[c].kind = "feedback" /\ Assign(w, who, c, new)
  BY DEF Disposition
<1>2. new \in Follows(rows[c].status)
  BY DEF Disposition, Follows
<1>3. QED
  BY <1>1, <1>2, AssignIInv

\* The UPDATE, which moves the request on and nothing else.
LEMMA WriteIInv ==
    ASSUME IInv, NEW w \in Workers, Write(w)
    PROVE  IInv'
<1>1. /\ txn[w] # None
      /\ txn' = [txn EXCEPT ![w].stage = "commit"]
      /\ rows' = rows /\ trail' = trail /\ used' = used /\ decisions' = decisions
  BY DEF Write
<1>2. TypeOK /\ txn[w] \in Request
  BY <1>1 DEF IInv, TypeOK
<1>3. /\ txn'[w] = [txn[w] EXCEPT !.stage = "commit"]
      /\ \A v \in Workers \ {w} : txn'[v] = txn[v]
  BY <1>1, <1>2 DEF TypeOK
<1>4. txn'[w] \in Request
  BY <1>2, <1>3 DEF Request
<1>5. txn'[w] # None
  BY <1>4, NoneIsNothingElse
<1>6. \A v \in Workers :
         /\ (txn'[v] = None) <=> (txn[v] = None)
         /\ txn[v] # None => /\ txn'[v].case = txn[v].case /\ txn'[v].who = txn[v].who
                             /\ txn'[v].loaded = txn[v].loaded /\ txn'[v].row = txn[v].row
                             /\ txn'[v].seen = txn[v].seen
  BY <1>1, <1>2, <1>3, <1>5 DEF Request
<1>7. TypeOK'
  BY <1>1, <1>2, <1>4 DEF TypeOK
<1>8. (\A d : Exists(d)' = Exists(d)) /\ (\A d : About(d)' = About(d))
  BY <1>1 DEF Exists, About
<1>9. KeysAreFresh'
  BY <1>1, <1>6, <1>8 DEF IInv, KeysAreFresh
<1>10. RequestsAreChecked'
  BY <1>1, <1>6, <1>8 DEF IInv, RequestsAreChecked, InsertIsNew, UpdateIsChecked
<1>11. StaleOnlyIfOverlapped'
  BY <1>1, <1>6, <1>8 DEF IInv, StaleOnlyIfOverlapped
<1>12. History'
  BY <1>1, HistoryKept DEF IInv, History
<1>13. QED
  BY <1>7, <1>9, <1>10, <1>11, <1>12 DEF IInv, History

\* A request that ends without its commit.
LEMMA FailIInv ==
    ASSUME IInv, NEW w \in Workers, Fail(w)
    PROVE  IInv'
<1>1. /\ txn' = [txn EXCEPT ![w] = None]
      /\ rows' = rows /\ trail' = trail /\ used' = used /\ decisions' = decisions
  BY DEF Fail
<1>2. TypeOK
  BY DEF IInv
<1>3. txn'[w] = None /\ \A v \in Workers \ {w} : txn'[v] = txn[v]
  BY <1>1, <1>2 DEF TypeOK
<1>4. TypeOK'
  BY <1>1, <1>2 DEF TypeOK
<1>5. (\A d : Exists(d)' = Exists(d)) /\ (\A d : About(d)' = About(d))
  BY <1>1 DEF Exists, About
<1>6. KeysAreFresh'
  BY <1>1, <1>3, <1>5 DEF IInv, KeysAreFresh
<1>7. RequestsAreChecked'
  BY <1>1, <1>3, <1>5 DEF IInv, RequestsAreChecked, InsertIsNew, UpdateIsChecked
<1>8. StaleOnlyIfOverlapped'
  BY <1>1, <1>3, <1>5 DEF IInv, StaleOnlyIfOverlapped
<1>9. History'
  BY <1>1, HistoryKept DEF IInv, History
<1>10. QED
  BY <1>4, <1>6, <1>7, <1>8, <1>9 DEF IInv, History

\* What Commit does to the row and to the trail.
LEMMA CommitEffect ==
    ASSUME IInv, NEW w \in Workers, Commit(w),
           NEW x, x = txn[w], NEW c, c = x.case, NEW m, m = rows'[c]
    PROVE  /\ x \in Request /\ x # None /\ c \in Cases /\ m \in Row
           /\ m.status = x.row.status
           /\ x.loaded = None => ~Exists(c) /\ m = x.row
           /\ x.loaded # None =>
                 /\ Exists(c)
                 /\ m.kind = rows[c].kind /\ m.author = rows[c].author
                 /\ m.decider = IF x.who # x.loaded.decider THEN x.who ELSE rows[c].decider
           /\ rows' = [rows EXCEPT ![c] = m]
           /\ Len(trail') = Len(trail) + 1
           /\ \A j \in DOMAIN trail : trail'[j] = trail[j]
           /\ trail'[Len(trail) + 1] = [case |-> c, actor |-> x.who, status |-> x.row.status,
                                        seen |-> x.seen]
           /\ trail' \in Seq(Record)
           /\ About(c)' = About(c) \cup {Len(trail) + 1}
           /\ \A d : d # c => About(d)' = About(d)
<1> DEFINE r == [case |-> c, actor |-> x.who, status |-> x.row.status, seen |-> x.seen]
<1>1. /\ x # None
      /\ rows' = [rows EXCEPT ![c] = Merged(x, rows[c])]
      /\ trail' = Append(trail, r)
  BY DEF Commit
<1>2. TypeOK /\ x \in Request /\ c \in Cases /\ x.row \in Row
  BY <1>1 DEF IInv, TypeOK, Request
<1>3. m = Merged(x, rows[c])
  BY <1>1, <1>2 DEF TypeOK
<1>4. r \in Record
  BY <1>2 DEF Record, Request, Row
<1>5. /\ Len(trail') = Len(trail) + 1
      /\ \A j \in DOMAIN trail : trail'[j] = trail[j]
      /\ trail'[Len(trail) + 1] = r
      /\ trail' \in Seq(Record)
      /\ DOMAIN trail' = DOMAIN trail \cup {Len(trail) + 1}
  <2> HIDE DEF r
  <2>1. QED
    BY <1>1, <1>2, <1>4 DEF TypeOK
<1>6. About(c)' = About(c) \cup {Len(trail) + 1} /\ \A d : d # c => About(d)' = About(d)
  BY <1>5 DEF About
<1>7. CASE x.loaded = None
  <2>1. m = x.row /\ ~Exists(c)
    BY <1>1, <1>3, <1>7 DEF Merged, IInv, KeysAreFresh
  <2>2. QED
    BY <2>1, <1>1, <1>2, <1>3, <1>5, <1>6, <1>7
<1>8. CASE x.loaded # None
  <2>1. UpdateIsChecked(x)
    BY <1>1, <1>8 DEF IInv, RequestsAreChecked
  <2>2. Exists(c) /\ rows[c] \in Row /\ x.loaded \in Row
    BY <2>1, <1>2, <1>8 DEF UpdateIsChecked, Exists, TypeOK, Request
  <2>3. x.row.status # x.loaded.status
    BY <2>1, <2>2, FollowsChanges DEF UpdateIsChecked, Row
  <2>4. m = [rows[c] EXCEPT !.status = x.row.status,
                !.decider = IF x.row.decider # x.loaded.decider THEN x.row.decider ELSE @]
    BY <1>3, <1>8, <2>3 DEF Merged
  <2>5. x.row.decider = x.who /\ x.row.status \in Statuses /\ x.who \in People
    BY <2>1, <1>2 DEF UpdateIsChecked, Row, Request
  <2>6. /\ m \in Row /\ m.status = x.row.status
        /\ m.kind = rows[c].kind /\ m.author = rows[c].author
        /\ m.decider = IF x.who # x.loaded.decider THEN x.who ELSE rows[c].decider
    BY <2>2, <2>4, <2>5 DEF Row
  <2>7. QED
    BY <2>2, <2>6, <1>1, <1>2, <1>3, <1>5, <1>6, <1>8
<1>9. QED
  BY <1>7, <1>8

\* After the effects of a commit every part of the invariant holds again.
LEMMA CommitKeeps ==
    ASSUME IInv, NEW w \in Workers, Commit(w),
           NEW x, x = txn[w], NEW c, c = x.case, NEW m, m = rows'[c], NEW n, n = Len(trail)
    PROVE  IInv'
<1>1. /\ x \in Request /\ x # None /\ c \in Cases /\ m \in Row
      /\ m.status = x.row.status
      /\ x.loaded = None => ~Exists(c) /\ m = x.row
      /\ x.loaded # None =>
            /\ Exists(c)
            /\ m.kind = rows[c].kind /\ m.author = rows[c].author
            /\ m.decider = IF x.who # x.loaded.decider THEN x.who ELSE rows[c].decider
      /\ rows' = [rows EXCEPT ![c] = m]
      /\ Len(trail') = n + 1
      /\ \A j \in DOMAIN trail : trail'[j] = trail[j]
      /\ trail'[n + 1] = [case |-> c, actor |-> x.who, status |-> x.row.status,
                          seen |-> x.seen]
      /\ trail' \in Seq(Record)
      /\ About(c)' = About(c) \cup {n + 1}
      /\ \A d : d # c => About(d)' = About(d)
  BY CommitEffect
<1>2. /\ TypeOK /\ n \in Nat /\ (\A d : About(d) \subseteq 1 .. n)
      /\ txn' = [txn EXCEPT ![w] = None] /\ used' = used /\ decisions' = decisions
  BY DEF IInv, TypeOK, Commit, About
<1>3. txn'[w] = None /\ \A v \in Workers \ {w} : txn'[v] = txn[v]
  BY <1>2 DEF TypeOK
<1>4. rows'[c] = m /\ \A d \in Cases : d # c => rows'[d] = rows[d]
  BY <1>1, <1>2 DEF TypeOK
<1>5. Exists(c)' /\ \A d \in Cases : d # c => Exists(d)' = Exists(d)
  BY <1>1, <1>4, NoneIsNothingElse DEF Exists
<1>6. x.loaded = None => /\ InsertIsNew(x) /\ About(c) = {}
                         /\ \A v \in Workers \ {w} : txn[v] # None => txn[v].case # c
  BY <1>1 DEF IInv, RequestsAreChecked, KeysAreFresh
<1>7. x.loaded # None => UpdateIsChecked(x)
  BY <1>1 DEF IInv, RequestsAreChecked
<1>8. TypeOK'
  BY <1>1, <1>2 DEF TypeOK
<1>9. /\ x.who \in People /\ x.who # None /\ x.row \in Row /\ x.seen \in Nat
      /\ \A v \in Workers : txn[v] # None => txn[v].case \in Cases /\ txn[v].seen \in Nat
  BY <1>1, <1>2, NoneIsNothingElse DEF TypeOK, Request
<1>0. /\ About(c) \subseteq 1 .. n
      /\ \A d : \A i \in About(d) : i \in Nat /\ i \in DOMAIN trail /\ trail[i].seen \in Nat
      /\ \A d : \A i \in About(d)' : i \in Nat /\ trail'[i].seen \in Nat
  <2>1. trail \in Seq(Record) /\ trail' \in Seq(Record)
    BY <1>1, <1>2 DEF TypeOK
  <2>2. \A i \in DOMAIN trail : i \in Nat /\ trail[i] \in Record
    BY <2>1
  <2>3. \A i \in DOMAIN trail' : i \in Nat /\ trail'[i] \in Record
    BY <2>1
  <2>4. QED
    BY <2>2, <2>3, <1>2 DEF About, Record
<1>10. KeysAreFresh'
  <2>1. \A d \in Cases : Exists(d)' => d \in used'
    BY <1>1, <1>2, <1>5 DEF IInv, KeysAreFresh
  <2>2. \A d \in Cases : ~Exists(d)' => About(d)' = {}
    BY <1>1, <1>5 DEF IInv, KeysAreFresh
  <2>3. \A v \in Workers : txn'[v] # None => txn'[v].case \in used'
    BY <1>2, <1>3 DEF IInv, KeysAreFresh
  <2>4. ASSUME NEW v \in Workers, txn'[v] # None, txn'[v].loaded = None
        PROVE  /\ rows'[txn'[v].case] = None
               /\ \A u \in Workers \ {v} : txn'[u] # None => txn'[u].case # txn'[v].case
    <3>1. v # w /\ txn'[v] = txn[v]
      BY <2>4, <1>3
    <3>2. /\ ~Exists(txn[v].case) /\ txn[v].case # c
          /\ \A u \in Workers \ {v} : txn[u] # None => txn[u].case # txn[v].case
      BY <2>4, <3>1, <1>1 DEF IInv, KeysAreFresh
    <3>3. QED
      BY <3>1, <3>2, <2>4, <1>3, <1>4, <1>9 DEF Exists
  <2>5. QED
    BY <2>1, <2>2, <2>3, <2>4 DEF KeysAreFresh, Exists
<1>11. RequestsAreChecked'
  <2>1. SUFFICES ASSUME NEW v \in Workers, v # w, txn[v] # None
                 PROVE  IF txn[v].loaded = None THEN InsertIsNew(txn[v])
                        ELSE /\ rows'[txn[v].case] # None
                             /\ txn[v].row.decider = txn[v].who
                             /\ txn[v].row.kind = rows'[txn[v].case].kind
                             /\ txn[v].row.author = rows'[txn[v].case].author
                             /\ txn[v].row.status \in Follows(txn[v].loaded.status)
                             /\ txn[v].row.kind = "publication"
                                  /\ txn[v].row.status \in {"approved", "rejected"}
                                => /\ txn[v].who # txn[v].row.author
                                   /\ txn[v].loaded.decider = None
    BY <1>3 DEF RequestsAreChecked, InsertIsNew, UpdateIsChecked, Exists
  <2>2. CASE txn[v].loaded = None
    BY <2>1, <2>2 DEF IInv, RequestsAreChecked
  <2>3. CASE txn[v].loaded # None
    <3>1. UpdateIsChecked(txn[v])
      BY <2>1, <2>3 DEF IInv, RequestsAreChecked
    <3>2. txn[v].case = c => x.loaded # None
      BY <3>1, <1>1 DEF UpdateIsChecked
    <3>3. /\ rows'[txn[v].case] # None
          /\ rows'[txn[v].case].kind = rows[txn[v].case].kind
          /\ rows'[txn[v].case].author = rows[txn[v].case].author
      BY <3>1, <3>2, <2>1, <1>1, <1>4, <1>5, <1>9 DEF UpdateIsChecked, Exists
    <3>4. QED
      BY <3>1, <3>3, <2>3 DEF UpdateIsChecked
  <2>4. QED
    BY <2>2, <2>3
<1>12. m.status = "proposed" => m.decider = None
  <2>1. x.loaded # None => x.loaded \in Row
    BY <1>1 DEF Request
  <2>2. x.loaded # None => m.status # "proposed"
    BY <2>1, <1>1, <1>7, FollowsChanges DEF UpdateIsChecked, Row
  <2>3. QED
    BY <2>2, <1>1, <1>6 DEF InsertIsNew
<1>13. ProposalsAreUndecided'
  BY <1>4, <1>5, <1>12 DEF IInv, ProposalsAreUndecided
<1>14. StaleOnlyIfOverlapped'
  <2>1. SUFFICES ASSUME NEW v \in Workers, v # w, txn[v] # None
                 PROVE  /\ txn[v].seen <= n + 1
                        /\ \/ txn[v].loaded = None
                           \/ rows'[txn[v].case] = txn[v].loaded
                           \/ \E j \in About(txn[v].case)' : j > txn[v].seen
    BY <1>1, <1>3 DEF StaleOnlyIfOverlapped, About
  <2>2. /\ txn[v].seen <= n
        /\ \/ txn[v].loaded = None
           \/ rows[txn[v].case] = txn[v].loaded
           \/ \E j \in About(txn[v].case) : j > txn[v].seen
    BY <2>1 DEF IInv, StaleOnlyIfOverlapped
  <2>3. CASE txn[v].case # c
    BY <2>1, <2>2, <2>3, <1>1, <1>2, <1>4, <1>9
  <2>4. CASE txn[v].case = c
    <3>1. n + 1 \in About(txn[v].case)' /\ n + 1 > txn[v].seen
      BY <2>1, <2>2, <2>4, <1>1, <1>2, <1>9
    <3>2. QED
      BY <3>1, <2>1, <2>2, <1>2, <1>9
  <2>5. QED
    BY <2>3, <2>4
<1>15. SeparationOfDuties'
  <2>1. m.kind = "publication" /\ m.status \in {"approved", "rejected"}
           => m.decider # None /\ m.decider # m.author
    <3>1. CASE x.loaded = None
      BY <3>1, <1>1, <1>6 DEF InsertIsNew, Opened
    <3>2. CASE x.loaded # None
      BY <3>2, <1>1, <1>7, <1>9 DEF UpdateIsChecked
    <3>3. QED
      BY <3>1, <3>2
  <2>2. QED
    BY <2>1, <1>4, <1>5 DEF IInv, SeparationOfDuties
<1>16. /\ \A d \in Cases : Exists(d) => About(d) # {}
       /\ Exists(c) => \A i \in About(c) : IsLast(i, c) => rows[c].status = trail[i].status
  BY <1>1 DEF IInv, RowFollowsTrail
<1>17. RowFollowsTrail'
  <2>1. \A d \in Cases : Exists(d)' => About(d)' # {}
    <3>1. About(c)' # {}
      BY <1>1
    <3>2. \A d \in Cases : d # c /\ Exists(d)' => About(d)' # {}
      BY <1>1, <1>5, <1>16
    <3>3. QED
      BY <3>1, <3>2
  <2>2. ASSUME NEW d \in Cases, d # c, NEW i \in About(d)', IsLast(i, d)'
        PROVE  /\ rows'[d].status = trail'[i].status
               /\ \/ rows'[d].decider = trail'[i].actor
                  \/ rows'[d].decider = None /\ trail'[i].status = Opened(rows'[d].kind)
                  \/ \E j \in About(d)' : trail'[i].seen < j /\ j < i
    <3>1. i \in About(d) /\ IsLast(i, d) /\ trail'[i] = trail[i] /\ rows'[d] = rows[d]
      BY <2>2, <1>1, <1>4 DEF IsLast, About
    <3>2. QED
      BY <3>1, <2>2, <1>1 DEF IInv, RowFollowsTrail
  <2>3. ASSUME NEW i \in About(c)', IsLast(i, c)'
        PROVE  /\ rows'[c].status = trail'[i].status
               /\ \/ rows'[c].decider = trail'[i].actor
                  \/ rows'[c].decider = None /\ trail'[i].status = Opened(rows'[c].kind)
                  \/ \E j \in About(c)' : trail'[i].seen < j /\ j < i
    <3>1. i = n + 1
      <4>1. n + 1 <= i
        BY <2>3, <1>1 DEF IsLast
      <4>2. i \in About(c) \/ i = n + 1
        BY <2>3, <1>1
      <4>3. QED
        BY <4>1, <4>2, <1>0, <1>2
    <3>2. CASE x.loaded = None
      BY <3>1, <3>2, <1>1, <1>4, <1>6 DEF InsertIsNew
    <3>3. CASE x.loaded # None /\ m.decider = x.who
      BY <3>1, <3>3, <1>1, <1>4
    <3>4. CASE x.loaded # None /\ m.decider # x.who
      <4>1. rows[c] # x.loaded
        BY <3>4, <1>1
      <4>2. PICK j \in About(c) : j > x.seen
        BY <4>1, <3>4, <1>1 DEF IInv, StaleOnlyIfOverlapped
      <4>3. j \in About(c)' /\ x.seen < j /\ j < n + 1
        BY <4>2, <1>1, <1>2, <1>9
      <4>4. QED
        BY <4>3, <3>1, <1>1, <1>4
    <3>5. QED
      BY <3>2, <3>3, <3>4
  <2>4. QED
    BY <2>1, <2>2, <2>3 DEF RowFollowsTrail
<1>18. StepsAreLegalUnlessOverlapped'
  <2>1. SUFFICES ASSUME NEW d \in Cases, NEW i \in About(d)', NEW j \in About(d)', i < j,
                        ~(\E k \in About(d)' : i < k /\ k < j), i <= trail'[j].seen
                 PROVE  trail'[j].status \in Follows(trail'[i].status)
    BY <1>0 DEF StepsAreLegalUnlessOverlapped
  <2>2. CASE j \in About(d)
    <3>1. i \in About(d) /\ trail'[i] = trail[i] /\ trail'[j] = trail[j]
      BY <2>1, <2>2, <1>1, <1>2 DEF About
    <3>2. ~(\E k \in About(d) : i < k /\ k < j)
      BY <2>1, <1>1
    <3>3. trail[j].seen \in Nat /\ i \in Nat
      BY <2>2, <3>1, <1>0
    <3>4. ~(i > trail[j].seen)
      BY <2>1, <3>1, <3>3
    <3>5. QED
      BY <2>1, <2>2, <3>1, <3>2, <3>4 DEF IInv, StepsAreLegalUnlessOverlapped
  <2>3. CASE j \notin About(d)
    <3>1. d = c /\ j = n + 1 /\ i \in About(c) /\ trail'[i] = trail[i] /\ i \in 1 .. n
      BY <2>1, <2>3, <1>1, <1>2 DEF About
    <3>2. x.loaded # None
      BY <3>1, <1>6
    <3>3. \A k \in About(c) : k <= i
      BY <2>1, <3>1, <1>1, <1>2
    <3>4. rows[c].status = trail[i].status
      BY <3>1, <3>2, <3>3, <1>1, <1>16 DEF IsLast
    <3>5. i <= x.seen
      BY <2>1, <3>1, <1>1
    <3>6. rows[c] = x.loaded
      <4>1. ~(\E k \in About(c) : k > x.seen)
        BY <3>1, <3>3, <3>5, <1>2, <1>9
      <4>2. QED
        BY <4>1, <3>2, <1>1 DEF IInv, StaleOnlyIfOverlapped
    <3>7. QED
      BY <3>1, <3>2, <3>4, <3>6, <1>1, <1>7 DEF UpdateIsChecked
  <2>4. QED
    BY <2>2, <2>3
<1>19. QED
  BY <1>8, <1>10, <1>11, <1>13, <1>14, <1>15, <1>17, <1>18 DEF IInv

\* A commit keeps the invariant.
LEMMA CommitIInv ==
    ASSUME IInv, NEW w \in Workers, Commit(w)
    PROVE  IInv'
BY CommitKeeps

-----------------------------------------------------------------------------
\* The inductive invariant holds in every state the requests can reach.
THEOREM Invariance == Spec => []IInv
<1>1. Init => IInv
  BY InitIInv
<1>2. IInv /\ [Next]_vars => IInv'
  <2> SUFFICES ASSUME IInv, [Next]_vars PROVE IInv'
    OBVIOUS
  <2>1. ASSUME NEW w \in Workers, NEW who \in People, ProposePublication(w, who)
        PROVE  IInv'
    BY <2>1, OpenIInv DEF ProposePublication, Kinds
  <2>2. ASSUME NEW w \in Workers, NEW who \in People, SubmitFeedback(w, who)
        PROVE  IInv'
    BY <2>2, OpenIInv DEF SubmitFeedback, Kinds
  <2>3. ASSUME NEW w \in Workers, NEW who \in People, NEW c \in Cases,
               NEW new \in {"approved", "rejected", "rolled_back"}, Decide(w, who, c, new)
        PROVE  IInv'
    BY <2>3, DecideIInv
  <2>4. ASSUME NEW w \in Workers, NEW who \in People, NEW c \in Cases,
               NEW new \in {"confirmed", "rejected"}, Disposition(w, who, c, new)
        PROVE  IInv'
    BY <2>4, DispositionIInv
  <2>5. ASSUME NEW w \in Workers, Write(w) \/ Commit(w) \/ Fail(w)
        PROVE  IInv'
    BY <2>5, WriteIInv, CommitIInv, FailIInv
  <2>6. CASE UNCHANGED vars
    BY <2>6 DEF vars, IInv, TypeOK, KeysAreFresh, RequestsAreChecked, InsertIsNew,
       UpdateIsChecked, ProposalsAreUndecided, StaleOnlyIfOverlapped, SeparationOfDuties,
       RowFollowsTrail, IsLast, StepsAreLegalUnlessOverlapped, Exists, About
  <2>7. QED
    BY <2>1, <2>2, <2>3, <2>4, <2>5, <2>6 DEF Next
<1>3. QED
  BY <1>1, <1>2, PTL DEF Spec

\* Rows, keys, requests and records keep their domains.
THEOREM TypeCorrect == Spec => []TypeOK
<1>1. IInv => TypeOK
  BY DEF IInv
<1>2. QED
  BY <1>1, Invariance, PTL

\* No race lets a proposer be the one who approved or rejected (_decide).
THEOREM DutiesAreSeparate == Spec => []SeparationOfDuties
<1>1. IInv => SeparationOfDuties
  BY DEF IInv
<1>2. QED
  BY <1>1, Invariance, PTL

\* The last audit record about a case tells its status, and its decider too
\* unless decisions overlapped (_decide, disposition_feedback).
THEOREM TrailIsHistory == Spec => []RowFollowsTrail
<1>1. IInv => RowFollowsTrail
  BY DEF IInv
<1>2. QED
  BY <1>1, Invariance, PTL

\* Only overlapping decisions can break the order of the lifecycle.
THEOREM LifecycleUnlessOverlapped == Spec => []StepsAreLegalUnlessOverlapped
<1>1. IInv => StepsAreLegalUnlessOverlapped
  BY DEF IInv
<1>2. QED
  BY <1>1, Invariance, PTL
=============================================================================
