--------------------------- MODULE AuditLogProofs ---------------------------
(***************************************************************************)
(* Proofs about AuditLog for any set of requests, finite or not.  The      *)
(* inductive invariant is AuditLog's IInv; the two safety properties and   *)
(* the refinement of AppendOnlyTree follow from it.                        *)
(***************************************************************************)
EXTENDS AuditLog, TLAPS

\* No request has started: the invariant holds of the empty table.
LEMMA InitIInv == Init => IInv
BY DEF Init, IInv, TypeOK, Stages, IdsFromSequence, TipsAreVisible, TipsAreLatest,
       CommitsAreCounted, Inserted, Committed

\* The SELECT of the tip keeps the invariant.
LEMMA ReadTipIInv ==
    ASSUME IInv, NEW q \in Requests, ReadTip(q)
    PROVE  IInv'
<1>1. PICK h \in {0} \cup {id[u] : u \in Committed} :
          LatestHash(h) /\ prev' = [prev EXCEPT ![q] = h]
  BY DEF ReadTip, Visible
<1>2. h \in Nat /\ h < nextId /\ (h # 0 => \E s \in Committed : id[s] = h)
  BY <1>1 DEF IInv, TypeOK, IdsFromSequence, Committed
<1>3. Committed' = Committed
  BY DEF ReadTip, Committed, IInv, TypeOK
<1>4. Inserted' = Inserted
  BY DEF ReadTip, Inserted
<1>5. TypeOK'
  BY <1>1, <1>2 DEF ReadTip, IInv, TypeOK, Stages
<1>6. IdsFromSequence'
  BY <1>4 DEF ReadTip, IInv, TypeOK, IdsFromSequence
<1>7. TipsAreVisible'
  BY <1>1, <1>2, <1>3 DEF ReadTip, IInv, TypeOK, IdsFromSequence, TipsAreVisible
<1>8. TipsAreLatest'
  BY <1>1, <1>3 DEF ReadTip, IInv, TypeOK, TipsAreLatest, LatestHash, Visible
<1>9. CommitsAreCounted'
  BY <1>3 DEF ReadTip, IInv, TypeOK, CommitsAreCounted
<1>10. QED
  BY <1>5, <1>6, <1>7, <1>8, <1>9 DEF IInv

\* The INSERT, which takes the next id, keeps the invariant.
LEMMA InsertIInv ==
    ASSUME IInv, NEW q \in Requests, Insert(q)
    PROVE  IInv'
<1>1. Committed' = Committed
  BY DEF Insert, Committed, IInv, TypeOK
<1>2. id[q] = 0 /\ id' = [id EXCEPT ![q] = nextId] /\ nextId' = nextId + 1
  BY DEF Insert, IInv, IdsFromSequence
<1>3. q \notin Committed
  BY DEF Insert, Committed
<1>4. TypeOK'
  BY DEF Insert, IInv, TypeOK, Stages
<1>5. IdsFromSequence'
  BY <1>2 DEF Insert, IInv, TypeOK, IdsFromSequence, Inserted
<1>6. TipsAreVisible'
  BY <1>1, <1>2, <1>3 DEF Insert, IInv, TypeOK, TipsAreVisible
<1>7. TipsAreLatest'
  BY <1>1, <1>2, <1>3 DEF Insert, IInv, TypeOK, TipsAreLatest
<1>8. CommitsAreCounted'
  BY <1>1 DEF Insert, IInv, TypeOK, CommitsAreCounted
<1>9. QED
  BY <1>4, <1>5, <1>6, <1>7, <1>8 DEF IInv

\* The commit makes the record visible and keeps the invariant.
LEMMA CommitIInv ==
    ASSUME IInv, NEW q \in Requests, Commit(q)
    PROVE  IInv'
<1>1. Committed' = Committed \cup {q} /\ q \notin Committed
  BY DEF Commit, Committed, IInv, TypeOK
<1>2. TypeOK'
  BY DEF Commit, IInv, TypeOK, Stages
<1>3. IdsFromSequence'
  BY DEF Commit, IInv, TypeOK, IdsFromSequence, Inserted
<1>4. TipsAreVisible'
  BY <1>1 DEF Commit, IInv, TypeOK, TipsAreVisible
<1>5. TipsAreLatest'
  <2> SUFFICES ASSUME NEW r \in Requests, stage'[r] # "running", stage'[r] # "failed",
                      NEW s \in Committed', pos'[s] <= seen'[r]
               PROVE  id'[s] <= prev'[r]
    BY DEF TipsAreLatest
  <2>1. CASE s = q
    \* The newcomer's place is beyond everything anyone has counted.
    <3>1. pos'[s] = commits + 1 /\ seen'[r] <= commits
      BY <2>1 DEF Commit, IInv, TypeOK, CommitsAreCounted
    <3>2. QED
      BY <3>1 DEF IInv, TypeOK, Commit
  <2>2. CASE s # q
    BY <1>1, <2>2 DEF Commit, IInv, TypeOK, TipsAreLatest, Committed
  <2>3. QED
    BY <2>1, <2>2
<1>6. CommitsAreCounted'
  BY <1>1 DEF Commit, IInv, TypeOK, CommitsAreCounted, Committed
<1>7. QED
  BY <1>2, <1>3, <1>4, <1>5, <1>6 DEF IInv

\* A rollback, which keeps the sequence value, keeps the invariant.
LEMMA FailIInv ==
    ASSUME IInv, NEW q \in Requests, Fail(q)
    PROVE  IInv'
<1>1. Committed' = Committed
  BY DEF Fail, Committed, IInv, TypeOK
<1>2. QED
  BY <1>1 DEF Fail, IInv, TypeOK, Stages, IdsFromSequence, TipsAreVisible,
              TipsAreLatest, CommitsAreCounted, Inserted

\* IInv holds in every state, whatever the requests and their interleaving.
THEOREM Invariance == Spec => []IInv
<1>1. IInv /\ [Next]_vars => IInv'
  <2> SUFFICES ASSUME IInv, [Next]_vars PROVE IInv'
    OBVIOUS
  <2>1. ASSUME NEW q \in Requests, ReadTip(q) PROVE IInv'
    BY <2>1, ReadTipIInv
  <2>2. ASSUME NEW q \in Requests, Insert(q) PROVE IInv'
    BY <2>2, InsertIInv
  <2>3. ASSUME NEW q \in Requests, Commit(q) PROVE IInv'
    BY <2>3, CommitIInv
  <2>4. ASSUME NEW q \in Requests, Fail(q) PROVE IInv'
    BY <2>4, FailIInv
  <2>5. CASE UNCHANGED vars
    BY <2>5 DEF vars, IInv, TypeOK, IdsFromSequence, TipsAreVisible, TipsAreLatest,
                CommitsAreCounted, Inserted, Committed
  <2>6. QED
    BY <2>1, <2>2, <2>3, <2>4, <2>5 DEF Next
<1>2. QED
  BY InitIInv, <1>1, PTL DEF Spec

\* Type correctness of the log.
THEOREM TypeCorrect == Spec => []TypeOK
<1>1. IInv => TypeOK
  BY DEF IInv
<1>2. QED
  BY <1>1, Invariance, PTL

-----------------------------------------------------------------------------
\* Every link of the table ends at a committed record with a smaller id.
THEOREM NoDanglingLinks == Spec => []LinksResolve
<1>1. IInv => LinksResolve
  BY DEF IInv, TypeOK, IdsFromSequence, TipsAreVisible, LinksResolve, Committed
<1>2. QED
  BY <1>1, Invariance, PTL

\* Records that share a predecessor were written by requests that overlapped.
THEOREM ForksNeedOverlap == Spec => []ForksOnlyFromOverlap
<1>1. IInv => ForksOnlyFromOverlap
  <2> SUFFICES ASSUME IInv, NEW r \in Committed, NEW s \in Committed,
                      prev[r] = prev[s], seen[r] >= pos[s]
               PROVE  FALSE
    BY DEF ForksOnlyFromOverlap, IInv, TypeOK, Committed
  <2>1. id[s] <= prev[r]
    BY DEF IInv, TypeOK, TipsAreLatest, Committed
  <2>2. prev[s] < id[s]
    BY DEF IInv, IdsFromSequence, TipsAreVisible, Committed
  <2>3. QED
    BY <2>1, <2>2 DEF IInv, TypeOK, Committed
<1>2. QED
  BY <1>1, Invariance, PTL

\* The table implements the append-only tree.
THEOREM ImplementsTree == Spec => TreeSpec
<1>1. Init => Tree!Init
  BY DEF Init, Tree!Init, Table, Committed
<1>2. IInv /\ IInv' /\ [Next]_vars => [Tree!Append]_Table
  <2> SUFFICES ASSUME IInv, IInv', [Next]_vars PROVE [Tree!Append]_Table
    OBVIOUS
  <2>1. ASSUME NEW q \in Requests, ReadTip(q) PROVE Table' = Table
    <3>1. Committed' = Committed /\ q \notin Committed
      BY <2>1 DEF ReadTip, Committed, IInv, TypeOK
    <3>2. \A r \in Committed : id'[r] = id[r] /\ prev'[r] = prev[r]
      BY <2>1, <3>1 DEF ReadTip, IInv, TypeOK, Committed
    <3>3. QED
      BY <3>1, <3>2 DEF Table
  <2>2. ASSUME NEW q \in Requests, Insert(q) PROVE Table' = Table
    <3>1. Committed' = Committed /\ q \notin Committed
      BY <2>2 DEF Insert, Committed, IInv, TypeOK
    <3>2. \A r \in Committed : id'[r] = id[r] /\ prev'[r] = prev[r]
      BY <2>2, <3>1 DEF Insert, IInv, TypeOK, Committed
    <3>3. QED
      BY <3>1, <3>2 DEF Table
  <2>3. ASSUME NEW q \in Requests, Fail(q) PROVE Table' = Table
    BY <2>3 DEF Fail, Table, Committed, IInv, TypeOK
  <2>4. ASSUME NEW q \in Requests, Commit(q) PROVE Tree!Append
    <3> DEFINE new == [id |-> id[q], prev |-> prev[q]]
    <3>1. Committed' = Committed \cup {q} /\ q \notin Committed /\ UNCHANGED <<id, prev>>
      BY <2>4 DEF Commit, Committed, IInv, TypeOK
    <3>2. Table' = Table \cup {new}
      BY <3>1 DEF Table
    <3>3. \A s \in Table : s.id # new.id
      BY <2>4, <3>1 DEF Table, Commit, IInv, IdsFromSequence, Inserted, Committed
    <3>4. new.prev = 0 \/ \E s \in Table : s.id = new.prev /\ s.id < new.id
      <4>1. prev[q] < id[q]
        BY <2>4 DEF Commit, IInv, IdsFromSequence, TipsAreVisible
      <4>2. ASSUME NEW s \in Committed, id[s] = prev[q]
            PROVE  \E t \in Table : t.id = new.prev /\ t.id < new.id
        <5>1. [id |-> id[s], prev |-> prev[s]] \in Table
          BY DEF Table
        <5>2. QED
          BY <4>1, <4>2, <5>1
      <4>3. QED
        BY <4>2 DEF IInv, TipsAreVisible
    <3>5. new \in Table' \ Table
      BY <3>2, <3>3
    <3>6. QED
      BY <3>2, <3>3, <3>4, <3>5 DEF Tree!Append
  <2>5. CASE UNCHANGED vars
    BY <2>5 DEF vars, Table, Committed
  <2>6. QED
    BY <2>1, <2>2, <2>3, <2>4, <2>5 DEF Next
<1>3. QED
  BY <1>1, <1>2, Invariance, PTL DEF Spec, TreeSpec, Tree!Spec
=============================================================================
