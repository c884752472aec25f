-------------------------- MODULE SimulationProofs --------------------------
(***************************************************************************)
(* Proofs about Sequencing and Simulation, for every list of fired rules:  *)
(* the cycle check raises exactly when rules wait for one another; the     *)
(* stages respect every prerequisite, none later than it must be; the path *)
(* reported is a longest one, and whole.  The simulation runs the          *)
(* sequencer as Sequencing specifies it, so that all this holds there, and *)
(* the resolution of conflicts loses no rule and no requirement.           *)
(***************************************************************************)
EXTENDS Simulation, ListsProofs

\* The counts are those of the prerequisites the loop has not dealt with.
Counted ==
  /\ phase \in {"detect", "raised"} =>
       remaining = [n \in fired_ids |-> EdgesFrom(fired_ids \ processed, n)]
  /\ phase = "stage" =>
       remaining = [n \in fired_ids |-> EdgesFrom(fired_ids \ Staged, n)]

\* The worklist holds the rules that wait for nothing and are not dealt with.
Ready ==
  /\ phase = "detect" =>
       queue = {n \in fired_ids \ processed : remaining[n] = 0}
  /\ phase = "stage" =>
       queue = {n \in fired_ids \ Staged : remaining[n] = 0}

\* No rule the check has taken waits for itself through others.
ProcessedIsAcyclic ==
  /\ processed \subseteq fired_ids
  /\ \A n \in processed, p \in fired_ids : Requires(n, p) => p \in processed
  /\ \A S \in SUBSET fired_ids : WaitsWithin(S) => S \cap processed = {}
  /\ phase = "called" => processed = {}
  /\ phase \in {"stage", "path", "done"} => processed = fired_ids

\* What the error lists.
CyclicIsTheRest ==
  phase = "raised" => /\ processed # fired_ids
                      /\ cyclic = {n \in fired_ids : remaining[n] > 0}
                      /\ {n \in fired_ids \ processed : remaining[n] = 0} = {}

\* The stages so far, and the next one.
StagesSoFar ==
  /\ stages \in Seq(SUBSET fired_ids)
  /\ phase \in {"called", "detect", "raised"} => stages = <<>>
  /\ phase \in {"path", "done"} => Staged = fired_ids
  /\ \A j, k \in 1..Len(stages) : \A n \in stages[j] : n \in stages[k] => j = k
  /\ \A k \in 1..Len(stages) : \A n \in stages[k] :
       /\ \A p \in fired_ids : Requires(n, p) => \E j \in 1..(k - 1) : p \in stages[j]
       /\ k > 1 => \E p \in stages[k - 1] : Requires(n, p)
  /\ phase = "stage" /\ stages # <<>> =>
       \A n \in queue : \E p \in stages[Len(stages)] : Requires(n, p)

IInv ==
  /\ fired_rules \in Requests
  /\ phase \in {"called", "detect", "raised", "stage", "path", "done"}
  /\ Counted
  /\ Ready
  /\ ProcessedIsAcyclic
  /\ CyclicIsTheRest
  /\ StagesSoFar

-----------------------------------------------------------------------------

\* A count of edges is a natural number, and zero when there is no edge.
LEMMA EdgesCount ==
  ASSUME fired_rules \in Requests, NEW n \in fired_ids, NEW S
  PROVE  /\ IsFiniteSet(PlacesIn(n, S))
         /\ EdgesFrom(S, n) \in Nat
         /\ EdgesFrom(S, n) = 0 <=> \A p \in S : ~ Requires(n, p)
<1>1. Prerequisites(n) \in Seq(RuleId)
  BY RequestsAssumption DEF fired_ids, Prerequisites
<1>2. DOMAIN Prerequisites(n) = 1..Len(Prerequisites(n)) /\ Len(Prerequisites(n)) \in Nat
  BY <1>1
<1>3. IsFiniteSet(DOMAIN Prerequisites(n))
  BY <1>2, FS_Interval
<1>4. IsFiniteSet(PlacesIn(n, S))
  <2>1. PlacesIn(n, S) \in SUBSET DOMAIN Prerequisites(n)
    BY DEF PlacesIn
  <2> QED BY <2>1, <1>3, FS_Subset
<1>5. EdgesFrom(S, n) \in Nat
  BY <1>4, FS_CardinalityType DEF EdgesFrom
<1>6. EdgesFrom(S, n) = 0 <=> PlacesIn(n, S) = {}
  BY <1>4, FS_EmptySet DEF EdgesFrom
<1>7. PlacesIn(n, S) = {} <=> \A p \in S : ~ Requires(n, p)
  BY DEF PlacesIn, Requires
<1> QED BY <1>4, <1>5, <1>6, <1>7

\* The edges from a part and from the rest add up.
LEMMA EdgesSplit ==
  ASSUME fired_rules \in Requests, NEW n \in fired_ids, NEW S, NEW T \in SUBSET S
  PROVE  /\ EdgesFrom(S \ T, n) = EdgesFrom(S, n) - EdgesFrom(T, n)
         /\ EdgesFrom(T, n) <= EdgesFrom(S, n)
<1>1. IsFiniteSet(PlacesIn(n, S)) /\ EdgesFrom(S, n) \in Nat /\ EdgesFrom(T, n) \in Nat
  BY EdgesCount
<1>2. PlacesIn(n, S \ T) = PlacesIn(n, S) \ PlacesIn(n, T)
  BY DEF PlacesIn
<1>3. PlacesIn(n, S) \cap PlacesIn(n, T) = PlacesIn(n, T)
  BY DEF PlacesIn
<1>4. EdgesFrom(S \ T, n) = EdgesFrom(S, n) - EdgesFrom(T, n)
  <2>1. Cardinality(PlacesIn(n, S) \ PlacesIn(n, T))
          = Cardinality(PlacesIn(n, S)) - Cardinality(PlacesIn(n, S) \cap PlacesIn(n, T))
    BY <1>1, FS_Difference
  <2> QED BY <2>1, <1>2, <1>3 DEF EdgesFrom
<1>5. PlacesIn(n, T) \in SUBSET PlacesIn(n, S)
  BY DEF PlacesIn
<1>6. EdgesFrom(T, n) <= EdgesFrom(S, n)
  BY <1>1, <1>5, FS_Subset DEF EdgesFrom
<1> QED BY <1>4, <1>6

\* What taking the rules of T off the counts of S leaves.
LEMMA ReleasedCounts ==
  ASSUME fired_rules \in Requests, NEW S \in SUBSET fired_ids, NEW T \in SUBSET S,
         remaining = [n \in fired_ids |-> EdgesFrom(S, n)]
  PROVE  /\ Released(T) = [n \in fired_ids |-> EdgesFrom(S \ T, n)]
         /\ Freed(T) = {n \in fired_ids : /\ EdgesFrom(S \ T, n) = 0
                                          /\ EdgesFrom(S, n) # 0}
<1>1. \A n \in fired_ids : /\ EdgesFrom(S \ T, n) = EdgesFrom(S, n) - EdgesFrom(T, n)
                           /\ EdgesFrom(T, n) <= EdgesFrom(S, n)
  BY EdgesSplit
<1>2. \A n \in fired_ids : EdgesFrom(S, n) \in Nat /\ EdgesFrom(T, n) \in Nat
  BY EdgesCount
<1>3. \A n \in fired_ids : remaining[n] = EdgesFrom(S, n)
  OBVIOUS
<1>4. Released(T) = [n \in fired_ids |-> EdgesFrom(S \ T, n)]
  BY <1>1, <1>3 DEF Released
<1>5. \A n \in fired_ids : remaining[n] \in 1..EdgesFrom(T, n)
                           <=> EdgesFrom(S \ T, n) = 0 /\ EdgesFrom(S, n) # 0
  <2> TAKE n \in fired_ids
  <2> DEFINE s == EdgesFrom(S, n)
             t == EdgesFrom(T, n)
             u == EdgesFrom(S \ T, n)
  <2>1. s \in Nat /\ t \in Nat /\ u = s - t /\ t <= s /\ remaining[n] = s
    BY <1>1, <1>2, <1>3
  <2> HIDE DEF s, t, u
  <2>2. remaining[n] \in 1..t <=> u = 0 /\ s # 0
    BY <2>1
  <2> QED BY <2>2 DEF s, t, u
<1> QED BY <1>4, <1>5 DEF Freed

-----------------------------------------------------------------------------

\* The first state: nothing is counted, taken or staged.
LEMMA InitIInv == Init => IInv
<1> SUFFICES ASSUME Init PROVE IInv
  OBVIOUS
<1>1. fired_rules \in Requests /\ phase = "called" /\ processed = {} /\ stages = <<>>
  BY DEF Init
<1>2. ProcessedIsAcyclic
  BY <1>1 DEF ProcessedIsAcyclic
<1>3. StagesSoFar
  BY <1>1 DEF StagesSoFar
<1> QED BY <1>1, <1>2, <1>3 DEF IInv, Counted, Ready, CyclicIsTheRest

\* _build_graph: with nothing taken, the count of a rule is its in-degree.
LEMMA BuildGraphIInv == IInv /\ BuildGraph => IInv'
<1> SUFFICES ASSUME IInv, BuildGraph PROVE IInv'
  OBVIOUS
<1> USE DEF IInv, BuildGraph
<1>1. fired_rules' = fired_rules /\ processed' = {} /\ stages' = <<>> /\ phase' = "detect"
  BY DEF ProcessedIsAcyclic, StagesSoFar
<1>2. fired_ids' = fired_ids
  BY <1>1 DEF fired_ids
<1>3. \A S, n : EdgesFrom(S, n)' = EdgesFrom(S, n)
  BY <1>1 DEF EdgesFrom, PlacesIn, Prerequisites
<1>4. remaining' = [n \in fired_ids |-> EdgesFrom(fired_ids \ {}, n)]
  BY DEF in_degree
<1>5. Counted'
  BY <1>1, <1>2, <1>3, <1>4 DEF Counted
<1>6. Ready'
  BY <1>1, <1>2 DEF Ready, in_degree
<1>7. ProcessedIsAcyclic'
  BY <1>1 DEF ProcessedIsAcyclic
<1>8. StagesSoFar'
  BY <1>1 DEF StagesSoFar
<1> QED BY <1>1, <1>5, <1>6, <1>7, <1>8 DEF CyclicIsTheRest

\* One rule is taken: what it frees joins the queue.  A set of rules that wait
\* for one another has no rule taken, because a rule is taken only when all its
\* prerequisites were.
LEMMA DetectIInv == IInv /\ Detect => IInv'
<1> SUFFICES ASSUME IInv, Detect PROVE IInv'
  OBVIOUS
<1>1. PICK node \in queue :
        /\ remaining' = Released({node})
        /\ queue' = (queue \ {node}) \cup Freed({node})
        /\ processed' = processed \cup {node}
  BY DEF Detect
<1>2. /\ phase = "detect" /\ phase' = "detect"
      /\ fired_rules' = fired_rules /\ stages' = stages /\ cyclic' = cyclic
  BY DEF Detect
<1>3. fired_ids' = fired_ids
  BY <1>2 DEF fired_ids
<1>4. \A S, n : EdgesFrom(S, n)' = EdgesFrom(S, n)
  BY <1>2 DEF EdgesFrom, PlacesIn, Prerequisites
<1>5. \A n, p : Requires(n, p)' <=> Requires(n, p)
  BY <1>2 DEF Requires, Prerequisites
<1> DEFINE left == fired_ids \ processed
<1>6. left \in SUBSET fired_ids /\ fired_rules \in Requests
  BY DEF IInv
<1>7. remaining = [n \in fired_ids |-> EdgesFrom(left, n)]
  BY <1>2 DEF IInv, Counted
<1>8. queue = {n \in left : remaining[n] = 0}
  BY <1>2 DEF IInv, Ready
<1>9. node \in left /\ EdgesFrom(left, node) = 0
  BY <1>7, <1>8
<1>10. /\ Released({node}) = [n \in fired_ids |-> EdgesFrom(left \ {node}, n)]
       /\ Freed({node}) = {n \in fired_ids : /\ EdgesFrom(left \ {node}, n) = 0
                                             /\ EdgesFrom(left, n) # 0}
  <2>1. {node} \in SUBSET left
    BY <1>9
  <2> HIDE DEF left
  <2> QED BY <2>1, <1>6, <1>7, ReleasedCounts
<1>11. left \ {node} = fired_ids \ processed'
  BY <1>1
<1>12. remaining' = [n \in fired_ids |-> EdgesFrom(fired_ids \ processed', n)]
  BY <1>1, <1>10, <1>11
<1>13. Counted'
  BY <1>2, <1>3, <1>4, <1>12 DEF Counted
<1>14. \A p \in fired_ids : Requires(node, p) => p \in processed
  BY <1>6, <1>9, EdgesCount
<1>15. ProcessedIsAcyclic'
  <2>1. \A n \in processed', p \in fired_ids : Requires(n, p) => p \in processed'
    BY <1>1, <1>14 DEF IInv, ProcessedIsAcyclic
  <2>2. ASSUME NEW S \in SUBSET fired_ids, WaitsWithin(S) PROVE S \cap processed' = {}
    <3>1. S \cap processed = {}
      BY <2>2 DEF IInv, ProcessedIsAcyclic
    <3>2. node \notin S
      BY <2>2, <3>1, <1>14 DEF WaitsWithin
    <3> QED BY <3>1, <3>2, <1>1
  <2>3. \A S : WaitsWithin(S)' <=> WaitsWithin(S)
    BY <1>3, <1>5 DEF WaitsWithin
  <2>4. processed' \subseteq fired_ids
    BY <1>1, <1>9 DEF IInv, ProcessedIsAcyclic
  <2> QED BY <2>1, <2>2, <2>3, <2>4, <1>2, <1>3, <1>5 DEF ProcessedIsAcyclic
<1>16. Ready'
  <2>1. \A n \in Freed({node}) : n \in fired_ids \ processed'
    <3> TAKE n \in Freed({node})
    <3>1. n \in fired_ids /\ EdgesFrom(left, n) # 0
      BY <1>10
    <3>2. PICK p \in left : Requires(n, p)
      BY <3>1, <1>6, EdgesCount
    <3>3. n \notin processed
      BY <3>1, <3>2 DEF IInv, ProcessedIsAcyclic
    <3> QED BY <3>1, <3>3, <1>1, <1>9
  <2>2. \A n \in left : EdgesFrom(left, n) = 0 => EdgesFrom(left \ {node}, n) = 0
    <3> TAKE n \in left
    <3>1. n \in fired_ids
      OBVIOUS
    <3> QED BY <3>1, <1>6, EdgesCount
  <2>3. queue' = {n \in fired_ids \ processed' : EdgesFrom(left \ {node}, n) = 0}
    BY <2>1, <2>2, <1>1, <1>7, <1>8, <1>10, <1>11
  <2> QED BY <2>3, <1>2, <1>3, <1>11, <1>12 DEF Ready
<1>17. StagesSoFar'
  BY <1>2 DEF IInv, StagesSoFar
<1> QED BY <1>2, <1>6, <1>13, <1>15, <1>16, <1>17 DEF IInv, CyclicIsTheRest

\* The error lists what was not taken.
LEMMA RaiseCycleIInv == IInv /\ RaiseCycle => IInv'
<1> SUFFICES ASSUME IInv, RaiseCycle PROVE IInv'
  OBVIOUS
<1>1. /\ phase = "detect" /\ phase' = "raised" /\ queue = {}
      /\ fired_rules' = fired_rules /\ stages' = stages /\ remaining' = remaining
      /\ processed' = processed /\ processed # fired_ids
      /\ cyclic' = {n \in fired_ids : remaining[n] > 0}
  BY DEF RaiseCycle
<1>2. fired_ids' = fired_ids
  BY <1>1 DEF fired_ids
<1>3. \A S, n : EdgesFrom(S, n)' = EdgesFrom(S, n)
  BY <1>1 DEF EdgesFrom, PlacesIn, Prerequisites
<1>4. \A S : WaitsWithin(S)' <=> WaitsWithin(S)
  BY <1>1 DEF WaitsWithin, fired_ids, Requires, Prerequisites
<1>5. \A n, p : Requires(n, p)' <=> Requires(n, p)
  BY <1>1 DEF Requires, Prerequisites
<1>6. Counted'
  BY <1>1, <1>2, <1>3 DEF IInv, Counted
<1>7. ProcessedIsAcyclic'
  BY <1>1, <1>2, <1>4, <1>5 DEF IInv, ProcessedIsAcyclic
<1>8. CyclicIsTheRest'
  BY <1>1, <1>2 DEF IInv, Ready, CyclicIsTheRest
<1>9. StagesSoFar'
  BY <1>1 DEF IInv, StagesSoFar
<1> QED BY <1>1, <1>6, <1>7, <1>8, <1>9 DEF IInv, Ready

\* Every rule was taken, and the counts start over.
LEMMA StartStagesIInv == IInv /\ StartStages => IInv'
<1> SUFFICES ASSUME IInv, StartStages PROVE IInv'
  OBVIOUS
<1>1. /\ phase = "detect" /\ phase' = "stage"
      /\ fired_rules' = fired_rules /\ stages' = stages
      /\ processed' = processed /\ processed = fired_ids
      /\ remaining' = in_degree
      /\ queue' = {n \in fired_ids : in_degree[n] = 0}
  BY DEF StartStages
<1>2. fired_ids' = fired_ids
  BY <1>1 DEF fired_ids
<1>3. \A S, n : EdgesFrom(S, n)' = EdgesFrom(S, n)
  BY <1>1 DEF EdgesFrom, PlacesIn, Prerequisites
<1>4. \A S : WaitsWithin(S)' <=> WaitsWithin(S)
  BY <1>1 DEF WaitsWithin, fired_ids, Requires, Prerequisites
<1>5. \A n, p : Requires(n, p)' <=> Requires(n, p)
  BY <1>1 DEF Requires, Prerequisites
<1>6. stages = <<>>
  BY <1>1 DEF IInv, StagesSoFar
<1>7. Staged' = {}
  BY <1>1, <1>6 DEF Staged
<1>8. fired_ids \ Staged' = fired_ids
  BY <1>7
<1>9. Counted'
  BY <1>1, <1>2, <1>3, <1>8 DEF Counted, in_degree
<1>10. Ready'
  BY <1>1, <1>2, <1>8 DEF Ready
<1>11. ProcessedIsAcyclic'
  BY <1>1, <1>2, <1>4, <1>5 DEF IInv, ProcessedIsAcyclic
<1>12. StagesSoFar'
  BY <1>1, <1>6 DEF StagesSoFar
<1> QED BY <1>1, <1>9, <1>10, <1>11, <1>12 DEF IInv, CyclicIsTheRest

\* One more stage: its rules wait for staged rules only, and each of them for
\* one of the stage before.
LEMMA AddStageIInv == IInv /\ AddStage => IInv'
<1> SUFFICES ASSUME IInv, AddStage PROVE IInv'
  OBVIOUS
<1>1. /\ phase = "stage" /\ phase' = "stage"
      /\ fired_rules' = fired_rules /\ processed' = processed
      /\ stages' = Append(stages, queue)
      /\ remaining' = Released(queue) /\ queue' = Freed(queue)
  BY DEF AddStage
<1>2. fired_ids' = fired_ids
  BY <1>1 DEF fired_ids
<1>3. \A S, n : EdgesFrom(S, n)' = EdgesFrom(S, n)
  BY <1>1 DEF EdgesFrom, PlacesIn, Prerequisites
<1>4. \A S : WaitsWithin(S)' <=> WaitsWithin(S)
  BY <1>1 DEF WaitsWithin, fired_ids, Requires, Prerequisites
<1>5. \A n, p : Requires(n, p)' <=> Requires(n, p)
  BY <1>1 DEF Requires, Prerequisites
<1> DEFINE left == fired_ids \ Staged
           last == Len(stages)
<1>6. stages \in Seq(SUBSET fired_ids) /\ last \in Nat /\ DOMAIN stages = 1..last
  BY DEF IInv, StagesSoFar
<1>7. left \in SUBSET fired_ids /\ fired_rules \in Requests
  BY DEF IInv
<1>8. remaining = [n \in fired_ids |-> EdgesFrom(left, n)]
  BY <1>1 DEF IInv, Counted
<1>9. queue = {n \in left : remaining[n] = 0}
  BY <1>1 DEF IInv, Ready
<1>10. queue \in SUBSET left /\ \A n \in queue : EdgesFrom(left, n) = 0
  BY <1>8, <1>9
<1>11. /\ Released(queue) = [n \in fired_ids |-> EdgesFrom(left \ queue, n)]
       /\ Freed(queue) = {n \in fired_ids : /\ EdgesFrom(left \ queue, n) = 0
                                            /\ EdgesFrom(left, n) # 0}
  BY <1>7, <1>8, <1>10, ReleasedCounts
<1>12. /\ Len(stages') = last + 1
       /\ stages'[last + 1] = queue
       /\ \A k \in 1..last : stages'[k] = stages[k]
       /\ stages' \in Seq(SUBSET fired_ids)
  BY <1>1, <1>6, <1>10
<1>13. Staged' = Staged \cup queue
  <2>1. DOMAIN stages' = 1..(last + 1)
    BY <1>12
  <2>2. 1..(last + 1) = 1..last \cup {last + 1}
    BY <1>6
  <2> QED BY <2>1, <2>2, <1>6, <1>12 DEF Staged
<1>14. fired_ids \ Staged' = left \ queue
  BY <1>13
<1>15. Counted'
  BY <1>1, <1>2, <1>3, <1>11, <1>14 DEF Counted
<1>16. \A n \in queue, p \in fired_ids : Requires(n, p) => p \in Staged
  <2> TAKE n \in queue, p \in fired_ids
  <2>1. n \in fired_ids /\ EdgesFrom(left, n) = 0
    BY <1>10
  <2> QED BY <2>1, <1>7, EdgesCount
<1>17. \A n \in Staged, p \in fired_ids : Requires(n, p) => p \in Staged
  BY <1>6 DEF IInv, StagesSoFar, Staged
<1>18. \A n \in Freed(queue) : \E p \in queue : Requires(n, p)
  <2> TAKE n \in Freed(queue)
  <2>1. n \in fired_ids /\ EdgesFrom(left \ queue, n) = 0 /\ EdgesFrom(left, n) # 0
    BY <1>11
  <2>2. PICK p \in left : Requires(n, p)
    BY <2>1, <1>7, EdgesCount
  <2>3. p \notin left \ queue
    BY <2>1, <2>2, <1>7, EdgesCount
  <2> QED BY <2>2, <2>3
<1>19. Ready'
  <2>1. \A n \in Freed(queue) : n \in left \ queue
    <3> TAKE n \in Freed(queue)
    <3>1. PICK p \in queue : Requires(n, p)
      BY <1>18
    <3>2. n \in fired_ids /\ p \in fired_ids /\ p \notin Staged
      BY <1>10, <1>11
    <3> QED BY <3>1, <3>2, <1>16, <1>17
  <2>2. queue' = {n \in left \ queue : EdgesFrom(left \ queue, n) = 0}
    BY <2>1, <1>1, <1>8, <1>9, <1>11
  <2> QED BY <2>2, <1>1, <1>2, <1>11, <1>14 DEF Ready
<1>20. ProcessedIsAcyclic'
  BY <1>1, <1>2, <1>4, <1>5 DEF IInv, ProcessedIsAcyclic
<1>21. StagesSoFar'
  <2>1. \A j, k \in 1..(last + 1) : \A n \in stages'[j] : n \in stages'[k] => j = k
    <3>1. \A k \in 1..last : \A n \in stages[k] : n \notin queue
      BY <1>6, <1>10 DEF Staged
    <3>2. \A j, k \in 1..last : \A n \in stages[j] : n \in stages[k] => j = k
      BY DEF IInv, StagesSoFar
    <3> QED BY <3>1, <3>2, <1>6, <1>12
  <2>2. ASSUME NEW k \in 1..(last + 1), NEW n \in stages'[k]
        PROVE  /\ \A p \in fired_ids : Requires(n, p) => \E j \in 1..(k - 1) : p \in stages'[j]
               /\ k > 1 => \E p \in stages'[k - 1] : Requires(n, p)
    <3>1. CASE k \in 1..last
      <4>1. n \in stages[k]
        BY <3>1, <1>12
      <4>2. /\ \A p \in fired_ids : Requires(n, p) => \E j \in 1..(k - 1) : p \in stages[j]
            /\ k > 1 => \E p \in stages[k - 1] : Requires(n, p)
        BY <3>1, <4>1 DEF IInv, StagesSoFar
      <4>3. \A j \in 1..(k - 1) : j \in 1..last /\ stages'[j] = stages[j]
        BY <3>1, <1>6, <1>12
      <4>4. k > 1 => k - 1 \in 1..(k - 1)
        BY <3>1, <1>6
      <4> QED BY <4>2, <4>3, <4>4
    <3>2. CASE k = last + 1
      <4>1. n \in queue
        BY <3>2, <1>12
      <4>2. \A p \in fired_ids : Requires(n, p) => \E j \in 1..last : p \in stages'[j]
        BY <4>1, <1>6, <1>12, <1>16 DEF Staged
      <4>3. k > 1 => stages # <<>> /\ last \in 1..last
        BY <3>2, <1>6
      <4>4. k > 1 => \E p \in stages'[last] : Requires(n, p)
        BY <4>1, <4>3, <1>1, <1>12 DEF IInv, StagesSoFar
      <4>5. k - 1 = last
        BY <3>2, <1>6
      <4> QED BY <4>2, <4>4, <4>5
    <3> QED BY <3>1, <3>2, <1>6
  <2>3. \A n \in queue' : \E p \in stages'[Len(stages')] : Requires(n, p)
    BY <1>1, <1>12, <1>18
  <2> QED BY <2>1, <2>2, <2>3, <1>1, <1>2, <1>5, <1>12 DEF StagesSoFar
<1> QED BY <1>1, <1>7, <1>15, <1>19, <1>20, <1>21 DEF IInv, CyclicIsTheRest

\* No rule is left out: those left would wait for one another.
LEMMA StartPathsIInv == IInv /\ StartPaths => IInv'
<1> SUFFICES ASSUME IInv, StartPaths PROVE IInv'
  OBVIOUS
<1>1. /\ phase = "stage" /\ phase' = "path" /\ queue = {}
      /\ fired_rules' = fired_rules /\ stages' = stages /\ processed' = processed
  BY DEF StartPaths
<1>2. fired_ids' = fired_ids /\ Staged' = Staged
  BY <1>1 DEF fired_ids, Staged
<1>3. \A S : WaitsWithin(S)' <=> WaitsWithin(S)
  BY <1>1 DEF WaitsWithin, fired_ids, Requires, Prerequisites
<1>4. \A n, p : Requires(n, p)' <=> Requires(n, p)
  BY <1>1 DEF Requires, Prerequisites
<1> DEFINE left == fired_ids \ Staged
<1>5. \A n \in left : \E p \in left : Requires(n, p)
  <2> TAKE n \in left
  <2>1. n \in fired_ids /\ remaining[n] = EdgesFrom(left, n) /\ remaining[n] # 0
    BY <1>1 DEF IInv, Counted, Ready
  <2> QED BY <2>1, EdgesCount DEF IInv
<1>6. WaitsWithin(left)
  BY <1>5 DEF WaitsWithin
<1>7. left \cap fired_ids = {}
  BY <1>1, <1>6 DEF IInv, ProcessedIsAcyclic
<1>8. Staged = fired_ids
  <2>1. Staged \subseteq fired_ids
    BY DEF IInv, StagesSoFar, Staged
  <2> QED BY <2>1, <1>7
<1>9. StagesSoFar'
  <2>1. StagesSoFar /\ Staged' = fired_ids'
    BY <1>2, <1>8 DEF IInv
  <2> QED BY <1>1, <1>2, <1>4, <2>1 DEF StagesSoFar
<1>10. ProcessedIsAcyclic'
  BY <1>1, <1>2, <1>3, <1>4 DEF IInv, ProcessedIsAcyclic
<1> QED BY <1>1, <1>9, <1>10 DEF IInv, Counted, Ready, CyclicIsTheRest

\* The relaxation and the end leave the stages alone.
LEMMA PathIInv == IInv /\ (Relax \/ Finish \/ UNCHANGED svars) => IInv'
<1> SUFFICES ASSUME IInv, Relax \/ Finish \/ UNCHANGED svars PROVE IInv'
  OBVIOUS
<1>1. /\ fired_rules' = fired_rules /\ stages' = stages /\ processed' = processed
      /\ remaining' = remaining /\ cyclic' = cyclic
      /\ (phase' = phase /\ queue' = queue) \/ (phase = "path" /\ phase' \in {"path", "done"})
  BY DEF Relax, Finish, svars
<1>2. fired_ids' = fired_ids /\ Staged' = Staged
  BY <1>1 DEF fired_ids, Staged
<1>3. \A S, n : EdgesFrom(S, n)' = EdgesFrom(S, n)
  BY <1>1 DEF EdgesFrom, PlacesIn, Prerequisites
<1>4. \A S : WaitsWithin(S)' <=> WaitsWithin(S)
  BY <1>1 DEF WaitsWithin, fired_ids, Requires, Prerequisites
<1>5. \A n, p : Requires(n, p)' <=> Requires(n, p)
  BY <1>1 DEF Requires, Prerequisites
<1>6. Counted' /\ Ready' /\ CyclicIsTheRest'
  BY <1>1, <1>2, <1>3 DEF IInv, Counted, Ready, CyclicIsTheRest
<1>7. ProcessedIsAcyclic'
  BY <1>1, <1>2, <1>4, <1>5 DEF IInv, ProcessedIsAcyclic
<1>8. StagesSoFar'
  <2>1. StagesSoFar
    BY DEF IInv
  <2>2. /\ phase' \in {"called", "detect", "raised"} => stages = <<>>
        /\ phase' \in {"path", "done"} => Staged = fired_ids
        /\ phase' = "stage" => phase = "stage" /\ queue' = queue
    BY <1>1, <2>1 DEF StagesSoFar
  <2>3. \A k \in 1..Len(stages) : \A n \in stages[k] :
          /\ \A p \in fired_ids : Requires(n, p)' => \E j \in 1..(k - 1) : p \in stages[j]
          /\ k > 1 => \E p \in stages[k - 1] : Requires(n, p)'
    BY <1>5, <2>1 DEF StagesSoFar
  <2>4. phase' = "stage" /\ stages # <<>> =>
          \A n \in queue' : \E p \in stages[Len(stages)] : Requires(n, p)'
    BY <1>5, <2>1, <2>2 DEF StagesSoFar
  <2> QED BY <1>1, <1>2, <2>1, <2>2, <2>3, <2>4 DEF StagesSoFar
<1> QED BY <1>1, <1>6, <1>7, <1>8 DEF IInv

\* The invariant of the whole run, for every list of fired rules.
THEOREM Invariance == Spec => []IInv
<1>1. ASSUME IInv, [Next]_svars PROVE IInv'
  <2>1. CASE BuildGraph BY <1>1, <2>1, BuildGraphIInv
  <2>2. CASE Detect BY <1>1, <2>2, DetectIInv
  <2>3. CASE RaiseCycle BY <1>1, <2>3, RaiseCycleIInv
  <2>4. CASE StartStages BY <1>1, <2>4, StartStagesIInv
  <2>5. CASE AddStage BY <1>1, <2>5, AddStageIInv
  <2>6. CASE StartPaths BY <1>1, <2>6, StartPathsIInv
  <2>7. CASE Relax \/ Finish \/ UNCHANGED svars BY <1>1, <2>7, PathIInv
  <2> QED BY <1>1, <2>1, <2>2, <2>3, <2>4, <2>5, <2>6, <2>7 DEF Next
<1> QED BY <1>1, InitIInv, PTL DEF Spec

\* The invariant yields the report of cycles.
LEMMA CyclesFromInvariant == IInv => CycleIsReported
<1> SUFFICES ASSUME IInv PROVE CycleIsReported
  OBVIOUS
<1> DEFINE left == fired_ids \ processed
<1>1. ASSUME phase = "raised"
      PROVE  /\ cyclic # {}
             /\ WaitsWithin(cyclic)
             /\ \A S \in SUBSET fired_ids : WaitsWithin(S) => S \subseteq cyclic
  <2>1. \A n \in fired_ids : /\ remaining[n] = EdgesFrom(left, n)
                             /\ EdgesFrom(left, n) \in Nat
                             /\ EdgesFrom(left, n) = 0 <=> \A p \in left : ~ Requires(n, p)
    BY <1>1, EdgesCount DEF IInv, Counted
  <2>2. \A n \in processed : EdgesFrom(left, n) = 0
    BY <2>1 DEF IInv, ProcessedIsAcyclic
  <2>3. cyclic = left
    <3>1. cyclic = {n \in fired_ids : remaining[n] > 0}
      BY <1>1 DEF IInv, CyclicIsTheRest
    <3>2. \A n \in left : remaining[n] > 0
      BY <1>1, <2>1 DEF IInv, CyclicIsTheRest
    <3>3. \A n \in fired_ids : remaining[n] > 0 => n \in left
      BY <2>1, <2>2
    <3> QED BY <3>1, <3>2, <3>3
  <2>4. \A n \in left : \E p \in left : Requires(n, p)
    BY <1>1, <2>1 DEF IInv, CyclicIsTheRest
  <2>5. WaitsWithin(cyclic)
    BY <2>3, <2>4 DEF WaitsWithin
  <2>6. cyclic # {}
    BY <1>1, <2>3 DEF IInv, CyclicIsTheRest, ProcessedIsAcyclic
  <2>7. \A S \in SUBSET fired_ids : WaitsWithin(S) => S \subseteq cyclic
    BY <2>3 DEF IInv, ProcessedIsAcyclic
  <2> QED BY <2>5, <2>6, <2>7
<1>2. ASSUME phase \in {"stage", "path", "done"}
      PROVE  \A S \in SUBSET fired_ids : WaitsWithin(S) => S = {}
  BY <1>2 DEF IInv, ProcessedIsAcyclic
<1> QED BY <1>1, <1>2 DEF CycleIsReported

\* The sequencer raises exactly on the rulesets it must, and names the largest
\* set of rules that wait for one another.
THEOREM CyclesAreReported == Spec => []CycleIsReported
BY Invariance, CyclesFromInvariant, PTL

\* Every prerequisite is in an earlier stage, and no stage is late.
THEOREM StagesRespectPrerequisites == Spec => []StagesAreEarliest
<1>1. IInv => StagesAreEarliest
  <2> SUFFICES ASSUME IInv PROVE StagesAreEarliest
    OBVIOUS
  <2>1. DOMAIN stages = 1..Len(stages)
    BY DEF IInv, StagesSoFar
  <2> QED BY <2>1 DEF IInv, StagesSoFar, StagesAreEarliest
<1> QED BY <1>1, Invariance, PTL

-----------------------------------------------------------------------------

OnPaths == phase \in {"path", "done"}

\* The stage of a rule.
StageOf(n) == CHOOSE k \in 1..Len(stages) : n \in stages[k]

\* A rule has one stage.
LEMMA StageIsUnique ==
  ASSUME IInv, OnPaths, NEW n \in Staged
  PROVE  /\ StageOf(n) \in 1..Len(stages) /\ n \in stages[StageOf(n)]
         /\ \A k \in 1..Len(stages) : n \in stages[k] => k = StageOf(n)
<1>1. StagesSoFar /\ DOMAIN stages = 1..Len(stages)
  BY DEF IInv, StagesSoFar
<1>2. \E k \in 1..Len(stages) : n \in stages[k]
  BY <1>1 DEF Staged
<1>3. StageOf(n) \in 1..Len(stages) /\ n \in stages[StageOf(n)]
  BY <1>2 DEF StageOf
<1> QED BY <1>1, <1>3 DEF StagesSoFar

\* A prerequisite is staged before the rule.
LEMMA PrerequisitesAreEarlier ==
  ASSUME IInv, OnPaths, NEW n \in Staged, NEW p \in Staged, Requires(n, p)
  PROVE  StageOf(p) < StageOf(n)
<1>1. Staged = fired_ids /\ Len(stages) \in Nat
  BY DEF IInv, StagesSoFar, OnPaths
<1>2. PICK k : k = StageOf(n)
  OBVIOUS
<1>3. k \in 1..Len(stages) /\ n \in stages[k]
  BY <1>2, StageIsUnique
<1>4. PICK j \in 1..(k - 1) : p \in stages[j]
  BY <1>1, <1>3 DEF IInv, StagesSoFar
<1>5. j \in 1..Len(stages) /\ j < k
  BY <1>1, <1>3
<1>6. j = StageOf(p)
  BY <1>4, <1>5, StageIsUnique
<1> QED BY <1>2, <1>5, <1>6

\* What comes before in the order of the relaxation is in no later stage.
LEMMA OrderFollowsStages ==
  ASSUME IInv, OnPaths, NEW m \in Staged, NEW n \in Staged, TopoBefore(m, n)
  PROVE  StageOf(m) <= StageOf(n)
<1>1. DOMAIN stages = 1..Len(stages) /\ Len(stages) \in Nat
  BY DEF IInv, StagesSoFar
<1>2. PICK j, k \in 1..Len(stages) : m \in stages[j] /\ n \in stages[k] /\ j <= k
  BY <1>1 DEF TopoBefore
<1>3. j = StageOf(m) /\ k = StageOf(n)
  BY <1>2, StageIsUnique
<1> QED BY <1>2, <1>3

\* The fired rules are finitely many and their lead times are naturals.
LEMMA RulesAreFinite ==
  ASSUME IInv, OnPaths
  PROVE  /\ IsFiniteSet(Staged) /\ Staged = fired_ids /\ NoRule \notin Staged
         /\ \A n \in Staged : lead_time(n) \in Nat
<1>1. Staged = fired_ids /\ fired_rules \in Requests
  BY DEF IInv, StagesSoFar, OnPaths
<1>2. IsFiniteSet(fired_ids) /\ fired_ids \subseteq RuleId
  BY <1>1, RequestsAssumption DEF fired_ids
<1>3. \A n \in fired_ids : lead_time(n) \in Nat
  BY <1>1, RequestsAssumption DEF fired_ids, lead_time
<1>4. NoRule \notin Nat
  BY DEF NoRule
<1> QED BY <1>1, <1>2, <1>3, <1>4, RequestsAssumption

-----------------------------------------------------------------------------

\* The distance of a rule is what its predecessor hands on.
HandedOn ==
  \A n \in Staged :
    IF predecessor_on_path[n] = NoRule THEN dist[n] = lead_time(n)
    ELSE /\ predecessor_on_path[n] \in Staged \ queue
         /\ Requires(n, predecessor_on_path[n])
         /\ dist[n] = dist[predecessor_on_path[n]] + lead_time(n)

\* No rule that was dealt with can improve the distance of another.
Settled ==
  /\ \A n \in Staged : dist[n] >= lead_time(n)
  /\ \A m \in Staged \ queue, n \in Staged :
       Requires(n, m) => dist[n] >= dist[m] + lead_time(n)

\* The relaxation, up to the rules that are left in the queue.
PathInv ==
  OnPaths =>
    /\ queue \subseteq Staged
    /\ \A m \in Staged \ queue, n \in queue : TopoBefore(m, n)
    /\ dist \in [Staged -> Nat]
    /\ predecessor_on_path \in [Staged -> Staged \cup {NoRule}]
    /\ HandedOn
    /\ Settled
    /\ phase = "done" => /\ queue = {}
                         /\ critical_ids = UNION {Chain[n] : n \in {m \in Staged : dist[m] = total_days}}

\* The distances start as the lead times alone.
LEMMA StartPathsPathInv == IInv /\ IInv' /\ StartPaths => PathInv'
<1> SUFFICES ASSUME IInv, IInv', StartPaths PROVE PathInv'
  OBVIOUS
<1>1. /\ phase' = "path" /\ queue' = Staged /\ Staged' = Staged /\ fired_rules' = fired_rules
      /\ dist' = [n \in Staged |-> lead_time(n)]
      /\ predecessor_on_path' = [n \in Staged |-> NoRule]
  BY DEF StartPaths, Staged
<1>2. OnPaths'
  BY <1>1 DEF OnPaths
<1>3. \A n \in Staged : lead_time(n) \in Nat
  <2>1. \A n \in Staged : n \in fired_ids
    BY DEF IInv, StagesSoFar, Staged
  <2> QED BY <2>1, RequestsAssumption DEF IInv, fired_ids, lead_time
<1>4. \A n : lead_time(n)' = lead_time(n)
  BY <1>1 DEF lead_time
<1>5. dist' \in [Staged' -> Nat] /\ predecessor_on_path' \in [Staged' -> Staged' \cup {NoRule}]
  BY <1>1, <1>3
<1>6. HandedOn'
  BY <1>1, <1>4 DEF HandedOn
<1>7. Settled'
  BY <1>1, <1>3, <1>4 DEF Settled
<1> QED BY <1>1, <1>5, <1>6, <1>7 DEF PathInv

\* Relaxing the successors of a rule keeps what is known of the paths.
LEMMA RelaxPathInv == IInv /\ PathInv /\ Relax => PathInv'
<1> SUFFICES ASSUME IInv, PathInv, Relax PROVE PathInv'
  OBVIOUS
<1>1. PICK node \in queue :
        /\ \A other \in queue \ {node} : TopoBefore(node, other)
        /\ queue' = queue \ {node}
        /\ dist' = [s \in Staged |->
             IF Improves(node, s) THEN Candidate(node, s) ELSE dist[s]]
        /\ predecessor_on_path' = [s \in Staged |->
             IF Improves(node, s) THEN node ELSE predecessor_on_path[s]]
  BY DEF Relax
<1>2. /\ phase = "path" /\ phase' = "path" /\ fired_rules' = fired_rules /\ stages' = stages
      /\ OnPaths
  BY DEF Relax, OnPaths
<1>3. /\ Staged' = Staged
      /\ \A n : lead_time(n)' = lead_time(n)
      /\ \A m, n : Requires(m, n)' = Requires(m, n) /\ TopoBefore(m, n)' = TopoBefore(m, n)
  BY <1>2 DEF Staged, lead_time, Requires, Prerequisites, TopoBefore
<1>4. /\ queue \subseteq Staged /\ node \in Staged
      /\ \A m \in Staged \ queue, n \in queue : TopoBefore(m, n)
      /\ dist \in [Staged -> Nat]
      /\ predecessor_on_path \in [Staged -> Staged \cup {NoRule}]
      /\ HandedOn /\ Settled
  BY <1>1, <1>2 DEF PathInv
<1>5. \A n \in Staged : lead_time(n) \in Nat
  BY <1>2, RulesAreFinite
<1>6. \A n \in Staged : StageOf(n) \in Nat
  <2>1. Len(stages) \in Nat
    BY DEF IInv, StagesSoFar
  <2> QED BY <1>2, <2>1, StageIsUnique
<1>7. ASSUME NEW s \in Staged, Improves(node, s)
      PROVE  s \in queue /\ s # node
  <2>1. StageOf(node) < StageOf(s)
    BY <1>2, <1>4, <1>7, PrerequisitesAreEarlier DEF Improves
  <2>2. ASSUME s \notin queue PROVE FALSE
    <3>1. TopoBefore(s, node)
      BY <1>1, <1>4, <2>2
    <3>2. StageOf(s) <= StageOf(node)
      BY <1>2, <1>4, <3>1, OrderFollowsStages
    <3> QED BY <1>4, <1>6, <2>1, <3>2
  <2> QED BY <1>4, <1>6, <2>1, <2>2
<1>8. \A s \in Staged \ queue' : dist'[s] = dist[s] /\ predecessor_on_path'[s] = predecessor_on_path[s]
  BY <1>1, <1>4, <1>7
<1>9. \A s \in Staged : /\ dist'[s] \in Nat
                        /\ dist'[s] >= dist[s]
                        /\ Requires(s, node) => dist'[s] >= dist[node] + lead_time(s)
  <2> TAKE s \in Staged
  <2>1. dist[s] \in Nat /\ dist[node] \in Nat /\ lead_time(s) \in Nat
    BY <1>4, <1>5
  <2>2. CASE Improves(node, s)
    <3>1. dist'[s] = dist[node] + lead_time(s) /\ dist[node] + lead_time(s) > dist[s]
      BY <1>1, <2>2 DEF Improves, Candidate
    <3> QED BY <2>1, <3>1
  <2>3. CASE ~ Improves(node, s)
    <3>1. dist'[s] = dist[s] /\ (Requires(s, node) => ~ (dist[node] + lead_time(s) > dist[s]))
      BY <1>1, <2>3 DEF Improves, Candidate
    <3> QED BY <2>1, <3>1
  <2> QED BY <2>2, <2>3
<1>10. dist' \in [Staged' -> Nat] /\ predecessor_on_path' \in [Staged' -> Staged' \cup {NoRule}]
  <2>1. dist' \in [Staged -> Nat]
    BY <1>1, <1>9
  <2>2. predecessor_on_path' \in [Staged -> Staged \cup {NoRule}]
    BY <1>1, <1>4
  <2> QED BY <1>3, <2>1, <2>2
<1>11. HandedOn'
  <2> SUFFICES ASSUME NEW n \in Staged
      PROVE IF predecessor_on_path'[n] = NoRule THEN dist'[n] = lead_time(n)
            ELSE /\ predecessor_on_path'[n] \in Staged \ queue'
                 /\ Requires(n, predecessor_on_path'[n])
                 /\ dist'[n] = dist'[predecessor_on_path'[n]] + lead_time(n)
    BY <1>3 DEF HandedOn
  <2>1. CASE Improves(node, n)
    <3>1. predecessor_on_path'[n] = node /\ dist'[n] = dist[node] + lead_time(n) /\ Requires(n, node)
      BY <1>1, <2>1 DEF Improves, Candidate
    <3>2. node \in Staged \ queue' /\ dist'[node] = dist[node] /\ node # NoRule
      BY <1>1, <1>2, <1>4, <1>8, RulesAreFinite
    <3> QED BY <3>1, <3>2
  <2>2. CASE ~ Improves(node, n)
    <3>1. predecessor_on_path'[n] = predecessor_on_path[n] /\ dist'[n] = dist[n]
      BY <1>1, <2>2
    <3>2. CASE predecessor_on_path[n] = NoRule
      BY <1>4, <3>1, <3>2 DEF HandedOn
    <3>3. CASE predecessor_on_path[n] # NoRule
      <4>1. /\ predecessor_on_path[n] \in Staged \ queue
            /\ Requires(n, predecessor_on_path[n])
            /\ dist[n] = dist[predecessor_on_path[n]] + lead_time(n)
        BY <1>4, <3>3 DEF HandedOn
      <4>2. /\ predecessor_on_path[n] \in Staged \ queue'
            /\ dist'[predecessor_on_path[n]] = dist[predecessor_on_path[n]]
        BY <1>1, <1>8, <4>1
      <4> QED BY <3>1, <3>3, <4>1, <4>2
    <3> QED BY <3>2, <3>3
  <2> QED BY <2>1, <2>2
<1>12. Settled'
  <2>1. ASSUME NEW n \in Staged PROVE dist'[n] >= lead_time(n)
    <3>1. dist[n] \in Nat /\ lead_time(n) \in Nat /\ dist[n] >= lead_time(n) /\ dist'[n] >= dist[n] /\ dist'[n] \in Nat
      BY <1>4, <1>5, <1>9 DEF Settled
    <3> QED BY <3>1
  <2>2. ASSUME NEW m \in Staged \ queue', NEW n \in Staged, Requires(n, m)
        PROVE  dist'[n] >= dist'[m] + lead_time(n)
    <3>1. dist'[m] = dist[m] /\ dist[m] \in Nat /\ lead_time(n) \in Nat
          /\ dist[n] \in Nat /\ dist'[n] \in Nat /\ dist'[n] >= dist[n]
      BY <1>4, <1>5, <1>8, <1>9
    <3>2. CASE m = node
      BY <1>9, <2>2, <3>1, <3>2
    <3>3. CASE m # node
      <4>1. m \in Staged \ queue
        BY <1>1, <3>3
      <4>2. dist[n] >= dist[m] + lead_time(n)
        BY <1>4, <2>2, <4>1 DEF Settled
      <4> QED BY <3>1, <4>2
    <3> QED BY <3>2, <3>3
  <2> QED BY <1>3, <2>1, <2>2 DEF Settled
<1>13. queue' \subseteq Staged' /\ \A m \in Staged' \ queue', n \in queue' : TopoBefore(m, n)'
  BY <1>1, <1>3, <1>4
<1> QED BY <1>2, <1>10, <1>11, <1>12, <1>13 DEF PathInv

\* Reading off the critical path keeps it too.
LEMMA FinishPathInv == IInv /\ PathInv /\ Finish => PathInv'
<1> SUFFICES ASSUME IInv, PathInv, Finish PROVE PathInv'
  OBVIOUS
<1>1. /\ phase = "path" /\ phase' = "done" /\ queue = {} /\ queue' = queue
      /\ critical_ids' = UNION {Chain[n] : n \in {m \in Staged : dist[m] = total_days}}
      /\ fired_rules' = fired_rules /\ stages' = stages /\ dist' = dist
      /\ predecessor_on_path' = predecessor_on_path
  BY DEF Finish
<1>2. /\ Staged' = Staged /\ Chain' = Chain /\ total_days' = total_days
      /\ \A n : lead_time(n)' = lead_time(n)
      /\ \A m, n : Requires(m, n)' = Requires(m, n) /\ TopoBefore(m, n)' = TopoBefore(m, n)
  BY <1>1 DEF Staged, Chain, total_days, lead_time, Requires, Prerequisites, TopoBefore
<1>3. OnPaths
  BY <1>1 DEF OnPaths
<1>4. HandedOn' /\ Settled'
  BY <1>1, <1>2, <1>3 DEF PathInv, HandedOn, Settled
<1> QED BY <1>1, <1>2, <1>3, <1>4 DEF PathInv

\* The invariant of the relaxation, for every list of fired rules.
THEOREM PathsInvariance == Spec => [](IInv /\ PathInv)
<1>1. Init => PathInv
  BY DEF Init, PathInv, OnPaths
<1>2. ASSUME IInv, PathInv, IInv', [Next]_svars PROVE PathInv'
  <2>1. CASE StartPaths BY <1>2, <2>1, StartPathsPathInv
  <2>2. CASE Relax BY <1>2, <2>2, RelaxPathInv
  <2>3. CASE Finish BY <1>2, <2>3, FinishPathInv
  <2>4. CASE UNCHANGED svars
    <3>1. /\ Staged' = Staged /\ Chain' = Chain /\ total_days' = total_days
          /\ \A n : lead_time(n)' = lead_time(n)
          /\ \A m, n : Requires(m, n)' = Requires(m, n) /\ TopoBefore(m, n)' = TopoBefore(m, n)
      BY <2>4 DEF svars, Staged, Chain, total_days, lead_time, Requires, Prerequisites, TopoBefore
    <3>2. phase' = phase /\ queue' = queue /\ dist' = dist
          /\ predecessor_on_path' = predecessor_on_path /\ critical_ids' = critical_ids
      BY <2>4 DEF svars
    <3>3. CASE OnPaths
      <4>1. HandedOn' /\ Settled'
        BY <1>2, <3>1, <3>2, <3>3 DEF PathInv, HandedOn, Settled
      <4> QED BY <1>2, <3>1, <3>2, <3>3, <4>1 DEF PathInv
    <3>4. CASE ~ OnPaths
      BY <3>2, <3>4 DEF PathInv, OnPaths
    <3> QED BY <3>3, <3>4
  <2>5. CASE BuildGraph \/ Detect \/ RaiseCycle \/ StartStages \/ AddStage
    <3>1. phase' \notin {"path", "done"}
      BY <2>5 DEF BuildGraph, Detect, RaiseCycle, StartStages, AddStage
    <3> QED BY <3>1 DEF PathInv, OnPaths
  <2> QED BY <1>2, <2>1, <2>2, <2>3, <2>4, <2>5 DEF Next
<1> QED BY <1>1, <1>2, Invariance, PTL DEF Spec

-----------------------------------------------------------------------------

\* The chain of a rule is the rule and the chain of its predecessor.
LEMMA ChainsExist ==
  ASSUME predecessor_on_path \in [Staged -> Staged \cup {NoRule}]
  PROVE  \A n \in Staged :
           Chain[n] = {n} \cup (IF predecessor_on_path[n] = NoRule
                                THEN {} ELSE Chain[predecessor_on_path[n]])
<1> DEFINE pred(n) == predecessor_on_path[n]
           IsChain(h) == h = [n \in Staged |->
             {n} \cup (IF predecessor_on_path[n] = NoRule THEN {} ELSE h[predecessor_on_path[n]])]
           closed(S) == \A x \in S : pred(x) # NoRule => pred(x) \in S
           least(n) == {m \in Staged : \A S \in SUBSET Staged : n \in S /\ closed(S) => m \in S}
           h == [n \in Staged |-> least(n)]
<1>1. ASSUME NEW n \in Staged PROVE n \in least(n) /\ closed(least(n)) /\ least(n) \subseteq Staged
  <2>1. n \in least(n) /\ least(n) \subseteq Staged
    OBVIOUS
  <2>2. ASSUME NEW x \in least(n), pred(x) # NoRule PROVE pred(x) \in least(n)
    <3>1. x \in Staged /\ pred(x) \in Staged
      BY <2>2
    <3>2. ASSUME NEW S \in SUBSET Staged, n \in S, closed(S) PROVE pred(x) \in S
      BY <2>2, <3>2
    <3> QED BY <3>1, <3>2
  <2> QED BY <2>1, <2>2
<1>2. ASSUME NEW n \in Staged, NEW S \in SUBSET Staged, n \in S, closed(S) PROVE least(n) \subseteq S
  BY <1>2
<1>3. ASSUME NEW n \in Staged
      PROVE  least(n) = {n} \cup (IF pred(n) = NoRule THEN {} ELSE least(pred(n)))
  <2> HIDE DEF least
  <2>1. CASE pred(n) = NoRule
    <3>1. closed({n}) /\ {n} \in SUBSET Staged
      BY <2>1
    <3>2. least(n) \subseteq {n}
      BY <1>2, <3>1
    <3> QED BY <1>1, <2>1, <3>2
  <2>2. CASE pred(n) # NoRule
    <3>1. pred(n) \in Staged
      BY <2>2
    <3>2. pred(n) \in least(pred(n)) /\ closed(least(pred(n))) /\ least(pred(n)) \subseteq Staged
      BY <1>1, <3>1
    <3>3. closed({n} \cup least(pred(n))) /\ {n} \cup least(pred(n)) \in SUBSET Staged
      BY <3>2
    <3>4. least(n) \subseteq {n} \cup least(pred(n))
      BY <1>2, <3>3
    <3>5. n \in least(n) /\ pred(n) \in least(n) /\ closed(least(n)) /\ least(n) \in SUBSET Staged
      BY <1>1, <2>2
    <3>6. least(pred(n)) \subseteq least(n)
      BY <1>2, <3>1, <3>5
    <3> QED BY <2>2, <3>4, <3>5, <3>6
  <2> QED BY <2>1, <2>2
<1>4. IsChain(h)
  <2> HIDE DEF least
  <2>1. ASSUME NEW n \in Staged
        PROVE  least(n) = {n} \cup (IF predecessor_on_path[n] = NoRule THEN {} ELSE h[predecessor_on_path[n]])
    <3>1. pred(n) # NoRule => h[pred(n)] = least(pred(n))
      OBVIOUS
    <3>2. least(n) = {n} \cup (IF pred(n) = NoRule THEN {} ELSE least(pred(n)))
      BY <1>3
    <3> QED BY <3>1, <3>2
  <2> QED BY <2>1
<1>5. \E g : IsChain(g)
  <2> HIDE DEF IsChain
  <2> QED BY <1>4
<1>6. IsChain(Chain)
  <2> HIDE DEF h
  <2> QED BY <1>5, Zenon DEF Chain
<1> QED BY <1>6

-----------------------------------------------------------------------------

\* The running sums of the lead times of the first k rules of p.
IsSum(f, p, k) ==
  f = [i \in 0..k |-> IF i = 0 THEN 0 ELSE f[i - 1] + lead_time(p[i])]

\* The running sums along a path exist.
LEMMA SumsExist ==
  ASSUME NEW p, NEW k \in Nat
  PROVE  \E f : IsSum(f, p, k)
<1> DEFINE none == {i \in Nat : ~ \E f : IsSum(f, p, i)}
<1> SUFFICES ASSUME none # {} PROVE FALSE
  OBVIOUS
<1>1. PICK m \in none : \A i \in none : m <= i
  <2>1. none \in SUBSET Nat
    OBVIOUS
  <2> HIDE DEF none
  <2> QED BY <2>1, LeastNatural
<1>2. m \in Nat /\ ~ \E f : IsSum(f, p, m)
  OBVIOUS
<1>3. CASE m = 0
  <2>1. IsSum([i \in 0..0 |-> 0], p, 0)
    BY DEF IsSum
  <2> QED BY <1>2, <1>3, <2>1
<1>4. CASE m # 0
  <2>1. m - 1 \in Nat /\ m - 1 \notin none
    BY <1>1, <1>2, <1>4
  <2>2. PICK f : IsSum(f, p, m - 1)
    BY <2>1
  <2> DEFINE g == [i \in 0..m |-> IF i = m THEN f[m - 1] + lead_time(p[m]) ELSE f[i]]
  <2>3. /\ \A i \in 0..(m - 1) : g[i] = f[i]
        /\ g[m] = f[m - 1] + lead_time(p[m])
    BY <1>2, <2>1
  <2>4. g = [i \in 0..m |-> g[i]]
    OBVIOUS
  <2> HIDE DEF g
  <2>5. ASSUME NEW i \in 0..m
        PROVE  g[i] = IF i = 0 THEN 0 ELSE g[i - 1] + lead_time(p[i])
    <3>1. CASE i = m
      <4>1. m - 1 \in 0..(m - 1)
        BY <2>1
      <4> QED BY <1>4, <2>3, <3>1, <4>1
    <3>2. CASE i # m
      <4>1. i \in 0..(m - 1) /\ (i # 0 => i - 1 \in 0..(m - 1))
        BY <1>2, <3>2
      <4>2. f[i] = IF i = 0 THEN 0 ELSE f[i - 1] + lead_time(p[i])
        BY <2>2, <4>1 DEF IsSum
      <4> QED BY <2>3, <4>1, <4>2
    <3> QED BY <3>1, <3>2
  <2>6. IsSum(g, p, m)
    BY <2>4, <2>5 DEF IsSum
  <2> QED BY <1>2, <2>6
<1> QED BY <1>3, <1>4

\* Sums of the same rules are the same.
LEMMA SumsAgree ==
  ASSUME NEW p, NEW k \in Nat, NEW f, IsSum(f, p, k), NEW g, IsSum(g, p, k)
  PROVE  f[k] = g[k]
<1> DEFINE none == {i \in 0..k : f[i] # g[i]}
<1>1. none = {}
  <2> SUFFICES ASSUME none # {} PROVE FALSE
    OBVIOUS
  <2>1. PICK m \in none : \A i \in none : m <= i
    <3>1. none \in SUBSET Nat
      OBVIOUS
    <3> HIDE DEF none
    <3> QED BY <3>1, LeastNatural
  <2>2. m \in 0..k /\ f[m] # g[m]
    OBVIOUS
  <2>3. /\ f[m] = IF m = 0 THEN 0 ELSE f[m - 1] + lead_time(p[m])
        /\ g[m] = IF m = 0 THEN 0 ELSE g[m - 1] + lead_time(p[m])
    BY <2>2 DEF IsSum
  <2>4. m # 0 => m - 1 \in 0..k /\ m - 1 \notin none
    BY <2>1, <2>2
  <2>5. m # 0 => f[m - 1] = g[m - 1]
    BY <2>4
  <2> HIDE DEF none
  <2> QED BY <2>2, <2>3, <2>5
<1> QED BY <1>1

\* Days is the last of the sums.
LEMMA DaysIsSum ==
  ASSUME NEW p, Len(p) \in Nat
  PROVE  \E f : IsSum(f, p, Len(p)) /\ Days(p) = f[Len(p)]
<1> DEFINE days == CHOOSE f : f = [i \in 0..Len(p) |-> IF i = 0 THEN 0 ELSE f[i - 1] + lead_time(p[i])]
<1>1. \E f : f = [i \in 0..Len(p) |-> IF i = 0 THEN 0 ELSE f[i - 1] + lead_time(p[i])]
  BY SumsExist DEF IsSum
<1>2. days = [i \in 0..Len(p) |-> IF i = 0 THEN 0 ELSE days[i - 1] + lead_time(p[i])]
  BY <1>1, Zenon
<1>3. Days(p) = days[Len(p)]
  BY Zenon DEF Days
<1> HIDE DEF days
<1> QED BY <1>2, <1>3 DEF IsSum

-----------------------------------------------------------------------------

\* A way through k rules to n, along prerequisites.
IsWay(q, k, n) ==
  /\ k \in Nat \ {0}
  /\ q \in [1..k -> Staged]
  /\ q[k] = n
  /\ \A i \in 2..k : Requires(q[i], q[i - 1])

\* The stages go up along a way.
LEMMA WaysGoUp ==
  ASSUME IInv, OnPaths, NEW q, NEW k, NEW n, IsWay(q, k, n), NEW i \in 1..k
  PROVE  \A j \in (i + 1)..k : StageOf(q[i]) < StageOf(q[j])
<1> DEFINE none == {j \in (i + 1)..k : ~ (StageOf(q[i]) < StageOf(q[j]))}
<1> SUFFICES ASSUME none # {} PROVE FALSE
  OBVIOUS
<1>1. k \in Nat /\ \A j \in 1..k : q[j] \in Staged /\ StageOf(q[j]) \in Nat
  <2>1. k \in Nat /\ \A j \in 1..k : q[j] \in Staged
    BY DEF IsWay
  <2>2. Len(stages) \in Nat
    BY DEF IInv, StagesSoFar
  <2> QED BY <2>1, <2>2, StageIsUnique
<1>2. PICK m \in none : \A j \in none : m <= j
  <2>1. none \in SUBSET Nat
    BY <1>1
  <2> HIDE DEF none
  <2> QED BY <2>1, LeastNatural
<1>3. m \in (i + 1)..k /\ ~ (StageOf(q[i]) < StageOf(q[m]))
  OBVIOUS
<1>4. StageOf(q[m - 1]) < StageOf(q[m])
  <2>1. m \in 2..k /\ m \in 1..k /\ m - 1 \in 1..k
    BY <1>1, <1>3
  <2>2. Requires(q[m], q[m - 1])
    BY <2>1 DEF IsWay
  <2> QED BY <1>1, <2>1, <2>2, PrerequisitesAreEarlier
<1>5. CASE m = i + 1
  <2>1. m - 1 = i
    BY <1>5
  <2> QED BY <1>3, <1>4, <2>1
<1>6. CASE m # i + 1
  <2>1. m - 1 \in (i + 1)..k /\ m - 1 \notin none
    BY <1>1, <1>2, <1>3, <1>6
  <2>2. StageOf(q[i]) < StageOf(q[m - 1])
    BY <2>1
  <2>3. m \in 1..k /\ m - 1 \in 1..k
    BY <1>1, <1>3
  <2>4. StageOf(q[i]) \in Nat /\ StageOf(q[m]) \in Nat /\ StageOf(q[m - 1]) \in Nat
    BY <1>1, <2>3
  <2> HIDE DEF none
  <2> QED BY <1>3, <1>4, <2>2, <2>4
<1> QED BY <1>5, <1>6

\* So that a way is a path: no rule is twice on it.
LEMMA WaysArePaths ==
  ASSUME IInv, OnPaths, NEW q, NEW k, NEW n, IsWay(q, k, n)
  PROVE  q \in Paths /\ Len(q) = k
<1>1. k \in Nat \ {0} /\ q \in [1..k -> fired_ids] /\ \A i \in 2..k : Requires(q[i], q[i - 1])
  BY RulesAreFinite DEF IsWay
<1>2. \A i, j \in 1..k : i < j => q[i] # q[j]
  <2> SUFFICES ASSUME NEW i \in 1..k, NEW j \in 1..k, i < j, q[i] = q[j] PROVE FALSE
    OBVIOUS
  <2>1. j \in (i + 1)..k
    BY <1>1
  <2>2. StageOf(q[i]) < StageOf(q[j])
    BY <2>1, WaysGoUp
  <2>3. StageOf(q[i]) \in Nat
    <3>1. q[i] \in Staged
      BY DEF IsWay
    <3>2. Len(stages) \in Nat
      BY DEF IInv, StagesSoFar
    <3> QED BY <3>1, <3>2, StageIsUnique
  <2> QED BY <2>2, <2>3
<1>3. \A i, j \in 1..k : q[i] = q[j] => i = j
  <2> SUFFICES ASSUME NEW i \in 1..k, NEW j \in 1..k, q[i] = q[j], i # j PROVE FALSE
    OBVIOUS
  <2>1. i < j \/ j < i
    OBVIOUS
  <2> QED BY <1>2, <2>1
<1>4. q \in Injection(1..k, fired_ids)
  BY <1>1, <1>3 DEF Injection, IsInjective
<1>5. Cardinality(1..k) = k
  BY <1>1, FS_Interval
<1>6. IsFiniteSet(fired_ids) /\ Cardinality(fired_ids) \in Nat
  BY RulesAreFinite, FS_CardinalityType
<1>7. k <= Cardinality(fired_ids)
  BY <1>4, <1>5, <1>6, FS_Injection
<1>8. k \in 1..Cardinality(fired_ids)
  BY <1>1, <1>6, <1>7
<1>9. Len(q) = k
  BY <1>1
<1> QED BY <1>1, <1>8, <1>9 DEF Paths

\* The predecessors lead back from a rule along a way that takes its distance, and
\* whose rules are those of its chain.
ReachedBy(n, k, q, f) ==
  /\ IsWay(q, k, n)
  /\ IsSum(f, q, k)
  /\ f[k] = dist[n]
  /\ Chain[n] = {q[i] : i \in 1..k}

Reached(n) == \E k, q, f : ReachedBy(n, k, q, f)

\* A rule without a predecessor is a path by itself.
LEMMA FirstIsReached ==
  ASSUME IInv, PathInv, OnPaths, NEW n \in Staged, predecessor_on_path[n] = NoRule
  PROVE  Reached(n)
<1> DEFINE q == [i \in 1..1 |-> n]
           f == [i \in 0..1 |-> IF i = 0 THEN 0 ELSE lead_time(n)]
<1>1. dist[n] = lead_time(n) /\ lead_time(n) \in Nat
  BY RulesAreFinite DEF PathInv, HandedOn
<1>2. Chain[n] = {n}
  BY ChainsExist DEF PathInv
<1>3. \A i \in 1..1 : i = 1
  OBVIOUS
<1>4. {q[i] : i \in 1..1} = {n} /\ q[1] = n /\ q \in [1..1 -> Staged]
  BY <1>3
<1>5. IsWay(q, 1, n)
  <2> HIDE DEF q
  <2> QED BY <1>4 DEF IsWay
<1>6. f[0] = 0 /\ f[1] = lead_time(n)
  OBVIOUS
<1>7. IsSum(f, q, 1)
  <2>1. f = [i \in 0..1 |-> f[i]]
    OBVIOUS
  <2>2. \A i \in 0..1 : i = 0 \/ i = 1
    OBVIOUS
  <2> HIDE DEF f, q
  <2>3. ASSUME NEW i \in 0..1 PROVE f[i] = IF i = 0 THEN 0 ELSE f[i - 1] + lead_time(q[i])
    <3>1. 0 + lead_time(n) = lead_time(n)
      BY <1>1
    <3> QED BY <1>4, <1>6, <2>2, <3>1
  <2> QED BY <2>1, <2>3 DEF IsSum
<1> HIDE DEF f, q
<1>8. ReachedBy(n, 1, q, f)
  BY <1>1, <1>2, <1>4, <1>5, <1>6, <1>7 DEF ReachedBy
<1> QED BY <1>8 DEF Reached

\* A path to the predecessor extends to the rule.
LEMMA NextIsReached ==
  ASSUME IInv, PathInv, OnPaths, NEW n \in Staged, NEW p \in Staged,
         predecessor_on_path[n] = p, Reached(p)
  PROVE  Reached(n)
<1>1. PICK k, r, e : ReachedBy(p, k, r, e)
  BY DEF Reached
<1>2. /\ k \in Nat \ {0} /\ r \in [1..k -> Staged] /\ r[k] = p
      /\ \A i \in 2..k : Requires(r[i], r[i - 1])
      /\ IsSum(e, r, k) /\ e[k] = dist[p] /\ Chain[p] = {r[i] : i \in 1..k}
  BY <1>1 DEF ReachedBy, IsWay
<1>3. p # NoRule
  BY RulesAreFinite
<1>4. Requires(n, p) /\ dist[n] = dist[p] + lead_time(n)
  BY <1>3 DEF PathInv, HandedOn
<1>5. Chain[n] = {n} \cup Chain[p]
  BY <1>3, ChainsExist DEF PathInv
<1> DEFINE q == [i \in 1..(k + 1) |-> IF i = k + 1 THEN n ELSE r[i]]
           f == [i \in 0..(k + 1) |-> IF i = k + 1 THEN dist[n] ELSE e[i]]
<1>6. /\ q \in [1..(k + 1) -> Staged] /\ q[k + 1] = n /\ \A i \in 1..k : q[i] = r[i]
      /\ f[k + 1] = dist[n] /\ \A i \in 0..k : f[i] = e[i]
  BY <1>2
<1>7. f = [i \in 0..(k + 1) |-> f[i]]
  OBVIOUS
<1> HIDE DEF q, f
<1>8. IsWay(q, k + 1, n)
  <2>1. ASSUME NEW i \in 2..(k + 1) PROVE Requires(q[i], q[i - 1])
    <3>1. CASE i = k + 1
      <4>1. k \in 1..k /\ (k + 1) - 1 = k
        BY <1>2
      <4> QED BY <1>2, <1>4, <1>6, <3>1, <4>1
    <3>2. CASE i # k + 1
      <4>1. i \in 2..k /\ i \in 1..k /\ i - 1 \in 1..k
        BY <1>2, <3>2
      <4> QED BY <1>2, <1>6, <4>1
    <3> QED BY <3>1, <3>2
  <2>2. k + 1 \in Nat \ {0}
    BY <1>2
  <2> QED BY <1>6, <2>1, <2>2 DEF IsWay
<1>9. IsSum(f, q, k + 1)
  <2>1. ASSUME NEW i \in 0..(k + 1) PROVE f[i] = IF i = 0 THEN 0 ELSE f[i - 1] + lead_time(q[i])
    <3>1. CASE i = k + 1
      <4>1. k \in 0..k /\ (k + 1) - 1 = k /\ k + 1 # 0
        BY <1>2
      <4>2. f[k] = dist[p]
        BY <1>2, <1>6, <4>1
      <4> QED BY <1>4, <1>6, <3>1, <4>1, <4>2
    <3>2. CASE i # k + 1
      <4>1. i \in 0..k /\ (i # 0 => i - 1 \in 0..k /\ i \in 1..k)
        BY <1>2, <3>2
      <4>2. e[i] = IF i = 0 THEN 0 ELSE e[i - 1] + lead_time(r[i])
        BY <1>2, <4>1 DEF IsSum
      <4> QED BY <1>6, <4>1, <4>2
    <3> QED BY <3>1, <3>2
  <2> QED BY <1>7, <2>1 DEF IsSum
<1>10. Chain[n] = {q[i] : i \in 1..(k + 1)}
  <2>1. \A i \in 1..(k + 1) : i \in 1..k \/ i = k + 1
    BY <1>2
  <2>2. k + 1 \in 1..(k + 1) /\ \A i \in 1..k : i \in 1..(k + 1)
    BY <1>2
  <2> QED BY <1>2, <1>5, <1>6, <2>1, <2>2
<1>11. ReachedBy(n, k + 1, q, f)
  BY <1>6, <1>8, <1>9, <1>10 DEF ReachedBy
<1> QED BY <1>11 DEF Reached

\* Every rule has a path whose length is its distance.
LEMMA EveryRuleIsReached ==
  ASSUME IInv, PathInv, OnPaths
  PROVE  \A n \in Staged : Reached(n)
<1> DEFINE none == {n \in Staged : ~ Reached(n)}
           places == {StageOf(n) : n \in none}
<1> SUFFICES ASSUME none # {} PROVE FALSE
  OBVIOUS
<1>1. \A n \in Staged : StageOf(n) \in Nat
  <2>1. Len(stages) \in Nat
    BY DEF IInv, StagesSoFar
  <2> QED BY <2>1, StageIsUnique
<1>2. PICK n \in none : \A x \in none : StageOf(n) <= StageOf(x)
  <2>1. places \in SUBSET Nat /\ places # {}
    BY <1>1
  <2>2. PICK k \in places : \A x \in places : k <= x
    <3> HIDE DEF places
    <3> QED BY <2>1, LeastNatural
  <2> QED BY <2>2
<1>3. n \in Staged /\ ~ Reached(n)
  OBVIOUS
<1>4. CASE predecessor_on_path[n] = NoRule
  BY <1>3, <1>4, FirstIsReached
<1>5. CASE predecessor_on_path[n] # NoRule
  <2>1. PICK p \in Staged : predecessor_on_path[n] = p
    BY <1>3, <1>5 DEF PathInv
  <2>2. Requires(n, p)
    BY <1>3, <1>5, <2>1 DEF PathInv, HandedOn
  <2>3. StageOf(p) < StageOf(n)
    BY <1>3, <2>1, <2>2, PrerequisitesAreEarlier
  <2>4. p \notin none
    BY <1>1, <1>2, <1>3, <2>1, <2>3
  <2>5. Reached(p)
    BY <2>1, <2>4
  <2> QED BY <1>3, <2>1, <2>5, NextIsReached
<1> QED BY <1>4, <1>5

-----------------------------------------------------------------------------

\* No path takes longer than the distance of the rule it ends with.
LEMMA NoPathIsLonger ==
  ASSUME IInv, PathInv, phase = "done", NEW p \in Paths
  PROVE  /\ Len(p) \in Nat \ {0} /\ p[Len(p)] \in Staged
         /\ Days(p) \in Nat /\ Days(p) <= dist[p[Len(p)]]
<1>1. PICK k : k = Len(p)
  OBVIOUS
<1>2. k \in Nat \ {0} /\ p \in [1..k -> Staged] /\ \A i \in 2..k : Requires(p[i], p[i - 1])
  <2>1. PICK l \in 1..Cardinality(fired_ids) : p \in [1..l -> fired_ids]
    BY DEF Paths
  <2>2. l \in Nat \ {0}
    <3>1. Cardinality(fired_ids) \in Nat
      BY RulesAreFinite, FS_CardinalityType DEF OnPaths
    <3> QED BY <3>1
  <2>3. Len(p) = l
    BY <2>1, <2>2
  <2>4. \A i \in 2..k : Requires(p[i], p[i - 1])
    BY <1>1 DEF Paths
  <2> QED BY <1>1, <2>1, <2>2, <2>3, <2>4, RulesAreFinite DEF OnPaths
<1>3. PICK f : IsSum(f, p, k) /\ Days(p) = f[k]
  BY <1>1, <1>2, DaysIsSum
<1>4. /\ dist \in [Staged -> Nat]
      /\ \A n \in Staged : dist[n] >= lead_time(n)
      /\ \A m, n \in Staged : Requires(n, m) => dist[n] >= dist[m] + lead_time(n)
      /\ \A n \in Staged : lead_time(n) \in Nat
  BY RulesAreFinite DEF PathInv, Settled, OnPaths
<1> DEFINE none == {i \in 1..k : ~ (f[i] \in Nat /\ f[i] <= dist[p[i]])}
<1>5. none = {}
  <2> SUFFICES ASSUME none # {} PROVE FALSE
    OBVIOUS
  <2>1. PICK m \in none : \A i \in none : m <= i
    <3>1. none \in SUBSET Nat
      BY <1>2
    <3> HIDE DEF none
    <3> QED BY <3>1, LeastNatural
  <2>2. m \in 1..k /\ m \in 0..k /\ m # 0 /\ ~ (f[m] \in Nat /\ f[m] <= dist[p[m]])
    BY <1>2
  <2>3. f[m] = f[m - 1] + lead_time(p[m])
    BY <1>3, <2>2 DEF IsSum
  <2>4. p[m] \in Staged /\ dist[p[m]] \in Nat /\ lead_time(p[m]) \in Nat
        /\ dist[p[m]] >= lead_time(p[m])
    BY <1>2, <1>4, <2>2
  <2>5. CASE m = 1
    <3>1. f[0] = 0 /\ m - 1 = 0
      BY <1>2, <1>3, <2>5 DEF IsSum
    <3> HIDE DEF none
    <3> QED BY <2>2, <2>3, <2>4, <3>1
  <2>6. CASE m # 1
    <3>1. m \in 2..k /\ m - 1 \in 1..k /\ m - 1 \notin none
      BY <1>2, <2>1, <2>2, <2>6
    <3>2. f[m - 1] \in Nat /\ f[m - 1] <= dist[p[m - 1]] /\ Requires(p[m], p[m - 1])
          /\ p[m - 1] \in Staged /\ dist[p[m - 1]] \in Nat
      BY <1>2, <1>4, <3>1
    <3>3. dist[p[m]] >= dist[p[m - 1]] + lead_time(p[m])
      BY <1>4, <2>4, <3>2
    <3> HIDE DEF none
    <3> QED BY <2>2, <2>3, <2>4, <3>2, <3>3
  <2> QED BY <2>5, <2>6
<1>6. k \in 1..k
  BY <1>2
<1> QED BY <1>1, <1>2, <1>3, <1>5, <1>6

\* Of finitely many rules there is one of greatest distance.
LEMMA TotalIsGreatest ==
  ASSUME IInv, PathInv, OnPaths, Staged # {}
  PROVE  /\ \E n \in Staged : dist[n] = total_days
         /\ \A n \in Staged : dist[n] <= total_days
<1> DEFINE farther(n) == {m \in Staged : dist[m] > dist[n]}
           counts == {Cardinality(farther(n)) : n \in Staged}
<1>1. IsFiniteSet(Staged) /\ dist \in [Staged -> Nat]
  BY RulesAreFinite DEF PathInv
<1>2. \A n \in Staged : IsFiniteSet(farther(n)) /\ Cardinality(farther(n)) \in Nat
  BY <1>1, FS_Subset, FS_CardinalityType
<1>3. PICK n \in Staged : \A m \in Staged : Cardinality(farther(n)) <= Cardinality(farther(m))
  <2>1. counts \in SUBSET Nat /\ counts # {}
    BY <1>2
  <2>2. PICK c \in counts : \A x \in counts : c <= x
    <3> HIDE DEF counts
    <3> QED BY <2>1, LeastNatural
  <2> HIDE DEF farther
  <2>3. PICK n \in Staged : c = Cardinality(farther(n))
    BY <2>2
  <2>4. \A m \in Staged : Cardinality(farther(m)) \in counts
    OBVIOUS
  <2> HIDE DEF counts
  <2> QED BY <2>2, <2>3, <2>4
<1>4. \A m \in Staged : dist[m] <= dist[n]
  <2> SUFFICES ASSUME NEW m \in Staged, dist[m] > dist[n] PROVE FALSE
    BY <1>1
  <2>1. m \in farther(n) /\ m \notin farther(m) /\ farther(m) \subseteq farther(n)
    BY <1>1
  <2>2. farther(m) \in SUBSET farther(n) /\ farther(m) # farther(n)
    BY <2>1
  <2> HIDE DEF farther
  <2>3. Cardinality(farther(m)) < Cardinality(farther(n))
    BY <1>2, <2>2, FS_Subset
  <2> QED BY <1>2, <1>3, <2>3
<1>5. total_days = CHOOSE d \in {dist[m] : m \in Staged} : \A m \in Staged : dist[m] <= d
  BY DEF total_days
<1>6. total_days \in {dist[m] : m \in Staged} /\ \A m \in Staged : dist[m] <= total_days
  <2>1. \E d \in {dist[m] : m \in Staged} : \A m \in Staged : dist[m] <= d
    BY <1>4
  <2> QED BY <1>5, <2>1
<1> QED BY <1>6

\* For every list of fired rules: what is reported is a longest path, whole, and nothing
\* is marked that is not on one as long (_compute_critical_path).
THEOREM LongestPathIsReported == Spec => []CriticalPathIsLongest
<1>1. IInv /\ PathInv => CriticalPathIsLongest
  <2> SUFFICES ASSUME IInv, PathInv, phase = "done", fired_ids # {}
               PROVE  /\ \A p \in Paths : Days(p) <= total_days
                      /\ \A n \in critical_ids : \E p \in Longest : \E i \in DOMAIN p : p[i] = n
                      /\ \E p \in Longest : \A i \in DOMAIN p : p[i] \in critical_ids
    BY DEF CriticalPathIsLongest
  <2>1. OnPaths /\ Staged = fired_ids /\ dist \in [Staged -> Nat]
    BY RulesAreFinite DEF OnPaths, PathInv
  <2>2. PICK last \in Staged : dist[last] = total_days
    BY <2>1, TotalIsGreatest
  <2>3. \A n \in Staged : dist[n] <= total_days /\ dist[n] \in Nat /\ total_days \in Nat
    BY <2>1, <2>2, TotalIsGreatest
  <2>4. critical_ids = UNION {Chain[n] : n \in {m \in Staged : dist[m] = total_days}}
    BY <2>1 DEF PathInv
  <2>5. ASSUME NEW n \in Staged, dist[n] = total_days
        PROVE  \E p \in Longest : Chain[n] = {p[i] : i \in DOMAIN p}
    <3>1. PICK k, q, f : /\ IsWay(q, k, n)
                         /\ IsSum(f, q, k)
                         /\ f[k] = dist[n]
                         /\ Chain[n] = {q[i] : i \in 1..k}
      BY <2>1, EveryRuleIsReached DEF Reached, ReachedBy
    <3>2. q \in Paths /\ Len(q) = k
      BY <2>1, <3>1, WaysArePaths
    <3>3. k \in Nat /\ DOMAIN q = 1..k
      BY <3>1 DEF IsWay
    <3>4. PICK g : IsSum(g, q, k) /\ Days(q) = g[k]
      BY <3>2, <3>3, DaysIsSum
    <3>5. Days(q) = total_days
      BY <2>5, <3>1, <3>3, <3>4, SumsAgree
    <3> QED BY <3>1, <3>2, <3>3, <3>5 DEF Longest
  <2>6. ASSUME NEW p \in Paths PROVE Days(p) <= total_days
    <3>1. p[Len(p)] \in Staged /\ Days(p) \in Nat /\ Days(p) <= dist[p[Len(p)]]
      BY NoPathIsLonger
    <3> QED BY <2>3, <3>1
  <2>7. ASSUME NEW n \in critical_ids PROVE \E p \in Longest : \E i \in DOMAIN p : p[i] = n
    <3>1. PICK t \in Staged : dist[t] = total_days /\ n \in Chain[t]
      BY <2>4
    <3>2. PICK p \in Longest : Chain[t] = {p[i] : i \in DOMAIN p}
      BY <2>5, <3>1
    <3> QED BY <3>1, <3>2
  <2>8. \E p \in Longest : \A i \in DOMAIN p : p[i] \in critical_ids
    <3>1. PICK p \in Longest : Chain[last] = {p[i] : i \in DOMAIN p}
      BY <2>2, <2>5
    <3>2. Chain[last] \subseteq critical_ids
      BY <2>2, <2>4
    <3> QED BY <3>1, <3>2
  <2> QED BY <2>6, <2>7, <2>8
<1> QED BY <1>1, PathsInvariance, PTL

-----------------------------------------------------------------------------
(* The simulation                                                          *)

\* Every step of the simulation is a step of the sequencer or leaves it alone.
THEOREM RunsTheSequencer == SimulationSpec => Spec
<1>1. SimulationInit => Init
  BY DEF SimulationInit
<1>2. [SimulationNext]_vars => [Next]_svars
  BY DEF SimulationNext, Resolve, Sequence, Return, vars
<1> QED BY <1>1, <1>2, PTL DEF SimulationSpec, Spec

\* The sequencer's theorems, for the whole simulation.
THEOREM SimulationReportsCycles ==
  SimulationSpec => [](CycleIsReported /\ StagesAreEarliest /\ CriticalPathIsLongest)
BY RunsTheSequencer, CyclesAreReported, StagesRespectPrerequisites, LongestPathIsReported, PTL

-----------------------------------------------------------------------------

\* Ranks are places on the ladder, or the one after its end.
LEMMA RankType ==
  ASSUME NEW F, NEW n
  PROVE  Rank(F, n) \in 0..9
<1> DEFINE ladder == JURISDICTION_PRECEDENCE
           level == F[n].jurisdiction_level
<1>1. Len(ladder) = 9 /\ DOMAIN ladder = 1..9
  BY DEF JURISDICTION_PRECEDENCE
<1>2. CASE \E i \in DOMAIN ladder : ladder[i] = level
  <2>1. (CHOOSE i \in DOMAIN ladder : ladder[i] = level) \in 1..9
    BY <1>1, <1>2
  <2> QED BY <1>2, <2>1 DEF Rank, precedence_rank
<1>3. CASE ~ \E i \in DOMAIN ladder : ladder[i] = level
  BY <1>1, <1>3 DEF Rank, precedence_rank
<1> QED BY <1>2, <1>3

\* The governing rule exists, and is one: First is the greatest rank's least id.
LEMMA FirstPrecedes ==
  ASSUME NEW F, NEW S \in SUBSET Nat, S # {}
  PROVE  /\ First(F, S) \in S
         /\ \A n \in S \ {First(F, S)} : Precedes(F, First(F, S), n)
         /\ \A m \in S : (\A n \in S \ {m} : Precedes(F, m, n)) => m = First(F, S)
<1>1. \A n \in S : Rank(F, n) \in 0..9
  BY RankType
<1> DEFINE distances == {9 - Rank(F, n) : n \in S}
<1>2. distances \in SUBSET Nat /\ distances # {}
  <2>1. \A n \in S : 9 - Rank(F, n) \in Nat
    BY <1>1
  <2> QED BY <2>1
<1>3. PICK d \in distances : \A e \in distances : d <= e
  BY <1>2, LeastNatural
<1> DEFINE top == {n \in S : 9 - Rank(F, n) = d}
<1>4. top \in SUBSET Nat /\ top # {}
  BY <1>3
<1>5. PICK m \in top : \A n \in top : m <= n
  BY <1>4, LeastNatural
<1>6. ASSUME NEW n \in S \ {m} PROVE Precedes(F, m, n)
  <2>1. Rank(F, m) \in 0..9 /\ Rank(F, n) \in 0..9 /\ m \in Nat /\ n \in Nat
    BY <1>1
  <2>2. 9 - Rank(F, m) = d /\ d <= 9 - Rank(F, n)
    BY <1>3
  <2>3. CASE n \in top
    <3>1. 9 - Rank(F, n) = d /\ m <= n /\ m # n
      BY <1>5, <2>3
    <3> QED BY <2>1, <2>2, <3>1 DEF Precedes
  <2>4. CASE n \notin top
    <3>1. 9 - Rank(F, n) # d
      BY <2>4
    <3> QED BY <2>1, <2>2, <3>1 DEF Precedes
  <2> QED BY <2>3, <2>4
<1>7. /\ First(F, S) \in S
      /\ \A n \in S \ {First(F, S)} : Precedes(F, First(F, S), n)
  BY <1>6 DEF First
<1>8. ASSUME NEW k \in S, \A n \in S \ {k} : Precedes(F, k, n), k # First(F, S)
      PROVE  FALSE
  <2>1. Precedes(F, k, First(F, S)) /\ Precedes(F, First(F, S), k)
    BY <1>7, <1>8
  <2>2. /\ Rank(F, k) \in 0..9 /\ Rank(F, First(F, S)) \in 0..9
        /\ k \in Nat /\ First(F, S) \in Nat
    BY <1>1, <1>7
  <2> QED BY <2>1, <2>2 DEF Precedes
<1> QED BY <1>7, <1>8

\* A rule is superseded when a fired rule's reference removes it.
LEMMA SupersededBy ==
  ASSUME NEW F, NEW n
  PROVE  n \in Superseded(F)
           <=> \E m \in DOMAIN F : \E ref \in F[m].supersedes : n \in Targets(F, ref)
BY DEF Superseded

\* A reference removes at most the rule whose id it names.
LEMMA SupersededIsNamed ==
  ASSUME NEW F, NEW n \in Superseded(F)
  PROVE  n \in DOMAIN F /\ \E m \in DOMAIN F : \E ref \in F[m].supersedes : ref[1] = n
<1>1. PICK m \in DOMAIN F : \E ref \in F[m].supersedes : n \in Targets(F, ref)
  BY SupersededBy
<1>2. n \in DOMAIN F /\ \E ref \in F[m].supersedes : ref[1] = n
  BY <1>1 DEF Targets, version_ref
<1> QED BY <1>1, <1>2

\* What is known of the resolution, once it is there.
ResolutionIsOfTheRequest ==
  /\ fired_rules \in Requests
  /\ Resolved => resolution = resolve_conflicts(fired_rules)

\* The fired rules do not change after the resolution.
LEMMA ResolutionInvariant == SimulationSpec => []ResolutionIsOfTheRequest
<1>1. SimulationInit => ResolutionIsOfTheRequest
  BY DEF SimulationInit, Init, ResolutionIsOfTheRequest, Resolved
<1>2. ASSUME ResolutionIsOfTheRequest, [SimulationNext]_vars
      PROVE  ResolutionIsOfTheRequest'
  <2>1. CASE Resolve
    BY <1>2, <2>1 DEF Resolve, ResolutionIsOfTheRequest, Resolved, svars
  <2>2. CASE Sequence
    <3>1. fired_rules' = fired_rules
      BY <2>2 DEF Sequence, Next, BuildGraph, Detect, RaiseCycle, StartStages,
                  AddStage, StartPaths, Relax, Finish
    <3> QED BY <1>2, <2>2, <3>1 DEF Sequence, ResolutionIsOfTheRequest, Resolved
  <2>3. CASE Return \/ UNCHANGED vars
    BY <1>2, <2>3 DEF Return, vars, svars, ResolutionIsOfTheRequest, Resolved
  <2> QED BY <1>2, <2>1, <2>2, <2>3 DEF SimulationNext
<1> QED BY <1>1, <1>2, PTL DEF SimulationSpec

\* A requirement keeps exactly the surviving rules that contend for it, and
\* there is one for every key of a surviving rule.
LEMMA RequirementKeeps ==
  ASSUME NEW F, DOMAIN F \subseteq Nat, NEW key \in Keys(F, Surviving(F))
  PROVE  /\ Requirement(F, key) \in Requirements(F)
         /\ Requirement(F, key).key = key
         /\ Requirement(F, key).governing = First(F, Contending(F, Surviving(F), key))
         /\ Kept(Requirement(F, key)) = Contending(F, Surviving(F), key)
         /\ Contending(F, Surviving(F), key) # {}
         /\ Contending(F, Surviving(F), key) \in SUBSET Nat
<1> DEFINE members == Contending(F, Surviving(F), key)
<1>1. members \in SUBSET Nat /\ members # {}
  BY DEF Contending, Surviving, Keys
<1>2. First(F, members) \in members
  BY <1>1, FirstPrecedes
<1>3. Requirement(F, key) = [key |-> key, governing |-> First(F, members),
                             contributing |-> members \ {First(F, members)}]
  BY DEF Requirement
<1>4. Kept(Requirement(F, key)) = members
  BY <1>2, <1>3 DEF Kept
<1> QED BY <1>1, <1>3, <1>4 DEF Requirements

\* Every requirement is the requirement of its key.
LEMMA RequirementOfKey ==
  ASSUME NEW F, NEW r \in Requirements(F)
  PROVE  r.key \in Keys(F, Surviving(F)) /\ r = Requirement(F, r.key)
BY DEF Requirements, Requirement

\* A rule that refers to none of the others removes none of them.
LEMMA AdditionSupersedesNothing ==
  ASSUME NEW F, NEW new \in DOMAIN F, NEW G,
         G = [n \in DOMAIN F \ {new} |-> F[n]],
         \A ref \in F[new].supersedes : ref[1] \notin DOMAIN G
  PROVE  Surviving(G) = Surviving(F) \ {new}
<1>1. DOMAIN G = DOMAIN F \ {new} /\ \A n \in DOMAIN G : G[n] = F[n]
  OBVIOUS
<1>2. ASSUME NEW ref, ref[1] \in DOMAIN G
      PROVE  Targets(G, ref) \cap DOMAIN G = Targets(F, ref) \cap DOMAIN G
  <2> DEFINE inF == {n \in DOMAIN F : version_ref(F, n) = ref}
             inG == {n \in DOMAIN G : version_ref(G, n) = ref}
  <2>1. \A n \in inF : n = ref[1]
    BY DEF version_ref
  <2>2. inF = inG
    BY <1>1, <1>2, <2>1 DEF version_ref
  <2>3. {n \in DOMAIN G : n = ref[1]} = {n \in DOMAIN F : n = ref[1]}
    BY <1>1, <1>2
  <2> QED BY <2>2, <2>3 DEF Targets
<1>3. ASSUME NEW n \in DOMAIN G PROVE n \in Superseded(G) <=> n \in Superseded(F)
  <2>1. \A m \in DOMAIN F : \A ref \in F[m].supersedes :
          n \in Targets(F, ref) => ref[1] = n /\ m \in DOMAIN G
    <3> TAKE m \in DOMAIN F
    <3> TAKE ref \in F[m].supersedes
    <3>1. n \in Targets(F, ref) => ref[1] = n
      BY DEF Targets, version_ref
    <3> QED BY <3>1, <1>1
  <2>2. \A m \in DOMAIN G : \A ref \in G[m].supersedes : n \in Targets(G, ref) => ref[1] = n
    BY DEF Targets, version_ref
  <2>3. ASSUME n \in Superseded(F) PROVE n \in Superseded(G)
    <3>1. PICK m \in DOMAIN F : \E ref \in F[m].supersedes : n \in Targets(F, ref)
      BY <2>3, SupersededBy
    <3>2. PICK ref \in F[m].supersedes : n \in Targets(F, ref)
      BY <3>1
    <3>3. ref[1] = n /\ m \in DOMAIN G
      BY <3>2, <2>1
    <3>4. m \in DOMAIN G /\ ref \in G[m].supersedes /\ n \in Targets(G, ref)
      BY <3>2, <3>3, <1>1, <1>2
    <3> QED BY <3>4, SupersededBy
  <2>4. ASSUME n \in Superseded(G) PROVE n \in Superseded(F)
    <3>1. PICK m \in DOMAIN G : \E ref \in G[m].supersedes : n \in Targets(G, ref)
      BY <2>4, SupersededBy
    <3>2. PICK ref \in G[m].supersedes : n \in Targets(G, ref)
      BY <3>1
    <3>3. ref[1] = n /\ m \in DOMAIN G
      BY <3>2, <2>2
    <3>4. m \in DOMAIN F /\ ref \in F[m].supersedes /\ n \in Targets(F, ref)
      BY <3>2, <3>3, <1>1, <1>2
    <3> QED BY <3>4, SupersededBy
  <2> QED BY <2>3, <2>4
<1> QED BY <1>1, <1>3 DEF Surviving

\* Firing one more rule that refers to none of the others keeps each of their
\* requirements, with every rule it had.
THEOREM AdditionsKeep == SimulationSpec => []AdditionsKeepRequirements
<1>1. ASSUME ResolutionIsOfTheRequest PROVE AdditionsKeepRequirements
  <2> SUFFICES ASSUME Resolved, NEW new \in fired_ids, NEW G,
                      G = [n \in fired_ids \ {new} |-> fired_rules[n]],
                      \A ref \in fired_rules[new].supersedes : ref[1] \notin DOMAIN G,
                      NEW old \in Requirements(G)
               PROVE  \E r \in resolution.requirements :
                        /\ r.key = old.key
                        /\ Kept(old) \subseteq Kept(r)
                        /\ Kept(r) \subseteq Kept(old) \cup {new}
                        /\ r.governing \in {old.governing, new}
    BY DEF AdditionsKeepRequirements
  <2> DEFINE F == fired_rules
             key == old.key
             after == Contending(F, Surviving(F), key)
             before == Contending(G, Surviving(G), key)
  <2>1. DOMAIN F \subseteq Nat /\ DOMAIN G = DOMAIN F \ {new} /\ new \in DOMAIN F
    BY <1>1, RequestsAssumption DEF ResolutionIsOfTheRequest, fired_ids
  <2>2. Surviving(G) = Surviving(F) \ {new}
    BY <2>1, AdditionSupersedesNothing DEF fired_ids
  <2>3. key \in Keys(G, Surviving(G)) /\ old = Requirement(G, key)
    BY RequirementOfKey
  <2>4. \A n \in DOMAIN G : /\ requirement_keys(G, n) = requirement_keys(F, n)
                            /\ Rank(G, n) = Rank(F, n)
    BY <2>1 DEF requirement_keys, Rank
  <2>5. Surviving(G) \subseteq DOMAIN G
    BY DEF Surviving
  <2>6. key \in Keys(F, Surviving(F))
    BY <2>2, <2>3, <2>4, <2>5 DEF Keys
  <2>7. before \subseteq after /\ after \subseteq before \cup {new}
    BY <2>2, <2>4, <2>5 DEF Contending
  <2> DEFINE r == Requirement(F, key)
  <2>8. /\ r \in Requirements(F) /\ r.key = key /\ r.governing = First(F, after)
        /\ Kept(r) = after /\ after # {} /\ after \in SUBSET Nat
    BY <2>1, <2>6, RequirementKeeps
  <2>9. /\ old.governing = First(G, before) /\ Kept(old) = before
        /\ before # {} /\ before \in SUBSET Nat
    BY <2>1, <2>3, RequirementKeeps
  <2>10. First(F, after) \in {First(G, before), new}
    <3> SUFFICES ASSUME First(F, after) # new PROVE First(F, after) = First(G, before)
      OBVIOUS
    <3> DEFINE first == First(F, after)
    <3>1. first \in after /\ \A n \in after \ {first} : Precedes(F, first, n)
      BY <2>8, FirstPrecedes
    <3>2. first \in before
      BY <3>1, <2>7
    <3>3. \A n \in before \ {first} : Precedes(G, first, n)
      <4> TAKE n \in before \ {first}
      <4>1. n \in DOMAIN G /\ first \in DOMAIN G
        BY <3>2, <2>5 DEF Contending
      <4>2. Precedes(F, first, n)
        BY <3>1, <2>7
      <4> QED BY <4>1, <4>2, <2>4 DEF Precedes
    <3> DEFINE least == First(G, before)
    <3>4. \A m \in before : (\A n \in before \ {m} : Precedes(G, m, n)) => m = least
      <4> HIDE DEF before
      <4> QED BY <2>9, FirstPrecedes
    <3>5. first = least
      <4> HIDE DEF first, before, least
      <4> QED BY <3>2, <3>3, <3>4
    <3> QED BY <3>5
  <2>11. resolution.requirements = Requirements(F)
    BY <1>1 DEF ResolutionIsOfTheRequest, resolve_conflicts
  <2> QED BY <2>7, <2>8, <2>9, <2>10, <2>11
<1> QED BY <1>1, ResolutionInvariant, PTL

\* The fired rules that contend for a key are the surviving and the superseded.
LEMMA ContendersSplit ==
  ASSUME NEW F, NEW key
  PROVE  /\ Contending(F, Surviving(F), key)
              = Contending(F, DOMAIN F, key) \ Superseded(F)
         /\ Contending(F, Superseded(F), key)
              = Contending(F, DOMAIN F, key) \cap Superseded(F)
<1>1. Superseded(F) \subseteq DOMAIN F
  BY SupersededIsNamed
<1> QED BY <1>1 DEF Contending, Surviving

\* Of the rules that contend for a requirement none goes missing, and two of
\* them make a conflict that names them all.
THEOREM ContendersAreAccountedFor == SimulationSpec => []EveryContenderIsAccountedFor
<1>1. ASSUME ResolutionIsOfTheRequest PROVE EveryContenderIsAccountedFor
  <2> SUFFICES ASSUME Resolved PROVE EveryContenderIsAccountedFor
    BY DEF EveryContenderIsAccountedFor
  <2> DEFINE F == fired_rules
  <2>1. /\ resolution.requirements = Requirements(F)
        /\ resolution.conflicts = Conflicts(F)
        /\ resolution.superseded_rule_ids = Superseded(F)
    BY <1>1 DEF ResolutionIsOfTheRequest, resolve_conflicts
  <2>2. DOMAIN F \subseteq Nat /\ fired_ids = DOMAIN F
    BY <1>1, RequestsAssumption DEF ResolutionIsOfTheRequest, fired_ids
  <2>3. ASSUME NEW r \in Requirements(F)
        PROVE  LET contenders == Contending(F, DOMAIN F, r.key)
                   removed    == contenders \cap Superseded(F)
               IN  /\ Kept(r) = contenders \ removed
                   /\ Cardinality(contenders) > 1 =>
                        \E c \in Conflicts(F) :
                          /\ c.requirement_key = r.key
                          /\ {c.governing} \cup c.preserved \cup c.superseded = contenders
                          /\ c.superseded = removed
    <3> DEFINE contenders == Contending(F, DOMAIN F, r.key)
               removed    == contenders \cap Superseded(F)
               c == [requirement_key |-> r.key, governing |-> r.governing,
                     preserved |-> r.contributing,
                     superseded |-> Contending(F, Superseded(F), r.key)]
    <3>1. r.key \in Keys(F, Surviving(F)) /\ r = Requirement(F, r.key)
      BY RequirementOfKey
    <3>2. Kept(r) = Contending(F, Surviving(F), r.key)
      BY <2>2, <3>1, RequirementKeeps
    <3>3. Kept(r) = contenders \ removed
      BY <3>2, ContendersSplit
    <3>4. Contending(F, Superseded(F), r.key) = removed
      BY ContendersSplit
    <3>5. ASSUME Cardinality(contenders) > 1, r.contributing = {} PROVE removed # {}
      <4> SUFFICES ASSUME removed = {} PROVE FALSE
        OBVIOUS
      <4>1. contenders = {r.governing}
        BY <3>3, <3>5 DEF Kept
      <4>2. Cardinality(contenders) = 1
        BY <4>1, FS_Singleton
      <4> QED BY <3>5, <4>2
    <3>6. ASSUME Cardinality(contenders) > 1 PROVE c \in Conflicts(F)
      BY <3>4, <3>5, <3>6 DEF Conflicts
    <3>7. {c.governing} \cup c.preserved \cup c.superseded = contenders
      BY <3>3, <3>4 DEF Kept
    <3>8. c.requirement_key = r.key /\ c.superseded = removed
      BY <3>4
    <3> HIDE DEF c
    <3> QED BY <3>3, <3>6, <3>7, <3>8
  <2>4. ASSUME NEW n \in DOMAIN F \ Superseded(F), NEW key \in requirement_keys(F, n)
        PROVE  \E r \in Requirements(F) : r.key = key /\ n \in Kept(r)
    <3>1. n \in Surviving(F)
      BY DEF Surviving
    <3>2. key \in Keys(F, Surviving(F)) /\ n \in Contending(F, Surviving(F), key)
      BY <3>1 DEF Keys, Contending
    <3> QED BY <2>2, <3>2, RequirementKeeps
  <2>5. \A n \in Superseded(F) :
          \E m \in DOMAIN F : \E ref \in F[m].supersedes : ref[1] = n
    BY SupersededIsNamed
  <2> QED BY <2>1, <2>2, <2>3, <2>4, <2>5 DEF EveryContenderIsAccountedFor
<1> QED BY <1>1, ResolutionInvariant, PTL
=============================================================================
