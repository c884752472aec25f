----------------------------- MODULE Sequencing -----------------------------
(***************************************************************************)
(* sequence_rules of the rules engine: the rules that fired for a project  *)
(* become stages of permits that can be pursued side by side, after a      *)
(* check that their prerequisites form no cycle, and the rules on the      *)
(* longest path by lead time are marked.  One step is one iteration of a   *)
(* while or outer for loop of the source.  Lists that the source keeps     *)
(* sorted (queue, a stage) are sets, taken least rule_id first where the   *)
(* order matters.                                                          *)
(***************************************************************************)
EXTENDS Integers, Sequences, FiniteSets, FiniteSetsExt

CONSTANTS RuleId,    \* rule ids, numbered in their lexicographic order
          Requests   \* the lists of fired rules, each a function from rule id

NoRule == -1

ASSUME RequestsAssumption ==
  /\ RuleId \subseteq Nat
  /\ \A q \in Requests :
       /\ DOMAIN q \subseteq RuleId
       /\ IsFiniteSet(DOMAIN q)
       /\ \A n \in DOMAIN q : /\ q[n].prerequisites \in Seq(RuleId)
                              /\ q[n].typical_lead_time_days \in Nat

VARIABLES fired_rules,   \* the argument
          phase,         \* which loop of sequence_rules runs
          remaining,     \* prerequisites not yet dealt with, per rule
          queue,         \* the loop's worklist: queue, current or topo_order
          processed,     \* rules the cycle check has taken from its queue
          cyclic,        \* the rules a CyclicDependencyError lists
          stages,        \* the stages so far
          dist,          \* the longest lead time from a start to a rule's end
          predecessor_on_path,
          critical_ids

svars == <<fired_rules, phase, remaining, queue, processed, cyclic, stages,
           dist, predecessor_on_path, critical_ids>>

-----------------------------------------------------------------------------

fired_ids == DOMAIN fired_rules

Prerequisites(n) == fired_rules[n].prerequisites

lead_time(n) == fired_rules[n].typical_lead_time_days

\* The places of n's list that name a rule of S; a list may repeat a rule.
PlacesIn(n, S) ==
  {i \in DOMAIN Prerequisites(n) : Prerequisites(n)[i] \in S}

Requires(n, p) == \E i \in DOMAIN Prerequisites(n) : Prerequisites(n)[i] = p

\* adj holds one edge for each place that names a fired rule; the edges of
\* other rules are dropped.
EdgesFrom(S, n) == Cardinality(PlacesIn(n, S))

\* Faulty variant: prerequisites that did not fire keep their edges.
in_degreeUnfired == [n \in fired_ids |-> EdgesFrom(RuleId, n)]

in_degree == [n \in fired_ids |-> EdgesFrom(fired_ids, n)]

\* remaining after every edge that leaves S is taken off ...
Released(S) == [n \in fired_ids |-> remaining[n] - EdgesFrom(S, n)]

\* Faulty variant: a rule is freed by the first of its prerequisites.
FreedEarly(S) == {n \in fired_ids : remaining[n] > 0 /\ EdgesFrom(S, n) > 0}

\* ... and the rules whose count that brings to zero.
Freed(S) == {n \in fired_ids : remaining[n] \in 1..EdgesFrom(S, n)}

Staged == UNION {stages[k] : k \in DOMAIN stages}

\* The order of topo_order: by stage, by rule id within a stage.
TopoBefore(m, n) ==
  \E j, k \in DOMAIN stages :
    /\ m \in stages[j]
    /\ n \in stages[k]
    /\ (j < k \/ (j = k /\ m < n))

-----------------------------------------------------------------------------

Init ==
  /\ fired_rules \in Requests
  /\ phase = "called"
  /\ remaining = <<>>
  /\ queue = {}
  /\ processed = {}
  /\ cyclic = {}
  /\ stages = <<>>
  /\ dist = <<>>
  /\ predecessor_on_path = <<>>
  /\ critical_ids = {}

\* _build_graph, and the first lines of _detect_cycle.
BuildGraph ==
  /\ phase = "called"
  /\ phase' = "detect"
  /\ remaining' = in_degree
  /\ queue' = {n \in fired_ids : in_degree[n] = 0}
  /\ UNCHANGED <<fired_rules, processed, cyclic, stages, dist,
                 predecessor_on_path, critical_ids>>

\* One turn of the loop of _detect_cycle.
Detect ==
  /\ phase = "detect"
  /\ \E node \in queue :
       /\ \A other \in queue : node <= other
       /\ remaining' = Released({node})
       /\ queue' = (queue \ {node}) \cup Freed({node})
       /\ processed' = processed \cup {node}
  /\ UNCHANGED <<fired_rules, phase, cyclic, stages, dist,
                 predecessor_on_path, critical_ids>>

\* The queue ran dry before every rule was taken from it.
RaiseCycle ==
  /\ phase = "detect"
  /\ queue = {}
  /\ processed # fired_ids
  /\ phase' = "raised"
  /\ cyclic' = {n \in fired_ids : remaining[n] > 0}
  /\ UNCHANGED <<fired_rules, remaining, queue, processed, stages, dist,
                 predecessor_on_path, critical_ids>>

\* _detect_cycle returns and _topological_stages starts over.
StartStages ==
  /\ phase = "detect"
  /\ queue = {}
  /\ processed = fired_ids
  /\ phase' = "stage"
  /\ remaining' = in_degree
  /\ queue' = {n \in fired_ids : in_degree[n] = 0}
  /\ UNCHANGED <<fired_rules, processed, cyclic, stages, dist,
                 predecessor_on_path, critical_ids>>

\* One turn of the loop of _topological_stages.
AddStage ==
  /\ phase = "stage"
  /\ queue # {}
  /\ stages' = Append(stages, queue)
  /\ remaining' = Released(queue)
  /\ queue' = Freed(queue)
  /\ UNCHANGED <<fired_rules, phase, processed, cyclic, dist,
                 predecessor_on_path, critical_ids>>

\* The stages are complete and _compute_critical_path starts.
StartPaths ==
  /\ phase = "stage"
  /\ queue = {}
  /\ phase' = "path"
  /\ queue' = Staged
  /\ dist' = [n \in Staged |-> lead_time(n)]
  /\ predecessor_on_path' = [n \in Staged |-> NoRule]
  /\ UNCHANGED <<fired_rules, remaining, processed, cyclic, stages,
                 critical_ids>>

\* The length of the best path to s that comes through node.
Candidate(node, s) == dist[node] + lead_time(s)

\* Faulty variant: the first predecessor is kept, longer ones are ignored.
ImprovesOnce(node, s) ==
  /\ Requires(s, node)
  /\ predecessor_on_path[s] = NoRule
  /\ Candidate(node, s) > dist[s]

Improves(node, s) == Requires(s, node) /\ Candidate(node, s) > dist[s]

\* One turn of the outer relaxation loop.
Relax ==
  /\ phase = "path"
  /\ \E node \in queue :
       /\ \A other \in queue \ {node} : TopoBefore(node, other)
       /\ queue' = queue \ {node}
       /\ dist' = [s \in Staged |->
            IF Improves(node, s) THEN Candidate(node, s) ELSE dist[s]]
       /\ predecessor_on_path' = [s \in Staged |->
            IF Improves(node, s) THEN node ELSE predecessor_on_path[s]]
  /\ UNCHANGED <<fired_rules, phase, remaining, processed, cyclic, stages,
                 critical_ids>>

\* The greatest distance; zero when nothing fired.
total_days ==
  IF Staged = {} THEN 0
  ELSE CHOOSE d \in {dist[n] : n \in Staged} : \A n \in Staged : dist[n] <= d

\* The chain of predecessor_on_path that ends at n.
Chain ==
  LET chain[n \in Staged] ==
        {n} \cup (IF predecessor_on_path[n] = NoRule
                  THEN {} ELSE chain[predecessor_on_path[n]])
  IN  chain

\* Every relaxation is done: the chains of the farthest rules are marked.
Finish ==
  /\ phase = "path"
  /\ queue = {}
  /\ phase' = "done"
  /\ critical_ids' =
       UNION {Chain[n] : n \in {m \in Staged : dist[m] = total_days}}
  /\ UNCHANGED <<fired_rules, remaining, queue, processed, cyclic, stages,
                 dist, predecessor_on_path>>

Next ==
  \/ BuildGraph \/ Detect \/ RaiseCycle \/ StartStages
  \/ AddStage \/ StartPaths \/ Relax \/ Finish

Spec == Init /\ [][Next]_svars

-----------------------------------------------------------------------------

\* A set of fired rules each of which waits for another of them.
WaitsWithin(S) == S \subseteq fired_ids /\ \A n \in S : \E p \in S : Requires(n, p)

\* The check raises exactly when fired rules wait for one another, and the
\* error then lists every such rule and none that could have been reached.
\* (_detect_cycle: a stage plan is never computed for a cyclic ruleset.)
CycleIsReported ==
  /\ phase = "raised" =>
       /\ cyclic # {}
       /\ WaitsWithin(cyclic)
       /\ \A S \in SUBSET fired_ids : WaitsWithin(S) => S \subseteq cyclic
  /\ phase \in {"stage", "path", "done"} =>
       \A S \in SUBSET fired_ids : WaitsWithin(S) => S = {}

\* Every fired rule ends up in one stage; its fired prerequisites are all in earlier
\* ones, and one of them in the stage just before, so that no rule waits
\* longer than it must.  (_topological_stages, with a list that repeats a
\* prerequisite or names one that did not fire.)
StagesAreEarliest ==
  /\ phase \in {"path", "done"} => Staged = fired_ids
  /\ \A k \in DOMAIN stages : \A n \in stages[k] :
       /\ \A j \in DOMAIN stages : n \in stages[j] => j = k
       /\ \A p \in fired_ids : Requires(n, p) => \E j \in 1..(k - 1) : p \in stages[j]
       /\ k > 1 => \E p \in stages[k - 1] : Requires(n, p)

\* The paths of the graph, and the lead time a path adds up to.
Paths ==
  {p \in UNION {[1..k -> fired_ids] : k \in 1..Cardinality(fired_ids)} :
     \A i \in 2..Len(p) : Requires(p[i], p[i - 1])}

Days(p) ==
  LET days[i \in 0..Len(p)] == IF i = 0 THEN 0 ELSE days[i - 1] + lead_time(p[i])
  IN  days[Len(p)]

Longest == {p \in Paths : Days(p) = total_days}

\* What is returned as the critical path: total_days is the greatest lead time
\* of any path, each rule marked lies on a path that long, and one such path
\* is marked from its first rule to its last.  (_compute_critical_path)
CriticalPathIsLongest ==
  phase = "done" /\ fired_ids # {} =>
    /\ \A p \in Paths : Days(p) <= total_days
    /\ \A n \in critical_ids : \E p \in Longest : \E i \in DOMAIN p : p[i] = n
    /\ \E p \in Longest : \A i \in DOMAIN p : p[i] \in critical_ids
=============================================================================
