-------------------------- MODULE EvaluationProofs --------------------------
(***************************************************************************)
(* Proofs about Evaluation: its invariants hold for any rules, trees of    *)
(* any depth, versions, overrides, drafts and contexts.                    *)
(*                                                                         *)
(* EvaluationInv says that what every stage left behind is what the        *)
(* operators make of the request; each property is then a fact about those *)
(* operators. They are recursive functions over trees and lists, each read *)
(* one level below its argument: MadeExists gives that such a function     *)
(* exists, and what it computes is shown level by level, from the smallest *)
(* level at which it would not hold.                                       *)
(***************************************************************************)
EXTENDS Evaluation, SimulationProofs, SequenceTheorems

-----------------------------------------------------------------------------
(* What each stage has left behind is what the operators say of the        *)
(* request: nothing that a later stage reads has changed since.            *)

Selected  == {"evaluate", "explain", "simulate", "matrix", "done", "reviewed"}
Decided   == {"explain", "simulate", "matrix", "done"}
Explained == {"simulate", "matrix", "done"}

ConfirmedOK ==
  call \in {"select"} \cup Selected =>
    /\ confirmation = confirm_detection(request.detection,
                        request.jurisdiction_overrides, request.overlay_overrides)
    /\ confirmation.error = "none"

SelectedOK == call \in Selected => working = Working

DecidedOK ==
  call \in Decided =>
    /\ Evaluations # Raised
    /\ fired = Evaluations.fired
    /\ fired_rules = FiredRules(fired)

ExplainedOK ==
  call \in Explained =>
    /\ explanations = [i \in DOMAIN fired |-> Explanation(i).value]
    /\ \A i \in DOMAIN fired : Explanation(i).error = "none"
    /\ known_unknowns = [i \in DOMAIN fired |->
         collect_known_unknowns(fired[i], LastById(working)[fired[i].rule_id])]

MatrixOK ==
  call = "done" =>
    matrix = build_permit_matrix([i \in DOMAIN fired |-> fired_rules[fired[i].rule_id]],
                                 explanations, stages, critical_ids)

ReportsOK ==
  call = "reviewed" =>
    /\ \A i \in DOMAIN Results : Results[i] # Raised
    /\ reports = [edge_cases |-> EdgeReport, qa |-> build_qa_report(working, Results),
                  diffs |-> Diffs, summaries |-> Summaries]

EvaluationInv ==
  /\ request \in Arguments
  /\ ConfirmedOK /\ SelectedOK /\ DecidedOK /\ ExplainedOK /\ MatrixOK /\ ReportsOK

\* Operators of the state that only read the request and what is confirmed.
LEMMA ReadsAreStable ==
  ASSUME UNCHANGED <<request, confirmation>>
  PROVE  Working' = Working /\ inputs' = inputs /\ _context' = _context
<1>1. inputs' = inputs
  BY DEF inputs
<1>2. _context' = _context
  BY <1>1 DEF _context
<1>3. Working' = Working
  BY DEF Working
<1> QED BY <1>1, <1>2, <1>3

\* Those that read the rules and the evaluations too.
LEMMA DecisionsAreStable ==
  ASSUME UNCHANGED <<request, confirmation, working>>
  PROVE  /\ Evaluations' = Evaluations
         /\ \A es : FiredRules(es)' = FiredRules(es)
         /\ Results' = Results /\ EdgeReport' = EdgeReport /\ Diffs' = Diffs
         /\ Summaries' = Summaries
         /\ fired' = fired => \A i : Explanation(i)' = Explanation(i)
<1>1. inputs' = inputs /\ _context' = _context
  BY ReadsAreStable
<1>2. Evaluations' = Evaluations
  BY <1>1 DEF Evaluations
<1>3. \A es : FiredRules(es)' = FiredRules(es)
  BY DEF FiredRules
<1>4. Results' = Results
  BY <1>1 DEF Results
<1>5. EdgeReport' = EdgeReport
  BY <1>1 DEF EdgeReport
<1>6. Diffs' = Diffs
  BY DEF Diffs
<1>7. Summaries' = Summaries
  BY <1>6 DEF Summaries
<1>8. fired' = fired => \A i : Explanation(i)' = Explanation(i)
  BY <1>1 DEF Explanation
<1> QED BY <1>2, <1>3, <1>4, <1>5, <1>6, <1>7, <1>8

\* Before anything is confirmed only the request is known.
LEMMA EvaluationInitInv == EvaluationInit => EvaluationInv
BY DEF EvaluationInit, EvaluationInv, ConfirmedOK, SelectedOK, DecidedOK, ExplainedOK,
       MatrixOK, ReportsOK, Selected, Decided, Explained

\* A stage leaves what the ones before it left, and adds what it makes of that.
LEMMA EvaluationNextInv ==
  ASSUME EvaluationInv, [EvaluationNext]_evars
  PROVE  EvaluationInv'
<1> USE DEF EvaluationInv, ConfirmedOK, SelectedOK, DecidedOK, ExplainedOK, MatrixOK,
            ReportsOK, Selected, Decided, Explained
<1>1. CASE Confirm
  BY <1>1 DEF Confirm
<1>2. CASE Select
  <2>1. Working' = Working
    BY <1>2, ReadsAreStable DEF Select
  <2> QED BY <1>2, <2>1 DEF Select
<1>3. CASE Evaluate
  <2>1. Working' = Working /\ Evaluations' = Evaluations
    BY <1>3, ReadsAreStable, DecisionsAreStable DEF Evaluate
  <2>2. FiredRules(fired)' = FiredRules(fired')
    BY <1>3 DEF Evaluate, FiredRules
  <2> QED BY <1>3, <2>1, <2>2 DEF Evaluate
<1>4. CASE Explain
  <2>1. /\ Working' = Working /\ Evaluations' = Evaluations
        /\ \A i : Explanation(i)' = Explanation(i)
    BY <1>4, ReadsAreStable, DecisionsAreStable DEF Explain, vars, svars
  <2>2. FiredRules(fired)' = FiredRules(fired)
    BY <1>4 DEF Explain, FiredRules
  <2>3. UNCHANGED <<request, confirmation, working, fired, fired_rules>>
    BY <1>4 DEF Explain, vars, svars
  <2>4. call' \in {"raised", "simulate"}
    BY <1>4 DEF Explain
  <2> QED BY <1>4, <2>1, <2>2, <2>3, <2>4 DEF Explain
<1>5. CASE Simulate
  <2>1. /\ Working' = Working /\ Evaluations' = Evaluations
        /\ \A i : Explanation(i)' = Explanation(i)
    BY <1>5, ReadsAreStable, DecisionsAreStable DEF Simulate
  <2>2. fired_rules' = fired_rules
    BY <1>5 DEF Simulate, Resolve, Sequence, Next, svars, BuildGraph, Detect, RaiseCycle,
                StartStages, AddStage, StartPaths, Relax, Finish
  <2>3. FiredRules(fired)' = FiredRules(fired)
    BY <1>5 DEF Simulate, FiredRules
  <2>4. UNCHANGED <<request, confirmation, working, fired, explanations, known_unknowns>>
    BY <1>5 DEF Simulate
  <2>5. call = "simulate" /\ call' \in {"raised", "simulate", "matrix"}
    BY <1>5 DEF Simulate
  <2> QED BY <2>1, <2>2, <2>3, <2>4, <2>5
<1>6. CASE BuildMatrix
  <2>1. /\ Working' = Working /\ Evaluations' = Evaluations
        /\ \A i : Explanation(i)' = Explanation(i)
    BY <1>6, ReadsAreStable, DecisionsAreStable DEF BuildMatrix
  <2>2. FiredRules(fired)' = FiredRules(fired)
    BY <1>6 DEF BuildMatrix, FiredRules
  <2>3. UNCHANGED <<vars, request, confirmation, working, fired, explanations, known_unknowns>>
    BY <1>6 DEF BuildMatrix
  <2>4. fired_rules' = fired_rules /\ stages' = stages /\ critical_ids' = critical_ids
    BY <2>3 DEF vars, svars
  <2> QED BY <1>6, <2>1, <2>2, <2>3, <2>4 DEF BuildMatrix
<1>7. CASE Review
  <2>1. Working' = Working
    BY <1>7, ReadsAreStable DEF Review
  <2>2. /\ Results' = Results /\ EdgeReport' = EdgeReport /\ Diffs' = Diffs
        /\ Summaries' = Summaries
    BY <1>7, DecisionsAreStable DEF Review
  <2> QED BY <1>7, <2>1, <2>2 DEF Review
<1>8. CASE UNCHANGED evars
  <2>1. Working' = Working
    BY <1>8, ReadsAreStable DEF evars
  <2>2. /\ Evaluations' = Evaluations /\ \A i : Explanation(i)' = Explanation(i)
        /\ Results' = Results /\ EdgeReport' = EdgeReport /\ Diffs' = Diffs
        /\ Summaries' = Summaries
    BY <1>8, DecisionsAreStable DEF evars
  <2>3. FiredRules(fired)' = FiredRules(fired)
    BY <1>8 DEF evars, FiredRules
  <2> QED BY <1>8, <2>1, <2>2, <2>3 DEF evars, vars, svars
<1> QED BY <1>1, <1>2, <1>3, <1>4, <1>5, <1>6, <1>7, <1>8 DEF EvaluationNext, EvaluationEnds

\* Whatever is asked, with any rules, overrides and drafts, what a stage reads is
\* what the stages before it made of the request: none of them changes what another
\* left behind, or goes on after one that raised (simulation.py, from the confirmed
\* detection to the matrix and the reports).
THEOREM EvaluationInvariance == EvaluationSpec => []EvaluationInv
<1>1. EvaluationInit => EvaluationInv
  BY EvaluationInitInv
<1>2. EvaluationInv /\ [EvaluationNext]_evars => EvaluationInv'
  BY EvaluationNextInv
<1> QED BY <1>1, <1>2, PTL DEF EvaluationSpec

-----------------------------------------------------------------------------
(* Versions                                                                *)

\* Where effective_ruleset does not refuse, it is what select_governing makes.
LEMMA RowsAndDictsAgree ==
  ASSUME NEW rows, NEW day, effective_ruleset(rows, day).error = "none"
  PROVE  select_governing(rows, day) = effective_ruleset(rows, day).value
<1>1. \A n : Candidates(rows, n, day) = Group(rows, n, day)
  BY DEF Candidates, Group, is_governing, _governs
<1> DEFINE ids == {n \in Ids(rows) : Candidates(rows, n, day) # {}}
<1>2. ids = GoverningIds(rows, day)
  BY <1>1 DEF GoverningIds
<1>3. /\ \A n \in ids : effective_rule(rows, n, day) # Tie
      /\ effective_ruleset(rows, day)
           = Returns(ById([n \in ids |-> effective_rule(rows, n, day).value]))
  <2>1. Tie.error # "none"
    BY DEF Tie, Raises
  <2> QED BY <2>1 DEF effective_ruleset
<1>4. \A n \in ids : effective_rule(rows, n, day).value
                       = _best_version(rows, Group(rows, n, day))
  <2> TAKE n \in ids
  <2>1. effective_rule(rows, n, day) = _best(rows, Group(rows, n, day))
    BY <1>1 DEF effective_rule
  <2> QED BY <1>3, <2>1 DEF _best, _best_version, Returns
<1>5. [n \in ids |-> effective_rule(rows, n, day).value]
        = [n \in GoverningIds(rows, day) |-> _best_version(rows, Group(rows, n, day))]
  BY <1>2, <1>4
<1> QED BY <1>3, <1>5 DEF select_governing, Returns

\* For any rules, with any statuses, versions and windows, and any day: the rules
\* that select_governing keeps from dicts are those that effective_ruleset selects
\* from rows, where that one does not refuse a tie (simulation.py, versions.py).
THEOREM SelectionsAlwaysAgree == EvaluationSpec => []SelectionsAgree
<1>1. EvaluationInv => SelectionsAgree
  BY RowsAndDictsAgree
     DEF EvaluationInv, SelectedOK, Selected, SelectionsAgree, Working
<1> QED BY <1>1, EvaluationInvariance, PTL

-----------------------------------------------------------------------------
(* Recursive functions.  Made is what each makes of an argument, from what *)
(* it makes of the arguments one level down; all of them exist for the     *)
(* same reason.                                                            *)

NestedFrom(d, f, leaves, evaluated) ==
  IF d = 0 THEN leaves ELSE f[d - 1] \cup Composites(f[d - 1], evaluated)

AppliedFrom(i, f, target, absent, copy, overrides) ==
  IF i = 0 THEN [of |-> copy, log |-> <<>>]
  ELSE ApplyOverride(target, absent, f[i - 1], overrides[i])

EvaluatedFrom(n, f, context) ==
  IF n.kind = "leaf" THEN _evaluate_leaf(n, context)
  ELSE IF n.children = <<>> THEN Raised
  ELSE Composite(n.kind, [i \in DOMAIN n.children |-> f[n.children[i]]])

LeavesFrom(n, f) ==
  IF n.kind = "leaf" THEN <<n>>
  ELSE FlattenSeq([i \in DOMAIN n.children |-> f[n.children[i]]])

DefectFrom(n, f, context) ==
  IF n.kind = "leaf"
  THEN \/ n.operator \notin OPERATOR_KEYS
       \/ /\ n.operator # "exists"
          /\ n.field \in DOMAIN context
          /\ ~ Accepts(n.operator, context[n.field], n.value)
  ELSE n.children = <<>> \/ \E i \in DOMAIN n.children : f[n.children[i]]

ChangesFrom(t, f) ==
  LET o == t[1]
      n == t[2]
  IN  IF o = NoNode THEN {Change("added", t[3], o, n)}
      ELSE IF n = NoNode THEN {Change("removed", t[3], o, n)}
      ELSE IF o.kind # n.kind THEN {Change("modified", t[3], o, n)}
      ELSE IF o.kind = "leaf" THEN _diff_leaf(o, n, t[3])
      ELSE IF o.kind = "malformed" THEN {}
      ELSE UNION {f[<<Child(o, i), Child(n, i), Append(t[3], i)>>] : i \in Places(o, n)}

\* The children of a node that changes are made in: its own, and those put in.
ChildPlaces(node, path, changes) ==
  DOMAIN node.children \cup
    {c.path[Len(path) + 1] : c \in {d \in changes : Len(d.path) > Len(path)
                                       /\ SubSeq(d.path, 1, Len(path)) = path}}

WithChildren(kind, children) ==
  LET kept == {i \in DOMAIN children : children[i] # NoNode}
  IN  [kind |-> kind, children |-> [i \in 1..Cardinality(kept) |-> children[i]]]

PatchedFrom(t, f, changes) ==
  LET node == t[1]
      path == t[2]
      here == {c \in changes : c.path = path}
  IN  IF here # {} THEN (CHOOSE c \in here : TRUE).new_node
      ELSE IF node.kind \in {"leaf", "absent", "malformed"} THEN node
      ELSE WithChildren(node.kind, [i \in ChildPlaces(node, path, changes) |->
                                      f[<<Child(node, i), Append(path, i)>>]])

SameFrom(t, f) ==
  LET a == t[1]
      b == t[2]
  IN  /\ a.kind = b.kind
      /\ IF a.kind = "leaf" THEN SameLeaf(a, b)
         ELSE /\ Len(a.children) = Len(b.children)
              /\ \A i \in DOMAIN a.children : f[<<a.children[i], b.children[i]>>]

Made(what, n, f, x) ==
  IF what = "nested" THEN NestedFrom(n, f, x[1], x[2])
  ELSE IF what = "applied" THEN AppliedFrom(n, f, x[1], x[2], x[3], x[4])
  ELSE IF what = "evaluated" THEN EvaluatedFrom(n, f, x)
  ELSE IF what = "leaves" THEN LeavesFrom(n, f)
  ELSE IF what = "changes" THEN ChangesFrom(n, f)
  ELSE IF what = "patched" THEN PatchedFrom(n, f, x)
  ELSE IF what = "same" THEN SameFrom(n, f)
  ELSE DefectFrom(n, f, x)

IsMade(what, f, S, x) == f = [n \in S |-> Made(what, n, f, x)]

\* What is made of an argument of a level takes no more than the level below.
ReadsBelow(what, L, N, x) ==
  \A d \in 0..N : \A n \in L[d] : \A f, g :
    (d > 0 => \A c \in L[d - 1] : f[c] = g[c]) => Made(what, n, f, x) = Made(what, n, g, x)

\* Such a function exists on everything up to any level: from it on one level
\* follows what it is on the next, since each argument reads the level below only.
LEMMA MadeExists ==
  ASSUME NEW what, NEW x, NEW L, NEW N \in Nat, ReadsBelow(what, L, N, x),
         \A d \in 1..N : L[d - 1] \subseteq L[d]
  PROVE  \E f : IsMade(what, f, L[N], x)
<1> DEFINE none == {d \in 0..N : ~ \E f : IsMade(what, f, L[d], x)}
<1>1. SUFFICES ASSUME none # {} PROVE FALSE
  OBVIOUS
<1>2. PICK m \in none : \A i \in none : m <= i
  <2>1. none \in SUBSET Nat
    OBVIOUS
  <2> HIDE DEF none
  <2> QED BY <1>1, <2>1, LeastNatural
<1>3. m \in 0..N /\ ~ \E f : IsMade(what, f, L[m], x)
  OBVIOUS
<1>4. \E f : m > 0 => IsMade(what, f, L[m - 1], x)
  <2>1. m > 0 => m - 1 \in 0..N /\ m - 1 \notin none
    BY <1>2, <1>3
  <2> QED BY <2>1
<1> HIDE DEF none
<1>5. PICK f : m > 0 => IsMade(what, f, L[m - 1], x)
  BY <1>4
<1> DEFINE g == [n \in L[m] |-> Made(what, n, f, x)]
<1>6. m > 0 => \A c \in L[m - 1] : f[c] = g[c]
  <2> SUFFICES ASSUME m > 0, NEW c \in L[m - 1] PROVE f[c] = g[c]
    OBVIOUS
  <2>1. c \in L[m]
    BY <1>3
  <2>2. f[c] = Made(what, c, f, x)
    BY <1>5, Zenon DEF IsMade
  <2> QED BY <2>1, <2>2
<1>7. \A n \in L[m] : Made(what, n, f, x) = Made(what, n, g, x)
  <2> HIDE DEF g
  <2> QED BY <1>3, <1>6 DEF ReadsBelow
<1>8. g = [n \in L[m] |-> Made(what, n, g, x)]
  <2>1. \A n \in L[m] : g[n] = Made(what, n, g, x)
    BY <1>7
  <2>2. g = [n \in L[m] |-> g[n]]
    OBVIOUS
  <2> HIDE DEF g
  <2> QED BY <2>1, <2>2
<1> QED BY <1>3, <1>8 DEF IsMade

\* The same when the arguments are numbers, each from the one before it.
LEMMA CountedExists ==
  ASSUME NEW what, NEW x, NEW N \in Nat,
         \A d \in 0..N : \A f, g : (d > 0 => f[d - 1] = g[d - 1])
                                   => Made(what, d, f, x) = Made(what, d, g, x)
  PROVE  \E f : IsMade(what, f, 0..N, x)
<1> DEFINE L == [d \in 0..N |-> 0..d]
<1>1. ReadsBelow(what, L, N, x)
  <2> SUFFICES ASSUME NEW d \in 0..N, NEW n \in L[d], NEW f, NEW g,
                      d > 0 => \A c \in L[d - 1] : f[c] = g[c]
               PROVE  Made(what, n, f, x) = Made(what, n, g, x)
    BY DEF ReadsBelow
  <2>1. n \in 0..N /\ n \in 0..d
    OBVIOUS
  <2>2. n > 0 => d > 0 /\ n - 1 \in L[d - 1]
    BY <2>1
  <2> QED BY <2>1, <2>2
<1>2. \A d \in 1..N : L[d - 1] \subseteq L[d]
  OBVIOUS
<1>3. L[N] = 0..N
  OBVIOUS
<1> HIDE DEF L
<1>4. \E f : IsMade(what, f, L[N], x)
  BY <1>1, <1>2, MadeExists
<1> QED BY <1>3, <1>4

-----------------------------------------------------------------------------
(* Trees                                                                   *)

IsNest(f, leaves, evaluated, n) ==
  f = [d \in 0..n |-> IF d = 0 THEN leaves ELSE f[d - 1] \cup Composites(f[d - 1], evaluated)]

\* Nested is the sets of trees it says, up to the greatest depth.
LEMMA NestedDef ==
  ASSUME NEW leaves, NEW evaluated
  PROVE  IsNest(Nested(leaves, evaluated), leaves, evaluated, MaxNesting)
<1> DEFINE nested == CHOOSE f : f = [d \in 0..MaxNesting |->
             IF d = 0 THEN leaves ELSE f[d - 1] \cup Composites(f[d - 1], evaluated)]
<1>1. \E f : f = [d \in 0..MaxNesting |->
             IF d = 0 THEN leaves ELSE f[d - 1] \cup Composites(f[d - 1], evaluated)]
  <2> DEFINE x == <<leaves, evaluated>>
  <2>1. \A d, f : Made("nested", d, f, x) = NestedFrom(d, f, leaves, evaluated)
    BY DEF Made
  <2>2. \A d \in 0..MaxNesting : \A f, g :
          (d > 0 => f[d - 1] = g[d - 1]) => Made("nested", d, f, x) = Made("nested", d, g, x)
    <3>1. \A d \in 0..MaxNesting : d = 0 \/ d > 0
      BY NestingAssumption
    <3> QED BY <2>1, <3>1 DEF NestedFrom
  <2> HIDE DEF x
  <2>3. PICK f : IsMade("nested", f, 0..MaxNesting, x)
    BY <2>2, NestingAssumption, CountedExists
  <2>4. f = [d \in 0..MaxNesting |-> NestedFrom(d, f, leaves, evaluated)]
    BY <2>1, <2>3 DEF IsMade
  <2> QED BY <2>4, Zenon DEF NestedFrom
<1>2. nested = [d \in 0..MaxNesting |->
             IF d = 0 THEN leaves ELSE nested[d - 1] \cup Composites(nested[d - 1], evaluated)]
  BY <1>1, Zenon
<1>3. Nested(leaves, evaluated) = nested
  BY Zenon DEF Nested
<1> HIDE DEF nested
<1> QED BY <1>2, <1>3 DEF IsNest

\* What there is at a depth is there one level up, or a composite of that.
StepsTo(leaves, evaluated, d) ==
  Nested(leaves, evaluated)[d] =
    IF d = 0 THEN leaves
    ELSE Nested(leaves, evaluated)[d - 1]
           \cup Composites(Nested(leaves, evaluated)[d - 1], evaluated)

\* One depth of them from the one before.
LEMMA NestedSteps ==
  ASSUME NEW leaves, NEW evaluated, NEW d \in 0..MaxNesting
  PROVE  StepsTo(leaves, evaluated, d)
<1> DEFINE N == Nested(leaves, evaluated)
<1>1. IsNest(N, leaves, evaluated, MaxNesting)
  BY NestedDef
<1> HIDE DEF N
<1>2. N[d] = IF d = 0 THEN leaves ELSE N[d - 1] \cup Composites(N[d - 1], evaluated)
  BY <1>1, Zenon DEF IsNest
<1> QED BY <1>2 DEF N, StepsTo

\* What there is at a depth is there at every greater one.
LEMMA NestedGrows ==
  ASSUME NEW leaves, NEW evaluated, NEW d \in 0..MaxNesting, NEW e \in d..MaxNesting
  PROVE  Nested(leaves, evaluated)[d] \subseteq Nested(leaves, evaluated)[e]
<1> DEFINE N(k) == Nested(leaves, evaluated)[k]
           bad == {k \in d..MaxNesting : ~ (N(d) \subseteq N(k))}
<1>1. SUFFICES ASSUME bad # {} PROVE FALSE
  OBVIOUS
<1>2. PICK m \in bad : \A i \in bad : m <= i
  <2>1. bad \in SUBSET Nat
    BY NestingAssumption
  <2> HIDE DEF bad
  <2> QED BY <1>1, <2>1, LeastNatural
<1>3. m \in d..MaxNesting /\ m # d /\ ~ (N(d) \subseteq N(m))
  OBVIOUS
<1>4. m - 1 \in d..MaxNesting /\ m - 1 \notin bad /\ m \in 0..MaxNesting /\ m # 0
  BY <1>2, <1>3, NestingAssumption
<1>5. N(m - 1) \subseteq N(m)
  <2>1. N(m) = IF m = 0 THEN leaves ELSE N(m - 1) \cup Composites(N(m - 1), evaluated)
    <3>1. m \in 0..MaxNesting
      BY <1>4
    <3> HIDE DEF bad
    <3>2. StepsTo(leaves, evaluated, m)
      BY <3>1, NestedSteps
    <3> QED BY <3>2 DEF StepsTo
  <2> HIDE DEF N
  <2> QED BY <1>4, <2>1
<1> QED BY <1>3, <1>4, <1>5

TriggersTo(d) == Nested(Condition \cup {Malformed}, FALSE)[d]
EvaluatedTo(d) == Nested(EvaluatedLeaf, TRUE)[d]

CompositesOf(d) == [kind : {"all", "any", "not"}, children : Seq(TriggersTo(d))]
EvaluatedOf(d) == [kind : {"all", "any", "not"}, children : Seq(EvaluatedTo(d)),
                   matched : BOOLEAN]

\* What a trigger can be.
LEMMA TriggerShape ==
  ASSUME NEW d \in 0..MaxNesting, NEW n \in TriggersTo(d)
  PROVE  n \in Condition \/ n = Malformed \/ (d > 0 /\ n \in CompositesOf(d - 1))
<1> DEFINE bad == {k \in 0..MaxNesting : \E x \in TriggersTo(k) :
             ~ (x \in Condition \/ x = Malformed \/ (k > 0 /\ x \in CompositesOf(k - 1)))}
<1>1. SUFFICES ASSUME bad # {} PROVE FALSE
  OBVIOUS
<1>2. PICK m \in bad : \A i \in bad : m <= i
  <2>1. bad \in SUBSET Nat
    BY NestingAssumption
  <2> HIDE DEF bad
  <2> QED BY <1>1, <2>1, LeastNatural
<1>3. m \in 0..MaxNesting
  OBVIOUS
<1>4. PICK x \in TriggersTo(m) :
        ~ (x \in Condition \/ x = Malformed \/ (m > 0 /\ x \in CompositesOf(m - 1)))
  OBVIOUS
<1> HIDE DEF bad
<1>5. TriggersTo(m) = IF m = 0 THEN Condition \cup {Malformed}
                      ELSE TriggersTo(m - 1) \cup CompositesOf(m - 1)
  <2>1. TriggersTo(m) = IF m = 0 THEN Condition \cup {Malformed}
                        ELSE TriggersTo(m - 1) \cup Composites(TriggersTo(m - 1), FALSE)
    <3>1. StepsTo(Condition \cup {Malformed}, FALSE, m)
      BY <1>3, NestedSteps, Zenon
    <3> QED BY <3>1, Zenon DEF StepsTo, TriggersTo
  <2>2. Composites(TriggersTo(m - 1), FALSE) = CompositesOf(m - 1)
    BY DEF Composites, CompositesOf
  <2> QED BY <2>1, <2>2
<1>6. m # 0 /\ m - 1 \in 0..MaxNesting /\ x \in TriggersTo(m - 1) /\ m - 1 \notin bad
  BY <1>2, <1>3, <1>4, <1>5, NestingAssumption
<1>7. m - 1 > 0 /\ x \in CompositesOf(m - 2)
  <2>1. m - 1 > 0 /\ x \in CompositesOf((m - 1) - 1)
    BY <1>4, <1>6 DEF bad
  <2>2. (m - 1) - 1 = m - 2
    BY <1>3, NestingAssumption
  <2> QED BY <2>1, <2>2
<1>8. TriggersTo(m - 2) \subseteq TriggersTo(m - 1)
  <2>1. m - 2 \in 0..MaxNesting /\ m - 1 \in (m - 2)..MaxNesting
    BY <1>3, <1>6, <1>7, NestingAssumption
  <2> QED BY <2>1, NestedGrows, Zenon DEF TriggersTo
<1>9. x \in CompositesOf(m - 1)
  BY <1>7, <1>8 DEF CompositesOf
<1>10. m > 0
  BY <1>3, <1>6, NestingAssumption
<1> QED BY <1>4, <1>9, <1>10

TriggersAt == Nested(Condition \cup {Malformed}, FALSE)

\* A trigger of a depth is one of the next depth.
LEMMA TriggersGrow == \A d \in 1..MaxNesting : TriggersAt[d - 1] \subseteq TriggersAt[d]
<1> SUFFICES ASSUME NEW d \in 1..MaxNesting PROVE TriggersAt[d - 1] \subseteq TriggersAt[d]
  OBVIOUS
<1>1. d - 1 \in 0..MaxNesting /\ d \in (d - 1)..MaxNesting
  BY NestingAssumption
<1> QED BY <1>1, NestedGrows DEF TriggersAt

\* The children of a composite are triggers one level down.
LEMMA ChildrenOfTrigger ==
  ASSUME NEW d \in 0..MaxNesting, NEW n \in TriggersAt[d], n.kind # "leaf"
  PROVE  /\ n.children \in Seq(Trigger)
         /\ DOMAIN n.children = 1..Len(n.children) /\ Len(n.children) \in Nat
         /\ n.children # <<>> =>
              /\ d > 0
              /\ n \in CompositesOf(d - 1)
              /\ \A i \in DOMAIN n.children : n.children[i] \in TriggersAt[d - 1]
<1>1. n \notin Condition
  BY DEF Condition
<1>2. CASE n = Malformed
  <2>1. n.children = <<>>
    BY <1>2 DEF Malformed
  <2> QED BY <2>1
<1>3. CASE d > 0 /\ n \in CompositesOf(d - 1)
  <2>1. n.children \in Seq(TriggersAt[d - 1])
    BY <1>3 DEF CompositesOf, TriggersTo, TriggersAt
  <2>2. TriggersAt[d - 1] \subseteq Trigger
    <3>1. d - 1 \in 0..MaxNesting /\ MaxNesting \in (d - 1)..MaxNesting
      BY <1>3, NestingAssumption
    <3> QED BY <3>1, NestedGrows DEF TriggersAt, Trigger
  <2> QED BY <1>3, <2>1, <2>2
<1> QED BY <1>1, <1>2, <1>3, TriggerShape DEF TriggersTo, TriggersAt

\* Evaluating a trigger, and looking for defects in it, only looks at its children.
LEMMA TriggersReadBelow ==
  ASSUME NEW x, NEW what \in {"evaluated", "defect"}
  PROVE  ReadsBelow(what, TriggersAt, MaxNesting, x)
<1> SUFFICES ASSUME NEW d \in 0..MaxNesting, NEW n \in TriggersAt[d], NEW f, NEW g,
                    d > 0 => \A c \in TriggersAt[d - 1] : f[c] = g[c]
             PROVE  Made(what, n, f, x) = Made(what, n, g, x)
  BY DEF ReadsBelow
<1>1. CASE n.kind = "leaf"
  BY <1>1 DEF Made, EvaluatedFrom, DefectFrom
<1>2. CASE n.kind # "leaf" /\ n.children = <<>>
  BY <1>2 DEF Made, EvaluatedFrom, DefectFrom
<1>3. CASE n.kind # "leaf" /\ n.children # <<>>
  <2>1. \A i \in DOMAIN n.children : f[n.children[i]] = g[n.children[i]]
    BY <1>3, ChildrenOfTrigger
  <2>2. [i \in DOMAIN n.children |-> f[n.children[i]]]
          = [i \in DOMAIN n.children |-> g[n.children[i]]]
    BY <2>1
  <2>3. (\E i \in DOMAIN n.children : f[n.children[i]])
          = (\E i \in DOMAIN n.children : g[n.children[i]])
    BY <2>1
  <2>4. EvaluatedFrom(n, f, x) = EvaluatedFrom(n, g, x)
    BY <2>2 DEF EvaluatedFrom
  <2>5. DefectFrom(n, f, x) = DefectFrom(n, g, x)
    BY <1>3, <2>3 DEF DefectFrom
  <2> QED BY <2>4, <2>5 DEF Made
<1> QED BY <1>1, <1>2, <1>3

\* evaluate_trigger does what it says.
LEMMA EvaluateTrigger ==
  ASSUME NEW context, NEW n \in Trigger
  PROVE  evaluate_trigger(n, context) =
           IF n.kind = "leaf" THEN _evaluate_leaf(n, context)
           ELSE IF n.children = <<>> THEN Raised
           ELSE Composite(n.kind, [i \in DOMAIN n.children |->
                                     evaluate_trigger(n.children[i], context)])
<1> DEFINE F(f) == [m \in Trigger |->
             IF m.kind = "leaf" THEN _evaluate_leaf(m, context)
             ELSE IF m.children = <<>> THEN Raised
             ELSE Composite(m.kind, [i \in DOMAIN m.children |-> f[m.children[i]]])]
           e == CHOOSE f : f = F(f)
<1>1. PICK f : IsMade("evaluated", f, TriggersAt[MaxNesting], context)
  BY NestingAssumption, TriggersReadBelow, TriggersGrow, MadeExists
<1>2. f = F(f)
  BY <1>1 DEF IsMade, Made, EvaluatedFrom, Trigger, TriggersAt
<1>3. e = F(e)
  <2> HIDE DEF F
  <2> QED BY <1>2, Zenon
<1>4. \A m : evaluate_trigger(m, context) = e[m]
  BY Zenon DEF evaluate_trigger
<1> HIDE DEF e
<1>5. e[n] = IF n.kind = "leaf" THEN _evaluate_leaf(n, context)
             ELSE IF n.children = <<>> THEN Raised
             ELSE Composite(n.kind, [i \in DOMAIN n.children |-> e[n.children[i]]])
  BY <1>3, Zenon
<1>6. [i \in DOMAIN n.children |-> e[n.children[i]]]
        = [i \in DOMAIN n.children |-> evaluate_trigger(n.children[i], context)]
  BY <1>4
<1> QED BY <1>4, <1>5, <1>6

-----------------------------------------------------------------------------
(* Overrides                                                               *)

IsApplied(a, target, absent, copy, overrides) ==
  /\ a[0] = [of |-> copy, log |-> <<>>]
  /\ \A i \in 1..Len(overrides) :
       a[i] = ApplyOverride(target, absent, a[i - 1], overrides[i])

\* The overrides are applied one after the other, in the order they came.
LEMMA AppliedSteps ==
  ASSUME NEW target, NEW absent, NEW copy, NEW overrides, IsList(overrides)
  PROVE  \E a : /\ IsApplied(a, target, absent, copy, overrides)
                /\ Applied(target, absent, copy, overrides) = a[Len(overrides)]
<1> DEFINE F(f) == [i \in 0..Len(overrides) |->
             IF i = 0 THEN [of |-> copy, log |-> <<>>]
             ELSE ApplyOverride(target, absent, f[i - 1], overrides[i])]
           a == CHOOSE f : f = F(f)
<1>1. \E f : f = F(f)
  <2> DEFINE x == <<target, absent, copy, overrides>>
  <2>1. \A d, f : Made("applied", d, f, x) = AppliedFrom(d, f, target, absent, copy, overrides)
    BY DEF Made
  <2>2. \A d \in 0..Len(overrides) : \A f, g : (d > 0 => f[d - 1] = g[d - 1])
          => Made("applied", d, f, x) = Made("applied", d, g, x)
    <3>1. \A d \in 0..Len(overrides) : d = 0 \/ d > 0
      BY DEF IsList
    <3> QED BY <2>1, <3>1 DEF AppliedFrom
  <2> HIDE DEF x
  <2>3. Len(overrides) \in Nat
    BY DEF IsList
  <2>4. PICK f : IsMade("applied", f, 0..Len(overrides), x)
    BY <2>2, <2>3, CountedExists
  <2>5. f = [d \in 0..Len(overrides) |-> AppliedFrom(d, f, target, absent, copy, overrides)]
    BY <2>1, <2>4 DEF IsMade
  <2> QED BY <2>5, Zenon DEF AppliedFrom
<1>2. a = F(a)
  <2> HIDE DEF F
  <2> QED BY <1>1, Zenon
<1>3. Applied(target, absent, copy, overrides) = a[Len(overrides)]
  BY Zenon DEF Applied
<1> HIDE DEF a
<1>4. \A i \in 0..Len(overrides) :
        a[i] = IF i = 0 THEN [of |-> copy, log |-> <<>>]
               ELSE ApplyOverride(target, absent, a[i - 1], overrides[i])
  BY <1>2, Zenon
<1>5. Len(overrides) \in Nat
  BY DEF IsList
<1>6. 0 \in 0..Len(overrides) /\ \A i \in 1..Len(overrides) : i \in 0..Len(overrides) /\ i # 0
  BY <1>5
<1> QED BY <1>3, <1>4, <1>6, Zenon DEF IsApplied

\* What a change of one key leaves the others at.
LEMMA AtWith ==
  ASSUME NEW f, NEW key, NEW value, NEW absent, NEW k
  PROVE  At(With(f, key, value), k, absent) = IF k = key THEN value ELSE At(f, k, absent)
BY DEF At, With

\* Likewise after a key is taken out.
LEMMA AtWithout ==
  ASSUME NEW f, NEW key, NEW absent, NEW k
  PROVE  At(Without(f, key), k, absent) = IF k = key THEN absent ELSE At(f, k, absent)
BY DEF At, Without, Restrict

\* The entry of the k-th override.
EntryOf(a, target, absent, overrides, k) ==
  Entry(target, overrides[k], At(a[k - 1].of, overrides[k].key, absent),
        IF overrides[k].action = "remove" THEN absent ELSE overrides[k].value)

\* Each override appends the one entry that says what it did.
LEMMA OverrideIsLogged ==
  ASSUME NEW target, NEW absent, NEW copy, NEW overrides, NEW a,
         IsApplied(a, target, absent, copy, overrides), NEW i \in 1..Len(overrides)
  PROVE  a[i].log = Append(a[i - 1].log, EntryOf(a, target, absent, overrides, i))
<1>1. a[i] = ApplyOverride(target, absent, a[i - 1], overrides[i])
  BY DEF IsApplied
<1> QED BY <1>1 DEF ApplyOverride, EntryOf

\* The i-th override sets its key and leaves the others.
SetsOne(a, target, absent, overrides, i, k) ==
  At(a[i].of, k, absent) = IF k = overrides[i].key
                           THEN EntryOf(a, target, absent, overrides, i).confirmed
                           ELSE At(a[i - 1].of, k, absent)

\* An override changes what its own entry says and nothing else.
LEMMA OverrideSets ==
  ASSUME NEW target, NEW absent, NEW copy, NEW overrides, NEW a,
         IsApplied(a, target, absent, copy, overrides), NEW i \in 1..Len(overrides), NEW k
  PROVE  SetsOne(a, target, absent, overrides, i, k)
<1>1. a[i] = ApplyOverride(target, absent, a[i - 1], overrides[i])
  BY DEF IsApplied
<1>2. a[i].of = IF overrides[i].action = "remove"
                THEN Without(a[i - 1].of, overrides[i].key)
                ELSE With(a[i - 1].of, overrides[i].key, overrides[i].value)
  BY <1>1 DEF ApplyOverride, EntryOf
<1>3. EntryOf(a, target, absent, overrides, i).confirmed
        = IF overrides[i].action = "remove" THEN absent ELSE overrides[i].value
  BY DEF EntryOf, Entry
<1>4. CASE overrides[i].action = "remove"
  <2>1. a[i].of = Without(a[i - 1].of, overrides[i].key)
    BY <1>2, <1>4
  <2>2. At(Without(a[i - 1].of, overrides[i].key), k, absent)
          = IF k = overrides[i].key THEN absent ELSE At(a[i - 1].of, k, absent)
    BY AtWithout
  <2> QED BY <1>3, <1>4, <2>1, <2>2 DEF SetsOne
<1>5. CASE overrides[i].action # "remove"
  <2>1. a[i].of = With(a[i - 1].of, overrides[i].key, overrides[i].value)
    BY <1>2, <1>5
  <2> QED BY <1>3, <1>5, <2>1, AtWith DEF SetsOne
<1> QED BY <1>4, <1>5

\* What a key stands at, entry by entry.
LEMMA StandingSteps ==
  ASSUME NEW G, NEW target, NEW key, NEW before, NEW absent, NEW n \in Nat, n > 0
  PROVE  Standing(G, target, key, n, before, absent) =
           IF G[n].target = target /\ G[n].key = key THEN G[n].confirmed
           ELSE Standing(G, target, key, n - 1, before, absent)
<1> DEFINE now == EntriesOn(G, target, key, n)
           then == EntriesOn(G, target, key, n - 1)
<1>1. CASE G[n].target = target /\ G[n].key = key
  <2>1. n \in now /\ now \subseteq 1..n
    BY <1>1 DEF EntriesOn
  <2>2. \A x \in now : (\A y \in now : x >= y) => x = n
    <3> HIDE DEF now
    <3> QED BY <2>1
  <2>3. Max(now) = n
    <3> HIDE DEF now
    <3>1. n \in now /\ \A y \in now : n >= y
      BY <2>1
    <3> QED BY <2>2, <3>1, Zenon DEF Max
  <2> QED BY <1>1, <2>1, <2>3 DEF Standing
<1>2. CASE ~ (G[n].target = target /\ G[n].key = key)
  <2>1. now = then
    BY <1>2 DEF EntriesOn
  <2> QED BY <1>2, <2>1 DEF Standing
<1> QED BY <1>1, <1>2

\* A list of n is the one of n - 1 and its last.
LEMMA AppendLast ==
  ASSUME NEW n \in Nat, n > 0, NEW f
  PROVE  Append([k \in 1..(n - 1) |-> f[k]], f[n]) = [k \in 1..n |-> f[k]]
<1> DEFINE S == {f[k] : k \in 1..n}
           s == [k \in 1..(n - 1) |-> f[k]]
<1>1. s \in Seq(S) /\ Len(s) = n - 1
  OBVIOUS
<1>2. f[n] \in S
  OBVIOUS
<1>3. /\ Append(s, f[n]) \in Seq(S)
      /\ Len(Append(s, f[n])) = n
      /\ \A i \in 1..(n - 1) : Append(s, f[n])[i] = s[i]
      /\ Append(s, f[n])[n] = f[n]
  <2> HIDE DEF S, s
  <2> QED BY <1>1, <1>2, AppendProperties
<1>4. \A i \in 1..n : Append(s, f[n])[i] = f[i]
  BY <1>3
<1>5. Append(s, f[n]) = [i \in 1..n |-> Append(s, f[n])[i]]
  <2> HIDE DEF S, s
  <2> QED BY <1>3
<1> HIDE DEF S, s
<1> QED BY <1>4, <1>5 DEF s

\* The log of one list of overrides.
LogOf(a, target, absent, overrides, n) ==
  [k \in 1..n |-> EntryOf(a, target, absent, overrides, k)]

\* After i overrides the log is their i entries.
LEMMA LogOfOverrides ==
  ASSUME NEW target, NEW absent, NEW copy, NEW overrides, IsList(overrides), NEW a,
         IsApplied(a, target, absent, copy, overrides), NEW i \in 0..Len(overrides)
  PROVE  a[i].log = LogOf(a, target, absent, overrides, i)
<1> DEFINE logged(n) == LogOf(a, target, absent, overrides, n)
           bad == {n \in 0..Len(overrides) : a[n].log # logged(n)}
<1>1. SUFFICES ASSUME bad # {} PROVE FALSE
  OBVIOUS
<1>0. Len(overrides) \in Nat
  BY DEF IsList
<1>2. PICK m \in bad : \A n \in bad : m <= n
  <2>1. bad \in SUBSET Nat
    OBVIOUS
  <2> HIDE DEF bad
  <2> QED BY <1>1, <2>1, LeastNatural
<1>3. m \in 0..Len(overrides) /\ a[m].log # logged(m)
  OBVIOUS
<1>4. CASE m = 0
  <2>1. a[0].log = <<>>
    BY DEF IsApplied
  <2>2. logged(0) = <<>>
    BY DEF LogOf
  <2> QED BY <1>3, <1>4, <2>1, <2>2
<1>5. CASE m # 0
  <2>1. m - 1 \in 0..Len(overrides) /\ m \in 1..Len(overrides) /\ m \in Nat
    BY <1>0, <1>3, <1>5
  <2>2. a[m - 1].log = logged(m - 1)
    BY <1>2, <2>1
  <2>3. a[m].log = Append(a[m - 1].log, EntryOf(a, target, absent, overrides, m))
    BY <2>1, OverrideIsLogged
  <2>4. Append(logged(m - 1), EntryOf(a, target, absent, overrides, m)) = logged(m)
    <3>1. \A k \in 1..m : logged(m)[k] = EntryOf(a, target, absent, overrides, k)
      BY DEF LogOf
    <3>2. logged(m - 1) = [k \in 1..(m - 1) |-> logged(m)[k]]
      BY <2>1, <3>1 DEF LogOf
    <3>3. m > 0 /\ logged(m) = [k \in 1..m |-> logged(m)[k]] /\ m \in 1..m
      BY <2>1 DEF LogOf
    <3> HIDE DEF logged
    <3>4. Append([k \in 1..(m - 1) |-> logged(m)[k]], logged(m)[m]) = logged(m)
      BY <2>1, <3>3, AppendLast
    <3> QED BY <3>1, <3>2, <3>3, <3>4
  <2> QED BY <1>3, <2>2, <2>3, <2>4
<1> QED BY <1>4, <1>5

\* G holds the log of these overrides after its first m entries, and no other
\* entry for their target.
LogsAt(G, m, a, target, absent, overrides) ==
  /\ \A k \in 1..Len(overrides) : G[m + k] = EntryOf(a, target, absent, overrides, k)
  /\ \A i \in DOMAIN G : G[i].target = target => i \in (m + 1)..(m + Len(overrides))
  /\ DOMAIN G = 1..Len(G) /\ Len(G) \in Nat /\ m + Len(overrides) <= Len(G)

\* After the first n overrides a key stands where the log says.
StandsAt(G, target, key, m, a, copy, absent, n) ==
  Standing(G, target, key, m + n, copy, absent) = At(a[n].of, key, absent)

\* If the log is right before an override it is right after it.
LEMMA StandsAfterOne ==
  ASSUME NEW target, NEW absent, NEW copy, NEW overrides, NEW a,
         IsApplied(a, target, absent, copy, overrides),
         NEW G, NEW m \in Nat, LogsAt(G, m, a, target, absent, overrides),
         NEW key, NEW n \in 1..Len(overrides),
         StandsAt(G, target, key, m, a, copy, absent, n - 1)
  PROVE  StandsAt(G, target, key, m, a, copy, absent, n)
<1>1. SetsOne(a, target, absent, overrides, n, key)
  BY OverrideSets
<1>2. /\ G[m + n] = EntryOf(a, target, absent, overrides, n)
      /\ G[m + n].target = target /\ G[m + n].key = overrides[n].key
  BY DEF LogsAt, EntryOf, Entry
<1>3. Standing(G, target, key, m + n, copy, absent) =
        IF G[m + n].target = target /\ G[m + n].key = key THEN G[m + n].confirmed
        ELSE Standing(G, target, key, (m + n) - 1, copy, absent)
  <2>1. m + n \in Nat /\ m + n > 0
    OBVIOUS
  <2> QED BY <2>1, StandingSteps
<1>4. (m + n) - 1 = m + (n - 1)
  OBVIOUS
<1> QED BY <1>1, <1>2, <1>3, <1>4 DEF StandsAt, SetsOne

\* So it is right after any number of them.
LEMMA StandsWhereApplied ==
  ASSUME NEW target, NEW absent, NEW copy, NEW overrides, IsList(overrides), NEW a,
         IsApplied(a, target, absent, copy, overrides),
         NEW G, NEW m \in Nat, LogsAt(G, m, a, target, absent, overrides), NEW key,
         NEW i \in 0..Len(overrides)
  PROVE  StandsAt(G, target, key, m, a, copy, absent, i)
<1> DEFINE Stands(n) == StandsAt(G, target, key, m, a, copy, absent, n)
<1>0. Len(overrides) \in Nat
  BY DEF IsList
<1>1. Stands(0)
  <2>1. EntriesOn(G, target, key, m) = {}
    BY <1>0 DEF EntriesOn, LogsAt
  <2>2. Standing(G, target, key, m, copy, absent) = At(copy, key, absent)
    BY <2>1 DEF Standing
  <2>3. a[0].of = copy /\ m + 0 = m
    BY DEF IsApplied
  <2> QED BY <2>2, <2>3 DEF StandsAt
<1>2. \A n \in 1..Len(overrides) : Stands(n - 1) => Stands(n)
  BY StandsAfterOne
<1> HIDE DEF Stands
<1>3. \A n \in 0..Len(overrides) : Stands(n)
  <2> DEFINE bad == {n \in 0..Len(overrides) : ~ Stands(n)}
  <2>1. SUFFICES ASSUME bad # {} PROVE FALSE
    OBVIOUS
  <2>2. PICK n \in bad : \A j \in bad : n <= j
    <3>1. bad \in SUBSET Nat
      OBVIOUS
    <3> HIDE DEF bad
    <3> QED BY <2>1, <3>1, LeastNatural
  <2>3. n # 0 => n \in 1..Len(overrides) /\ n - 1 \in 0..Len(overrides) /\ n - 1 \notin bad
    BY <1>0, <2>2
  <2> QED BY <1>1, <1>2, <2>3
<1> QED BY <1>3 DEF Stands

\* The log of one list of overrides accounts for what they made of their target,
\* wherever in a longer log it stands.
LEMMA LogAccounts ==
  ASSUME NEW target, NEW absent, NEW copy, NEW overrides, IsList(overrides), NEW a,
         IsApplied(a, target, absent, copy, overrides),
         NEW G, NEW m \in Nat, LogsAt(G, m, a, target, absent, overrides)
  PROVE  Accounts(G, target, copy, a[Len(overrides)].of, absent)
<1>0. Len(overrides) \in Nat
  BY DEF IsList
<1>1. ASSUME NEW i \in DOMAIN G, G[i].target = target
      PROVE  G[i].previous = Standing(G, target, G[i].key, i - 1, copy, absent)
  <2>1. PICK k \in 1..Len(overrides) : i = m + k
    <3>1. i \in (m + 1)..(m + Len(overrides))
      BY <1>1 DEF LogsAt
    <3>2. i - m \in 1..Len(overrides) /\ i = m + (i - m)
      BY <1>0, <3>1
    <3> QED BY <3>2
  <2>2. k - 1 \in 0..Len(overrides) /\ i - 1 = m + (k - 1)
    BY <1>0, <2>1
  <2>3. G[i] = EntryOf(a, target, absent, overrides, k)
    BY <2>1 DEF LogsAt
  <2>4. G[i].previous = At(a[k - 1].of, G[i].key, absent)
    BY <2>3 DEF EntryOf, Entry
  <2>5. StandsAt(G, target, G[i].key, m, a, copy, absent, k - 1)
    BY <2>2, StandsWhereApplied
  <2> QED BY <2>2, <2>4, <2>5 DEF StandsAt
<1>2. ASSUME NEW key
      PROVE  At(a[Len(overrides)].of, key, absent)
               = Standing(G, target, key, Len(G), copy, absent)
  <2>1. EntriesOn(G, target, key, Len(G)) = EntriesOn(G, target, key, m + Len(overrides))
    BY <1>0 DEF EntriesOn, LogsAt
  <2>2. Standing(G, target, key, Len(G), copy, absent)
          = Standing(G, target, key, m + Len(overrides), copy, absent)
    BY <2>1 DEF Standing
  <2>3. Len(overrides) \in 0..Len(overrides)
    BY <1>0
  <2>4. StandsAt(G, target, key, m, a, copy, absent, Len(overrides))
    BY <2>3, StandsWhereApplied
  <2> QED BY <2>2, <2>4 DEF StandsAt
<1> QED BY <1>1, <1>2 DEF Accounts

\* h is f and then g.
Joins(h, f, m, g, n) ==
  /\ DOMAIN h = 1..(m + n) /\ Len(h) = m + n
  /\ \A k \in 1..m : h[k] = f[k]
  /\ \A k \in 1..n : h[m + k] = g[k]

\* The concatenation of two lists.
LEMMA Joined ==
  ASSUME NEW m \in Nat, NEW n \in Nat, NEW S,
         NEW f \in [1..m -> S], NEW g \in [1..n -> S]
  PROVE  Joins(f \o g, f, m, g, n)
<1>1. f \in Seq(S) /\ g \in Seq(S) /\ Len(f) = m /\ Len(g) = n
  OBVIOUS
<1>2. /\ f \o g \in Seq(S) /\ Len(f \o g) = m + n
      /\ \A i \in 1..(m + n) : (f \o g)[i] = IF i <= m THEN f[i] ELSE g[i - m]
  BY <1>1, ConcatProperties
<1>3. \A k \in 1..n : m + k \in 1..(m + n) /\ ~ (m + k <= m) /\ (m + k) - m = k
  OBVIOUS
<1>4. \A k \in 1..m : k \in 1..(m + n) /\ k <= m
  OBVIOUS
<1>5. \A k \in 1..n : (f \o g)[m + k] = g[k]
  BY <1>2, <1>3
<1>6. \A k \in 1..m : (f \o g)[k] = f[k]
  BY <1>2, <1>4
<1> QED BY <1>2, <1>5, <1>6 DEF Joins

\* Whatever was detected, and however many overrides of a user follow: the log that
\* confirm_detection writes, replayed on the original detection, gives the confirmed
\* one, and each entry starts where the one before it on that key ended.
THEOREM OverridesAreAlwaysReplayable == EvaluationSpec => []OverridesAreReplayable
<1>1. ASSUME EvaluationInv, call = "select" PROVE OverridesAreReplayable
  <2> DEFINE d == request.detection
             jo == request.jurisdiction_overrides
             oo == request.overlay_overrides
  <2>1. IsList(jo) /\ IsList(oo)
    BY <1>1, ArgumentsAssumption DEF EvaluationInv
  <2>2. Len(jo) \in Nat /\ Len(oo) \in Nat
    BY <2>1 DEF IsList
  <2>3. PICK aj : /\ IsApplied(aj, "jurisdiction", Absent, d.jurisdictions, jo)
                  /\ Applied("jurisdiction", Absent, d.jurisdictions, jo) = aj[Len(jo)]
    BY <2>1, AppliedSteps
  <2>4. PICK ao : /\ IsApplied(ao, "overlay", NoValue, d.overlays, oo)
                  /\ Applied("overlay", NoValue, d.overlays, oo) = ao[Len(oo)]
    BY <2>1, AppliedSteps
  <2>5. /\ confirmation.original = d
        /\ confirmation.jurisdictions = aj[Len(jo)].of
        /\ confirmation.overlays = ao[Len(oo)].of
        /\ confirmation.override_log = aj[Len(jo)].log \o ao[Len(oo)].log
    <3>1. confirmation = confirm_detection(d, jo, oo) /\ confirmation.error = "none"
      BY <1>1 DEF EvaluationInv, ConfirmedOK
    <3> HIDE DEF d, jo, oo
    <3> QED BY <2>3, <2>4, <3>1
            DEF confirm_detection, _apply_jurisdiction_overrides, _apply_overlay_overrides
  <2> DEFINE f == LogOf(aj, "jurisdiction", Absent, jo, Len(jo))
             g == LogOf(ao, "overlay", NoValue, oo, Len(oo))
             G == confirmation.override_log
  <2>6. G = f \o g
    <3>0. Len(jo) \in 0..Len(jo) /\ Len(oo) \in 0..Len(oo)
      BY <2>2
    <3> HIDE DEF jo, oo
    <3>1. aj[Len(jo)].log = f
      BY <2>1, <2>3, <3>0, LogOfOverrides
    <3>2. ao[Len(oo)].log = g
      BY <2>1, <2>4, <3>0, LogOfOverrides
    <3> HIDE DEF f, g
    <3> QED BY <2>5, <3>1, <3>2
  <2>7. /\ DOMAIN G = 1..(Len(jo) + Len(oo)) /\ Len(G) = Len(jo) + Len(oo)
        /\ \A k \in 1..Len(jo) : G[k] = f[k]
        /\ \A k \in 1..Len(oo) : G[Len(jo) + k] = g[k]
    <3> DEFINE S == {f[k] : k \in 1..Len(jo)} \cup {g[k] : k \in 1..Len(oo)}
    <3>1. f \in [1..Len(jo) -> S] /\ g \in [1..Len(oo) -> S]
      BY DEF LogOf
    <3> HIDE DEF f, g, S, G, jo, oo
    <3>2. Joins(f \o g, f, Len(jo), g, Len(oo))
      BY <2>2, <3>1, Joined
    <3> QED BY <2>6, <3>2 DEF Joins
  <2>8. /\ \A k \in 1..Len(jo) : f[k].target = "jurisdiction"
        /\ \A k \in 1..Len(oo) : g[k].target = "overlay"
    BY DEF EntryOf, Entry, LogOf
  <2>9. \A i \in DOMAIN G : \/ i \in 1..Len(jo)
                            \/ i - Len(jo) \in 1..Len(oo) /\ i = Len(jo) + (i - Len(jo))
    <3> HIDE DEF f, g, G, jo, oo
    <3> QED BY <2>2, <2>7
  <2>10. /\ \A i \in DOMAIN G : G[i].target = "jurisdiction" => i \in 1..Len(jo)
         /\ \A i \in DOMAIN G : G[i].target = "overlay" => i \in (Len(jo) + 1)..(Len(jo) + Len(oo))
    <3> HIDE DEF f, g, G, jo, oo
    <3> SUFFICES ASSUME NEW i \in DOMAIN G
                 PROVE  /\ G[i].target = "jurisdiction" => i \in 1..Len(jo)
                        /\ G[i].target = "overlay" => i \in (Len(jo) + 1)..(Len(jo) + Len(oo))
      OBVIOUS
    <3>1. CASE i \in 1..Len(jo)
      <4>1. G[i].target = "jurisdiction"
        BY <2>7, <2>8, <3>1
      <4> QED BY <3>1, <4>1
    <3>2. CASE i - Len(jo) \in 1..Len(oo) /\ i = Len(jo) + (i - Len(jo))
      <4>1. G[i] = g[i - Len(jo)]
        BY <2>7, <3>2
      <4>2. G[i].target = "overlay"
        BY <2>8, <3>2, <4>1
      <4>3. i \in (Len(jo) + 1)..(Len(jo) + Len(oo))
        BY <2>2, <2>7, <3>2
      <4> QED BY <4>2, <4>3
    <3> QED BY <2>9, <3>1, <3>2
  <2>11. LogsAt(G, 0, aj, "jurisdiction", Absent, jo)
    <3>1. \A k \in 1..Len(jo) : G[k] = EntryOf(aj, "jurisdiction", Absent, jo, k)
      BY <2>7 DEF LogOf
    <3>2. \A k \in 1..Len(jo) : 0 + k = k
      OBVIOUS
    <3> HIDE DEF f, g, G, jo, oo
    <3> QED BY <2>2, <2>7, <2>10, <3>1, <3>2 DEF LogsAt
  <2>12. LogsAt(G, Len(jo), ao, "overlay", NoValue, oo)
    <3>1. \A k \in 1..Len(oo) : G[Len(jo) + k] = EntryOf(ao, "overlay", NoValue, oo, k)
      BY <2>7 DEF LogOf
    <3> HIDE DEF f, g, G, jo, oo
    <3> QED BY <2>2, <2>7, <2>10, <3>1 DEF LogsAt
  <2> HIDE DEF f, g
  <2>13. Accounts(G, "jurisdiction", d.jurisdictions, aj[Len(jo)].of, Absent)
    BY <2>1, <2>3, <2>11, LogAccounts
  <2>14. Accounts(G, "overlay", d.overlays, ao[Len(oo)].of, NoValue)
    BY <2>1, <2>2, <2>4, <2>12, LogAccounts
  <2> QED BY <2>5, <2>13, <2>14 DEF OverridesAreReplayable
<1>2. EvaluationInv => OverridesAreReplayable
  BY <1>1 DEF OverridesAreReplayable
<1> QED BY <1>2, EvaluationInvariance, PTL

\* Overrides set values only.
LEMMA OverriddenValues ==
  ASSUME NEW target, NEW absent, NEW copy, NEW overrides, IsList(overrides),
         \A path \in DOMAIN copy : copy[path] \in Value,
         \A i \in DOMAIN overrides : overrides[i].value \in Value
  PROVE  \A path \in DOMAIN Applied(target, absent, copy, overrides).of :
           Applied(target, absent, copy, overrides).of[path] \in Value
<1>0. Len(overrides) \in Nat /\ DOMAIN overrides = 1..Len(overrides)
  BY DEF IsList
<1>1. PICK a : /\ IsApplied(a, target, absent, copy, overrides)
               /\ Applied(target, absent, copy, overrides) = a[Len(overrides)]
  BY AppliedSteps
<1> DEFINE Fine(i) == \A path \in DOMAIN a[i].of : a[i].of[path] \in Value
<1>2. Fine(0)
  BY <1>1 DEF IsApplied
<1>3. ASSUME NEW i \in 1..Len(overrides), Fine(i - 1) PROVE Fine(i)
  <2>1. a[i].of = IF overrides[i].action = "remove"
                  THEN Without(a[i - 1].of, overrides[i].key)
                  ELSE With(a[i - 1].of, overrides[i].key, overrides[i].value)
    <3>1. a[i] = ApplyOverride(target, absent, a[i - 1], overrides[i])
      BY <1>1 DEF IsApplied
    <3> QED BY <3>1 DEF ApplyOverride
  <2>2. overrides[i].value \in Value
    BY <1>0
  <2>3. CASE overrides[i].action = "remove"
    <3>1. a[i].of = Without(a[i - 1].of, overrides[i].key)
      BY <2>1, <2>3
    <3> QED BY <1>3, <3>1 DEF Without, Restrict
  <2>4. CASE overrides[i].action # "remove"
    <3>1. a[i].of = With(a[i - 1].of, overrides[i].key, overrides[i].value)
      BY <2>1, <2>4
    <3> QED BY <1>3, <2>2, <3>1 DEF With
  <2> QED BY <2>3, <2>4
<1> HIDE DEF Fine
<1>4. \A n \in 0..Len(overrides) : Fine(n)
  <2> DEFINE bad == {n \in 0..Len(overrides) : ~ Fine(n)}
  <2>1. SUFFICES ASSUME bad # {} PROVE FALSE
    OBVIOUS
  <2>2. PICK n \in bad : \A j \in bad : n <= j
    <3>1. bad \in SUBSET Nat
      OBVIOUS
    <3> HIDE DEF bad
    <3> QED BY <2>1, <3>1, LeastNatural
  <2>3. n # 0 => n \in 1..Len(overrides) /\ n - 1 \in 0..Len(overrides) /\ n - 1 \notin bad
    BY <1>0, <2>2
  <2> QED BY <1>2, <1>3, <2>3
<1>5. Fine(Len(overrides))
  BY <1>0, <1>4
<1> QED BY <1>1, <1>5 DEF Fine

\* What the engine is called with is values.
LEMMA ContextOfValues ==
  ASSUME EvaluationInv, call \in {"select"} \cup Selected
  PROVE  \A path \in DOMAIN _context : _context[path] \in Value /\ _context[path] # MISSING
<1> DEFINE d == request.detection
           jo == request.jurisdiction_overrides
           oo == request.overlay_overrides
<1>1. /\ IsList(oo) /\ \A i \in DOMAIN oo : oo[i].value \in Value
      /\ \A path \in DOMAIN d.overlays : d.overlays[path] \in Value
      /\ \A path \in DOMAIN request.project : request.project[path] \in Value
  <2>1. request \in Arguments
    BY DEF EvaluationInv
  <2> QED BY <2>1, ArgumentsAssumption
<1>2. \A path \in DOMAIN confirmation.overlays : confirmation.overlays[path] \in Value
  <2>1. confirmation.overlays = Applied("overlay", NoValue, d.overlays, oo).of
    <3>1. confirmation = confirm_detection(d, jo, oo) /\ confirmation.error = "none"
      BY DEF EvaluationInv, ConfirmedOK
    <3> HIDE DEF d, jo, oo
    <3> QED BY <3>1 DEF confirm_detection, _apply_overlay_overrides
  <2> HIDE DEF d, oo
  <2> QED BY <1>1, <2>1, OverriddenValues
<1>3. inputs.geometry = confirmation.overlays
  BY DEF inputs, to_engine_inputs
<1>4. MISSING \notin Value
  BY DEF MISSING, Value, Scalar, Null
<1> QED BY <1>1, <1>2, <1>3, <1>4 DEF _context

-----------------------------------------------------------------------------
(* Errors                                                                  *)

\* HasDefect does what it says.
DefectIn(n) ==
  IF n.kind = "leaf"
  THEN \/ n.operator \notin OPERATOR_KEYS
       \/ /\ n.operator # "exists"
          /\ n.field \in DOMAIN _context
          /\ ~ Accepts(n.operator, _context[n.field], n.value)
  ELSE n.children = <<>> \/ \E i \in DOMAIN n.children : HasDefect(n.children[i])

\* A tree has a defect exactly when its root or a child has one.
LEMMA DefectSteps ==
  ASSUME NEW n \in Trigger
  PROVE  HasDefect(n) <=> DefectIn(n)
<1> DEFINE F(f) == [m \in Trigger |->
             IF m.kind = "leaf"
             THEN \/ m.operator \notin OPERATOR_KEYS
                  \/ /\ m.operator # "exists"
                     /\ m.field \in DOMAIN _context
                     /\ ~ Accepts(m.operator, _context[m.field], m.value)
             ELSE m.children = <<>> \/ \E i \in DOMAIN m.children : f[m.children[i]]]
           e == CHOOSE f : f = F(f)
<1>1. PICK f : IsMade("defect", f, TriggersAt[MaxNesting], _context)
  BY NestingAssumption, TriggersReadBelow, TriggersGrow, MadeExists
<1>2. f = F(f)
  BY <1>1 DEF IsMade, Made, DefectFrom, Trigger, TriggersAt
<1>3. e = F(e)
  <2> HIDE DEF F
  <2> QED BY <1>2, Zenon
<1>4. \A m : HasDefect(m) = e[m]
  BY Zenon DEF HasDefect
<1> HIDE DEF e
<1>5. e[n] = (IF n.kind = "leaf"
              THEN \/ n.operator \notin OPERATOR_KEYS
                   \/ /\ n.operator # "exists"
                      /\ n.field \in DOMAIN _context
                      /\ ~ Accepts(n.operator, _context[n.field], n.value)
              ELSE n.children = <<>> \/ \E i \in DOMAIN n.children : e[n.children[i]])
  BY <1>3, Zenon
<1> QED BY <1>4, <1>5, Zenon DEF DefectIn

\* An operator raises when it is unknown, or when it compares what it cannot.
LEMMA OperatorRaises ==
  ASSUME NEW operator, NEW actual, NEW expected
  PROVE  apply_operator(operator, actual, expected) = "raised"
           <=> \/ operator \notin OPERATOR_KEYS
               \/ operator # "exists" /\ actual # MISSING /\ ~ Accepts(operator, actual, expected)
<1>1. \A b : Outcome(b) # "raised"
  BY DEF Outcome
<1> QED BY <1>1 DEF apply_operator

\* So does a leaf, unless its field is missing from the context.
LEMMA LeafRaises ==
  ASSUME NEW n, NEW context, \A path \in DOMAIN context : context[path] # MISSING
  PROVE  _evaluate_leaf(n, context) = Raised
           <=> \/ n.operator \notin OPERATOR_KEYS
               \/ /\ n.operator # "exists"
                  /\ n.field \in DOMAIN context
                  /\ ~ Accepts(n.operator, context[n.field], n.value)
<1>1. _evaluate_leaf(n, context) = Raised
        <=> apply_operator(n.operator, get(context, n.field), n.value) = "raised"
  BY DEF _evaluate_leaf, Raised
<1>2. CASE n.field \in DOMAIN context
  <2>1. get(context, n.field) = context[n.field] /\ context[n.field] # MISSING
    BY <1>2 DEF get
  <2> QED BY <1>1, <1>2, <2>1, OperatorRaises
<1>3. CASE n.field \notin DOMAIN context
  <2>1. get(context, n.field) = MISSING
    BY <1>3 DEF get
  <2> QED BY <1>1, <1>3, <2>1, OperatorRaises
<1> QED BY <1>2, <1>3

\* Evaluation of a tree raises when there is a defect in it.
LEMMA TreeRaises ==
  ASSUME \A path \in DOMAIN _context : _context[path] # MISSING
  PROVE  \A n \in Trigger : evaluate_trigger(n, _context) = Raised <=> HasDefect(n)
<1> DEFINE P(n) == evaluate_trigger(n, _context) = Raised <=> HasDefect(n)
           bad == {d \in 0..MaxNesting : \E n \in TriggersAt[d] : ~ P(n)}
<1>1. SUFFICES ASSUME bad # {} PROVE FALSE
  <2>1. MaxNesting \in 0..MaxNesting /\ Trigger = TriggersAt[MaxNesting]
    BY NestingAssumption DEF Trigger, TriggersAt
  <2> HIDE DEF P
  <2>2. bad = {} => \A n \in Trigger : P(n)
    BY <2>1
  <2> QED BY <2>2 DEF P
<1>2. PICK d \in bad : \A j \in bad : d <= j
  <2>1. bad \in SUBSET Nat
    BY NestingAssumption
  <2> HIDE DEF bad
  <2> QED BY <1>1, <2>1, LeastNatural
<1>3. d \in 0..MaxNesting
  OBVIOUS
<1>4. PICK n \in TriggersAt[d] : ~ P(n)
  OBVIOUS
<1>5. n \in Trigger
  <2>1. MaxNesting \in d..MaxNesting
    BY <1>3, NestingAssumption
  <2> QED BY <1>3, <2>1, NestedGrows DEF Trigger, TriggersAt
<1>6. /\ evaluate_trigger(n, _context) =
           IF n.kind = "leaf" THEN _evaluate_leaf(n, _context)
           ELSE IF n.children = <<>> THEN Raised
           ELSE Composite(n.kind, [i \in DOMAIN n.children |->
                                     evaluate_trigger(n.children[i], _context)])
      /\ HasDefect(n) <=> DefectIn(n)
  BY <1>5, EvaluateTrigger, DefectSteps
<1> HIDE DEF bad
<1>7. CASE n.kind = "leaf"
  <2>1. DefectIn(n) <=> _evaluate_leaf(n, _context) = Raised
    BY <1>7, LeafRaises DEF DefectIn
  <2> QED BY <1>4, <1>6, <1>7, <2>1
<1>8. CASE n.kind # "leaf" /\ n.children = <<>>
  BY <1>4, <1>6, <1>8 DEF DefectIn
<1>9. CASE n.kind # "leaf" /\ n.children # <<>>
  <2> DEFINE es == [i \in DOMAIN n.children |-> evaluate_trigger(n.children[i], _context)]
  <2>1. /\ d > 0 /\ DOMAIN n.children = 1..Len(n.children) /\ Len(n.children) \in Nat
        /\ \A i \in DOMAIN n.children : n.children[i] \in TriggersAt[d - 1]
    BY <1>3, <1>9, ChildrenOfTrigger
  <2>2. d - 1 \in 0..MaxNesting /\ d - 1 \notin bad
    BY <1>2, <1>3, <2>1, NestingAssumption
  <2>3. \A i \in DOMAIN n.children : P(n.children[i])
    BY <2>1, <2>2 DEF bad
  <2>4. Raised \in ToSet(es) <=> \E i \in DOMAIN n.children : es[i] = Raised
    BY DEF ToSet
  <2>5. Composite(n.kind, es) = Raised <=> Raised \in ToSet(es)
    BY DEF Composite, Raised
  <2>6. DefectIn(n) <=> \E i \in DOMAIN n.children : HasDefect(n.children[i])
    BY <1>9 DEF DefectIn
  <2> QED BY <1>4, <1>6, <1>9, <2>3, <2>4, <2>5, <2>6
<1> QED BY <1>7, <1>8, <1>9

-----------------------------------------------------------------------------
(* Sorted lists                                                            *)

\* ById lists the values of a function in the order of their ids.
LEMMA ByIdLists ==
  ASSUME NEW f, IsFiniteSet(DOMAIN f), DOMAIN f \subseteq Int
  PROVE  \E o : /\ IsListing(o, DOMAIN f)
                /\ ById(f) = [k \in 1..Cardinality(DOMAIN f) |-> f[o[k]]]
<1> DEFINE S == DOMAIN f
           R == {p \in S \X S : p[1] < p[2]}
           less(x) == {y \in S : y < x}
           at(k) == CHOOSE x \in S : Cardinality(less(x)) = k - 1
           o == InOrder(S, <)
<1>1. Orders(R, S) /\ IsFiniteSet(S)
  BY DEF Orders
<1>2. \A x \in S : less(x) = Below(R, S, x)
  BY DEF Below
<1>3. o = [k \in 1..Cardinality(S) |-> at(k)]
  BY DEF InOrder
<1>4. ById(f) = [k \in DOMAIN o |-> f[o[k]]]
  BY DEF ById
<1> HIDE DEF o, R, S, less, at
<1>5. \A k \in 1..Cardinality(S) : \E x \in S : Cardinality(less(x)) = k - 1
  BY <1>1, <1>2, PlacesAreTaken
<1>6. \A k \in 1..Cardinality(S) : o[k] \in S /\ Cardinality(less(o[k])) = k - 1
  <2> TAKE k \in 1..Cardinality(S)
  <2>1. o[k] = CHOOSE x \in S : Cardinality(less(x)) = k - 1
    BY <1>3 DEF at
  <2>2. \E x \in S : Cardinality(less(x)) = k - 1
    BY <1>5
  <2> QED BY <2>1, <2>2, Zenon
<1>7. o = [k \in 1..Cardinality(S) |-> o[k]]
  BY <1>3
<1>8. IsListing(o, S)
  <2>1. \A k \in 1..Cardinality(S) : o[k] \in S /\ Cardinality(Below(R, S, o[k])) = k - 1
    BY <1>2, <1>6
  <2> QED BY <1>1, <1>7, <2>1, ListInOrder
<1>9. DOMAIN o = 1..Cardinality(S)
  BY <1>7, Zenon
<1> QED BY <1>4, <1>8, <1>9 DEF S

\* A function on a finite set has finitely many values.
LEMMA ImageIsFinite ==
  ASSUME NEW f, IsFiniteSet(DOMAIN f)
  PROVE  IsFiniteSet({f[x] : x \in DOMAIN f})
<1> DEFINE T == {f[x] : x \in DOMAIN f}
           g == [x \in DOMAIN f |-> f[x]]
<1>1. g \in [DOMAIN f -> T] /\ \A t \in T : \E x \in DOMAIN f : g[x] = t
  OBVIOUS
<1>2. g \in Surjection(DOMAIN f, T)
  BY <1>1 DEF Surjection
<1> HIDE DEF T, g
<1>3. IsFiniteSet(T)
  BY <1>2, FS_Surjection
<1> QED BY <1>3 DEF T

\* The last element of a finite set in order.
LEMMA LastInOrder ==
  ASSUME NEW S, IsFiniteSet(S), S # {}, NEW R, Orders(R, S)
  PROVE  \E x \in S : \A y \in S : y = x \/ <<y, x>> \in R
<1>1. Cardinality(S) \in Nat /\ Cardinality(S) # 0
  BY FS_CardinalityType, FS_EmptySet
<1>2. PICK x \in S : Cardinality(Below(R, S, x)) = Cardinality(S) - 1
  BY <1>1, PlacesAreTaken
<1>3. x \notin Below(R, S, x)
  BY DEF Below, Orders
<1>4. IsFiniteSet(S \ {x}) /\ Cardinality(S \ {x}) = Cardinality(S) - 1
  BY FS_RemoveElement
<1>5. Below(R, S, x) \in SUBSET (S \ {x})
  BY <1>3 DEF Below
<1>6. S \ {x} = Below(R, S, x)
  BY <1>2, <1>4, <1>5, FS_Subset
<1> QED BY <1>6 DEF Below

\* One of the places of a list has the greatest key.
LEMMA GreatestKey ==
  ASSUME NEW places, IsFiniteSet(places), places # {}, places \subseteq Int,
         NEW key, \A i \in places : key[i] \in Int
  PROVE  \E i \in places : \A j \in places : key[j] <= key[i]
<1> DEFINE R == {p \in places \X places : \/ key[p[1]] < key[p[2]]
                                          \/ key[p[1]] = key[p[2]] /\ p[1] < p[2]}
<1>1. \A i, j \in places : <<i, j>> \in R <=> key[i] < key[j] \/ (key[i] = key[j] /\ i < j)
  OBVIOUS
<1> HIDE DEF R
<1>2. Orders(R, places)
  BY <1>1 DEF Orders
<1>3. PICK i \in places : \A j \in places : j = i \/ <<j, i>> \in R
  BY <1>2, LastInOrder
<1>4. \A j \in places : key[j] <= key[i]
  <2> TAKE j \in places
  <2>1. CASE j = i
    BY <2>1
  <2>2. CASE <<j, i>> \in R
    <3>1. key[j] < key[i] \/ key[j] = key[i]
      BY <1>1, <2>2
    <3> QED BY <3>1
  <2> QED BY <1>3, <2>1, <2>2
<1> QED BY <1>4

-----------------------------------------------------------------------------
(* The rules of an evaluation                                              *)

RuleOK(rule) ==
  /\ rule.rule_id \in RuleId /\ rule.triggers \in Trigger
  /\ rule.effective_from \in Nat /\ rule.version[1] \in Nat

OneVersion(rules) ==
  \A i, k \in DOMAIN rules : rules[i].rule_id = rules[k].rule_id => i = k

\* The parts of IsRuleList.
LEMMA RuleListDef ==
  ASSUME NEW rules
  PROVE  /\ IsRuleList(rules) <=> IsList(rules) /\ \A i \in DOMAIN rules : RuleOK(rules[i])
         /\ IsList(rules) => DOMAIN rules = 1..Len(rules) /\ Len(rules) \in Nat
                             /\ IsFiniteSet(DOMAIN rules)
<1>1. IsList(rules) => DOMAIN rules = 1..Len(rules) /\ Len(rules) \in Nat
  BY DEF IsList
<1>2. Len(rules) \in Nat => IsFiniteSet(1..Len(rules))
  BY FS_Interval
<1> QED BY <1>1, <1>2 DEF IsRuleList, RuleOK

\* The list of a function on ids, each its rule's own.
LEMMA ByIdIsRuleList ==
  ASSUME NEW f, IsFiniteSet(DOMAIN f), DOMAIN f \subseteq RuleId,
         \A n \in DOMAIN f : RuleOK(f[n]) /\ f[n].rule_id = n
  PROVE  IsRuleList(ById(f)) /\ OneVersion(ById(f))
<1>1. DOMAIN f \subseteq Int
  BY RequestsAssumption
<1>2. PICK o : /\ IsListing(o, DOMAIN f)
               /\ ById(f) = [k \in 1..Cardinality(DOMAIN f) |-> f[o[k]]]
  BY <1>1, ByIdLists
<1> DEFINE N == Cardinality(DOMAIN f)
           b == [k \in 1..N |-> f[o[k]]]
<1>3. N \in Nat /\ \A k \in 1..N : o[k] \in DOMAIN f
  BY <1>2 DEF IsListing
<1>4. IsList(b)
  <2>1. b \in [1..N -> ToSet(b)]
    BY DEF ToSet
  <2> HIDE DEF b
  <2> QED BY <1>3, <2>1 DEF IsList
<1>5. \A k \in DOMAIN b : RuleOK(b[k])
  BY <1>3
<1>6. OneVersion(b)
  <2> SUFFICES ASSUME NEW j \in 1..N, NEW k \in 1..N, b[j].rule_id = b[k].rule_id
               PROVE  j = k
    BY DEF OneVersion
  <2>1. o[j] = o[k]
    BY <1>3
  <2>2. DOMAIN o = 1..N
    BY <1>2 DEF IsListing
  <2> QED BY <1>2, <2>1, <2>2 DEF IsListing
<1> HIDE DEF b
<1>7. IsRuleList(b)
  BY <1>4, <1>5, RuleListDef
<1> QED BY <1>2, <1>6, <1>7 DEF b

\* by_id keeps a rule of each id, and the only one where there is only one.
LEMMA LastByIdKeeps ==
  ASSUME NEW rules, IsRuleList(rules)
  PROVE  /\ DOMAIN LastById(rules) = Ids(rules) /\ IsFiniteSet(Ids(rules))
         /\ Ids(rules) \subseteq RuleId
         /\ \A n \in Ids(rules) : RuleOK(LastById(rules)[n]) /\ LastById(rules)[n].rule_id = n
         /\ OneVersion(rules) =>
              \A i \in DOMAIN rules : LastById(rules)[rules[i].rule_id] = rules[i]
<1>1. /\ DOMAIN rules = 1..Len(rules) /\ Len(rules) \in Nat /\ IsFiniteSet(DOMAIN rules)
      /\ \A i \in DOMAIN rules : RuleOK(rules[i])
  BY RuleListDef
<1> DEFINE last(n, i) == /\ rules[i].rule_id = n
                         /\ \A j \in DOMAIN rules : rules[j].rule_id = n => j <= i
<1>2. \A n \in Ids(rules) : \E i \in DOMAIN rules : last(n, i)
  <2> TAKE n \in Ids(rules)
  <2> DEFINE places == {i \in DOMAIN rules : rules[i].rule_id = n}
             key == [i \in places |-> i]
  <2>1. places # {} /\ places \in SUBSET DOMAIN rules
    BY DEF Ids
  <2>2. IsFiniteSet(places) /\ places \subseteq Int /\ \A i \in places : key[i] \in Int
    BY <1>1, <2>1, FS_Subset
  <2>3. PICK i \in places : \A j \in places : key[j] <= key[i]
    <3> HIDE DEF places, key
    <3> QED BY <2>1, <2>2, GreatestKey
  <2> QED BY <2>3
<1> DEFINE at(n) == CHOOSE i \in DOMAIN rules : last(n, i)
<1>3. LastById(rules) = [n \in Ids(rules) |-> rules[at(n)]]
  BY DEF LastById
<1>4. \A n \in Ids(rules) : at(n) \in DOMAIN rules /\ last(n, at(n))
  <2> HIDE DEF last
  <2> QED BY <1>2, Zenon
<1> HIDE DEF at
<1>5. \A n \in Ids(rules) : RuleOK(LastById(rules)[n]) /\ LastById(rules)[n].rule_id = n
  BY <1>1, <1>3, <1>4
<1>6. Ids(rules) \subseteq RuleId
  BY <1>1 DEF Ids, RuleOK
<1>7. IsFiniteSet(Ids(rules))
  <2> DEFINE id == [i \in DOMAIN rules |-> rules[i].rule_id]
  <2>1. Ids(rules) = {id[i] : i \in DOMAIN id} /\ DOMAIN id = DOMAIN rules
    BY DEF Ids
  <2> HIDE DEF id
  <2> QED BY <1>1, <2>1, ImageIsFinite
<1>8. OneVersion(rules) => \A i \in DOMAIN rules : LastById(rules)[rules[i].rule_id] = rules[i]
  <2> SUFFICES ASSUME OneVersion(rules), NEW i \in DOMAIN rules
               PROVE  LastById(rules)[rules[i].rule_id] = rules[i]
    OBVIOUS
  <2>1. rules[i].rule_id \in Ids(rules)
    BY DEF Ids
  <2>2. at(rules[i].rule_id) = i
    BY <1>4, <2>1 DEF OneVersion
  <2> QED BY <1>3, <2>1, <2>2
<1> QED BY <1>3, <1>5, <1>6, <1>7, <1>8

\* The version that governs is one of those that may.
LEMMA BestVersionIsOne ==
  ASSUME NEW rules, IsRuleList(rules), NEW places \in SUBSET DOMAIN rules, places # {}
  PROVE  \E i \in places : _best_version(rules, places) = rules[i]
<1>1. /\ DOMAIN rules = 1..Len(rules) /\ Len(rules) \in Nat /\ IsFiniteSet(DOMAIN rules)
      /\ \A i \in DOMAIN rules : rules[i].effective_from \in Nat /\ rules[i].version[1] \in Nat
  BY RuleListDef DEF RuleOK
<1> DEFINE latest == Latest(rules, places)
           final == Finalists(rules, places)
<1>2. latest \in SUBSET places /\ latest # {}
  <2> DEFINE key == [i \in places |-> rules[i].effective_from]
  <2>1. IsFiniteSet(places) /\ places \subseteq Int /\ \A i \in places : key[i] \in Int
    BY <1>1, FS_Subset
  <2>2. \E i \in places : \A j \in places : key[j] <= key[i]
    <3> HIDE DEF key
    <3> QED BY <2>1, GreatestKey
  <2> QED BY <2>2 DEF Latest
<1>3. final \in SUBSET latest /\ final # {}
  <2> DEFINE key == [i \in latest |-> rules[i].version[1]]
  <2>1. IsFiniteSet(latest) /\ latest \subseteq Int /\ \A i \in latest : key[i] \in Int
    BY <1>1, <1>2, FS_Subset
  <2>2. \E i \in latest : \A j \in latest : key[j] <= key[i]
    <3> HIDE DEF key, latest
    <3> QED BY <1>2, <2>1, GreatestKey
  <2>3. final = Highest(rules, latest)
    BY DEF Finalists
  <2> QED BY <2>2, <2>3 DEF Highest
<1>4. Min(final) \in final
  <2>1. final \in SUBSET Nat
    BY <1>1, <1>2, <1>3
  <2>2. PICK m \in final : \A x \in final : m <= x
    <3> HIDE DEF final
    <3> QED BY <1>3, <2>1, LeastNatural
  <2> HIDE DEF final
  <2> QED BY <2>2 DEF Min
<1> QED BY <1>2, <1>3, <1>4 DEF _best_version

\* The governing rules of a list are a list of rules, one of each id.
LEMMA GoverningIsRuleList ==
  ASSUME NEW rules, IsRuleList(rules), NEW day
  PROVE  IsRuleList(select_governing(rules, day)) /\ OneVersion(select_governing(rules, day))
<1> DEFINE f == [n \in GoverningIds(rules, day) |-> _best_version(rules, Group(rules, n, day))]
<1>1. IsFiniteSet(DOMAIN f) /\ DOMAIN f \subseteq RuleId
  <2>1. GoverningIds(rules, day) \in SUBSET Ids(rules)
    BY DEF GoverningIds
  <2>2. IsFiniteSet(Ids(rules)) /\ Ids(rules) \subseteq RuleId
    BY LastByIdKeeps
  <2> QED BY <2>1, <2>2, FS_Subset
<1>2. \A n \in DOMAIN f : RuleOK(f[n]) /\ f[n].rule_id = n
  <2> TAKE n \in DOMAIN f
  <2>1. Group(rules, n, day) \in SUBSET DOMAIN rules /\ Group(rules, n, day) # {}
    BY DEF Group, GoverningIds
  <2>2. PICK i \in Group(rules, n, day) : _best_version(rules, Group(rules, n, day)) = rules[i]
    BY <2>1, BestVersionIsOne
  <2>3. RuleOK(rules[i]) /\ rules[i].rule_id = n
    BY <2>1, <2>2, RuleListDef DEF Group
  <2> QED BY <2>2, <2>3
<1>3. select_governing(rules, day) = ById(f)
  BY DEF select_governing
<1> HIDE DEF f
<1> QED BY <1>1, <1>2, <1>3, ByIdIsRuleList

\* So are the rules under a draft.
LEMMA OverlaidIsRuleList ==
  ASSUME NEW base, IsRuleList(base), NEW overlay, IsRuleList(overlay.upsert)
  PROVE  IsRuleList(apply_overlay(base, overlay)) /\ OneVersion(apply_overlay(base, overlay))
<1> DEFINE all == base \o overlay.upsert
           m == Len(base)
           n == Len(overlay.upsert)
<1>1. IsRuleList(all)
  <2> DEFINE S == ToSet(base) \cup ToSet(overlay.upsert)
  <2>1. /\ IsList(base) /\ IsList(overlay.upsert)
        /\ DOMAIN base = 1..m /\ m \in Nat /\ DOMAIN overlay.upsert = 1..n /\ n \in Nat
    BY RuleListDef
  <2>2. base \in [1..m -> S] /\ overlay.upsert \in [1..n -> S]
    BY <2>1 DEF ToSet, IsList
  <2>3. Joins(all, base, m, overlay.upsert, n)
    <3> HIDE DEF m, n, S
    <3> QED BY <2>1, <2>2, Joined
  <2>4. \A i \in DOMAIN all : \/ i \in DOMAIN base /\ all[i] = base[i]
                              \/ /\ i - m \in DOMAIN overlay.upsert
                                 /\ all[i] = overlay.upsert[i - m]
    <3> SUFFICES ASSUME NEW i \in 1..(m + n)
                 PROVE  \/ i \in DOMAIN base /\ all[i] = base[i]
                        \/ /\ i - m \in DOMAIN overlay.upsert
                           /\ all[i] = overlay.upsert[i - m]
      BY <2>3 DEF Joins
    <3> HIDE DEF m, n, all
    <3>1. CASE i <= m
      BY <2>1, <2>3, <3>1 DEF Joins
    <3>2. CASE i > m
      <4>1. i - m \in 1..n /\ i = m + (i - m)
        BY <2>1, <3>2
      <4>2. all[m + (i - m)] = overlay.upsert[i - m]
        BY <2>3, <4>1 DEF Joins
      <4> QED BY <2>1, <4>1, <4>2
    <3> QED BY <2>1, <3>1, <3>2
  <2>5. \A i \in DOMAIN all : RuleOK(all[i])
    <3>1. /\ \A i \in DOMAIN base : RuleOK(base[i])
          /\ \A i \in DOMAIN overlay.upsert : RuleOK(overlay.upsert[i])
      BY RuleListDef
    <3> HIDE DEF all, m
    <3> QED BY <2>4, <3>1
  <2>6. IsList(all)
    <3>1. all \in [1..(m + n) -> ToSet(all)]
      <4>1. all \in Seq(S)
        <5>1. base \in Seq(S) /\ overlay.upsert \in Seq(S)
          BY <2>1, <2>2
        <5> HIDE DEF S
        <5> QED BY <5>1, ConcatProperties
      <4>2. DOMAIN all = 1..(m + n)
        BY <2>3 DEF Joins
      <4> HIDE DEF all, S, m, n
      <4> QED BY <4>1, <4>2 DEF ToSet
    <3> HIDE DEF all, m, n
    <3> QED BY <2>1, <3>1 DEF IsList
  <2> HIDE DEF all
  <2> QED BY <2>5, <2>6, RuleListDef
<1> DEFINE by_id == LastById(all)
           f == [k \in DOMAIN by_id \ overlay.remove |-> by_id[k]]
<1>2. /\ DOMAIN by_id = Ids(all) /\ IsFiniteSet(Ids(all)) /\ Ids(all) \subseteq RuleId
      /\ \A k \in Ids(all) : RuleOK(by_id[k]) /\ by_id[k].rule_id = k
  <2> HIDE DEF all
  <2> QED BY <1>1, LastByIdKeeps
<1>3. IsFiniteSet(DOMAIN f) /\ DOMAIN f \subseteq RuleId
  <2>1. DOMAIN f \in SUBSET Ids(all)
    BY <1>2
  <2> HIDE DEF f, all
  <2> QED BY <1>2, <2>1, FS_Subset
<1>4. \A k \in DOMAIN f : RuleOK(f[k]) /\ f[k].rule_id = k
  <2> HIDE DEF all
  <2> QED BY <1>2
<1>5. apply_overlay(base, overlay) = ById(f)
  BY DEF apply_overlay
<1> HIDE DEF f
<1> QED BY <1>3, <1>4, <1>5, ByIdIsRuleList

\* The rules of any evaluation; chosen by an overlay or by date, one of each id.
LEMMA WorkingIsRuleList ==
  ASSUME request \in Arguments
  PROVE  /\ IsRuleList(Working)
         /\ request.governing_only \/ request.overlay # NoOverlay => OneVersion(Working)
<1> DEFINE base == IF request.overlay = NoOverlay THEN request.rules
                   ELSE apply_overlay(request.rules, request.overlay)
<1>1. IsRuleList(request.rules) /\ IsRuleList(request.overlay.upsert)
  BY ArgumentsAssumption
<1>2. IsRuleList(base) /\ (request.overlay # NoOverlay => OneVersion(base))
  <2>1. /\ IsRuleList(apply_overlay(request.rules, request.overlay))
        /\ OneVersion(apply_overlay(request.rules, request.overlay))
    BY <1>1, OverlaidIsRuleList
  <2> QED BY <1>1, <2>1
<1>3. Working = IF request.governing_only THEN select_governing(base, request.evaluation_date)
                ELSE base
  BY DEF Working
<1> HIDE DEF base
<1>4. /\ IsRuleList(select_governing(base, request.evaluation_date))
      /\ OneVersion(select_governing(base, request.evaluation_date))
  BY <1>2, GoverningIsRuleList
<1> QED BY <1>2, <1>3, <1>4

-----------------------------------------------------------------------------
(* Rule sets                                                               *)

ResultOf(rules, i, context, jurisdictions, types) ==
  evaluate_rule(rules[i], context, jurisdictions, types)

FiringPlaces(rules, context, jurisdictions, types) ==
  {i \in DOMAIN rules : ResultOf(rules, i, context, jurisdictions, types).fired}

\* evaluate_ruleset raises the first error, or lists what fired.
LEMMA RulesetRaises ==
  ASSUME NEW rules, NEW context, NEW jurisdictions, NEW types
  PROVE  evaluate_ruleset(rules, context, jurisdictions, types) = Raised
           <=> \E i \in DOMAIN rules : ResultOf(rules, i, context, jurisdictions, types) = Raised
<1> DEFINE results == [i \in DOMAIN rules |->
                         evaluate_rule(rules[i], context, jurisdictions, types)]
<1>1. Raised \in ToSet(results)
        <=> \E i \in DOMAIN rules : ResultOf(rules, i, context, jurisdictions, types) = Raised
  BY DEF ToSet, ResultOf
<1>2. evaluate_ruleset(rules, context, jurisdictions, types) = Raised
        <=> Raised \in ToSet(results)
  BY DEF evaluate_ruleset, Raised
<1> QED BY <1>1, <1>2

\* A rule raises exactly when it applies and its tree raises.
LEMMA RuleRaises ==
  ASSUME NEW rule, NEW context, NEW jurisdictions, NEW types
  PROVE  evaluate_rule(rule, context, jurisdictions, types) = Raised
           <=> /\ rule.jurisdiction_id \in jurisdictions
               /\ rule.applicable_project_types \cap types # {}
               /\ evaluate_trigger(rule.triggers, context) = Raised
<1>1. \A fired1, decided, tree : Evaluation(rule, fired1, decided, tree) # Raised
  <2> SUFFICES ASSUME NEW fired1, NEW decided, NEW tree,
                      Evaluation(rule, fired1, decided, tree) = Raised
               PROVE  FALSE
    OBVIOUS
  <2>1. DOMAIN Evaluation(rule, fired1, decided, tree) = DOMAIN Raised
    OBVIOUS
  <2>2. "rule_id" \in DOMAIN Evaluation(rule, fired1, decided, tree)
    BY DEF Evaluation
  <2>3. "rule_id" \notin DOMAIN Raised
    BY DEF Raised
  <2> QED BY <2>1, <2>2, <2>3
<1> QED BY <1>1 DEF evaluate_rule

\* For trees of any depth, any rules and any context: an evaluation raises exactly
\* when a rule that applies has a defect anywhere in its tree, since no branch is
\* skipped once another has decided (evaluate_trigger, evaluate_ruleset).
THEOREM ErrorsAlwaysExactlyOnDefects == EvaluationSpec => []ErrorsExactlyOnDefects
<1>1. ASSUME EvaluationInv, call = "evaluate" PROVE ErrorsExactlyOnDefects
  <2>1. \A path \in DOMAIN _context : _context[path] # MISSING
    BY <1>1, ContextOfValues DEF Selected
  <2>2. \A i \in DOMAIN working : working[i].triggers \in Trigger
    <3>1. IsRuleList(working)
      BY <1>1, WorkingIsRuleList DEF EvaluationInv, SelectedOK, Selected
    <3> QED BY <3>1, RuleListDef DEF RuleOK
  <2> DEFINE ids == inputs.applicable_jurisdiction_ids
             types == request.project_types
  <2>3. \A i \in DOMAIN working :
          ResultOf(working, i, _context, ids, types) = Raised
            <=> Applies(working[i]) /\ HasDefect(working[i].triggers)
    <3> TAKE i \in DOMAIN working
    <3>1. ResultOf(working, i, _context, ids, types) = Raised
            <=> Applies(working[i]) /\ evaluate_trigger(working[i].triggers, _context) = Raised
      BY RuleRaises DEF ResultOf, Applies
    <3>2. evaluate_trigger(working[i].triggers, _context) = Raised
            <=> HasDefect(working[i].triggers)
      BY <2>1, <2>2, TreeRaises
    <3> QED BY <3>1, <3>2
  <2>4. Evaluations = Raised
          <=> \E i \in DOMAIN working : ResultOf(working, i, _context, ids, types) = Raised
    BY RulesetRaises DEF Evaluations
  <2> QED BY <2>3, <2>4 DEF ErrorsExactlyOnDefects
<1>2. EvaluationInv => ErrorsExactlyOnDefects
  BY <1>1 DEF ErrorsExactlyOnDefects
<1> QED BY <1>2, EvaluationInvariance, PTL

-----------------------------------------------------------------------------
(* What fired                                                              *)

\* What fires of a list of rules is listed in their order.
LEMMA RulesetLists ==
  ASSUME NEW rules, IsRuleList(rules), NEW context, NEW jurisdictions, NEW types,
         evaluate_ruleset(rules, context, jurisdictions, types) # Raised
  PROVE  \E o : /\ IsListing(o, FiringPlaces(rules, context, jurisdictions, types))
                /\ evaluate_ruleset(rules, context, jurisdictions, types).fired
                     = [k \in DOMAIN o |-> ResultOf(rules, o[k], context, jurisdictions, types)]
<1> DEFINE results == [i \in DOMAIN rules |->
                         evaluate_rule(rules[i], context, jurisdictions, types)]
           S == {i \in DOMAIN rules : results[i].fired}
           before(i, j) == \/ rules[i].rule_id < rules[j].rule_id
                           \/ rules[i].rule_id = rules[j].rule_id /\ i < j
           R == {p \in S \X S : before(p[1], p[2])}
           less(x) == {y \in S : before(y, x)}
           at(k) == CHOOSE x \in S : Cardinality(less(x)) = k - 1
           o == InOrder(S, before)
<1>1. /\ IsFiniteSet(DOMAIN rules) /\ DOMAIN rules \subseteq Int
      /\ \A i \in DOMAIN rules : rules[i].rule_id \in Int
  <2>1. IsFiniteSet(DOMAIN rules) /\ DOMAIN rules = 1..Len(rules)
        /\ \A i \in DOMAIN rules : rules[i].rule_id \in RuleId
    BY RuleListDef DEF RuleOK
  <2>2. RuleId \subseteq Int
    BY RequestsAssumption
  <2>3. DOMAIN rules \subseteq Int
    BY <2>1
  <2> QED BY <2>1, <2>2, <2>3
<1>2. S \in SUBSET DOMAIN rules /\ S = FiringPlaces(rules, context, jurisdictions, types)
  BY DEF FiringPlaces, ResultOf
<1>3. IsFiniteSet(S)
  BY <1>1, <1>2, FS_Subset
<1>4. Orders(R, S)
  <2>1. \A i, j \in S : <<i, j>> \in R <=> before(i, j)
    OBVIOUS
  <2>2. \A i \in S : i \in Int /\ rules[i].rule_id \in Int
    BY <1>1, <1>2
  <2> HIDE DEF R, S
  <2> QED BY <2>1, <2>2 DEF Orders
<1>5. \A x \in S : less(x) = Below(R, S, x)
  BY DEF Below
<1>6. o = [k \in 1..Cardinality(S) |-> at(k)]
  BY DEF InOrder
<1>7. evaluate_ruleset(rules, context, jurisdictions, types).fired
        = [k \in DOMAIN o |-> results[o[k]]]
  BY DEF evaluate_ruleset, InOrder
<1> HIDE DEF o, R, S, less, at
<1>8. \A k \in 1..Cardinality(S) : \E x \in S : Cardinality(less(x)) = k - 1
  BY <1>3, <1>4, <1>5, PlacesAreTaken
<1>9. \A k \in 1..Cardinality(S) : o[k] \in S /\ Cardinality(less(o[k])) = k - 1
  <2> TAKE k \in 1..Cardinality(S)
  <2>1. o[k] = CHOOSE x \in S : Cardinality(less(x)) = k - 1
    BY <1>6 DEF at
  <2>2. \E x \in S : Cardinality(less(x)) = k - 1
    BY <1>8
  <2> QED BY <2>1, <2>2, Zenon
<1>10. o = [k \in 1..Cardinality(S) |-> o[k]]
  BY <1>6
<1>11. IsListing(o, S)
  <2>1. \A k \in 1..Cardinality(S) : o[k] \in S /\ Cardinality(Below(R, S, o[k])) = k - 1
    BY <1>5, <1>9
  <2> QED BY <1>3, <1>4, <1>10, <2>1, ListInOrder
<1>12. \A k \in DOMAIN o : results[o[k]] = ResultOf(rules, o[k], context, jurisdictions, types)
  <2>1. \A k \in DOMAIN o : o[k] \in DOMAIN rules
    BY <1>2, <1>11 DEF IsListing
  <2> QED BY <2>1 DEF ResultOf
<1> QED BY <1>2, <1>7, <1>11, <1>12

\* A rule that fires says what its tree evaluated to.
SaysWhy(e, rule, context) ==
  /\ e.rule_id = rule.rule_id /\ e.fired = TRUE
  /\ e.evaluated_triggers = evaluate_trigger(rule.triggers, context)
  /\ evaluate_trigger(rule.triggers, context) # Raised

\* What is kept of a fired rule is its own evaluation.
LEMMA FiringSaysWhy ==
  ASSUME NEW rule, NEW context, NEW jurisdictions, NEW types,
         evaluate_rule(rule, context, jurisdictions, types) # Raised,
         evaluate_rule(rule, context, jurisdictions, types).fired
  PROVE  SaysWhy(evaluate_rule(rule, context, jurisdictions, types), rule, context)
BY DEF evaluate_rule, Evaluation, SaysWhy

\* For any rules, drafts and versions: each explanation and each row of the matrix is
\* of the version whose triggers were evaluated, once one version of each id is
\* selected or overlaid (simulation.py: by_id keeps the last of an id).
THEOREM ExplanationsAreOfWhatFired == EvaluationSpec => []ExplainsWhatFired
<1>1. ASSUME EvaluationInv, call = "done",
             request.governing_only \/ request.overlay # NoOverlay
      PROVE  ExplainsWhatFired
  <2> DEFINE ids == inputs.applicable_jurisdiction_ids
             types == request.project_types
             result(p) == ResultOf(working, p, _context, ids, types)
  <2>1. IsRuleList(working) /\ OneVersion(working)
    <3>1. working = Working /\ request \in Arguments
      BY <1>1 DEF EvaluationInv, SelectedOK, Selected
    <3> QED BY <1>1, <3>1, WorkingIsRuleList
  <2>2. /\ Evaluations # Raised /\ fired = Evaluations.fired /\ fired_rules = FiredRules(fired)
        /\ explanations = [i \in DOMAIN fired |-> Explanation(i).value]
        /\ \A i \in DOMAIN fired : Explanation(i).error = "none"
    BY <1>1 DEF EvaluationInv, DecidedOK, Decided, ExplainedOK, Explained
  <2>3. PICK o : /\ IsListing(o, FiringPlaces(working, _context, ids, types))
                 /\ fired = [k \in DOMAIN o |-> result(o[k])]
    BY <2>1, <2>2, RulesetLists DEF Evaluations
  <2>4. \A i \in DOMAIN fired :
          /\ o[i] \in DOMAIN working /\ fired[i] = result(o[i])
          /\ result(o[i]).fired /\ result(o[i]) # Raised
    <3> TAKE i \in DOMAIN fired
    <3>1. o[i] \in FiringPlaces(working, _context, ids, types) /\ fired[i] = result(o[i])
      BY <2>3 DEF IsListing
    <3>2. result(o[i]) # Raised
      BY <2>2, <3>1, RulesetRaises DEF Evaluations, FiringPlaces
    <3> QED BY <3>1, <3>2 DEF FiringPlaces
  <2>5. \A i \in DOMAIN fired :
          /\ fired[i].rule_id = working[o[i]].rule_id
          /\ fired[i].evaluated_triggers = evaluate_trigger(working[o[i]].triggers, _context)
    <3> TAKE i \in DOMAIN fired
    <3>1. /\ fired[i] = evaluate_rule(working[o[i]], _context, ids, types)
          /\ evaluate_rule(working[o[i]], _context, ids, types).fired
          /\ evaluate_rule(working[o[i]], _context, ids, types) # Raised
      BY <2>4 DEF ResultOf
    <3>2. SaysWhy(evaluate_rule(working[o[i]], _context, ids, types), working[o[i]], _context)
      BY <3>1, FiringSaysWhy
    <3> QED BY <3>1, <3>2 DEF SaysWhy
  <2>6. \A i \in DOMAIN fired : LastById(working)[fired[i].rule_id] = working[o[i]]
    BY <2>1, <2>4, <2>5, LastByIdKeeps
  <2>7. \A i \in DOMAIN fired :
          explanations[i].rule_refs[1].rule_version = LastById(working)[fired[i].rule_id].version
    <3> TAKE i \in DOMAIN fired
    <3>1. Explanation(i).error = "none" /\ explanations[i] = Explanation(i).value
      BY <2>2
    <3>2. Explanation(i).value.rule_refs = _build_rule_refs(LastById(working)[fired[i].rule_id])
      BY <3>1 DEF Explanation, build_explanation, Returns, Raises
    <3> QED BY <3>1, <3>2 DEF _build_rule_refs
  <2>8. ASSUME NEW i \in DOMAIN fired, NEW k \in DOMAIN working,
               working[k].rule_id = fired[i].rule_id
        PROVE  /\ explanations[i].rule_refs[1].rule_version = working[k].version
               /\ fired[i].evaluated_triggers = evaluate_trigger(working[k].triggers, _context)
    <3>1. k = o[i]
      BY <2>1, <2>4, <2>5, <2>8 DEF OneVersion
    <3> QED BY <2>5, <2>6, <2>7, <3>1
  <2>9. ASSUME NEW row \in matrix.permits
        PROVE  \E i \in DOMAIN fired :
                 /\ row.explanation_ref.rule_id = fired[i].rule_id
                 /\ row.explanation_ref.rule_version = explanations[i].rule_refs[1].rule_version
    <3> DEFINE list == [i \in DOMAIN fired |-> fired_rules[fired[i].rule_id]]
               sequencing == _sequencing_index(stages, critical_ids)
    <3>1. matrix.permits = _permits(list, explanations, sequencing)
      BY <1>1 DEF EvaluationInv, MatrixOK, build_permit_matrix
    <3>2. PICK i \in DOMAIN list :
            \E permit \in list[i].permits :
              row = _permit_entry(list[i], explanations[i], permit, sequencing)
      <4> HIDE DEF list, sequencing
      <4> QED BY <3>1 DEF _permits
    <3>3. i \in DOMAIN fired /\ list[i] = LastById(working)[fired[i].rule_id]
      BY <2>2 DEF FiredRules
    <3>4. list[i].rule_id = fired[i].rule_id
      BY <2>5, <2>6, <3>3
    <3>5. /\ row.explanation_ref.rule_id = list[i].rule_id
          /\ row.explanation_ref.rule_version = list[i].version
      <4> HIDE DEF list, sequencing
      <4> QED BY <3>2 DEF _permit_entry
    <3> HIDE DEF list
    <3> QED BY <2>7, <3>3, <3>4, <3>5
  <2> QED BY <2>8, <2>9 DEF ExplainsWhatFired
<1>2. EvaluationInv => ExplainsWhatFired
  BY <1>1 DEF ExplainsWhatFired
<1> QED BY <1>2, EvaluationInvariance, PTL

-----------------------------------------------------------------------------
(* Leaves                                                                  *)

\* What evaluation makes of a trigger, by how deep it is nested.
LEMMA EvaluatedSteps ==
  ASSUME NEW m \in 0..MaxNesting
  PROVE  EvaluatedTo(m) = IF m = 0 THEN EvaluatedLeaf
                          ELSE EvaluatedTo(m - 1) \cup EvaluatedOf(m - 1)
<1>1. EvaluatedTo(m) = IF m = 0 THEN EvaluatedLeaf
                      ELSE EvaluatedTo(m - 1) \cup Composites(EvaluatedTo(m - 1), TRUE)
  <2> DEFINE yes == TRUE
  <2>1. \A k : EvaluatedTo(k) = Nested(EvaluatedLeaf, yes)[k]
    BY DEF EvaluatedTo
  <2> HIDE DEF yes
  <2>2. EvaluatedTo(m) = IF m = 0 THEN EvaluatedLeaf
                         ELSE EvaluatedTo(m - 1) \cup Composites(EvaluatedTo(m - 1), yes)
    <3>1. StepsTo(EvaluatedLeaf, yes, m)
      BY NestedSteps, Zenon
    <3> QED BY <2>1, <3>1 DEF StepsTo
  <2> QED BY <2>2 DEF yes
<1>2. Composites(EvaluatedTo(m - 1), TRUE) = EvaluatedOf(m - 1)
  BY DEF Composites, EvaluatedOf
<1> QED BY <1>1, <1>2

\* What an evaluated trigger can be.
LEMMA EvaluatedShape ==
  ASSUME NEW d \in 0..MaxNesting, NEW n \in EvaluatedTo(d)
  PROVE  n \in EvaluatedLeaf \/ (d > 0 /\ n \in EvaluatedOf(d - 1))
<1> DEFINE bad == {k \in 0..MaxNesting : \E x \in EvaluatedTo(k) :
             ~ (x \in EvaluatedLeaf \/ (k > 0 /\ x \in EvaluatedOf(k - 1)))}
<1>1. SUFFICES ASSUME bad # {} PROVE FALSE
  OBVIOUS
<1>2. PICK m \in bad : \A i \in bad : m <= i
  <2>1. bad \in SUBSET Nat
    BY NestingAssumption
  <2> HIDE DEF bad
  <2> QED BY <1>1, <2>1, LeastNatural
<1>3. m \in 0..MaxNesting
  OBVIOUS
<1>4. PICK x \in EvaluatedTo(m) :
        ~ (x \in EvaluatedLeaf \/ (m > 0 /\ x \in EvaluatedOf(m - 1)))
  OBVIOUS
<1> HIDE DEF bad
<1>5. EvaluatedTo(m) = IF m = 0 THEN EvaluatedLeaf
                      ELSE EvaluatedTo(m - 1) \cup EvaluatedOf(m - 1)
  BY <1>3, EvaluatedSteps
<1>6. m # 0 /\ m - 1 \in 0..MaxNesting /\ x \in EvaluatedTo(m - 1) /\ m - 1 \notin bad
  BY <1>2, <1>3, <1>4, <1>5, NestingAssumption
<1>7. m - 1 > 0 /\ x \in EvaluatedOf(m - 2)
  <2>1. m - 1 > 0 /\ x \in EvaluatedOf((m - 1) - 1)
    BY <1>4, <1>6 DEF bad
  <2>2. (m - 1) - 1 = m - 2
    BY <1>3, NestingAssumption
  <2> QED BY <2>1, <2>2
<1>8. EvaluatedTo(m - 2) \subseteq EvaluatedTo(m - 1)
  <2>1. m - 2 \in 0..MaxNesting /\ m - 1 \in (m - 2)..MaxNesting
    BY <1>3, <1>6, <1>7, NestingAssumption
  <2> QED BY <2>1, NestedGrows, Zenon DEF EvaluatedTo
<1>9. x \in EvaluatedOf(m - 1)
  BY <1>7, <1>8 DEF EvaluatedOf
<1>10. m > 0
  BY <1>3, <1>6, NestingAssumption
<1> QED BY <1>4, <1>9, <1>10

Trees == [d \in 0..MaxNesting |-> TriggersAt[d] \cup EvaluatedTo(d)]

\* Trees before and after their evaluation, by depth.
LEMMA TreesGrow ==
  /\ \A d \in 1..MaxNesting : Trees[d - 1] \subseteq Trees[d]
  /\ \A d \in 0..MaxNesting : Trees[d] \subseteq Trigger \cup EvaluatedTrigger
  /\ Trees[MaxNesting] = Trigger \cup EvaluatedTrigger
<1>1. ASSUME NEW d \in 1..MaxNesting PROVE Trees[d - 1] \subseteq Trees[d]
  <2>1. d - 1 \in 0..MaxNesting /\ d \in (d - 1)..MaxNesting /\ d \in 0..MaxNesting
    BY NestingAssumption
  <2>2. EvaluatedTo(d - 1) \subseteq EvaluatedTo(d)
    BY <2>1, NestedGrows DEF EvaluatedTo
  <2>3. TriggersAt[d - 1] \subseteq TriggersAt[d]
    BY <2>1, NestedGrows DEF TriggersAt
  <2> QED BY <2>1, <2>2, <2>3 DEF Trees
<1>2. ASSUME NEW d \in 0..MaxNesting PROVE Trees[d] \subseteq Trigger \cup EvaluatedTrigger
  <2>1. MaxNesting \in d..MaxNesting
    BY NestingAssumption
  <2>2. EvaluatedTo(d) \subseteq EvaluatedTrigger
    BY <2>1, NestedGrows DEF EvaluatedTo, EvaluatedTrigger
  <2>3. TriggersAt[d] \subseteq Trigger
    BY <2>1, NestedGrows DEF TriggersAt, Trigger
  <2> QED BY <2>2, <2>3 DEF Trees
<1>3. Trees[MaxNesting] = Trigger \cup EvaluatedTrigger
  <2>1. MaxNesting \in 0..MaxNesting
    BY NestingAssumption
  <2> QED BY <2>1 DEF Trees, Trigger, EvaluatedTrigger, EvaluatedTo, TriggersAt
<1> QED BY <1>1, <1>2, <1>3

\* The children of a tree are trees one level down.
LEMMA ChildrenOfTree ==
  ASSUME NEW d \in 0..MaxNesting, NEW n \in Trees[d], n.kind # "leaf"
  PROVE  /\ DOMAIN n.children = 1..Len(n.children) /\ Len(n.children) \in Nat
         /\ n.children # <<>> =>
              d > 0 /\ \A i \in DOMAIN n.children : n.children[i] \in Trees[d - 1]
<1>1. CASE n \in TriggersAt[d]
  <2>1. n.children # <<>> => d - 1 \in 0..MaxNesting
    BY <1>1, ChildrenOfTrigger, NestingAssumption
  <2> QED BY <1>1, <2>1, ChildrenOfTrigger DEF Trees
<1>2. CASE n \in EvaluatedTo(d)
  <2>1. n \notin EvaluatedLeaf
    BY DEF EvaluatedLeaf
  <2>2. d > 0 /\ n \in EvaluatedOf(d - 1)
    BY <1>2, <2>1, EvaluatedShape
  <2>3. n.children \in Seq(EvaluatedTo(d - 1))
    BY <2>2 DEF EvaluatedOf
  <2>4. d - 1 \in 0..MaxNesting
    BY <2>2, NestingAssumption
  <2>5. EvaluatedTo(d - 1) \subseteq Trees[d - 1]
    BY <2>4 DEF Trees
  <2> QED BY <2>2, <2>3, <2>5
<1> QED BY <1>1, <1>2 DEF Trees

\* Leaves does what it says.
LEMMA LeavesSteps ==
  ASSUME NEW n \in Trigger \cup EvaluatedTrigger
  PROVE  Leaves(n) = IF n.kind = "leaf" THEN <<n>>
                     ELSE FlattenSeq([i \in DOMAIN n.children |-> Leaves(n.children[i])])
<1> DEFINE F(f) == [m \in Trigger \cup EvaluatedTrigger |->
             IF m.kind = "leaf" THEN <<m>>
             ELSE FlattenSeq([i \in DOMAIN m.children |-> f[m.children[i]]])]
           e == CHOOSE f : f = F(f)
<1>1. ReadsBelow("leaves", Trees, MaxNesting, 0)
  <2>1. \A m, f : Made("leaves", m, f, 0) = LeavesFrom(m, f)
    BY DEF Made
  <2> SUFFICES ASSUME NEW d \in 0..MaxNesting, NEW m \in Trees[d], NEW f, NEW g,
                      d > 0 => \A c \in Trees[d - 1] : f[c] = g[c]
               PROVE  LeavesFrom(m, f) = LeavesFrom(m, g)
    BY <2>1 DEF ReadsBelow
  <2>2. CASE m.kind = "leaf"
    BY <2>2 DEF LeavesFrom
  <2>3. CASE m.kind # "leaf" /\ m.children = <<>>
    <3>1. [i \in DOMAIN m.children |-> f[m.children[i]]]
            = [i \in DOMAIN m.children |-> g[m.children[i]]]
      BY <2>3
    <3> QED BY <3>1 DEF LeavesFrom
  <2>4. CASE m.kind # "leaf" /\ m.children # <<>>
    <3>1. \A i \in DOMAIN m.children : f[m.children[i]] = g[m.children[i]]
      BY <2>4, ChildrenOfTree
    <3>2. [i \in DOMAIN m.children |-> f[m.children[i]]]
            = [i \in DOMAIN m.children |-> g[m.children[i]]]
      BY <3>1
    <3> QED BY <3>2 DEF LeavesFrom
  <2> QED BY <2>2, <2>3, <2>4
<1>2. PICK f : IsMade("leaves", f, Trees[MaxNesting], 0)
  BY <1>1, TreesGrow, NestingAssumption, MadeExists
<1>3. f = F(f)
  BY <1>2, TreesGrow DEF IsMade, Made, LeavesFrom
<1>4. e = F(e)
  <2> HIDE DEF F
  <2> QED BY <1>3, Zenon
<1>5. \A m : Leaves(m) = e[m]
  BY Zenon DEF Leaves
<1> HIDE DEF e
<1>6. e[n] = IF n.kind = "leaf" THEN <<n>>
             ELSE FlattenSeq([i \in DOMAIN n.children |-> e[n.children[i]]])
  BY <1>4, Zenon
<1>7. [i \in DOMAIN n.children |-> e[n.children[i]]]
        = [i \in DOMAIN n.children |-> Leaves(n.children[i])]
  BY <1>5
<1> QED BY <1>5, <1>6, <1>7

AllTrees == Trigger \cup EvaluatedTrigger

\* The leaves of a tree are a list of trees.
LEMMA LeavesAreTrees ==
  ASSUME NEW n \in AllTrees
  PROVE  Leaves(n) \in Seq(AllTrees)
<1> DEFINE P(m) == Leaves(m) \in Seq(AllTrees)
           bad == {d \in 0..MaxNesting : \E m \in Trees[d] : ~ P(m)}
<1>1. SUFFICES ASSUME bad # {} PROVE FALSE
  <2>1. MaxNesting \in 0..MaxNesting /\ AllTrees = Trees[MaxNesting]
    BY NestingAssumption, TreesGrow DEF AllTrees
  <2> HIDE DEF P
  <2>2. bad = {} => \A m \in AllTrees : P(m)
    BY <2>1
  <2> QED BY <2>2 DEF P
<1>2. PICK d \in bad : \A j \in bad : d <= j
  <2>1. bad \in SUBSET Nat
    BY NestingAssumption
  <2> HIDE DEF bad
  <2> QED BY <1>1, <2>1, LeastNatural
<1>3. d \in 0..MaxNesting
  OBVIOUS
<1>4. PICK m \in Trees[d] : ~ P(m)
  OBVIOUS
<1>5. m \in AllTrees
  BY <1>3, TreesGrow DEF AllTrees
<1>6. Leaves(m) = IF m.kind = "leaf" THEN <<m>>
                  ELSE FlattenSeq([i \in DOMAIN m.children |-> Leaves(m.children[i])])
  BY <1>5, LeavesSteps DEF AllTrees
<1> HIDE DEF bad
<1>7. CASE m.kind = "leaf"
  BY <1>4, <1>5, <1>6, <1>7
<1>8. CASE m.kind # "leaf"
  <2> DEFINE lists == [i \in DOMAIN m.children |-> Leaves(m.children[i])]
  <2>1. /\ DOMAIN m.children = 1..Len(m.children) /\ Len(m.children) \in Nat
        /\ m.children # <<>> =>
             d > 0 /\ \A i \in DOMAIN m.children : m.children[i] \in Trees[d - 1]
    BY <1>3, <1>8, ChildrenOfTree
  <2>2. CASE m.children = <<>>
    <3>1. lists = <<>>
      BY <2>2
    <3>2. FlattenSeq(lists) = <<>>
      BY <3>1 DEF FlattenSeq
    <3> QED BY <1>4, <1>6, <1>8, <3>2
  <2>3. CASE m.children # <<>>
    <3>1. d - 1 \in 0..MaxNesting /\ d - 1 \notin bad
      BY <1>2, <1>3, <2>1, <2>3, NestingAssumption
    <3>2. \A i \in DOMAIN m.children : P(m.children[i])
      BY <2>1, <2>3, <3>1 DEF bad
    <3>3. DOMAIN lists = 1..Len(lists) /\ Len(lists) = Len(m.children) /\ Len(lists) # 0
      <4>1. Len(m.children) # 0
        BY <2>1, <2>3
      <4> QED BY <2>1, <4>1
    <3>4. \A i \in DOMAIN lists : lists[i] \in Seq(AllTrees)
      BY <3>2
    <3> HIDE DEF lists
    <3>5. FlattenSeq(lists) \in Seq(AllTrees)
      BY <2>1, <3>3, <3>4, FlattenKeeps
    <3> QED BY <1>4, <1>6, <1>8, <3>5 DEF lists
  <2> QED BY <2>2, <2>3
<1> QED BY <1>7, <1>8

\* The leaves of a composite are those of its children.
LEMMA LeavesOfComposite ==
  ASSUME NEW d \in 0..MaxNesting, NEW n \in Trees[d], n.kind # "leaf", NEW leaf
  PROVE  leaf \in ToSet(Leaves(n))
           <=> \E i \in DOMAIN n.children : leaf \in ToSet(Leaves(n.children[i]))
<1> DEFINE lists == [i \in DOMAIN n.children |-> Leaves(n.children[i])]
<1>1. /\ DOMAIN n.children = 1..Len(n.children) /\ Len(n.children) \in Nat
      /\ n.children # <<>> =>
           d > 0 /\ \A i \in DOMAIN n.children : n.children[i] \in Trees[d - 1]
  BY ChildrenOfTree
<1>2. Leaves(n) = FlattenSeq(lists)
  <2>1. n \in Trigger \cup EvaluatedTrigger
    BY TreesGrow
  <2> QED BY <2>1, LeavesSteps
<1>3. CASE n.children = <<>>
  <2>1. lists = <<>>
    BY <1>3
  <2>2. FlattenSeq(lists) = <<>>
    BY <2>1 DEF FlattenSeq
  <2> QED BY <1>2, <1>3, <2>2 DEF ToSet
<1>4. CASE n.children # <<>>
  <2>1. \A i \in DOMAIN n.children : n.children[i] \in AllTrees
    BY <1>1, <1>4, TreesGrow, NestingAssumption DEF AllTrees
  <2>2. DOMAIN lists = 1..Len(lists) /\ Len(lists) \in Nat /\ Len(lists) # 0
    <3>1. Len(n.children) # 0
      BY <1>1, <1>4
    <3> QED BY <1>1, <3>1
  <2>3. \A i \in DOMAIN lists : lists[i] \in Seq(AllTrees)
    BY <2>1, LeavesAreTrees
  <2>4. ToSet(FlattenSeq(lists)) = UNION {ToSet(lists[i]) : i \in DOMAIN lists}
    <3> HIDE DEF lists
    <3> QED BY <2>2, <2>3, FlattenKeeps
  <2>5. leaf \in UNION {ToSet(lists[i]) : i \in DOMAIN lists}
          <=> \E i \in DOMAIN n.children : leaf \in ToSet(Leaves(n.children[i]))
    OBVIOUS
  <2> QED BY <1>2, <2>4, <2>5
<1> QED BY <1>3, <1>4

-----------------------------------------------------------------------------
(* Gaps                                                                    *)

IsContext(context) ==
  \A path \in DOMAIN context : context[path] \in Value /\ context[path] # MISSING

\* A tree that does not raise is evaluated to a tree of its depth.
LEMMA EvaluatedAsDeep ==
  ASSUME NEW context, IsContext(context)
  PROVE  \A d \in 0..MaxNesting : \A n \in TriggersAt[d] :
           evaluate_trigger(n, context) # Raised => evaluate_trigger(n, context) \in EvaluatedTo(d)
<1> DEFINE P(d, n) == evaluate_trigger(n, context) # Raised
                        => evaluate_trigger(n, context) \in EvaluatedTo(d)
           bad == {d \in 0..MaxNesting : \E n \in TriggersAt[d] : ~ P(d, n)}
<1>1. SUFFICES ASSUME bad # {} PROVE FALSE
  <2> HIDE DEF P
  <2>1. bad = {} => \A d \in 0..MaxNesting : \A n \in TriggersAt[d] : P(d, n)
    OBVIOUS
  <2> QED BY <2>1 DEF P
<1>2. PICK d \in bad : \A j \in bad : d <= j
  <2>1. bad \in SUBSET Nat
    BY NestingAssumption
  <2> HIDE DEF bad
  <2> QED BY <1>1, <2>1, LeastNatural
<1>3. d \in 0..MaxNesting
  OBVIOUS
<1>4. PICK n \in TriggersAt[d] : ~ P(d, n)
  OBVIOUS
<1>5. n \in Trigger
  <2>1. MaxNesting \in d..MaxNesting
    BY <1>3, NestingAssumption
  <2> QED BY <1>3, <2>1, NestedGrows DEF Trigger, TriggersAt
<1>6. evaluate_trigger(n, context) =
        IF n.kind = "leaf" THEN _evaluate_leaf(n, context)
        ELSE IF n.children = <<>> THEN Raised
        ELSE Composite(n.kind, [i \in DOMAIN n.children |->
                                  evaluate_trigger(n.children[i], context)])
  BY <1>5, EvaluateTrigger
<1> HIDE DEF bad
<1>7. CASE n.kind = "leaf"
  <2> DEFINE raw == get(context, n.field)
             is_match == apply_operator(n.operator, raw, n.value)
             e == _evaluate_leaf(n, context)
  <2>1. n \in Condition
    <3>1. n = Malformed => n.kind # "leaf"
      BY DEF Malformed
    <3>2. d > 0 /\ n \in CompositesOf(d - 1) => n.kind # "leaf"
      BY DEF CompositesOf
    <3> QED BY <1>3, <1>7, <3>1, <3>2, TriggerShape DEF TriggersTo, TriggersAt
  <2>2. Null \in Value /\ (raw # MISSING => raw \in Value)
    BY DEF get, IsContext, Value, Scalar
  <2>3. e # Raised
    BY <1>4, <1>6, <1>7
  <2>4. e = [kind |-> "leaf", field |-> n.field, operator |-> n.operator,
             actual_value |-> IF raw = MISSING THEN Null ELSE raw,
             expected_value |-> n.value, matched |-> is_match = "true"]
    BY <2>3 DEF _evaluate_leaf
  <2>5. n.field \in STRING /\ n.operator \in STRING /\ n.value \in Value
    BY <2>1 DEF Condition
  <2>6. e \in EvaluatedLeaf
    <3> HIDE DEF e, raw, is_match
    <3> QED BY <2>2, <2>4, <2>5 DEF EvaluatedLeaf
  <2>7. EvaluatedLeaf \subseteq EvaluatedTo(d)
    <3>1. 0 \in 0..MaxNesting /\ d \in 0..MaxNesting
      BY <1>3, NestingAssumption
    <3>2. EvaluatedTo(0) \subseteq EvaluatedTo(d)
      BY <3>1, NestedGrows DEF EvaluatedTo
    <3>3. EvaluatedTo(0) = EvaluatedLeaf
      BY <3>1, EvaluatedSteps
    <3> QED BY <3>2, <3>3
  <2> QED BY <1>4, <1>6, <1>7, <2>6, <2>7
<1>8. CASE n.kind # "leaf" /\ n.children = <<>>
  BY <1>4, <1>6, <1>8
<1>9. CASE n.kind # "leaf" /\ n.children # <<>>
  <2> DEFINE es == [i \in DOMAIN n.children |-> evaluate_trigger(n.children[i], context)]
             e == Composite(n.kind, es)
  <2>1. /\ d > 0 /\ DOMAIN n.children = 1..Len(n.children) /\ Len(n.children) \in Nat
        /\ n \in CompositesOf(d - 1)
        /\ \A i \in DOMAIN n.children : n.children[i] \in TriggersAt[d - 1]
    BY <1>3, <1>9, ChildrenOfTrigger
  <2>2. d - 1 \in 0..MaxNesting /\ d - 1 \notin bad
    BY <1>2, <1>3, <2>1, NestingAssumption
  <2>3. \A i \in DOMAIN n.children : P(d - 1, n.children[i])
    BY <2>1, <2>2 DEF bad
  <2>4. e # Raised
    BY <1>4, <1>6, <1>9
  <2>5. \A i \in DOMAIN n.children : es[i] # Raised
    BY <2>4 DEF Composite, ToSet
  <2>6. es \in Seq(EvaluatedTo(d - 1))
    <3>1. \A i \in 1..Len(n.children) : es[i] \in EvaluatedTo(d - 1)
      BY <2>1, <2>3, <2>5
    <3>2. es = [i \in 1..Len(n.children) |-> es[i]]
      BY <2>1
    <3> HIDE DEF es
    <3> QED BY <2>1, <3>1, <3>2
  <2>7. e = [kind |-> n.kind, children |-> es,
             matched |-> Combine(n.kind, [i \in DOMAIN es |-> matched(es[i])])]
    BY <2>4 DEF Composite
  <2>8. n.kind \in {"all", "any", "not"}
    BY <2>1 DEF CompositesOf
  <2>9. \A flags : Combine(n.kind, flags) \in BOOLEAN
    BY <2>8 DEF Combine
  <2>10. e \in EvaluatedOf(d - 1)
    <3> HIDE DEF e, es
    <3> QED BY <2>6, <2>7, <2>8, <2>9 DEF EvaluatedOf
  <2>11. EvaluatedOf(d - 1) \subseteq EvaluatedTo(d)
    BY <1>3, <2>1, EvaluatedSteps
  <2> QED BY <1>4, <1>6, <1>9, <2>10, <2>11
<1> QED BY <1>7, <1>8, <1>9

\* A leaf of the tree without a value is a leaf of what it evaluated to, as null.
Discloses(e, n, context) ==
  \A leaf \in ToSet(Leaves(n)) :
    leaf.field \notin DOMAIN context
      => \E l \in ToSet(Leaves(e)) : l.field = leaf.field /\ l.actual_value = Null

\* Evaluating a tree keeps each of its leaves, whatever decides it.
LEMMA GapsAreEvaluated ==
  ASSUME NEW context, IsContext(context)
  PROVE  \A n \in Trigger :
           evaluate_trigger(n, context) # Raised
             => Discloses(evaluate_trigger(n, context), n, context)
<1> DEFINE P(n) == evaluate_trigger(n, context) # Raised
                     => Discloses(evaluate_trigger(n, context), n, context)
           bad == {d \in 0..MaxNesting : \E n \in TriggersAt[d] : ~ P(n)}
<1>1. SUFFICES ASSUME bad # {} PROVE FALSE
  <2>1. MaxNesting \in 0..MaxNesting /\ Trigger = TriggersAt[MaxNesting]
    BY NestingAssumption DEF Trigger, TriggersAt
  <2> HIDE DEF P
  <2>2. bad = {} => \A n \in Trigger : P(n)
    BY <2>1
  <2> QED BY <2>2 DEF P
<1>2. PICK d \in bad : \A j \in bad : d <= j
  <2>1. bad \in SUBSET Nat
    BY NestingAssumption
  <2> HIDE DEF bad
  <2> QED BY <1>1, <2>1, LeastNatural
<1>3. d \in 0..MaxNesting
  OBVIOUS
<1>4. PICK n \in TriggersAt[d] : ~ P(n)
  OBVIOUS
<1>5. n \in Trigger
  <2>1. MaxNesting \in d..MaxNesting
    BY <1>3, NestingAssumption
  <2> QED BY <1>3, <2>1, NestedGrows DEF Trigger, TriggersAt
<1> DEFINE e == evaluate_trigger(n, context)
<1>6. e = IF n.kind = "leaf" THEN _evaluate_leaf(n, context)
          ELSE IF n.children = <<>> THEN Raised
          ELSE Composite(n.kind, [i \in DOMAIN n.children |->
                                    evaluate_trigger(n.children[i], context)])
  BY <1>5, EvaluateTrigger
<1>7. e # Raised /\ e \in EvaluatedTo(d) /\ e \in Trees[d] /\ n \in Trees[d]
  BY <1>3, <1>4, EvaluatedAsDeep DEF Trees
<1>8. PICK leaf \in ToSet(Leaves(n)) :
        /\ leaf.field \notin DOMAIN context
        /\ ~ \E l \in ToSet(Leaves(e)) : l.field = leaf.field /\ l.actual_value = Null
  BY <1>4 DEF Discloses
<1>9. n \in Trigger \cup EvaluatedTrigger /\ e \in Trigger \cup EvaluatedTrigger
  BY <1>3, <1>7, TreesGrow
<1> HIDE DEF bad, e
<1>10. CASE n.kind = "leaf"
  <2>1. e.kind = "leaf" /\ e.field = n.field
        /\ (n.field \notin DOMAIN context => e.actual_value = Null)
    BY <1>6, <1>7, <1>10 DEF _evaluate_leaf, get
  <2>2. Leaves(n) = <<n>> /\ Leaves(e) = <<e>>
    BY <1>9, <1>10, <2>1, LeavesSteps
  <2>3. leaf = n /\ e \in ToSet(Leaves(e))
    BY <1>8, <2>2 DEF ToSet
  <2> QED BY <1>8, <2>1, <2>3
<1>11. CASE n.kind # "leaf"
  <2> DEFINE es == [i \in DOMAIN n.children |-> evaluate_trigger(n.children[i], context)]
  <2>1. n.children # <<>>
    BY <1>6, <1>7, <1>11
  <2>2. /\ d > 0 /\ n \in CompositesOf(d - 1)
        /\ \A i \in DOMAIN n.children : n.children[i] \in TriggersAt[d - 1]
    BY <1>3, <1>11, <2>1, ChildrenOfTrigger
  <2>3. d - 1 \in 0..MaxNesting /\ d - 1 \notin bad
    BY <1>2, <1>3, <2>2, NestingAssumption
  <2>4. \A i \in DOMAIN n.children : P(n.children[i])
    BY <2>2, <2>3 DEF bad
  <2>5. e = Composite(n.kind, es)
    BY <1>6, <1>11, <2>1
  <2>6. \A i \in DOMAIN n.children : es[i] # Raised
    BY <1>7, <2>5 DEF Composite, ToSet
  <2>7. e.kind # "leaf" /\ e.children = es
    BY <1>7, <1>11, <2>5 DEF Composite
  <2>8. PICK i \in DOMAIN n.children : leaf \in ToSet(Leaves(n.children[i]))
    BY <1>3, <1>7, <1>8, <1>11, LeavesOfComposite
  <2>9. Discloses(es[i], n.children[i], context)
    BY <2>4, <2>6
  <2>10. PICK l \in ToSet(Leaves(es[i])) : l.field = leaf.field /\ l.actual_value = Null
    BY <1>8, <2>8, <2>9 DEF Discloses
  <2>11. i \in DOMAIN e.children /\ e.children[i] = es[i]
    BY <2>7
  <2>12. l \in ToSet(Leaves(e))
    <3> HIDE DEF es
    <3> QED BY <1>3, <1>7, <2>7, <2>10, <2>11, LeavesOfComposite
  <2> QED BY <1>8, <2>10, <2>12
<1> QED BY <1>10, <1>11

\* For every tree, list of rules and context: a fired rule's known unknowns name
\* each field of its tree that the request does not supply, in a branch that
\* decided or not (collect_known_unknowns over what evaluate_trigger kept).
THEOREM GapsAreAlwaysDisclosed == EvaluationSpec => []EveryGapIsDisclosed
<1>1. ASSUME EvaluationInv, call = "simulate" PROVE EveryGapIsDisclosed
  <2> DEFINE ids == inputs.applicable_jurisdiction_ids
             types == request.project_types
             result(p) == ResultOf(working, p, _context, ids, types)
  <2>1. IsRuleList(working)
    BY <1>1, WorkingIsRuleList DEF EvaluationInv, SelectedOK, Selected
  <2>2. /\ Evaluations # Raised /\ fired = Evaluations.fired
        /\ known_unknowns = [i \in DOMAIN fired |->
             collect_known_unknowns(fired[i], LastById(working)[fired[i].rule_id])]
    BY <1>1 DEF EvaluationInv, DecidedOK, Decided, ExplainedOK, Explained
  <2>3. PICK o : /\ IsListing(o, FiringPlaces(working, _context, ids, types))
                 /\ fired = [k \in DOMAIN o |-> result(o[k])]
    BY <2>1, <2>2, RulesetLists DEF Evaluations
  <2>4. IsContext(_context)
    BY <1>1, ContextOfValues DEF Selected, IsContext
  <2> SUFFICES ASSUME NEW i \in DOMAIN fired
               PROVE  \E k \in DOMAIN working :
                 /\ working[k].rule_id = fired[i].rule_id
                 /\ \A leaf \in ToSet(Leaves(working[k].triggers)) :
                      leaf.field \notin DOMAIN _context
                        => <<"missing_input", leaf.field>> \in known_unknowns[i]
    BY DEF EveryGapIsDisclosed
  <2>5. o[i] \in FiringPlaces(working, _context, ids, types) /\ fired[i] = result(o[i])
    BY <2>3 DEF IsListing
  <2>6. o[i] \in DOMAIN working /\ result(o[i]).fired /\ result(o[i]) # Raised
    BY <2>2, <2>5, RulesetRaises DEF Evaluations, FiringPlaces
  <2>7. SaysWhy(fired[i], working[o[i]], _context)
    BY <2>5, <2>6, FiringSaysWhy DEF ResultOf
  <2> DEFINE e == fired[i].evaluated_triggers
             n == working[o[i]].triggers
  <2>8. n \in Trigger
    BY <2>1, <2>6, RuleListDef DEF RuleOK
  <2>9. Discloses(e, n, _context)
    BY <2>4, <2>7, <2>8, GapsAreEvaluated DEF SaysWhy
  <2>10. ASSUME NEW leaf \in ToSet(Leaves(n)), leaf.field \notin DOMAIN _context
         PROVE  <<"missing_input", leaf.field>> \in known_unknowns[i]
    <3>1. PICK l \in ToSet(Leaves(e)) : l.field = leaf.field /\ l.actual_value = Null
      BY <2>9, <2>10 DEF Discloses
    <3>2. <<"missing_input", leaf.field>> \in _missing_input_items(fired[i])
      BY <3>1 DEF _missing_input_items, _collect_missing_fields
    <3>3. known_unknowns[i]
            = collect_known_unknowns(fired[i], LastById(working)[fired[i].rule_id])
      BY <2>2
    <3> QED BY <3>2, <3>3 DEF collect_known_unknowns
  <2> QED BY <2>6, <2>7, <2>10 DEF SaysWhy
<1>2. EvaluationInv => EveryGapIsDisclosed
  BY <1>1 DEF EveryGapIsDisclosed
<1> QED BY <1>2, EvaluationInvariance, PTL

-----------------------------------------------------------------------------
(* Contradictory conditions                                                *)

Satisfies(op, m, n) ==
  \/ op = ">" /\ m > n
  \/ op = ">=" /\ m >= n
  \/ op = "<" /\ m < n
  \/ op = "<=" /\ m <= n
  \/ op = "=" /\ m = n

\* On numbers the operators are the order of the integers.
LEMMA NumbersHold ==
  ASSUME NEW op \in _ORDERED_OPS, NEW m \in Int, NEW n \in Int
  PROVE  apply_operator(op, Number(m), Number(n)) = "true" <=> Satisfies(op, m, n)
<1>1. Number(m) # MISSING /\ op \in OPERATOR_KEYS /\ op # "exists"
  BY DEF Number, MISSING, OPERATOR_KEYS, _ORDERED_OPS
<1>2. Accepts(op, Number(m), Number(n))
  BY DEF Accepts, Number, Orderable, _ORDERED_OPS
<1>3. apply_operator(op, Number(m), Number(n)) = Outcome(Holds(op, Number(m), Number(n)))
  BY <1>1, <1>2 DEF apply_operator
<1>4. Holds(op, Number(m), Number(n)) <=> Satisfies(op, m, n)
  <2>1. CASE op = "="
    <3>1. PyEqual(Number(m), Number(n)) <=> m = n
      BY DEF PyEqual, Number, Plain
    <3> QED BY <2>1, <3>1 DEF Holds, Satisfies
  <2>2. CASE op # "="
    <3>1. Number(m)[2] = m /\ Number(n)[2] = n
      BY DEF Number
    <3> QED BY <2>2, <3>1 DEF Holds, Compare, Satisfies, _ORDERED_OPS
  <2> QED BY <2>1, <2>2
<1>5. Outcome(Holds(op, Number(m), Number(n))) = "true" <=> Holds(op, Number(m), Number(n))
  BY DEF Outcome
<1> QED BY <1>3, <1>4, <1>5


Bounds == {Null} \cup {Number(n) : n \in Int}

\* m is on the right side of a bound that belongs to the interval or not.
IsAbove(m, bound, closed) == bound = Null \/ m > bound[2] \/ (closed /\ m = bound[2])
IsBelow(m, bound, closed) == bound = Null \/ m < bound[2] \/ (closed /\ m = bound[2])

\* The bounds of a comparison say what it is satisfied by.
LEMMA BoundsOfOperator ==
  ASSUME NEW op \in _ORDERED_OPS, NEW m \in Int, NEW n \in Int
  PROVE  LET b == _op_bounds(op, Number(n))
         IN  Satisfies(op, m, n) <=> IsAbove(m, b.lo, b.lo_in) /\ IsBelow(m, b.hi, b.hi_in)
<1>1. Number(n) # Null /\ Number(n)[2] = n
  BY DEF Number, Null
<1> DEFINE b == _op_bounds(op, Number(n))
<1>2. /\ b.lo = IF op \in {">", ">=", "="} THEN Number(n) ELSE Null
      /\ b.hi = IF op \in {"<", "<=", "="} THEN Number(n) ELSE Null
      /\ b.lo_in <=> op # ">"
      /\ b.hi_in <=> op # "<"
  BY DEF _op_bounds
<1> HIDE DEF b
<1>3. /\ op = ">" => (IsAbove(m, b.lo, b.lo_in) <=> m > n)
      /\ op \in {">=", "="} => (IsAbove(m, b.lo, b.lo_in) <=> m >= n)
      /\ op \in {"<", "<="} => IsAbove(m, b.lo, b.lo_in)
  BY <1>1, <1>2 DEF IsAbove
<1>4. /\ op = "<" => (IsBelow(m, b.hi, b.hi_in) <=> m < n)
      /\ op \in {"<=", "="} => (IsBelow(m, b.hi, b.hi_in) <=> m <= n)
      /\ op \in {">", ">="} => IsBelow(m, b.hi, b.hi_in)
  BY <1>1, <1>2 DEF IsBelow
<1>5. Satisfies(op, m, n) <=> IsAbove(m, b.lo, b.lo_in) /\ IsBelow(m, b.hi, b.hi_in)
  BY <1>3, <1>4 DEF Satisfies, _ORDERED_OPS
<1> QED BY <1>5 DEF b

\* Bounds compare as their numbers do.
LEMMA BoundsCompare ==
  ASSUME NEW p \in Bounds \ {Null}, NEW q \in Bounds \ {Null}
  PROVE  p[2] \in Int /\ q[2] \in Int /\ (Less(p, q) <=> p[2] < q[2]) /\ (p[2] = q[2] => p = q)
BY DEF Bounds, Less, Number, Null

\* The tighter bound admits what both admit.
LEMMA TighterLowerBound ==
  ASSUME NEW p \in Bounds, NEW q \in Bounds, NEW pc \in BOOLEAN, NEW qc \in BOOLEAN
  PROVE  \E t \in {p, q}, c \in BOOLEAN :
           /\ _max_bound(p, pc, q, qc) = <<t, c>>
           /\ \A m \in Int : IsAbove(m, t, c) <=> IsAbove(m, p, pc) /\ IsAbove(m, q, qc)
<1>1. CASE p = Null
  BY <1>1 DEF _max_bound, IsAbove
<1>2. CASE p # Null /\ q = Null
  BY <1>2 DEF _max_bound, IsAbove
<1>3. CASE p # Null /\ q # Null
  <2>1. p[2] \in Int /\ q[2] \in Int /\ (Less(p, q) <=> p[2] < q[2])
        /\ (Less(q, p) <=> q[2] < p[2]) /\ (p[2] = q[2] => p = q)
    BY <1>3, BoundsCompare
  <2>2. CASE q[2] < p[2]
    <3>1. _max_bound(p, pc, q, qc) = <<p, pc>>
      BY <1>3, <2>1, <2>2 DEF _max_bound
    <3> QED BY <1>3, <2>1, <2>2, <3>1 DEF IsAbove
  <2>3. CASE p[2] < q[2]
    <3>1. _max_bound(p, pc, q, qc) = <<q, qc>>
      BY <1>3, <2>1, <2>3 DEF _max_bound
    <3> QED BY <1>3, <2>1, <2>3, <3>1 DEF IsAbove
  <2>4. CASE p[2] = q[2]
    <3>1. _max_bound(p, pc, q, qc) = <<p, pc /\ qc>>
      BY <1>3, <2>1, <2>4 DEF _max_bound
    <3>2. (pc /\ qc) \in BOOLEAN
      OBVIOUS
    <3> QED BY <1>3, <2>1, <2>4, <3>1, <3>2 DEF IsAbove
  <2> QED BY <2>1, <2>2, <2>3, <2>4
<1> QED BY <1>1, <1>2, <1>3

\* _min_bound admits what both of two upper bounds admit.
LEMMA TighterUpperBound ==
  ASSUME NEW p \in Bounds, NEW q \in Bounds, NEW pc \in BOOLEAN, NEW qc \in BOOLEAN
  PROVE  \E t \in {p, q}, c \in BOOLEAN :
           /\ _min_bound(p, pc, q, qc) = <<t, c>>
           /\ \A m \in Int : IsBelow(m, t, c) <=> IsBelow(m, p, pc) /\ IsBelow(m, q, qc)
<1>1. CASE p = Null
  BY <1>1 DEF _min_bound, IsBelow
<1>2. CASE p # Null /\ q = Null
  BY <1>2 DEF _min_bound, IsBelow
<1>3. CASE p # Null /\ q # Null
  <2>1. p[2] \in Int /\ q[2] \in Int /\ (Less(p, q) <=> p[2] < q[2])
        /\ (Less(q, p) <=> q[2] < p[2]) /\ (p[2] = q[2] => p = q)
    BY <1>3, BoundsCompare
  <2>2. CASE p[2] < q[2]
    <3>1. _min_bound(p, pc, q, qc) = <<p, pc>>
      BY <1>3, <2>1, <2>2 DEF _min_bound
    <3> QED BY <1>3, <2>1, <2>2, <3>1 DEF IsBelow
  <2>3. CASE q[2] < p[2]
    <3>1. _min_bound(p, pc, q, qc) = <<q, qc>>
      BY <1>3, <2>1, <2>3 DEF _min_bound
    <3> QED BY <1>3, <2>1, <2>3, <3>1 DEF IsBelow
  <2>4. CASE p[2] = q[2]
    <3>1. _min_bound(p, pc, q, qc) = <<p, pc /\ qc>>
      BY <1>3, <2>1, <2>4 DEF _min_bound
    <3>2. (pc /\ qc) \in BOOLEAN
      OBVIOUS
    <3> QED BY <1>3, <2>1, <2>4, <3>1, <3>2 DEF IsBelow
  <2> QED BY <2>1, <2>2, <2>3, <2>4
<1> QED BY <1>1, <1>2, <1>3

\* Between two even bounds that admit anything there is a number next to one.
LEMMA EmptyIntervals ==
  ASSUME NEW lo \in Bounds, NEW hi \in Bounds, NEW lc \in BOOLEAN, NEW hc \in BOOLEAN,
         lo # Null => lo[2] % 2 = 0, hi # Null => hi[2] % 2 = 0, NEW S \in SUBSET Int, S # {},
         \A t \in {lo, hi} \ {Null} : \A d \in {-1, 0, 1} : t[2] + d \in S
  PROVE  _interval_empty(<<lo, lc>>, <<hi, hc>>)
           <=> ~ \E m \in S : IsAbove(m, lo, lc) /\ IsBelow(m, hi, hc)
<1>1. _interval_empty(<<lo, lc>>, <<hi, hc>>)
        <=> /\ lo # Null /\ hi # Null
            /\ Less(hi, lo) \/ (~ Less(lo, hi) /\ ~ (lc /\ hc))
  BY DEF _interval_empty
<1>5. CASE lo = Null /\ hi = Null
  BY <1>1, <1>5 DEF IsAbove, IsBelow
<1>2. CASE lo = Null /\ hi # Null
  <2>1. hi[2] \in Int /\ hi[2] + (-1) \in S /\ hi # Null
    BY <1>2, BoundsCompare
  <2>2. IsAbove(hi[2] + (-1), lo, lc) /\ IsBelow(hi[2] + (-1), hi, hc)
    BY <1>2, <2>1 DEF IsAbove, IsBelow
  <2> QED BY <1>1, <1>2, <2>1, <2>2
<1>3. CASE lo # Null /\ hi = Null
  <2>1. lo[2] \in Int /\ lo[2] + 1 \in S
    BY <1>3, BoundsCompare
  <2>2. IsAbove(lo[2] + 1, lo, lc) /\ IsBelow(lo[2] + 1, hi, hc)
    BY <1>3, <2>1 DEF IsAbove, IsBelow
  <2> QED BY <1>1, <1>3, <2>1, <2>2
<1>4. CASE lo # Null /\ hi # Null
  <2>1. lo[2] \in Int /\ hi[2] \in Int /\ (Less(lo, hi) <=> lo[2] < hi[2])
        /\ (Less(hi, lo) <=> hi[2] < lo[2])
    BY <1>4, BoundsCompare
  <2>2. lo[2] + 0 \in S /\ lo[2] + 1 \in S
    BY <1>4
  <2>3. CASE lo[2] < hi[2]
    <3>1. lo[2] + 1 < hi[2]
      BY <1>4, <2>1, <2>3
    <3>2. IsAbove(lo[2] + 1, lo, lc) /\ IsBelow(lo[2] + 1, hi, hc)
      BY <2>1, <3>1 DEF IsAbove, IsBelow
    <3> QED BY <1>1, <2>1, <2>2, <2>3, <3>2
  <2>4. CASE lo[2] = hi[2]
    <3>1. lc /\ hc => IsAbove(lo[2] + 0, lo, lc) /\ IsBelow(lo[2] + 0, hi, hc)
      BY <2>1, <2>4 DEF IsAbove, IsBelow
    <3>2. ~ (lc /\ hc) => ~ \E m \in S : IsAbove(m, lo, lc) /\ IsBelow(m, hi, hc)
      BY <1>4, <2>1, <2>4 DEF IsAbove, IsBelow
    <3> QED BY <1>1, <1>4, <2>1, <2>2, <2>4, <3>1, <3>2
  <2>5. CASE hi[2] < lo[2]
    <3>1. ~ \E m \in S : IsAbove(m, lo, lc) /\ IsBelow(m, hi, hc)
      BY <1>4, <2>1, <2>5, SMTT(30) DEF IsAbove, IsBelow
    <3> QED BY <1>1, <1>4, <2>1, <2>5, <3>1
  <2> QED BY <2>1, <2>3, <2>4, <2>5
<1> QED BY <1>2, <1>3, <1>4, <1>5

\* The bounds say of even thresholds what the operators say of numbers.
LEMMA ContradictoryOrTogether ==
  ASSUME NEW a, NEW b, a.operator \in _ORDERED_OPS, b.operator \in _ORDERED_OPS,
         Even(a), Even(b), a.value \in Value, b.value \in Value, a.field = b.field
  PROVE  Contradictory(a, b) <=> ~ Together(a, b)
<1>1. \A v \in Value : v[1] = "number" => v[2] \in Int /\ v = Number(v[2])
  BY DEF Value, Scalar, Number, Null
<1> DEFINE x == a.value[2]
           y == b.value[2]
<1>2. /\ x \in Int /\ a.value = Number(x) /\ x % 2 = 0
      /\ y \in Int /\ b.value = Number(y) /\ y % 2 = 0
  BY <1>1 DEF Even
<1> HIDE DEF x, y
<1> DEFINE A == _op_bounds(a.operator, Number(x))
           B == _op_bounds(b.operator, Number(y))
           S == {n + d : n \in {x, y}, d \in {-1, 0, 1}}
<1>3. /\ {A.lo, A.hi} \subseteq {Null, Number(x)} /\ A.lo_in \in BOOLEAN /\ A.hi_in \in BOOLEAN
      /\ {B.lo, B.hi} \subseteq {Null, Number(y)} /\ B.lo_in \in BOOLEAN /\ B.hi_in \in BOOLEAN
      /\ A.lo # Null \/ A.hi # Null
  BY DEF _op_bounds, Number, Null, _ORDERED_OPS
<1>4. {Null, Number(x), Number(y)} \subseteq Bounds
  BY <1>2 DEF Bounds
<1>5. PICK lo \in {A.lo, B.lo}, lc \in BOOLEAN :
        /\ _max_bound(A.lo, A.lo_in, B.lo, B.lo_in) = <<lo, lc>>
        /\ \A m \in Int : IsAbove(m, lo, lc) <=> IsAbove(m, A.lo, A.lo_in) /\ IsAbove(m, B.lo, B.lo_in)
  <2> HIDE DEF A, B
  <2>1. A.lo \in Bounds /\ B.lo \in Bounds
    BY <1>3, <1>4
  <2> QED BY <1>3, <2>1, TighterLowerBound
<1>6. PICK hi \in {A.hi, B.hi}, hc \in BOOLEAN :
        /\ _min_bound(A.hi, A.hi_in, B.hi, B.hi_in) = <<hi, hc>>
        /\ \A m \in Int : IsBelow(m, hi, hc) <=> IsBelow(m, A.hi, A.hi_in) /\ IsBelow(m, B.hi, B.hi_in)
  <2> HIDE DEF A, B
  <2>1. A.hi \in Bounds /\ B.hi \in Bounds
    BY <1>3, <1>4
  <2> QED BY <1>3, <2>1, TighterUpperBound
<1>7. Contradictory(a, b) <=> _interval_empty(<<lo, lc>>, <<hi, hc>>)
  <2>1. Ordered(Number(x), Number(y))
    BY DEF Ordered, Number, Plain
  <2> QED BY <1>2, <1>5, <1>6, <2>1 DEF Contradictory, _are_contradictory
<1>8. \A m \in Int : /\ Satisfies(a.operator, m, x) <=> IsAbove(m, A.lo, A.lo_in) /\ IsBelow(m, A.hi, A.hi_in)
                     /\ Satisfies(b.operator, m, y) <=> IsAbove(m, B.lo, B.lo_in) /\ IsBelow(m, B.hi, B.hi_in)
  BY <1>2, BoundsOfOperator
<1>9. \A t \in {Number(x), Number(y)} : t[2] \in {x, y} /\ t[2] % 2 = 0 /\ t # Null
  BY <1>2 DEF Number, Null
<1> HIDE DEF A, B
<1>10. lo \in {Null, Number(x), Number(y)} /\ hi \in {Null, Number(x), Number(y)}
  BY <1>3
<1>11. S \in SUBSET Int /\ S # {}
        /\ \A t \in {lo, hi} \ {Null} : \A d \in {-1, 0, 1} : t[2] + d \in S
  <2>1. x + 0 \in S
    OBVIOUS
  <2>2. \A n \in {x, y}, d \in {-1, 0, 1} : n + d \in Int /\ n + d \in S
    BY <1>2
  <2> QED BY <1>9, <1>10, <2>1, <2>2
<1> HIDE DEF S
<1>12. _interval_empty(<<lo, lc>>, <<hi, hc>>)
         <=> ~ \E m \in S : IsAbove(m, lo, lc) /\ IsBelow(m, hi, hc)
  BY <1>4, <1>9, <1>10, <1>11, EmptyIntervals
<1>13. Contradictory(a, b)
         <=> ~ \E m \in S : Satisfies(a.operator, m, x) /\ Satisfies(b.operator, m, y)
  BY <1>5, <1>6, <1>7, <1>8, <1>11, <1>12
<1>14. Together(a, b)
         <=> \E m \in S : Satisfies(a.operator, m, x) /\ Satisfies(b.operator, m, y)
  <2>1. \A m \in Int : /\ apply_operator(a.operator, Number(m), a.value) = "true"
                            <=> Satisfies(a.operator, m, x)
                       /\ apply_operator(b.operator, Number(m), b.value) = "true"
                            <=> Satisfies(b.operator, m, y)
    BY <1>2, NumbersHold
  <2>2. Probes(a, b) = {Number(m) : m \in S}
    BY DEF Probes, S, x, y
  <2> QED BY <1>11, <2>1, <2>2 DEF Together
<1> QED BY <1>13, <1>14

\* The leaves of a trigger are conditions.
LEMMA LeavesAreConditions ==
  \A n \in Trigger : Leaves(n) \in Seq(AllTrees)
                     /\ \A leaf \in ToSet(Leaves(n)) : leaf \in Condition
<1> DEFINE P(n) == \A leaf \in ToSet(Leaves(n)) : leaf \in Condition
           bad == {d \in 0..MaxNesting : \E n \in TriggersAt[d] : ~ P(n)}
<1>1. SUFFICES ASSUME bad # {} PROVE FALSE
  <2>1. MaxNesting \in 0..MaxNesting /\ Trigger = TriggersAt[MaxNesting]
    BY NestingAssumption DEF Trigger, TriggersAt
  <2> HIDE DEF P
  <2>2. bad = {} => \A n \in Trigger : P(n)
    BY <2>1
  <2>3. \A n \in Trigger : Leaves(n) \in Seq(AllTrees)
    BY LeavesAreTrees DEF AllTrees
  <2> QED BY <2>2, <2>3 DEF P
<1>2. PICK d \in bad : \A j \in bad : d <= j
  <2>1. bad \in SUBSET Nat
    BY NestingAssumption
  <2> HIDE DEF bad
  <2> QED BY <1>1, <2>1, LeastNatural
<1>3. d \in 0..MaxNesting
  OBVIOUS
<1>4. PICK n \in TriggersAt[d] : ~ P(n)
  OBVIOUS
<1>5. PICK leaf \in ToSet(Leaves(n)) : leaf \notin Condition
  BY <1>4
<1>6. n \in Trees[d]
  BY <1>3 DEF Trees
<1> HIDE DEF bad
<1>7. CASE n.kind = "leaf"
  <2>1. n \in Condition
    <3>1. n = Malformed => n.kind # "leaf"
      BY DEF Malformed
    <3>2. d > 0 /\ n \in CompositesOf(d - 1) => n.kind # "leaf"
      BY DEF CompositesOf
    <3> QED BY <1>3, <1>7, <3>1, <3>2, TriggerShape DEF TriggersTo, TriggersAt
  <2>2. Leaves(n) = <<n>>
    BY <1>3, <1>6, <1>7, TreesGrow, LeavesSteps
  <2> QED BY <1>5, <2>1, <2>2 DEF ToSet
<1>8. CASE n.kind # "leaf"
  <2>1. PICK i \in DOMAIN n.children : leaf \in ToSet(Leaves(n.children[i]))
    BY <1>3, <1>5, <1>6, <1>8, LeavesOfComposite
  <2>2. n.children # <<>>
    BY <2>1
  <2>3. d > 0 /\ n.children[i] \in TriggersAt[d - 1]
    BY <1>3, <1>8, <2>1, <2>2, ChildrenOfTrigger
  <2>4. d - 1 \in 0..MaxNesting /\ d - 1 \notin bad
    BY <1>2, <1>3, <2>3, NestingAssumption
  <2> QED BY <1>5, <2>1, <2>3, <2>4 DEF bad
<1> QED BY <1>7, <1>8

\* Some pair comes first.
LEMMA FirstPair ==
  ASSUME NEW S \in SUBSET (Nat \X Nat), S # {}
  PROVE  \E p \in S : \A q \in S : ~ (q[1] < p[1] \/ (q[1] = p[1] /\ q[2] < p[2]))
<1> DEFINE K == {p[1] : p \in S}
<1>1. PICK k \in K : \A j \in K : k <= j
  <2>1. K \in SUBSET Nat /\ K # {}
    OBVIOUS
  <2> HIDE DEF K
  <2> QED BY <2>1, LeastNatural
<1> DEFINE L == {p[2] : p \in {q \in S : q[1] = k}}
<1>2. PICK l \in L : \A j \in L : l <= j
  <2>1. L \in SUBSET Nat /\ L # {}
    OBVIOUS
  <2> HIDE DEF L
  <2> QED BY <2>1, LeastNatural
<1>3. PICK p \in S : p[1] = k /\ p[2] = l
  OBVIOUS
<1>4. \A q \in S : k <= q[1] /\ (q[1] = k => l <= q[2])
  BY <1>1, <1>2
<1>5. \A q \in S : q[1] \in Nat /\ q[2] \in Nat
  OBVIOUS
<1> HIDE DEF K, L
<1> QED BY <1>3, <1>4, <1>5

\* The pairs of conditions on a field that a finding can stand for.
Clashes(a, b, field, op_a, op_b) ==
  LET la == _collect_ordered_leaves(a)
      lb == _collect_ordered_leaves(b)
  IN  {p \in (DOMAIN la) \X (DOMAIN lb) :
         /\ la[p[1]].field = field /\ la[p[1]].operator = op_a /\ lb[p[2]].operator = op_b
         /\ Contradictory(la[p[1]], lb[p[2]])}

IsAmong(findings, a, b, field, op_a, op_b) ==
  \E f \in findings : /\ f.rule_id_a = a.rule_id /\ f.rule_id_b = b.rule_id
                      /\ f.field = field /\ f.operator_a = op_a /\ f.operator_b = op_b

\* A pair of operators is reported once if any of their conditions clash.
LEMMA PairIsReported ==
  ASSUME NEW a, NEW b, NEW a_is_first \in BOOLEAN, NEW field, NEW op_a, NEW op_b,
         DOMAIN _collect_ordered_leaves(a) \subseteq Nat,
         DOMAIN _collect_ordered_leaves(b) \subseteq Nat
  PROVE  IsAmong(PairFindings(a, b, a_is_first), a, b, field, op_a, op_b)
           <=> Clashes(a, b, field, op_a, op_b) # {}
<1> DEFINE la == _collect_ordered_leaves(a)
           lb == _collect_ordered_leaves(b)
           C == Clashes(a, b, field, op_a, op_b)
           before(k, l, i, j) == IF a_is_first THEN k < i \/ (k = i /\ l < j)
                                 ELSE l < j \/ (l = j /\ k < i)
           same(i, j, k, l) == /\ la[i].field = la[k].field
                               /\ la[i].operator = la[k].operator
                               /\ lb[j].operator = lb[l].operator
           found(i, j) == /\ Contradictory(la[i], lb[j])
                          /\ \A k \in DOMAIN la : \A l \in DOMAIN lb :
                               before(k, l, i, j) /\ same(i, j, k, l)
                                 => ~ Contradictory(la[k], lb[l])
           finding(p) == [rule_id_a |-> a.rule_id, rule_id_b |-> b.rule_id,
                          field |-> la[p[1]].field,
                          operator_a |-> la[p[1]].operator, value_a |-> la[p[1]].value,
                          operator_b |-> lb[p[2]].operator, value_b |-> lb[p[2]].value]
<1>1. PairFindings(a, b, a_is_first)
        = {finding(p) : p \in {q \in (DOMAIN la) \X (DOMAIN lb) : found(q[1], q[2])}}
  BY DEF PairFindings
<1>2. \A p : /\ finding(p).rule_id_a = a.rule_id /\ finding(p).rule_id_b = b.rule_id
             /\ finding(p).field = la[p[1]].field
             /\ finding(p).operator_a = la[p[1]].operator
             /\ finding(p).operator_b = lb[p[2]].operator
  OBVIOUS
<1>3. \A p \in (DOMAIN la) \X (DOMAIN lb) :
        p \in C <=> /\ la[p[1]].field = field /\ la[p[1]].operator = op_a
                    /\ lb[p[2]].operator = op_b /\ Contradictory(la[p[1]], lb[p[2]])
  BY DEF Clashes
<1>4. C \in SUBSET ((DOMAIN la) \X (DOMAIN lb)) /\ C \in SUBSET (Nat \X Nat)
  BY DEF Clashes
<1> HIDE DEF la, lb, C, finding
<1>5. ASSUME IsAmong(PairFindings(a, b, a_is_first), a, b, field, op_a, op_b)
      PROVE  C # {}
  <2>1. PICK p \in (DOMAIN la) \X (DOMAIN lb) :
          /\ found(p[1], p[2])
          /\ finding(p).field = field /\ finding(p).operator_a = op_a
          /\ finding(p).operator_b = op_b
    BY <1>1, <1>5 DEF IsAmong
  <2>2. p \in C
    BY <1>2, <1>3, <2>1
  <2> QED BY <2>2
<1>6. ASSUME C # {}
      PROVE  IsAmong(PairFindings(a, b, a_is_first), a, b, field, op_a, op_b)
  <2>1. PICK p \in C : \A q \in C : ~ before(q[1], q[2], p[1], p[2])
    <3>1. CASE a_is_first
      <4>1. PICK p \in C : \A q \in C : ~ (q[1] < p[1] \/ (q[1] = p[1] /\ q[2] < p[2]))
        BY <1>4, <1>6, FirstPair
      <4> QED BY <3>1, <4>1
    <3>2. CASE ~ a_is_first
      <4> DEFINE D == {<<q[2], q[1]>> : q \in C}
      <4>1. D \in SUBSET (Nat \X Nat) /\ D # {}
        <5>1. \A q \in C : <<q[2], q[1]>> \in Nat \X Nat
          BY <1>4
        <5> QED BY <1>6, <5>1
      <4>2. \A q \in C : <<q[2], q[1]>> \in D
        OBVIOUS
      <4> HIDE DEF D
      <4>3. PICK r \in D : \A q \in D : ~ (q[1] < r[1] \/ (q[1] = r[1] /\ q[2] < r[2]))
        BY <4>1, FirstPair
      <4>4. PICK p \in C : r = <<p[2], p[1]>>
        BY DEF D
      <4>5. \A q \in C : ~ (q[2] < p[2] \/ (q[2] = p[2] /\ q[1] < p[1]))
        BY <4>2, <4>3, <4>4
      <4> QED BY <3>2, <4>5
    <3> QED BY <3>1, <3>2
  <2>2. p \in (DOMAIN la) \X (DOMAIN lb) /\ p[1] \in DOMAIN la /\ p[2] \in DOMAIN lb
    BY <1>4
  <2>3. /\ la[p[1]].field = field /\ la[p[1]].operator = op_a
        /\ lb[p[2]].operator = op_b /\ Contradictory(la[p[1]], lb[p[2]])
    BY <1>3, <2>2
  <2>4. ASSUME NEW k \in DOMAIN la, NEW l \in DOMAIN lb,
               before(k, l, p[1], p[2]), same(p[1], p[2], k, l), Contradictory(la[k], lb[l])
        PROVE  FALSE
    <3>1. <<k, l>> \in (DOMAIN la) \X (DOMAIN lb) /\ <<k, l>>[1] = k /\ <<k, l>>[2] = l
      OBVIOUS
    <3>2. <<k, l>> \in C
      BY <1>3, <2>3, <2>4, <3>1
    <3> QED BY <2>1, <2>4, <3>1, <3>2
  <2>5. found(p[1], p[2])
    BY <2>3, <2>4
  <2>6. finding(p) \in PairFindings(a, b, a_is_first)
    <3> HIDE DEF found
    <3> QED BY <1>1, <2>2, <2>5
  <2> QED BY <1>2, <2>3, <2>6 DEF IsAmong
<1> QED BY <1>5, <1>6 DEF C

\* For every pair of rules of any rule set: the interval arithmetic of
\* _are_contradictory reports a pair of operators on a field exactly when some of
\* their conditions exclude each other for every number (edge_cases.py).
THEOREM ContradictionsAreAlwaysExact == EvaluationSpec => []ContradictionsAreExact
<1>1. ASSUME EvaluationInv, call = "reviewed" PROVE ContradictionsAreExact
  <2> DEFINE ids == inputs.applicable_jurisdiction_ids
             types == request.project_types
             leaves(i) == _collect_ordered_leaves(working[i])
             findings == reports.edge_cases.conflicting_triggers
  <2>1. IsRuleList(working)
    BY <1>1, WorkingIsRuleList DEF EvaluationInv, SelectedOK, Selected
  <2>2. findings = _find_conflicting_triggers(working)
    <3>1. /\ \A i \in DOMAIN Results : Results[i] # Raised
          /\ reports.edge_cases = analyze_edge_cases(working, _context, ids, types)
      BY <1>1 DEF EvaluationInv, ReportsOK, EdgeReport
    <3>2. \A r \in ToSet(working) : evaluate_rule(r, _context, ids, types) # Raised
      BY <3>1 DEF Results, ToSet
    <3> QED BY <3>1, <3>2 DEF analyze_edge_cases
  <2>3. ASSUME NEW i \in DOMAIN working, NEW k \in DOMAIN leaves(i)
        PROVE  /\ k \in Nat /\ leaves(i)[k].operator \in _ORDERED_OPS
               /\ leaves(i)[k].value \in Value
    <3> DEFINE all == Leaves(working[i].triggers)
    <3>1. working[i].triggers \in Trigger
      BY <2>1, RuleListDef DEF RuleOK
    <3>2. all \in Seq(AllTrees) /\ \A leaf \in ToSet(all) : leaf \in Condition
      BY <3>1, LeavesAreConditions
    <3>3. k \in DOMAIN all /\ all[k].operator \in _ORDERED_OPS /\ leaves(i)[k] = all[k]
      BY <2>3 DEF _collect_ordered_leaves
    <3>4. all[k] \in Condition
      BY <3>2, <3>3 DEF ToSet
    <3>5. k \in Nat
      BY <3>2, <3>3
    <3> QED BY <3>3, <3>4, <3>5 DEF Condition
  <2> SUFFICES ASSUME NEW m \in DOMAIN working, NEW n \in DOMAIN working,
                      working[m].rule_id < working[n].rule_id,
                      NEW x \in Range(leaves(m)), NEW y \in Range(leaves(n)),
                      x.field = y.field, NumericOnly(m, x.field), NumericOnly(n, x.field)
               PROVE  IsReported(working[m], working[n], x.field, x.operator, y.operator)
                        <=> Exclude(working[m], working[n], x.field, x.operator, y.operator)
    BY DEF ContradictionsAreExact
  <2> DEFINE a == working[m]
             b == working[n]
             la == leaves(m)
             lb == leaves(n)
             field == x.field
             op_a == x.operator
             op_b == y.operator
  <2>5. IsReported(a, b, field, op_a, op_b)
          <=> IsAmong(PairFindings(a, b, m < n), a, b, field, op_a, op_b)
    <3>1. ASSUME NEW f \in findings, f.rule_id_a = a.rule_id, f.rule_id_b = b.rule_id
          PROVE  f \in PairFindings(a, b, m < n)
      <4>1. PICK q \in (DOMAIN working) \X (DOMAIN working) :
              f \in PairFindings(working[q[1]], working[q[2]], q[1] < q[2])
        BY <2>2 DEF _find_conflicting_triggers
      <4>2. f.rule_id_a = working[q[1]].rule_id /\ f.rule_id_b = working[q[2]].rule_id
        BY <4>1 DEF PairFindings
      <4>3. q[1] = m /\ q[2] = n
        BY <3>1, <4>2 DEF NumericOnly
      <4> QED BY <4>1, <4>3
    <3>2. PairFindings(a, b, m < n) \subseteq findings
      <4>1. <<m, n>> \in {q \in (DOMAIN working) \X (DOMAIN working) :
                            working[q[1]].rule_id < working[q[2]].rule_id}
        OBVIOUS
      <4> QED BY <2>2, <4>1 DEF _find_conflicting_triggers
    <3> QED BY <3>1, <3>2 DEF IsReported, IsAmong
  <2>6. IsAmong(PairFindings(a, b, m < n), a, b, field, op_a, op_b)
          <=> Clashes(a, b, field, op_a, op_b) # {}
    <3>1. DOMAIN la \subseteq Nat /\ DOMAIN lb \subseteq Nat
      BY <2>3
    <3>2. (m < n) \in BOOLEAN
      OBVIOUS
    <3> QED BY <3>1, <3>2, PairIsReported
  <2>7. ASSUME NEW k \in DOMAIN la, NEW l \in DOMAIN lb, la[k].field = field
        PROVE  Contradictory(la[k], lb[l])
                 <=> lb[l].field = field /\ ~ Together(la[k], lb[l])
    <3>1. CASE lb[l].field = field
      <4>1. Even(la[k]) /\ Even(lb[l])
        BY <2>7, <3>1 DEF NumericOnly
      <4>2. /\ la[k].operator \in _ORDERED_OPS /\ la[k].value \in Value
            /\ lb[l].operator \in _ORDERED_OPS /\ lb[l].value \in Value
        BY <2>3
      <4> QED BY <2>7, <3>1, <4>1, <4>2, ContradictoryOrTogether
    <3>2. CASE lb[l].field # field
      BY <2>7, <3>2 DEF Contradictory
    <3> QED BY <3>1, <3>2
  <2>8. \A q : q \in Clashes(a, b, field, op_a, op_b)
                 <=> /\ q \in (DOMAIN la) \X (DOMAIN lb)
                     /\ la[q[1]].field = field /\ la[q[1]].operator = op_a
                     /\ lb[q[2]].operator = op_b /\ Contradictory(la[q[1]], lb[q[2]])
    BY DEF Clashes
  <2>9. Exclude(a, b, field, op_a, op_b)
          <=> \E k \in DOMAIN la : \E l \in DOMAIN lb :
                /\ la[k].field = field /\ la[k].operator = op_a
                /\ lb[l].field = field /\ lb[l].operator = op_b
                /\ ~ Together(la[k], lb[l])
    BY DEF Exclude
  <2> HIDE DEF la, lb, field, op_a, op_b, leaves
  <2>10. ASSUME NEW q \in Clashes(a, b, field, op_a, op_b)
         PROVE  Exclude(a, b, field, op_a, op_b)
    <3>1. q[1] \in DOMAIN la /\ q[2] \in DOMAIN lb
      BY <2>8
    <3> QED BY <2>7, <2>8, <2>9, <3>1
  <2>11. ASSUME Exclude(a, b, field, op_a, op_b)
         PROVE  Clashes(a, b, field, op_a, op_b) # {}
    <3>1. PICK k \in DOMAIN la, l \in DOMAIN lb :
            /\ la[k].field = field /\ la[k].operator = op_a
            /\ lb[l].field = field /\ lb[l].operator = op_b
            /\ ~ Together(la[k], lb[l])
      BY <2>9, <2>11
    <3>2. Contradictory(la[k], lb[l])
      BY <2>7, <3>1
    <3>3. <<k, l>> \in Clashes(a, b, field, op_a, op_b)
      BY <2>8, <3>1, <3>2
    <3> QED BY <3>3
  <2>12. IsReported(a, b, field, op_a, op_b) <=> Exclude(a, b, field, op_a, op_b)
    BY <2>5, <2>6, <2>10, <2>11
  <2> QED BY <2>12 DEF field, op_a, op_b
<1>2. EvaluationInv => ContradictionsAreExact
  BY <1>1 DEF ContradictionsAreExact
<1> QED BY <1>2, EvaluationInvariance, PTL

-----------------------------------------------------------------------------
(* Changes of a tree                                                       *)

Nodes == [d \in 0..MaxNesting |-> TriggersAt[d] \cup {NoNode}]
Node  == Trigger \cup {NoNode}

\* Trees, and the place where none is, by depth.
LEMMA NodesGrow ==
  /\ \A d \in 1..MaxNesting : Nodes[d - 1] \subseteq Nodes[d]
  /\ \A d \in 0..MaxNesting : Nodes[d] \subseteq Node
  /\ Nodes[MaxNesting] = Node
<1>1. ASSUME NEW d \in 1..MaxNesting PROVE Nodes[d - 1] \subseteq Nodes[d]
  <2>1. d - 1 \in 0..MaxNesting /\ d \in 0..MaxNesting
    BY NestingAssumption
  <2> QED BY <2>1, TriggersGrow DEF Nodes
<1>2. ASSUME NEW d \in 0..MaxNesting PROVE Nodes[d] \subseteq Node
  <2>1. MaxNesting \in d..MaxNesting
    BY NestingAssumption
  <2>2. TriggersAt[d] \subseteq Trigger
    BY <2>1, NestedGrows DEF TriggersAt, Trigger
  <2> QED BY <2>2 DEF Nodes, Node
<1>3. Nodes[MaxNesting] = Node
  <2>1. MaxNesting \in 0..MaxNesting
    BY NestingAssumption
  <2> QED BY <2>1 DEF Nodes, Node, Trigger, TriggersAt
<1> QED BY <1>1, <1>2, <1>3

\* What a node of a kind is.
LEMMA NodeShape ==
  ASSUME NEW d \in 0..MaxNesting, NEW n \in Nodes[d]
  PROVE  /\ n.kind = "absent" <=> n = NoNode
         /\ n.kind = "malformed" => n = Malformed
         /\ n.kind = "leaf" => n \in Condition
         /\ n.kind \notin {"absent", "malformed", "leaf"} =>
              /\ d > 0 /\ n \in CompositesOf(d - 1)
              /\ n.kind \in {"all", "any", "not"}
              /\ n.children \in Seq(TriggersAt[d - 1])
<1>1. NoNode.kind = "absent" /\ Malformed.kind = "malformed"
  BY DEF NoNode, Malformed
<1>2. n \in Condition => n.kind = "leaf"
  BY DEF Condition
<1>3. d > 0 /\ n \in CompositesOf(d - 1) =>
        n.kind \in {"all", "any", "not"} /\ n.children \in Seq(TriggersAt[d - 1])
  BY DEF CompositesOf, TriggersTo, TriggersAt
<1>4. n = NoNode \/ n \in Condition \/ n = Malformed \/ (d > 0 /\ n \in CompositesOf(d - 1))
  BY TriggerShape DEF Nodes, TriggersTo, TriggersAt
<1> QED BY <1>1, <1>2, <1>3, <1>4

\* The children of a composite, present or not, are nodes one level down.
LEMMA ChildIsNode ==
  ASSUME NEW d \in 0..MaxNesting, NEW n \in Nodes[d],
         n.kind \notin {"absent", "malformed", "leaf"}, NEW i
  PROVE  d - 1 \in 0..MaxNesting /\ Child(n, i) \in Nodes[d - 1]
<1>1. d > 0 /\ n.children \in Seq(TriggersAt[d - 1])
  BY NodeShape
<1>2. d - 1 \in 0..MaxNesting
  BY <1>1, NestingAssumption
<1>3. i \in DOMAIN n.children => n.children[i] \in TriggersAt[d - 1]
  BY <1>1
<1> QED BY <1>2, <1>3 DEF Child, Nodes

PlacesOf(d) == Nodes[d] \X Nodes[d] \X Seq(Nat)

\* _diff_trigger_node does what it says.
LEMMA DiffSteps ==
  \E f : /\ IsMade("changes", f, Node \X Node \X Seq(Nat), 0)
         /\ \A o, n, path : _diff_trigger_node(o, n, path) = f[<<o, n, path>>]
<1> DEFINE F(f) == [t \in Node \X Node \X Seq(Nat) |->
        IF t[1] = NoNode THEN {Change("added", t[3], t[1], t[2])}
        ELSE IF t[2] = NoNode THEN {Change("removed", t[3], t[1], t[2])}
        ELSE IF t[1].kind # t[2].kind THEN {Change("modified", t[3], t[1], t[2])}
        ELSE IF t[1].kind = "leaf" THEN _diff_leaf(t[1], t[2], t[3])
        ELSE IF t[1].kind = "malformed" THEN {}
        ELSE UNION {f[<<Child(t[1], i), Child(t[2], i), Append(t[3], i)>>] :
                      i \in Places(t[1], t[2])}]
           e == CHOOSE f : f = F(f)
           L == [d \in 0..MaxNesting |-> PlacesOf(d)]
<1>1. ReadsBelow("changes", L, MaxNesting, 0)
  <2> SUFFICES ASSUME NEW d \in 0..MaxNesting, NEW t \in PlacesOf(d), NEW f, NEW g,
                      d > 0 => \A c \in PlacesOf(d - 1) : f[c] = g[c]
               PROVE  ChangesFrom(t, f) = ChangesFrom(t, g)
    <3>1. \A m, f : Made("changes", m, f, 0) = ChangesFrom(m, f)
      BY DEF Made
    <3>2. \A d \in 0..MaxNesting : L[d] = PlacesOf(d) /\ (d > 0 => L[d - 1] = PlacesOf(d - 1))
      BY NestingAssumption
    <3> HIDE DEF L
    <3> QED BY <3>1, <3>2 DEF ReadsBelow
  <2> DEFINE o == t[1]
             n == t[2]
  <2>1. o \in Nodes[d] /\ n \in Nodes[d] /\ t[3] \in Seq(Nat)
    BY DEF PlacesOf
  <2>2. CASE o = NoNode \/ n = NoNode \/ o.kind # n.kind \/ o.kind \in {"leaf", "malformed"}
    BY <2>2 DEF ChangesFrom
  <2>3. CASE ~ (o = NoNode \/ n = NoNode \/ o.kind # n.kind \/ o.kind \in {"leaf", "malformed"})
    <3>1. o.kind \notin {"absent", "malformed", "leaf"} /\ n.kind \notin {"absent", "malformed", "leaf"}
      BY <2>1, <2>3, NodeShape
    <3>2. d > 0
      BY <2>1, <3>1, NodeShape
    <3>3. \A i \in Places(o, n) : f[<<Child(o, i), Child(n, i), Append(t[3], i)>>]
                                   = g[<<Child(o, i), Child(n, i), Append(t[3], i)>>]
      <4> TAKE i \in Places(o, n)
      <4>1. i \in Nat
        BY DEF Places
      <4>2. Append(t[3], i) \in Seq(Nat)
        BY <2>1, <4>1
      <4>3. Child(o, i) \in Nodes[d - 1] /\ Child(n, i) \in Nodes[d - 1]
        BY <2>1, <3>1, ChildIsNode
      <4>4. <<Child(o, i), Child(n, i), Append(t[3], i)>> \in PlacesOf(d - 1)
        BY <4>2, <4>3 DEF PlacesOf
      <4> QED BY <3>2, <4>4
    <3>4. {f[<<Child(o, i), Child(n, i), Append(t[3], i)>>] : i \in Places(o, n)}
            = {g[<<Child(o, i), Child(n, i), Append(t[3], i)>>] : i \in Places(o, n)}
      BY <3>3
    <3> QED BY <2>3, <3>4 DEF ChangesFrom
  <2> QED BY <2>2, <2>3
<1>2. \A d \in 1..MaxNesting : L[d - 1] \subseteq L[d]
  <2> TAKE d \in 1..MaxNesting
  <2>1. d - 1 \in 0..MaxNesting /\ d \in 0..MaxNesting
    BY NestingAssumption
  <2>2. Nodes[d - 1] \subseteq Nodes[d]
    BY NodesGrow
  <2> QED BY <2>1, <2>2 DEF PlacesOf
<1>3. L[MaxNesting] = Node \X Node \X Seq(Nat)
  BY NodesGrow, NestingAssumption DEF PlacesOf
<1> HIDE DEF L
<1>4. PICK f : IsMade("changes", f, Node \X Node \X Seq(Nat), 0)
  <2>1. \E f : IsMade("changes", f, L[MaxNesting], 0)
    BY <1>1, <1>2, NestingAssumption, MadeExists
  <2> QED BY <1>3, <2>1
<1>5. f = F(f)
  BY <1>4 DEF IsMade, Made, ChangesFrom
<1>6. e = F(e)
  <2> HIDE DEF F
  <2> QED BY <1>5, Zenon
<1>7. \A o, n, path : _diff_trigger_node(o, n, path) = e[<<o, n, path>>]
  BY Zenon DEF _diff_trigger_node, Node
<1> HIDE DEF e
<1>8. IsMade("changes", e, Node \X Node \X Seq(Nat), 0)
  BY <1>6 DEF IsMade, Made, ChangesFrom
<1> QED BY <1>7, <1>8

PatchPlaces(d) == Nodes[d] \X Seq(Nat)

\* Patched does what it says.
LEMMA PatchSteps ==
  ASSUME NEW changes, \A c \in changes : c.path \in Seq(Nat)
  PROVE  \E f : /\ IsMade("patched", f, Node \X Seq(Nat), changes)
                /\ \A tree : Patched(tree, changes) = f[<<tree, <<>> >>]
<1> DEFINE F(f) == [t \in Node \X Seq(Nat) |->
        LET node == t[1]
            path == t[2]
            here == {c \in changes : c.path = path}
            below == {c \in changes : Len(c.path) > Len(path)
                                        /\ SubSeq(c.path, 1, Len(path)) = path}
            children == [i \in DOMAIN node.children \cup {c.path[Len(path) + 1] : c \in below} |->
                           f[<<Child(node, i), Append(path, i)>>]]
            kept == {i \in DOMAIN children : children[i] # NoNode}
        IN  IF here # {} THEN (CHOOSE c \in here : TRUE).new_node
            ELSE IF node.kind \in {"leaf", "absent", "malformed"} THEN node
            ELSE [kind |-> node.kind, children |-> [i \in 1..Cardinality(kept) |-> children[i]]]]
           e == CHOOSE f : f = F(f)
           L == [d \in 0..MaxNesting |-> PatchPlaces(d)]
<1>1. ReadsBelow("patched", L, MaxNesting, changes)
  <2>1. ASSUME NEW d \in 0..MaxNesting, NEW t \in PatchPlaces(d), NEW f, NEW g,
               d > 0 => \A c \in PatchPlaces(d - 1) : f[c] = g[c]
        PROVE  PatchedFrom(t, f, changes) = PatchedFrom(t, g, changes)
    <3> DEFINE node == t[1]
               path == t[2]
               S == ChildPlaces(node, path, changes)
    <3>1. node \in Nodes[d] /\ path \in Seq(Nat)
      BY DEF PatchPlaces
    <3>2. CASE node.kind \in {"leaf", "absent", "malformed"}
      BY <3>2 DEF PatchedFrom
    <3>3. CASE node.kind \notin {"leaf", "absent", "malformed"}
      <4>1. d > 0 /\ node.children \in Seq(TriggersAt[d - 1])
        BY <3>1, <3>3, NodeShape
      <4>2. \A i \in S : i \in Nat
        <5>1. DOMAIN node.children \subseteq Nat
          BY <4>1
        <5>2. \A c \in changes : Len(c.path) > Len(path) => c.path[Len(path) + 1] \in Nat
          <6> TAKE c \in changes
          <6>1. c.path \in Seq(Nat) /\ Len(path) \in Nat
            BY <3>1
          <6> QED BY <6>1
        <5> QED BY <5>1, <5>2 DEF ChildPlaces
      <4>3. \A i \in S : f[<<Child(node, i), Append(path, i)>>] = g[<<Child(node, i), Append(path, i)>>]
        <5> TAKE i \in S
        <5>1. Append(path, i) \in Seq(Nat)
          BY <3>1, <4>2
        <5>2. Child(node, i) \in Nodes[d - 1]
          BY <3>1, <3>3, ChildIsNode
        <5>3. <<Child(node, i), Append(path, i)>> \in PatchPlaces(d - 1)
          BY <5>1, <5>2 DEF PatchPlaces
        <5>4. \A c \in PatchPlaces(d - 1) : f[c] = g[c]
          BY <2>1, <4>1
        <5> QED BY <5>3, <5>4
      <4>4. [i \in S |-> f[<<Child(node, i), Append(path, i)>>]]
              = [i \in S |-> g[<<Child(node, i), Append(path, i)>>]]
        BY <4>3
      <4> DEFINE here == {c \in changes : c.path = path}
      <4>5. CASE here # {}
        BY <4>5 DEF PatchedFrom
      <4>6. CASE here = {}
        <5>1. \A h : PatchedFrom(t, h, changes) =
                WithChildren(node.kind, [i \in S |-> h[<<Child(node, i), Append(path, i)>>]])
          BY <3>3, <4>6 DEF PatchedFrom
        <5> HIDE DEF S, node, path
        <5> QED BY <4>4, <5>1
      <4> QED BY <4>5, <4>6
    <3> QED BY <3>2, <3>3
  <2>2. ASSUME NEW d \in 0..MaxNesting, NEW t \in L[d], NEW f, NEW g,
               d > 0 => \A c \in L[d - 1] : f[c] = g[c]
        PROVE  Made("patched", t, f, changes) = Made("patched", t, g, changes)
    <3>1. Made("patched", t, f, changes) = PatchedFrom(t, f, changes)
          /\ Made("patched", t, g, changes) = PatchedFrom(t, g, changes)
      BY DEF Made
    <3>2. L[d] = PatchPlaces(d) /\ (d > 0 => L[d - 1] = PatchPlaces(d - 1))
      BY NestingAssumption
    <3> HIDE DEF L
    <3> QED BY <2>1, <2>2, <3>1, <3>2
  <2> HIDE DEF L
  <2> QED BY <2>2 DEF ReadsBelow
<1>2. \A d \in 1..MaxNesting : L[d - 1] \subseteq L[d]
  <2> TAKE d \in 1..MaxNesting
  <2>1. d - 1 \in 0..MaxNesting /\ d \in 0..MaxNesting
    BY NestingAssumption
  <2>2. Nodes[d - 1] \subseteq Nodes[d]
    BY NodesGrow
  <2> QED BY <2>1, <2>2 DEF PatchPlaces
<1>3. L[MaxNesting] = Node \X Seq(Nat)
  BY NodesGrow, NestingAssumption DEF PatchPlaces
<1> HIDE DEF L
<1>4. PICK f : IsMade("patched", f, Node \X Seq(Nat), changes)
  <2>1. \E f : IsMade("patched", f, L[MaxNesting], changes)
    BY <1>1, <1>2, NestingAssumption, MadeExists
  <2> QED BY <1>3, <2>1
<1>5. \A g : F(g) = [t \in Node \X Seq(Nat) |-> PatchedFrom(t, g, changes)]
  BY DEF PatchedFrom, WithChildren, ChildPlaces
<1>6. f = F(f)
  <2> HIDE DEF F
  <2> QED BY <1>4, <1>5 DEF IsMade, Made
<1>7. e = F(e)
  <2> HIDE DEF F
  <2> QED BY <1>6, Zenon
<1>8. \A tree : Patched(tree, changes) = e[<<tree, <<>> >>]
  BY Zenon DEF Patched, Node
<1> HIDE DEF e, F
<1>9. IsMade("patched", e, Node \X Seq(Nat), changes)
  BY <1>5, <1>7 DEF IsMade, Made
<1> QED BY <1>8, <1>9

\* SameTree does what it says.
LEMMA SameSteps ==
  \A a, b \in Trigger :
    SameTree(a, b) <=>
      /\ a.kind = b.kind
      /\ IF a.kind = "leaf" THEN SameLeaf(a, b)
         ELSE /\ Len(a.children) = Len(b.children)
              /\ \A i \in DOMAIN a.children : SameTree(a.children[i], b.children[i])
<1> DEFINE F(f) == [t \in Trigger \X Trigger |->
        /\ t[1].kind = t[2].kind
        /\ IF t[1].kind = "leaf" THEN SameLeaf(t[1], t[2])
           ELSE /\ Len(t[1].children) = Len(t[2].children)
                /\ \A i \in DOMAIN t[1].children : f[<<t[1].children[i], t[2].children[i]>>]]
           e == CHOOSE f : f = F(f)
           L == [d \in 0..MaxNesting |-> TriggersAt[d] \X TriggersAt[d]]
<1>1. ReadsBelow("same", L, MaxNesting, 0)
  <2> SUFFICES ASSUME NEW d \in 0..MaxNesting, NEW t \in TriggersAt[d] \X TriggersAt[d],
                      NEW f, NEW g,
                      d > 0 => \A c \in TriggersAt[d - 1] \X TriggersAt[d - 1] : f[c] = g[c]
               PROVE  SameFrom(t, f) = SameFrom(t, g)
    <3>1. \A m, f : Made("same", m, f, 0) = SameFrom(m, f)
      BY DEF Made
    <3>2. \A d \in 0..MaxNesting : L[d] = TriggersAt[d] \X TriggersAt[d]
                                   /\ (d > 0 => L[d - 1] = TriggersAt[d - 1] \X TriggersAt[d - 1])
      BY NestingAssumption
    <3> HIDE DEF L
    <3> QED BY <3>1, <3>2 DEF ReadsBelow
  <2> DEFINE a == t[1]
             b == t[2]
  <2>1. a \in TriggersAt[d] /\ b \in TriggersAt[d]
    OBVIOUS
  <2>2. CASE a.kind # b.kind \/ a.kind = "leaf" \/ Len(a.children) # Len(b.children)
    BY <2>2 DEF SameFrom
  <2>3. CASE ~ (a.kind # b.kind \/ a.kind = "leaf" \/ Len(a.children) # Len(b.children))
    <3>1. \A i \in DOMAIN a.children : f[<<a.children[i], b.children[i]>>]
                                         = g[<<a.children[i], b.children[i]>>]
      <4> TAKE i \in DOMAIN a.children
      <4>1. DOMAIN a.children = 1..Len(a.children) /\ DOMAIN b.children = 1..Len(b.children)
        BY <2>1, <2>3, ChildrenOfTrigger
      <4>2. a.children # <<>> /\ b.children # <<>>
        BY <2>3, <4>1
      <4>3. d > 0 /\ a.children[i] \in TriggersAt[d - 1] /\ b.children[i] \in TriggersAt[d - 1]
        BY <2>1, <2>3, <4>1, <4>2, ChildrenOfTrigger
      <4> QED BY <4>3
    <3>2. (\A i \in DOMAIN a.children : f[<<a.children[i], b.children[i]>>])
            = (\A i \in DOMAIN a.children : g[<<a.children[i], b.children[i]>>])
      BY <3>1
    <3> QED BY <2>3, <3>2 DEF SameFrom
  <2> QED BY <2>2, <2>3
<1>2. \A d \in 1..MaxNesting : L[d - 1] \subseteq L[d]
  <2> TAKE d \in 1..MaxNesting
  <2>1. d - 1 \in 0..MaxNesting /\ d \in 0..MaxNesting
    BY NestingAssumption
  <2>2. TriggersAt[d - 1] \subseteq TriggersAt[d]
    BY TriggersGrow
  <2> QED BY <2>1, <2>2
<1>3. L[MaxNesting] = Trigger \X Trigger
  BY NestingAssumption DEF Trigger, TriggersAt
<1> HIDE DEF L
<1>4. PICK f : IsMade("same", f, Trigger \X Trigger, 0)
  <2>1. \E f : IsMade("same", f, L[MaxNesting], 0)
    BY <1>1, <1>2, NestingAssumption, MadeExists
  <2> QED BY <1>3, <2>1
<1>5. f = F(f)
  BY <1>4 DEF IsMade, Made, SameFrom
<1>6. e = F(e)
  <2> HIDE DEF F
  <2> QED BY <1>5, Zenon
<1>7. \A a, b : SameTree(a, b) = e[<<a, b>>]
  BY Zenon DEF SameTree
<1> HIDE DEF e
<1>8. ASSUME NEW a \in Trigger, NEW b \in Trigger
      PROVE  e[<<a, b>>] = (/\ a.kind = b.kind
                            /\ IF a.kind = "leaf" THEN SameLeaf(a, b)
                               ELSE /\ Len(a.children) = Len(b.children)
                                    /\ \A i \in DOMAIN a.children :
                                         e[<<a.children[i], b.children[i]>>])
  <2>1. <<a, b>> \in Trigger \X Trigger /\ <<a, b>>[1] = a /\ <<a, b>>[2] = b
    OBVIOUS
  <2>2. \A t \in Trigger \X Trigger :
          e[t] = (/\ t[1].kind = t[2].kind
                  /\ IF t[1].kind = "leaf" THEN SameLeaf(t[1], t[2])
                     ELSE /\ Len(t[1].children) = Len(t[2].children)
                          /\ \A i \in DOMAIN t[1].children :
                               e[<<t[1].children[i], t[2].children[i]>>])
    BY <1>6, Zenon
  <2> QED BY <2>1, <2>2
<1> QED BY <1>7, <1>8

\* A trigger is a node with a child or a field, and no gap.
LEMMA TriggerIsNode == NoNode \notin Trigger /\ \A n \in Trigger : n \in Node /\ n # NoNode
<1>1. NoNode \notin Condition /\ NoNode # Malformed /\ \A d : NoNode \notin CompositesOf(d)
  BY DEF NoNode, Condition, Malformed, CompositesOf
<1>2. MaxNesting \in 0..MaxNesting /\ Trigger = TriggersTo(MaxNesting)
  BY NestingAssumption DEF Trigger, TriggersTo
<1>3. NoNode \notin Trigger
  BY <1>1, <1>2, TriggerShape
<1> QED BY <1>3 DEF Node

\* The changes between two nodes, from those between their children.
LEMMA DiffIs ==
  ASSUME NEW o \in Node, NEW n \in Node, NEW path \in Seq(Nat)
  PROVE  _diff_trigger_node(o, n, path) =
           IF o = NoNode THEN {Change("added", path, o, n)}
           ELSE IF n = NoNode THEN {Change("removed", path, o, n)}
           ELSE IF o.kind # n.kind THEN {Change("modified", path, o, n)}
           ELSE IF o.kind = "leaf" THEN _diff_leaf(o, n, path)
           ELSE IF o.kind = "malformed" THEN {}
           ELSE UNION {_diff_trigger_node(Child(o, i), Child(n, i), Append(path, i)) :
                         i \in Places(o, n)}
<1>1. PICK f : /\ IsMade("changes", f, Node \X Node \X Seq(Nat), 0)
               /\ \A a, b, p : _diff_trigger_node(a, b, p) = f[<<a, b, p>>]
  BY DiffSteps
<1> DEFINE t == <<o, n, path>>
<1>2. t \in Node \X Node \X Seq(Nat) /\ t[1] = o /\ t[2] = n /\ t[3] = path
  OBVIOUS
<1> HIDE DEF t
<1>3. f[t] = ChangesFrom(t, f)
  <2>1. f[t] = Made("changes", t, f, 0)
    BY <1>1, <1>2, Zenon DEF IsMade
  <2> QED BY <2>1 DEF Made
<1>4. {f[<<Child(o, i), Child(n, i), Append(path, i)>>] : i \in Places(o, n)}
        = {_diff_trigger_node(Child(o, i), Child(n, i), Append(path, i)) : i \in Places(o, n)}
  BY <1>1
<1>5. _diff_trigger_node(o, n, path) = f[t]
  BY <1>1 DEF t
<1>6. ChangesFrom(t, f) =
           IF o = NoNode THEN {Change("added", path, o, n)}
           ELSE IF n = NoNode THEN {Change("removed", path, o, n)}
           ELSE IF o.kind # n.kind THEN {Change("modified", path, o, n)}
           ELSE IF o.kind = "leaf" THEN _diff_leaf(o, n, path)
           ELSE IF o.kind = "malformed" THEN {}
           ELSE UNION {f[<<Child(o, i), Child(n, i), Append(path, i)>>] : i \in Places(o, n)}
  BY <1>2, Zenon DEF ChangesFrom
<1> QED BY <1>3, <1>4, <1>5, <1>6, Zenon

\* q leads through p.
LeadsThrough(q, p) == Len(q) >= Len(p) /\ \A i \in 1..Len(p) : q[i] = p[i]

\* A path through a child goes through its parent and then to that child.
LEMMA BelowChild ==
  ASSUME NEW q \in Seq(Nat), NEW p \in Seq(Nat), NEW i \in Nat
  PROVE  LeadsThrough(q, Append(p, i)) <=> LeadsThrough(q, p) /\ Len(q) > Len(p) /\ q[Len(p) + 1] = i
<1>1. /\ Len(Append(p, i)) = Len(p) + 1 /\ Append(p, i)[Len(p) + 1] = i
      /\ \A k \in 1..Len(p) : Append(p, i)[k] = p[k]
      /\ Len(p) \in Nat /\ Len(q) \in Nat
  OBVIOUS
<1> DEFINE a == Append(p, i)
<1> HIDE DEF a
<1>2. LeadsThrough(q, a) => LeadsThrough(q, p) /\ Len(q) > Len(p) /\ q[Len(p) + 1] = i
  <2>1. Len(a) = Len(p) + 1 /\ a[Len(p) + 1] = i /\ \A k \in 1..Len(p) : a[k] = p[k]
    BY <1>1 DEF a
  <2> QED BY <1>1, <2>1 DEF LeadsThrough
<1>3. LeadsThrough(q, p) /\ Len(q) > Len(p) /\ q[Len(p) + 1] = i => LeadsThrough(q, a)
  <2>1. Len(a) = Len(p) + 1 /\ a[Len(p) + 1] = i /\ \A k \in 1..Len(p) : a[k] = p[k]
    BY <1>1 DEF a
  <2>2. \A k \in 1..(Len(p) + 1) : k \in 1..Len(p) \/ k = Len(p) + 1
    BY <1>1
  <2> QED BY <1>1, <2>1, <2>2, SMTT(30) DEF LeadsThrough
<1> QED BY <1>2, <1>3 DEF a

\* The way Patched asks whether a path leads through another.
LEMMA BelowIsPrefix ==
  ASSUME NEW q \in Seq(Nat), NEW p \in Seq(Nat), Len(q) > Len(p)
  PROVE  SubSeq(q, 1, Len(p)) = p <=> LeadsThrough(q, p)
<1> DEFINE s == SubSeq(q, 1, Len(p))
<1>1. s \in Seq(Nat) /\ Len(s) = Len(p) /\ \A i \in 1..Len(p) : s[i] = q[i]
  OBVIOUS
<1>2. s = p <=> \A i \in 1..Len(p) : s[i] = p[i]
  <2> HIDE DEF s
  <2>1. s = [i \in 1..Len(p) |-> s[i]] /\ p = [i \in 1..Len(p) |-> p[i]]
    BY <1>1
  <2>2. (\A i \in 1..Len(p) : s[i] = p[i])
          => [i \in 1..Len(p) |-> s[i]] = [i \in 1..Len(p) |-> p[i]]
    OBVIOUS
  <2> QED BY <2>1, <2>2, Zenon
<1> HIDE DEF s
<1>3. s = p <=> LeadsThrough(q, p)
  BY <1>1, <1>2 DEF LeadsThrough
<1> QED BY <1>3 DEF s

\* What is known of the changes between two nodes: there are finitely many, each
\* at the nodes or below, and none when the trees are the same.
DiffOK(o, n, path) ==
  LET changes == _diff_trigger_node(o, n, path)
  IN  /\ IsFiniteSet(changes)
      /\ \A c \in changes : c.path \in Seq(Nat) /\ LeadsThrough(c.path, path)
      /\ o # NoNode /\ n # NoNode => (changes = {} <=> SameTree(o, n))

\* The changes between any two trees are finitely many, lie where the trees do,
\* and there are none exactly when the trees are the same.
LEMMA DiffIsOK ==
  \A o, n \in Node : \A path \in Seq(Nat) : DiffOK(o, n, path)
<1> DEFINE bad == {d \in 0..MaxNesting : \E o, n \in Nodes[d] : \E path \in Seq(Nat) :
                                            ~ DiffOK(o, n, path)}
<1>1. SUFFICES ASSUME bad # {} PROVE FALSE
  <2>1. MaxNesting \in 0..MaxNesting /\ Node = Nodes[MaxNesting]
    BY NestingAssumption, NodesGrow
  <2> QED BY <2>1
<1>2. PICK d \in bad : \A j \in bad : d <= j
  <2>1. bad \in SUBSET Nat
    BY NestingAssumption
  <2> HIDE DEF bad
  <2> QED BY <1>1, <2>1, LeastNatural
<1>3. d \in 0..MaxNesting
  OBVIOUS
<1>4. PICK o \in Nodes[d], n \in Nodes[d], path \in Seq(Nat) : ~ DiffOK(o, n, path)
  OBVIOUS
<1> HIDE DEF bad
<1>5. o \in Node /\ n \in Node
  BY <1>3, <1>4, NodesGrow
<1> DEFINE D == _diff_trigger_node(o, n, path)
<1>6. D = IF o = NoNode THEN {Change("added", path, o, n)}
           ELSE IF n = NoNode THEN {Change("removed", path, o, n)}
           ELSE IF o.kind # n.kind THEN {Change("modified", path, o, n)}
           ELSE IF o.kind = "leaf" THEN _diff_leaf(o, n, path)
           ELSE IF o.kind = "malformed" THEN {}
           ELSE UNION {_diff_trigger_node(Child(o, i), Child(n, i), Append(path, i)) :
                         i \in Places(o, n)}
  BY <1>4, <1>5, DiffIs
<1>7. DiffOK(o, n, path)
        <=> /\ IsFiniteSet(D)
            /\ \A c \in D : c.path \in Seq(Nat) /\ LeadsThrough(c.path, path)
            /\ o # NoNode /\ n # NoNode => (D = {} <=> SameTree(o, n))
  BY DEF DiffOK
<1> HIDE DEF D
<1>8. \A kind, a, b : /\ Change(kind, path, a, b).path = path /\ LeadsThrough(path, path)
                      /\ IsFiniteSet({Change(kind, path, a, b)})
  <2>1. \A kind, a, b : Change(kind, path, a, b).path = path
    BY DEF Change
  <2>2. LeadsThrough(path, path)
    <3>1. Len(path) \in Nat
      OBVIOUS
    <3> QED BY <3>1 DEF LeadsThrough
  <2>3. \A c : IsFiniteSet({c})
    BY FS_Singleton
  <2> QED BY <2>1, <2>2, <2>3
<1>9. o # NoNode /\ n # NoNode =>
        (SameTree(o, n) <=>
           /\ o.kind = n.kind
           /\ IF o.kind = "leaf" THEN SameLeaf(o, n)
              ELSE /\ Len(o.children) = Len(n.children)
                   /\ \A i \in DOMAIN o.children : SameTree(o.children[i], n.children[i]))
  BY <1>5, SameSteps DEF Node
<1>10. CASE o = NoNode \/ n = NoNode
  <2>1. \E kind : D = {Change(kind, path, o, n)}
    BY <1>6, <1>10
  <2> QED BY <1>4, <1>7, <1>8, <1>10, <2>1
<1>11. CASE o # NoNode /\ n # NoNode /\ o.kind # n.kind
  <2>1. D = {Change("modified", path, o, n)}
    BY <1>6, <1>11
  <2> QED BY <1>4, <1>7, <1>8, <1>9, <1>11, <2>1
<1>12. CASE o # NoNode /\ n # NoNode /\ o.kind = n.kind /\ o.kind = "leaf"
  <2>1. D = IF SameLeaf(o, n) THEN {} ELSE {Change("modified", path, o, n)}
    BY <1>6, <1>12 DEF _diff_leaf
  <2> QED BY <1>4, <1>7, <1>8, <1>9, <1>12, <2>1, FS_EmptySet
<1>13. CASE o # NoNode /\ n # NoNode /\ o.kind = n.kind /\ o.kind = "malformed"
  <2>1. D = {} /\ o = Malformed /\ n = Malformed
    BY <1>3, <1>4, <1>6, <1>13, NodeShape
  <2>2. o.children = <<>> /\ n.children = <<>>
    BY <2>1 DEF Malformed
  <2> QED BY <1>4, <1>7, <1>9, <1>13, <2>1, <2>2, FS_EmptySet
<1>14. CASE /\ o # NoNode /\ n # NoNode /\ o.kind = n.kind
            /\ o.kind \notin {"leaf", "malformed"}
  <2> DEFINE sub == [i \in Places(o, n) |->
                       _diff_trigger_node(Child(o, i), Child(n, i), Append(path, i))]
  <2>1. o.kind \notin {"absent", "malformed", "leaf"} /\ n.kind \notin {"absent", "malformed", "leaf"}
    BY <1>3, <1>4, <1>14, NodeShape
  <2>2. /\ o.children \in Seq(TriggersAt[d - 1]) /\ n.children \in Seq(TriggersAt[d - 1])
        /\ d - 1 \in 0..MaxNesting /\ d - 1 \notin bad
    BY <1>2, <1>3, <1>4, <2>1, NodeShape, NestingAssumption
  <2>3. /\ Len(o.children) \in Nat /\ DOMAIN o.children = 1..Len(o.children)
        /\ Len(n.children) \in Nat /\ DOMAIN n.children = 1..Len(n.children)
    BY <2>2
  <2>4. /\ Places(o, n) = 1..Longer(o, n) /\ Longer(o, n) \in Nat
        /\ Longer(o, n) >= Len(o.children) /\ Longer(o, n) >= Len(n.children)
    BY <2>3 DEF Places, Longer
  <2>5. D = UNION {sub[i] : i \in DOMAIN sub}
    BY <1>6, <1>14
  <2>6. ASSUME NEW i \in Places(o, n)
        PROVE  /\ DiffOK(Child(o, i), Child(n, i), Append(path, i))
               /\ Append(path, i) \in Seq(Nat) /\ i \in Nat
    <3>1. i \in Nat
      BY <2>4
    <3>2. Append(path, i) \in Seq(Nat)
      BY <1>4, <3>1
    <3>3. Child(o, i) \in Nodes[d - 1] /\ Child(n, i) \in Nodes[d - 1]
      BY <1>3, <1>4, <2>1, ChildIsNode
    <3> QED BY <2>2, <3>1, <3>2, <3>3 DEF bad
  <2>7. IsFiniteSet(D)
    <3>1. \A i \in DOMAIN sub : IsFiniteSet(sub[i])
      BY <2>6 DEF DiffOK
    <3>2. IsFiniteSet(DOMAIN sub)
      BY <2>4, FS_Interval
    <3> HIDE DEF sub
    <3>3. IsFiniteSet({sub[i] : i \in DOMAIN sub})
      BY <3>2, ImageIsFinite
    <3>4. \A S \in {sub[i] : i \in DOMAIN sub} : IsFiniteSet(S)
      BY <3>1
    <3> QED BY <2>5, <3>3, <3>4, FS_UNION
  <2>8. ASSUME NEW c \in D
        PROVE  c.path \in Seq(Nat) /\ LeadsThrough(c.path, path)
    <3>1. PICK i \in Places(o, n) : c \in sub[i]
      BY <2>5
    <3>2. c.path \in Seq(Nat) /\ LeadsThrough(c.path, Append(path, i))
      BY <2>6, <3>1 DEF DiffOK
    <3> QED BY <1>4, <2>6, <3>2, BelowChild
  <2>9. D = {} <=> SameTree(o, n)
    <3>1. \A i \in Places(o, n) : Child(o, i) # NoNode /\ Child(n, i) # NoNode =>
            (sub[i] = {} <=> SameTree(Child(o, i), Child(n, i)))
      BY <2>6 DEF DiffOK
    <3>2. \A i \in Places(o, n) : Child(o, i) = NoNode \/ Child(n, i) = NoNode => sub[i] # {}
      <4> TAKE i \in Places(o, n)
      <4>1. Child(o, i) \in Nodes[d - 1] /\ Child(n, i) \in Nodes[d - 1]
        BY <1>3, <1>4, <2>1, ChildIsNode
      <4>2. Child(o, i) \in Node /\ Child(n, i) \in Node
        BY <2>2, <4>1, NodesGrow
      <4>3. Append(path, i) \in Seq(Nat)
        BY <2>6
      <4> DEFINE a == Child(o, i)
                 b == Child(n, i)
                 p == Append(path, i)
      <4>4. sub[i] = _diff_trigger_node(a, b, p)
        OBVIOUS
      <4> HIDE DEF a, b, p, sub
      <4>5. a = NoNode \/ b = NoNode => \E c : sub[i] = {c}
        <5>1. a \in Node /\ b \in Node /\ p \in Seq(Nat)
          BY <4>2, <4>3 DEF a, b, p
        <5>2. a = NoNode => sub[i] = {Change("added", p, a, b)}
          BY <4>4, <5>1, DiffIs, Zenon
        <5>3. a # NoNode /\ b = NoNode => sub[i] = {Change("removed", p, a, b)}
          BY <4>4, <5>1, DiffIs, Zenon
        <5> QED BY <5>2, <5>3
      <4> QED BY <4>5 DEF a, b
    <3>3. D = {} <=> \A i \in Places(o, n) : sub[i] = {}
      BY <2>5
    <3>4. \A i \in DOMAIN o.children : i \in Places(o, n) /\ Child(o, i) = o.children[i]
      BY <2>3, <2>4 DEF Child
    <3>5. \A i \in DOMAIN n.children : i \in Places(o, n) /\ Child(n, i) = n.children[i]
      BY <2>3, <2>4 DEF Child
    <3>6. NoNode \notin TriggersAt[d - 1]
      <4>1. TriggersAt[d - 1] \subseteq Trigger
        <5>1. MaxNesting \in (d - 1)..MaxNesting
          BY <2>2, NestingAssumption
        <5> QED BY <2>2, <5>1, NestedGrows DEF Trigger, TriggersAt
      <4> QED BY <4>1, TriggerIsNode
    <3>7. /\ \A i \in Places(o, n) : Child(o, i) # NoNode <=> i \in DOMAIN o.children
          /\ \A i \in Places(o, n) : Child(n, i) # NoNode <=> i \in DOMAIN n.children
      BY <2>2, <3>6 DEF Child
    <3> HIDE DEF sub
    <3>8. CASE Len(o.children) = Len(n.children)
      <4>1. DOMAIN o.children = DOMAIN n.children /\ Places(o, n) = DOMAIN o.children
        BY <2>3, <3>8 DEF Places, Longer
      <4> QED BY <1>9, <1>14, <3>1, <3>3, <3>4, <3>5, <3>7, <3>8, <4>1
    <3>9. CASE Len(o.children) # Len(n.children)
      <4>1. \E i \in Places(o, n) : i \notin DOMAIN o.children \/ i \notin DOMAIN n.children
        BY <2>3, <2>4, <3>9 DEF Longer
      <4> QED BY <1>9, <1>14, <3>2, <3>3, <3>7, <3>9, <4>1
    <3> QED BY <3>8, <3>9
  <2> QED BY <1>4, <1>7, <2>7, <2>8, <2>9
<1> QED BY <1>10, <1>11, <1>12, <1>13, <1>14

\* A tree is the same as itself.
LEMMA SameAsItself == \A n \in Trigger : SameTree(n, n)
<1> DEFINE bad == {d \in 0..MaxNesting : \E n \in TriggersAt[d] : ~ SameTree(n, n)}
<1>1. SUFFICES ASSUME bad # {} PROVE FALSE
  <2>1. MaxNesting \in 0..MaxNesting /\ Trigger = TriggersAt[MaxNesting]
    BY NestingAssumption DEF Trigger, TriggersAt
  <2> QED BY <2>1
<1>2. PICK d \in bad : \A j \in bad : d <= j
  <2>1. bad \in SUBSET Nat
    BY NestingAssumption
  <2> HIDE DEF bad
  <2> QED BY <1>1, <2>1, LeastNatural
<1>3. d \in 0..MaxNesting
  OBVIOUS
<1>4. PICK n \in TriggersAt[d] : ~ SameTree(n, n)
  OBVIOUS
<1>5. n \in Trigger
  <2>1. MaxNesting \in d..MaxNesting
    BY <1>3, NestingAssumption
  <2> QED BY <1>3, <1>4, <2>1, NestedGrows DEF Trigger, TriggersAt
<1>6. CASE n.kind = "leaf"
  <2>1. SameLeaf(n, n)
    BY DEF SameLeaf, PyEqual
  <2> QED BY <1>4, <1>5, <1>6, <2>1, SameSteps
<1>7. CASE n.kind # "leaf"
  <2>1. PICK i \in DOMAIN n.children : ~ SameTree(n.children[i], n.children[i])
    BY <1>4, <1>5, <1>7, SameSteps
  <2>2. n.children # <<>>
    BY <2>1
  <2>3. d > 0 /\ n.children[i] \in TriggersAt[d - 1]
    BY <1>3, <1>4, <1>7, <2>1, <2>2, ChildrenOfTrigger
  <2>4. d - 1 \in bad
    BY <1>3, <2>1, <2>3, NestingAssumption
  <2> HIDE DEF bad
  <2> QED BY <1>2, <1>3, <2>4
<1> QED BY <1>6, <1>7

\* What is made of a node in place of the old one when the changes between the two,
\* and no others, are made at the node and below.
Rebuilds(d, o, n, path, changes, f) ==
  (o # NoNode \/ n # NoNode)
    /\ {c \in changes : LeadsThrough(c.path, path)} = _diff_trigger_node(o, n, path)
  => /\ n = NoNode => f[<<o, path>>] = NoNode
     /\ n # NoNode => f[<<o, path>>] \in TriggersAt[d] /\ SameTree(f[<<o, path>>], n)

\* Making the changes in the old tree gives the new one, at every depth.
LEMMA PatchRebuilds ==
  ASSUME NEW C, \A c \in C : c.path \in Seq(Nat),
         NEW f, IsMade("patched", f, Node \X Seq(Nat), C)
  PROVE  \A d \in 0..MaxNesting : \A o, n \in Nodes[d] : \A path \in Seq(Nat) :
           Rebuilds(d, o, n, path, C, f)
<1> DEFINE bad == {d \in 0..MaxNesting : \E o, n \in Nodes[d] : \E path \in Seq(Nat) :
                                            ~ Rebuilds(d, o, n, path, C, f)}
<1>1. SUFFICES ASSUME bad # {} PROVE FALSE
  OBVIOUS
<1>2. PICK d \in bad : \A j \in bad : d <= j
  <2>1. bad \in SUBSET Nat
    BY NestingAssumption
  <2> HIDE DEF bad
  <2> QED BY <1>1, <2>1, LeastNatural
<1>3. d \in 0..MaxNesting
  OBVIOUS
<1>4. PICK o \in Nodes[d], n \in Nodes[d], path \in Seq(Nat) : ~ Rebuilds(d, o, n, path, C, f)
  OBVIOUS
<1> DEFINE M == f[<<o, path>>]
           D == _diff_trigger_node(o, n, path)
           here == {c \in C : c.path = path}
<1>5. \A a \in Nodes[d - 1], b \in Nodes[d - 1] : \A p \in Seq(Nat) :
        d - 1 \in 0..MaxNesting => Rebuilds(d - 1, a, b, p, C, f)
  <2>1. d - 1 \notin bad
    <3> HIDE DEF bad
    <3> QED BY <1>2, <1>3
  <2> QED BY <2>1
<1> HIDE DEF bad
<1>6. /\ o # NoNode \/ n # NoNode
      /\ {c \in C : LeadsThrough(c.path, path)} = D
      /\ ~ (n = NoNode /\ M = NoNode)
      /\ ~ (n # NoNode /\ M \in TriggersAt[d] /\ SameTree(M, n))
  BY <1>4 DEF Rebuilds
<1>7. o \in Node /\ n \in Node /\ (o # NoNode => o \in Trigger) /\ (n # NoNode => n \in Trigger)
  <2>1. o \in Node /\ n \in Node
    BY <1>3, <1>4, NodesGrow
  <2> QED BY <2>1 DEF Node
<1>8. M = IF here # {} THEN (CHOOSE c \in here : TRUE).new_node
          ELSE IF o.kind \in {"leaf", "absent", "malformed"} THEN o
          ELSE WithChildren(o.kind, [i \in ChildPlaces(o, path, C) |->
                                       f[<<Child(o, i), Append(path, i)>>]])
  <2> DEFINE t == <<o, path>>
  <2>1. t \in Node \X Seq(Nat) /\ t[1] = o /\ t[2] = path
    BY <1>7
  <2> HIDE DEF t
  <2>2. f[t] = Made("patched", t, f, C)
    BY <2>1, Zenon DEF IsMade
  <2>3. f[t] = PatchedFrom(t, f, C)
    BY <2>2 DEF Made
  <2>4. PatchedFrom(t, f, C) =
          IF here # {} THEN (CHOOSE c \in here : TRUE).new_node
          ELSE IF o.kind \in {"leaf", "absent", "malformed"} THEN o
          ELSE WithChildren(o.kind, [i \in ChildPlaces(o, path, C) |->
                                       f[<<Child(o, i), Append(path, i)>>]])
    BY <2>1 DEF PatchedFrom
  <2>5. M = f[t]
    BY DEF t
  <2> QED BY <2>3, <2>4, <2>5
<1>9. here \subseteq D
  <2>1. Len(path) \in Nat
    OBVIOUS
  <2>2. LeadsThrough(path, path)
    BY <2>1 DEF LeadsThrough
  <2> QED BY <1>6, <2>2
<1>10. D = IF o = NoNode THEN {Change("added", path, o, n)}
           ELSE IF n = NoNode THEN {Change("removed", path, o, n)}
           ELSE IF o.kind # n.kind THEN {Change("modified", path, o, n)}
           ELSE IF o.kind = "leaf" THEN _diff_leaf(o, n, path)
           ELSE IF o.kind = "malformed" THEN {}
           ELSE UNION {_diff_trigger_node(Child(o, i), Child(n, i), Append(path, i)) :
                         i \in Places(o, n)}
  BY <1>4, <1>7, DiffIs
<1>11. DiffOK(o, n, path)
  BY <1>4, <1>7, DiffIsOK
<1> HIDE DEF M, D
<1>12. ASSUME NEW k, D = {Change(k, path, o, n)} PROVE FALSE
  <2>1. Change(k, path, o, n).path = path /\ Change(k, path, o, n).new_node = n
    BY DEF Change
  <2>2. Change(k, path, o, n) \in C
    BY <1>6, <1>12
  <2>3. here = {Change(k, path, o, n)}
    BY <1>9, <1>12, <2>1, <2>2
  <2> HIDE DEF here
  <2>4. (CHOOSE c \in here : TRUE) = Change(k, path, o, n)
    BY <2>3
  <2>5. M = n
    BY <1>8, <2>1, <2>3, <2>4
  <2>6. n # NoNode => n \in TriggersAt[d]
    BY <1>4, <1>3 DEF Nodes
  <2> QED BY <1>6, <1>7, <2>5, <2>6, SameAsItself
<1>13. ASSUME D = {}, o # NoNode, n # NoNode, o.kind \in {"leaf", "malformed"} PROVE FALSE
  <2>1. M = o
    BY <1>8, <1>9, <1>13
  <2>2. SameTree(o, n)
    BY <1>11, <1>13 DEF DiffOK, D
  <2>3. o \in TriggersAt[d]
    BY <1>3, <1>4, <1>13 DEF Nodes
  <2> QED BY <1>6, <1>13, <2>1, <2>2, <2>3
<1>14. /\ o # NoNode /\ n # NoNode /\ o.kind = n.kind /\ o.kind \notin {"leaf", "malformed"}
       /\ D = UNION {_diff_trigger_node(Child(o, i), Child(n, i), Append(path, i)) :
                       i \in Places(o, n)}
  <2>1. o # NoNode
    BY <1>10, <1>12
  <2>2. n # NoNode
    BY <1>10, <1>12
  <2>3. o.kind = n.kind
    BY <1>10, <1>12, <2>1, <2>2
  <2>4. o.kind # "leaf"
    <3>1. SUFFICES ASSUME o.kind = "leaf" PROVE FALSE
      OBVIOUS
    <3>2. D = {} \/ D = {Change("modified", path, o, n)}
      BY <1>10, <2>1, <2>2, <2>3, <3>1 DEF _diff_leaf
    <3> QED BY <1>12, <1>13, <2>1, <2>2, <3>1, <3>2
  <2>5. o.kind # "malformed"
    BY <1>10, <1>13, <2>1, <2>2, <2>3, <2>4
  <2> QED BY <1>10, <2>1, <2>2, <2>3, <2>4, <2>5
<1> DEFINE sub(i) == _diff_trigger_node(Child(o, i), Child(n, i), Append(path, i))
           S == ChildPlaces(o, path, C)
           K == [i \in S |-> f[<<Child(o, i), Append(path, i)>>]]
<1>15. o.kind \notin {"absent", "malformed", "leaf"} /\ n.kind \notin {"absent", "malformed", "leaf"}
  BY <1>3, <1>4, <1>14, NodeShape
<1>16. /\ o.children \in Seq(TriggersAt[d - 1]) /\ n.children \in Seq(TriggersAt[d - 1])
       /\ d - 1 \in 0..MaxNesting /\ d > 0
  BY <1>3, <1>4, <1>15, NodeShape, NestingAssumption
<1>17. /\ Len(o.children) \in Nat /\ DOMAIN o.children = 1..Len(o.children)
       /\ Len(n.children) \in Nat /\ DOMAIN n.children = 1..Len(n.children)
  BY <1>16
<1>18. /\ Places(o, n) \subseteq Nat
       /\ \A i : i \in Places(o, n) <=> i \in DOMAIN o.children \/ i \in DOMAIN n.children
  BY <1>17 DEF Places, Longer
<1>19. NoNode \notin TriggersAt[d - 1]
  <2>1. MaxNesting \in (d - 1)..MaxNesting
    BY <1>16, NestingAssumption
  <2>2. TriggersAt[d - 1] \subseteq Trigger
    BY <1>16, <2>1, NestedGrows DEF Trigger, TriggersAt
  <2> QED BY <2>2, TriggerIsNode
<1>20. ASSUME NEW i \in Places(o, n)
       PROVE  /\ Child(o, i) \in Nodes[d - 1] /\ Child(n, i) \in Nodes[d - 1]
              /\ Append(path, i) \in Seq(Nat) /\ i \in Nat
              /\ Child(o, i) # NoNode <=> i \in DOMAIN o.children
              /\ Child(n, i) # NoNode <=> i \in DOMAIN n.children
              /\ \A c \in sub(i) : c.path \in Seq(Nat) /\ LeadsThrough(c.path, Append(path, i))
  <2>1. i \in Nat
    BY <1>18
  <2>2. Append(path, i) \in Seq(Nat)
    BY <1>4, <2>1
  <2>3. Child(o, i) \in Nodes[d - 1] /\ Child(n, i) \in Nodes[d - 1]
    BY <1>3, <1>4, <1>15, ChildIsNode
  <2>4. Child(o, i) \in Node /\ Child(n, i) \in Node
    BY <1>16, <2>3, NodesGrow
  <2>5. DiffOK(Child(o, i), Child(n, i), Append(path, i))
    BY <2>2, <2>4, DiffIsOK
  <2>6. /\ Child(o, i) # NoNode <=> i \in DOMAIN o.children
        /\ Child(n, i) # NoNode <=> i \in DOMAIN n.children
    BY <1>16, <1>19 DEF Child
  <2> QED BY <2>1, <2>2, <2>3, <2>5, <2>6 DEF DiffOK
<1>21. ASSUME NEW i \in Places(o, n)
       PROVE  {c \in C : LeadsThrough(c.path, Append(path, i))} = sub(i)
  <2>1. ASSUME NEW c \in sub(i) PROVE c \in C /\ LeadsThrough(c.path, Append(path, i))
    <3>1. c \in D
      BY <1>14
    <3> QED BY <1>6, <1>20, <3>1
  <2>2. ASSUME NEW c \in C, LeadsThrough(c.path, Append(path, i)) PROVE c \in sub(i)
    <3>1. c.path \in Seq(Nat) /\ i \in Nat
      BY <1>20
    <3>2. LeadsThrough(c.path, path) /\ c.path[Len(path) + 1] = i
      BY <1>4, <2>2, <3>1, BelowChild
    <3>3. c \in D
      BY <1>6, <3>2
    <3>4. PICK j \in Places(o, n) : c \in sub(j)
      BY <1>14, <3>3
    <3>5. LeadsThrough(c.path, Append(path, j)) /\ j \in Nat
      BY <1>20, <3>4
    <3>6. c.path[Len(path) + 1] = j
      BY <1>4, <3>1, <3>5, BelowChild
    <3> QED BY <3>2, <3>4, <3>6
  <2> QED BY <2>1, <2>2
<1>22. here = {}
  <2>1. SUFFICES ASSUME NEW c \in here PROVE FALSE
    OBVIOUS
  <2>2. PICK i \in Places(o, n) : c \in sub(i)
    BY <1>9, <1>14
  <2>3. LeadsThrough(path, Append(path, i)) /\ i \in Nat
    BY <1>20, <2>2
  <2>4. Len(path) > Len(path)
    BY <1>4, <2>3, BelowChild
  <2>5. Len(path) \in Nat
    BY <1>4
  <2> QED BY <2>4, <2>5
<1>23. M = WithChildren(o.kind, K)
  BY <1>8, <1>15, <1>22
<1>24. S \subseteq Places(o, n) /\ DOMAIN n.children \subseteq S
  <2>1. ASSUME NEW c \in C, Len(c.path) > Len(path), SubSeq(c.path, 1, Len(path)) = path
        PROVE  c.path[Len(path) + 1] \in Places(o, n)
    <3>1. c.path \in Seq(Nat)
      OBVIOUS
    <3>2. LeadsThrough(c.path, path)
      BY <1>4, <2>1, <3>1, BelowIsPrefix
    <3>3. c \in D
      BY <1>6, <3>2
    <3>4. PICK j \in Places(o, n) : c \in sub(j)
      BY <1>14, <3>3
    <3>5. LeadsThrough(c.path, Append(path, j)) /\ j \in Nat
      BY <1>20, <3>4
    <3> QED BY <1>4, <3>1, <3>5, BelowChild
  <2>2. ASSUME NEW i \in DOMAIN n.children, i \notin DOMAIN o.children
        PROVE  i \in S
    <3>1. i \in Places(o, n)
      BY <1>18
    <3> DEFINE p == Append(path, i)
               c == Change("added", p, Child(o, i), Child(n, i))
    <3>2. p \in Seq(Nat) /\ i \in Nat /\ Child(o, i) = NoNode
      BY <1>20, <2>2, <3>1
    <3>3. Child(o, i) \in Node /\ Child(n, i) \in Node
      BY <1>16, <1>20, <3>1, NodesGrow
    <3>4. sub(i) = {c}
      <4> HIDE DEF p
      <4>1. _diff_trigger_node(Child(o, i), Child(n, i), p) = {c}
        BY <3>2, <3>3, DiffIs, Zenon
      <4> QED BY <4>1 DEF p
    <3>5. c \in C /\ LeadsThrough(c.path, p)
      BY <1>21, <3>1, <3>4
    <3> HIDE DEF p
    <3>6. c.path = p
      BY DEF Change
    <3> HIDE DEF c
    <3>7. LeadsThrough(c.path, path) /\ Len(c.path) > Len(path) /\ c.path[Len(path) + 1] = i
      BY <1>4, <3>2, <3>5, <3>6, BelowChild DEF p
    <3>8. SubSeq(c.path, 1, Len(path)) = path
      BY <1>4, <3>2, <3>6, <3>7, BelowIsPrefix
    <3> QED BY <3>5, <3>7, <3>8 DEF ChildPlaces
  <2> QED BY <1>18, <2>1, <2>2 DEF ChildPlaces
<1>25. ASSUME NEW i \in S
       PROVE  /\ i \notin DOMAIN n.children => K[i] = NoNode
              /\ i \in DOMAIN n.children =>
                   K[i] \in TriggersAt[d - 1] /\ K[i] # NoNode /\ SameTree(K[i], n.children[i])
  <2>1. i \in Places(o, n)
    BY <1>24
  <2>2. Rebuilds(d - 1, Child(o, i), Child(n, i), Append(path, i), C, f)
    BY <1>5, <1>16, <1>20, <2>1
  <2>3. Child(o, i) # NoNode \/ Child(n, i) # NoNode
    BY <1>18, <1>20, <2>1
  <2>4. K[i] = f[<<Child(o, i), Append(path, i)>>]
    OBVIOUS
  <2> HIDE DEF K
  <2>5. /\ Child(n, i) = NoNode => K[i] = NoNode
        /\ Child(n, i) # NoNode => K[i] \in TriggersAt[d - 1] /\ SameTree(K[i], Child(n, i))
    BY <1>21, <2>1, <2>2, <2>3, <2>4 DEF Rebuilds
  <2>6. i \in DOMAIN n.children => Child(n, i) = n.children[i]
    BY DEF Child
  <2> QED BY <1>19, <1>20, <2>1, <2>5, <2>6
<1>26. DOMAIN K = S
  OBVIOUS
<1> HIDE DEF K, S, here
<1>27. {i \in DOMAIN K : K[i] # NoNode} = DOMAIN n.children
  BY <1>24, <1>25, <1>26
<1>28. M = [kind |-> o.kind, children |-> [i \in 1..Len(n.children) |-> K[i]]]
  <2>1. Cardinality(DOMAIN n.children) = Len(n.children)
    <3> DEFINE len == Len(n.children)
    <3>1. len \in Nat /\ DOMAIN n.children = 1..len
      BY <1>17
    <3> HIDE DEF len
    <3>2. Cardinality(1..len) = len
      BY <3>1, FS_Interval
    <3> QED BY <3>1, <3>2 DEF len
  <2> QED BY <1>23, <1>27, <2>1 DEF WithChildren
<1> DEFINE cs == [i \in 1..Len(n.children) |-> K[i]]
<1>29. cs \in Seq(TriggersAt[d - 1]) /\ Len(cs) = Len(n.children)
  <2> DEFINE len == Len(n.children)
  <2>1. \A i \in 1..len : K[i] \in TriggersAt[d - 1]
    BY <1>17, <1>24, <1>25
  <2>2. len \in Nat /\ cs = [i \in 1..len |-> K[i]]
    BY <1>17
  <2> HIDE DEF len, cs
  <2>3. cs \in Seq(TriggersAt[d - 1]) /\ Len(cs) = len
    BY <2>1, <2>2
  <2> QED BY <2>3 DEF len
<1>30. \A i \in DOMAIN n.children : SameTree(cs[i], n.children[i])
  BY <1>17, <1>24, <1>25
<1> HIDE DEF cs
<1>31. M = [kind |-> o.kind, children |-> cs]
  BY <1>28 DEF cs
<1>32. M \in TriggersAt[d]
  <2>1. o.kind \in {"all", "any", "not"}
    BY <1>3, <1>4, <1>14, <1>15, NodeShape
  <2>2. M \in CompositesOf(d - 1)
    BY <1>29, <1>31, <2>1 DEF CompositesOf, TriggersTo, TriggersAt
  <2>3. CompositesOf(d - 1) \subseteq TriggersAt[d]
    <3>1. TriggersAt[d] = TriggersAt[d - 1] \cup Composites(TriggersAt[d - 1], FALSE)
      <4>1. d # 0
        BY <1>16
      <4>2. StepsTo(Condition \cup {Malformed}, FALSE, d)
        BY <1>3, NestedSteps, Zenon
      <4> QED BY <4>1, <4>2, Zenon DEF StepsTo, TriggersAt
    <3> QED BY <3>1 DEF CompositesOf, TriggersTo, TriggersAt, Composites
  <2> QED BY <2>2, <2>3
<1>33. M \in Trigger
  <2>1. MaxNesting \in d..MaxNesting
    BY <1>3, NestingAssumption
  <2> QED BY <1>3, <1>32, <2>1, NestedGrows DEF Trigger, TriggersAt
<1>34. SameTree(M, n)
  <2>1. M.kind = n.kind /\ M.kind # "leaf" /\ M.children = cs
    BY <1>14, <1>31
  <2>2. DOMAIN cs = DOMAIN n.children
    BY <1>17, <1>29
  <2> QED BY <1>7, <1>14, <1>29, <1>30, <1>33, <2>1, <2>2, SameSteps
<1> QED BY <1>6, <1>14, <1>32, <1>34

\* The changes between two trees, made in the old one, give the new one.
LEMMA PatchedIsNew ==
  ASSUME NEW o \in Trigger, NEW n \in Trigger
  PROVE  LET rebuilt == Patched(o, _diff_trigger_node(o, n, <<>>))
         IN  rebuilt \in Trigger /\ SameTree(rebuilt, n)
<1> DEFINE C == _diff_trigger_node(o, n, <<>>)
<1>1. o \in Node /\ n \in Node /\ o # NoNode /\ n # NoNode /\ <<>> \in Seq(Nat)
  BY TriggerIsNode
<1>2. \A c \in C : c.path \in Seq(Nat) /\ LeadsThrough(c.path, <<>>)
  BY <1>1, DiffIsOK DEF DiffOK
<1>3. PICK f : /\ IsMade("patched", f, Node \X Seq(Nat), C)
               /\ \A tree : Patched(tree, C) = f[<<tree, <<>> >>]
  <2> HIDE DEF C
  <2> QED BY <1>2, PatchSteps
<1>4. {c \in C : LeadsThrough(c.path, <<>>)} = C
  BY <1>2
<1>5. MaxNesting \in 0..MaxNesting /\ Nodes[MaxNesting] = Node /\ TriggersAt[MaxNesting] = Trigger
  BY NestingAssumption, NodesGrow DEF Trigger, TriggersAt
<1>6. Rebuilds(MaxNesting, o, n, <<>>, C, f)
  <2> HIDE DEF C
  <2> QED BY <1>1, <1>2, <1>3, <1>5, PatchRebuilds
<1>7. f[<<o, <<>> >>] \in Trigger /\ SameTree(f[<<o, <<>> >>], n)
  BY <1>1, <1>4, <1>5, <1>6 DEF Rebuilds
<1> QED BY <1>3, <1>7

-----------------------------------------------------------------------------
(* Trees that are the same decide the same.                                *)

\* What a value is to Python's ==.
Canonical(v) ==
  IF v[1] = "list" THEN <<"list", [i \in DOMAIN v[2] |-> Plain(v[2][i])]>> ELSE Plain(v)

\* == is an equivalence.
LEMMA EqualIsCanonical ==
  ASSUME NEW a \in Value, NEW b \in Value
  PROVE  PyEqual(a, b) <=> Canonical(a) = Canonical(b)
<1>1. \A v \in Value : v[1] # "list" => Plain(v)[1] # "list"
  BY DEF Plain, Number
<1>2. CASE a[1] = "list" /\ b[1] = "list"
  BY <1>2 DEF PyEqual, Canonical
<1>3. CASE a[1] # "list" /\ b[1] # "list"
  BY <1>3 DEF PyEqual, Canonical
<1>4. CASE a[1] = "list" /\ b[1] # "list"
  <2>1. Plain(a) = a /\ Plain(b)[1] # "list" /\ Canonical(a)[1] = "list"
    BY <1>1, <1>4 DEF Plain, Canonical
  <2> QED BY <1>4, <2>1 DEF PyEqual, Canonical
<1>5. CASE a[1] # "list" /\ b[1] = "list"
  <2>1. Plain(b) = b /\ Plain(a)[1] # "list" /\ Canonical(b)[1] = "list"
    BY <1>1, <1>5 DEF Plain, Canonical
  <2> QED BY <1>5, <2>1 DEF PyEqual, Canonical
<1> QED BY <1>2, <1>3, <1>4, <1>5

\* What a value is: a list of scalars, or a scalar.
LEMMA ValueShape ==
  ASSUME NEW v \in Value
  PROVE  /\ v[1] = "list" => v[2] \in Seq(Scalar)
         /\ v = <<v[1], v[2]>>
         /\ v[1] # "bool" => Plain(v) = v
         /\ \A s \in Scalar : s \in Value /\ s[1] # "list"
BY DEF Value, Scalar, Plain, Null

\* Equal values are in a list, and equal lists hold a value, together.
LEMMA EqualsAreInAlike ==
  ASSUME NEW a \in Value, NEW b \in Value, PyEqual(a, b)
  PROVE  /\ \A v \in Value : PyEqual(v, a) <=> PyEqual(v, b)
         /\ \A l \in Value : l[1] = "list" => (PyIn(a, l) <=> PyIn(b, l))
         /\ a[1] = "list" /\ b[1] = "list" =>
              \A v \in Value : PyIn(v, a) <=> PyIn(v, b)
<1>1. Canonical(a) = Canonical(b)
  BY EqualIsCanonical
<1>2. \A v \in Value : PyEqual(v, a) <=> PyEqual(v, b)
  BY <1>1, EqualIsCanonical
<1>3. \A v \in Value : PyEqual(a, v) <=> PyEqual(b, v)
  BY <1>1, EqualIsCanonical
<1>4. ASSUME NEW l \in Value, l[1] = "list" PROVE PyIn(a, l) <=> PyIn(b, l)
  <2>1. \A e \in Elements(l) : e \in Value
    BY <1>4, ValueShape DEF Elements
  <2> QED BY <1>3, <2>1 DEF PyIn
<1>5. ASSUME a[1] = "list", b[1] = "list", NEW v \in Value PROVE PyIn(v, a) <=> PyIn(v, b)
  <2>1. a[2] \in Seq(Scalar) /\ b[2] \in Seq(Scalar)
    BY <1>5, ValueShape
  <2>2. [i \in DOMAIN a[2] |-> Plain(a[2][i])] = [i \in DOMAIN b[2] |-> Plain(b[2][i])]
    BY <1>5 DEF PyEqual
  <2>3. DOMAIN a[2] = DOMAIN b[2]
    BY <2>2
  <2>4. \A i \in DOMAIN a[2] : PyEqual(v, a[2][i]) <=> PyEqual(v, b[2][i])
    <3> TAKE i \in DOMAIN a[2]
    <3>1. Plain(a[2][i]) = Plain(b[2][i])
      <4> DEFINE f == [k \in DOMAIN a[2] |-> Plain(a[2][k])]
                 g == [k \in DOMAIN b[2] |-> Plain(b[2][k])]
      <4>1. f[i] = Plain(a[2][i]) /\ g[i] = Plain(b[2][i])
        BY <2>3
      <4>2. f = g
        BY <2>2
      <4> QED BY <4>1, <4>2
    <3>2. a[2][i] \in Scalar /\ b[2][i] \in Scalar
      BY <2>1, <2>3
    <3>3. Canonical(a[2][i]) = Canonical(b[2][i])
      BY <3>1, <3>2, ValueShape DEF Canonical
    <3> QED BY <3>2, <3>3, ValueShape, EqualIsCanonical
  <2> QED BY <2>3, <2>4 DEF PyIn, Elements
<1> QED BY <1>2, <1>4, <1>5

\* An operator that accepts two equal values says the same of both.
LEMMA EqualsHoldAlike ==
  ASSUME NEW op \in OPERATOR_KEYS \ {"exists"}, NEW actual \in Value,
         NEW a \in Value, NEW b \in Value, PyEqual(a, b),
         Accepts(op, actual, a), Accepts(op, actual, b)
  PROVE  Holds(op, actual, a) <=> Holds(op, actual, b)
<1>1. CASE op \in {"=", "!="}
  BY <1>1, EqualsAreInAlike DEF Holds
<1>2. CASE op \in {"in", "not_in"}
  <2>1. a[1] = "list" /\ b[1] = "list"
    BY <1>2 DEF Accepts
  <2> QED BY <1>2, <2>1, EqualsAreInAlike DEF Holds
<1>3. CASE op = "intersects"
  <2>1. a[1] = "list" /\ b[1] = "list" /\ actual[1] = "list"
    BY <1>3 DEF Accepts
  <2>2. \A e \in Elements(actual) : e \in Value
    BY <2>1, ValueShape DEF Elements
  <2>3. \A e \in Elements(actual) : PyIn(e, a) <=> PyIn(e, b)
    BY <2>1, <2>2, EqualsAreInAlike
  <2> QED BY <1>3, <2>3 DEF Holds
<1>4. CASE op = "contains" /\ actual[1] = "list"
  BY <1>4, EqualsAreInAlike DEF Holds
<1>5. CASE \/ op \in {">", ">=", "<", "<="}
           \/ op = "contains" /\ actual[1] # "list"
  <2>1. a[1] = b[1] /\ a[1] \in {"number", "date", "string"}
    BY <1>5 DEF Accepts, Orderable
  <2>2. a = b
    BY <2>1, ValueShape DEF PyEqual
  <2> QED BY <2>2
<1> QED BY <1>1, <1>2, <1>3, <1>4, <1>5 DEF OPERATOR_KEYS

\* Two leaves that are the same and do not raise.
LEMMA LeavesDecideAlike ==
  ASSUME NEW context, IsContext(context), NEW a \in Condition, NEW b \in Condition,
         SameLeaf(a, b), _evaluate_leaf(a, context) # Raised, _evaluate_leaf(b, context) # Raised
  PROVE  _evaluate_leaf(a, context).matched <=> _evaluate_leaf(b, context).matched
<1> DEFINE actual == get(context, a.field)
           op == a.operator
<1>1. /\ op = b.operator /\ a.field = b.field /\ PyEqual(a.value, b.value)
      /\ a.value \in Value /\ b.value \in Value
  BY DEF SameLeaf, Condition
<1>2. actual = MISSING \/ actual \in Value
  BY DEF get, IsContext
<1>3. /\ apply_operator(op, actual, a.value) # "raised"
      /\ apply_operator(op, actual, b.value) # "raised"
      /\ _evaluate_leaf(a, context).matched <=> apply_operator(op, actual, a.value) = "true"
      /\ _evaluate_leaf(b, context).matched <=> apply_operator(op, actual, b.value) = "true"
  BY <1>1 DEF _evaluate_leaf
<1> HIDE DEF actual
<1>4. op \in OPERATOR_KEYS
  BY <1>3 DEF apply_operator
<1>5. CASE op = "exists" \/ actual = MISSING
  <2>1. apply_operator(op, actual, a.value) = apply_operator(op, actual, b.value)
    BY <1>5 DEF apply_operator
  <2> QED BY <1>3, <2>1
<1>6. CASE op # "exists" /\ actual # MISSING
  <2>1. Accepts(op, actual, a.value) /\ Accepts(op, actual, b.value)
    BY <1>3, <1>4, <1>6, OperatorRaises
  <2>2. Holds(op, actual, a.value) <=> Holds(op, actual, b.value)
    BY <1>1, <1>2, <1>4, <1>6, <2>1, EqualsHoldAlike
  <2>3. /\ apply_operator(op, actual, a.value) = Outcome(Holds(op, actual, a.value))
        /\ apply_operator(op, actual, b.value) = Outcome(Holds(op, actual, b.value))
    BY <1>4, <1>6, <2>1 DEF apply_operator
  <2> QED BY <1>3, <2>2, <2>3 DEF Outcome
<1> QED BY <1>5, <1>6

DecideAlike(a, b, context) ==
  SameTree(a, b) /\ evaluate_trigger(a, context) # Raised /\ evaluate_trigger(b, context) # Raised
    => (evaluate_trigger(a, context).matched <=> evaluate_trigger(b, context).matched)

\* Two trees that are the same and do not raise.
LEMMA TreesDecideAlike ==
  ASSUME NEW context, IsContext(context)
  PROVE  \A a, b \in Trigger : DecideAlike(a, b, context)
<1> DEFINE bad == {d \in 0..MaxNesting : \E a, b \in TriggersAt[d] : ~ DecideAlike(a, b, context)}
<1>1. SUFFICES ASSUME bad # {} PROVE FALSE
  <2>1. MaxNesting \in 0..MaxNesting /\ Trigger = TriggersAt[MaxNesting]
    BY NestingAssumption DEF Trigger, TriggersAt
  <2> QED BY <2>1
<1>2. PICK d \in bad : \A j \in bad : d <= j
  <2>1. bad \in SUBSET Nat
    BY NestingAssumption
  <2> HIDE DEF bad
  <2> QED BY <1>1, <2>1, LeastNatural
<1>3. d \in 0..MaxNesting
  OBVIOUS
<1>4. PICK a \in TriggersAt[d], b \in TriggersAt[d] : ~ DecideAlike(a, b, context)
  OBVIOUS
<1> HIDE DEF bad
<1> DEFINE ea == evaluate_trigger(a, context)
           eb == evaluate_trigger(b, context)
           as == [i \in DOMAIN a.children |-> evaluate_trigger(a.children[i], context)]
           bs == [i \in DOMAIN b.children |-> evaluate_trigger(b.children[i], context)]
<1>5. a \in Trigger /\ b \in Trigger
  <2>1. MaxNesting \in d..MaxNesting
    BY <1>3, NestingAssumption
  <2> QED BY <1>3, <2>1, NestedGrows DEF Trigger, TriggersAt
<1>6. SameTree(a, b) /\ ea # Raised /\ eb # Raised /\ ~ (ea.matched <=> eb.matched)
  BY <1>4 DEF DecideAlike
<1>7. /\ a.kind = b.kind
      /\ IF a.kind = "leaf" THEN SameLeaf(a, b)
         ELSE /\ Len(a.children) = Len(b.children)
              /\ \A i \in DOMAIN a.children : SameTree(a.children[i], b.children[i])
  BY <1>5, <1>6, SameSteps
<1>8. /\ ea = IF a.kind = "leaf" THEN _evaluate_leaf(a, context)
              ELSE IF a.children = <<>> THEN Raised ELSE Composite(a.kind, as)
      /\ eb = IF b.kind = "leaf" THEN _evaluate_leaf(b, context)
              ELSE IF b.children = <<>> THEN Raised ELSE Composite(b.kind, bs)
  BY <1>5, EvaluateTrigger
<1> HIDE DEF ea, eb
<1>9. CASE a.kind = "leaf"
  <2>1. a \in Condition /\ b \in Condition
    <3>1. \A k : \A n \in CompositesOf(k) : n.kind # "leaf"
      BY DEF CompositesOf
    <3>2. Malformed.kind # "leaf"
      BY DEF Malformed
    <3> QED BY <1>3, <1>4, <1>7, <1>9, <3>1, <3>2, TriggerShape DEF TriggersTo, TriggersAt
  <2> QED BY <1>6, <1>7, <1>8, <1>9, <2>1, LeavesDecideAlike
<1>10. CASE a.kind # "leaf"
  <2>1. a.children # <<>> /\ b.children # <<>>
    BY <1>6, <1>7, <1>8, <1>10
  <2>2. /\ d > 0 /\ a \in CompositesOf(d - 1) /\ b \in CompositesOf(d - 1)
        /\ DOMAIN a.children = 1..Len(a.children) /\ DOMAIN b.children = 1..Len(b.children)
        /\ Len(a.children) \in Nat
        /\ \A i \in DOMAIN a.children : a.children[i] \in TriggersAt[d - 1]
        /\ \A i \in DOMAIN b.children : b.children[i] \in TriggersAt[d - 1]
    BY <1>3, <1>4, <1>7, <1>10, <2>1, ChildrenOfTrigger
  <2>3. DOMAIN a.children = DOMAIN b.children /\ 1 \in DOMAIN a.children
    <3>1. Len(a.children) # 0
      <4>1. a.children \in Seq(Trigger)
        BY <1>3, <1>4, <1>10, ChildrenOfTrigger
      <4> QED BY <2>1, <4>1
    <3> QED BY <1>7, <1>10, <2>2, <3>1
  <2>4. d - 1 \in 0..MaxNesting /\ d - 1 \notin bad
    BY <1>2, <1>3, <2>2, NestingAssumption
  <2>5. ea = Composite(a.kind, as) /\ eb = Composite(a.kind, bs)
    BY <1>7, <1>8, <1>10, <2>1
  <2>6. DOMAIN as = DOMAIN a.children /\ DOMAIN bs = DOMAIN a.children
    BY <2>3
  <2>7. \A i \in DOMAIN a.children : as[i] # Raised /\ bs[i] # Raised
    <3>1. Raised \notin ToSet(as) /\ Raised \notin ToSet(bs)
      BY <1>6, <2>5 DEF Composite
    <3> QED BY <2>6, <3>1 DEF ToSet
  <2>8. \A i \in DOMAIN a.children : as[i].matched <=> bs[i].matched
    <3> TAKE i \in DOMAIN a.children
    <3>1. as[i] = evaluate_trigger(a.children[i], context)
          /\ bs[i] = evaluate_trigger(b.children[i], context)
      BY <2>3
    <3>2. DecideAlike(a.children[i], b.children[i], context)
      BY <2>2, <2>3, <2>4 DEF bad
    <3>3. SameTree(a.children[i], b.children[i])
      BY <1>7, <1>10
    <3> HIDE DEF as, bs
    <3> QED BY <2>7, <3>1, <3>2, <3>3 DEF DecideAlike
  <2> DEFINE fa == [i \in DOMAIN as |-> matched(as[i])]
             fb == [i \in DOMAIN bs |-> matched(bs[i])]
  <2>9. DOMAIN fa = DOMAIN a.children /\ DOMAIN fb = DOMAIN a.children
    BY <2>6
  <2>10. \A i \in DOMAIN a.children : fa[i] <=> fb[i]
    BY <2>6, <2>8 DEF matched
  <2>11. ea.matched = Combine(a.kind, fa) /\ eb.matched = Combine(a.kind, fb)
    <3> HIDE DEF as, bs
    <3> QED BY <1>6, <2>5 DEF Composite
  <2> HIDE DEF fa, fb
  <2>12. a.kind \in {"all", "any", "not"}
    BY <2>2 DEF CompositesOf
  <2>13. Combine(a.kind, fa) <=> Combine(a.kind, fb)
    BY <2>3, <2>9, <2>10, <2>12 DEF Combine
  <2> QED BY <1>6, <2>11, <2>13
<1> QED BY <1>9, <1>10

\* The summary has a line on the triggers when there is a change to them.
LEMMA SummarySpeaksOfChanges ==
  ASSUME NEW diff, IsFiniteSet(diff.trigger_changes)
  PROVE  (\E s \in summarize_diff(diff) : s[1] = "Trigger changes")
           <=> diff.trigger_changes # {}
<1>1. /\ Cardinality(diff.trigger_changes) \in Nat
      /\ Cardinality(diff.trigger_changes) = 0 <=> diff.trigger_changes = {}
  BY FS_CardinalityType, FS_EmptySet
<1>2. CASE is_empty(diff)
  BY <1>2 DEF summarize_diff, is_empty
<1>3. CASE ~ is_empty(diff)
  <2> DEFINE n == Cardinality(diff.trigger_changes)
             line == <<"Trigger changes", n>>
             fields == <<"Field changes", Cardinality(DOMAIN diff.field_changes)
                                            + Cardinality(diff.project_type_changes)>>
             outputs == <<"Output changes", Cardinality(diff.output_changes)>>
             places == <<"Jurisdiction changes", Cardinality(DOMAIN diff.jurisdiction_changes)>>
             citations == <<"Citation changes", Cardinality(diff.citation_changes)>>
  <2>1. summarize_diff(diff) = {s \in {fields, line, outputs, places, citations} : s[2] > 0}
    BY <1>3 DEF summarize_diff
  <2>2. /\ line[1] = "Trigger changes" /\ line[2] = n
        /\ \A s \in {fields, outputs, places, citations} : s[1] # "Trigger changes"
    OBVIOUS
  <2> HIDE DEF line, fields, outputs, places, citations
  <2>3. (\E s \in summarize_diff(diff) : s[1] = "Trigger changes") <=> n > 0
    BY <2>1, <2>2
  <2>4. n \in Nat /\ (n = 0 <=> diff.trigger_changes = {})
    BY <1>1
  <2> HIDE DEF n
  <2>5. n > 0 <=> n # 0
    BY <2>4
  <2> QED BY <2>3, <2>4, <2>5, Zenon
<1> QED BY <1>2, <1>3

\* What a diff says of two rules when it is no error.
Compares(diff, old, new) ==
  /\ diff.trigger_changes = _diff_trigger_node(old.triggers, new.triggers, <<>>)
  /\ is_empty(diff) =>
       /\ diff.trigger_changes = {}
       /\ old.jurisdiction_id = new.jurisdiction_id
       /\ old.applicable_project_types = new.applicable_project_types

\* The tree changes of a diff are those of the two trees, and a diff without any
\* change leaves where and to what the rule applies.
LEMMA DiffOfRules ==
  ASSUME NEW old, NEW new, diff_rules(old, new).error = "none"
  PROVE  Compares(diff_rules(old, new).value, old, new)
<1> DEFINE diff == diff_rules(old, new).value
<1>1. /\ diff.trigger_changes = _diff_triggers(old, new)
      /\ diff.jurisdiction_changes = _diff_jurisdiction(old, new)
      /\ diff.project_type_changes = _diff_project_types(old, new)
  BY DEF diff_rules, Raises, Returns
<1>2. is_empty(diff) => old.jurisdiction_id = new.jurisdiction_id
  BY <1>1 DEF is_empty, _diff_jurisdiction, Changed
<1>3. is_empty(diff) => old.applicable_project_types = new.applicable_project_types
  BY <1>1 DEF is_empty, _diff_project_types
<1> QED BY <1>1, <1>2, <1>3 DEF Compares, is_empty, _diff_triggers

\* A rule's outcome is that of its jurisdiction, project types and triggers.
LEMMA OutcomeOfRule ==
  ASSUME NEW context, IsContext(context), NEW jurisdictions, NEW types, NEW old, NEW new,
         old.triggers \in Trigger, new.triggers \in Trigger,
         old.jurisdiction_id = new.jurisdiction_id,
         old.applicable_project_types = new.applicable_project_types,
         SameTree(old.triggers, new.triggers),
         evaluate_trigger(old.triggers, context) # Raised,
         evaluate_trigger(new.triggers, context) # Raised
  PROVE  \A e \in {"fired", "decided_by"} :
           evaluate_rule(old, context, jurisdictions, types)[e]
             = evaluate_rule(new, context, jurisdictions, types)[e]
<1> DEFINE a == evaluate_trigger(old.triggers, context)
           b == evaluate_trigger(new.triggers, context)
           ra == evaluate_rule(old, context, jurisdictions, types)
           rb == evaluate_rule(new, context, jurisdictions, types)
<1>1. a.matched <=> b.matched
  BY TreesDecideAlike DEF DecideAlike
<1>2. a.matched \in BOOLEAN /\ b.matched \in BOOLEAN
  <2>1. \A t \in Trigger : evaluate_trigger(t, context) # Raised =>
          evaluate_trigger(t, context) \in EvaluatedTo(MaxNesting)
    <3>1. MaxNesting \in 0..MaxNesting /\ Trigger = TriggersAt[MaxNesting]
      BY NestingAssumption DEF Trigger, TriggersAt
    <3>2. \A d \in 0..MaxNesting : \A n \in TriggersAt[d] :
            evaluate_trigger(n, context) # Raised => evaluate_trigger(n, context) \in EvaluatedTo(d)
      BY EvaluatedAsDeep
    <3> QED BY <3>1, <3>2
  <2>2. \A e \in EvaluatedTo(MaxNesting) : e.matched \in BOOLEAN
    BY NestingAssumption, EvaluatedShape DEF EvaluatedLeaf, EvaluatedOf
  <2> QED BY <2>1, <2>2
<1>3. a.matched = b.matched
  BY <1>1, <1>2
<1> DEFINE no == FALSE
<1>4. CASE old.jurisdiction_id \notin jurisdictions
  <2>1. /\ ra = Evaluation(old, no, "jurisdiction", NoTree)
        /\ rb = Evaluation(new, no, "jurisdiction", NoTree)
    BY <1>4 DEF evaluate_rule
  <2> HIDE DEF no
  <2> QED BY <2>1 DEF Evaluation
<1>5. CASE old.jurisdiction_id \in jurisdictions
           /\ old.applicable_project_types \cap types = {}
  <2>1. /\ ra = Evaluation(old, no, "project_type", NoTree)
        /\ rb = Evaluation(new, no, "project_type", NoTree)
    BY <1>5 DEF evaluate_rule
  <2> HIDE DEF no
  <2> QED BY <2>1 DEF Evaluation
<1>6. CASE old.jurisdiction_id \in jurisdictions
           /\ old.applicable_project_types \cap types # {}
  <2>1. /\ ra = Evaluation(old, a.matched, IF a.matched THEN "fired" ELSE "triggers", a)
        /\ rb = Evaluation(new, b.matched, IF b.matched THEN "fired" ELSE "triggers", b)
    BY <1>6 DEF evaluate_rule
  <2> HIDE DEF a, b
  <2> QED BY <1>3, <2>1 DEF Evaluation
<1> QED BY <1>4, <1>5, <1>6

\* For any two versions of a rule, with trees of any depth: the old tree with the
\* listed changes made in it is the new tree, the summary speaks of trigger changes
\* exactly when the trees differ, and a diff without changes leaves what the rule
\* decides on every request (_diff_trigger_node, is_empty, summarize_diff).
THEOREM ChangesAlwaysRebuildTheTree == EvaluationSpec => []ChangesRebuildTheTree
<1>1. ASSUME EvaluationInv, call = "reviewed" PROVE ChangesRebuildTheTree
  <2> SUFFICES ASSUME NEW i \in DOMAIN reports.diffs, reports.diffs[i].error = "none"
               PROVE  LET new  == request.overlay.upsert[i]
                          old  == LastById(request.rules)[new.rule_id]
                          diff == reports.diffs[i]
                      IN  /\ SameTree(Patched(old.triggers, diff.value.trigger_changes), new.triggers)
                          /\ (\E s \in reports.summaries[i] : s[1] = "Trigger changes")
                               <=> ~ SameTree(old.triggers, new.triggers)
                          /\ is_empty(diff.value) /\ ~ HasDefect(old.triggers) /\ ~ HasDefect(new.triggers)
                               => \A e \in {"fired", "decided_by"} :
                                    LET outcome(rule) == evaluate_rule(rule, _context,
                                          inputs.applicable_jurisdiction_ids, request.project_types)[e]
                                    IN  outcome(old) = outcome(new)
    BY DEF ChangesRebuildTheTree
  <2> DEFINE new == request.overlay.upsert[i]
             old == LastById(request.rules)[new.rule_id]
             diff == Diffs[i].value
  <2>1. reports.diffs = Diffs /\ reports.summaries = Summaries
    BY <1>1 DEF EvaluationInv, ReportsOK
  <2>2. i \in DOMAIN request.overlay.upsert /\ Diffs[i].error = "none"
    BY <2>1 DEF Diffs
  <2>3. new.rule_id \in Ids(request.rules) /\ Diffs[i] = diff_rules(old, new)
    <3>1. DOMAIN LastById(request.rules) = Ids(request.rules)
      BY DEF LastById
    <3>2. Raises("no rule").error # "none"
      BY DEF Raises
    <3> QED BY <2>2, <3>1, <3>2 DEF Diffs
  <2>4. IsRuleList(request.rules) /\ IsRuleList(request.overlay.upsert)
    BY <1>1, ArgumentsAssumption DEF EvaluationInv
  <2>5. old.triggers \in Trigger /\ new.triggers \in Trigger
    <3>1. RuleOK(new)
      BY <2>2, <2>4, RuleListDef
    <3>2. RuleOK(old)
      BY <2>3, <2>4, LastByIdKeeps
    <3> QED BY <3>1, <3>2 DEF RuleOK
  <2>6. /\ diff.trigger_changes = _diff_trigger_node(old.triggers, new.triggers, <<>>)
        /\ is_empty(diff) =>
             /\ diff.trigger_changes = {}
             /\ old.jurisdiction_id = new.jurisdiction_id
             /\ old.applicable_project_types = new.applicable_project_types
    <3> HIDE DEF old, new
    <3>1. Compares(diff_rules(old, new).value, old, new)
      BY <2>2, <2>3, DiffOfRules
    <3>2. Compares(diff, old, new)
      BY <2>3, <3>1
    <3> HIDE DEF diff
    <3> QED BY <3>2 DEF Compares
  <2>7. DiffOK(old.triggers, new.triggers, <<>>)
        /\ old.triggers # NoNode /\ new.triggers # NoNode
    <3>1. <<>> \in Seq(Nat)
      OBVIOUS
    <3> HIDE DEF old, new
    <3> QED BY <2>5, <3>1, TriggerIsNode, DiffIsOK
  <2>8. Summaries[i] = summarize_diff(diff)
    <3>1. DOMAIN Diffs = DOMAIN request.overlay.upsert
      BY DEF Diffs
    <3> QED BY <2>2, <3>1 DEF Summaries
  <2>9. IsContext(_context)
    BY <1>1, ContextOfValues DEF Selected, IsContext
  <2> HIDE DEF old, new, diff
  <2>10. SameTree(Patched(old.triggers, diff.trigger_changes), new.triggers)
    BY <2>5, <2>6, PatchedIsNew
  <2>11. IsFiniteSet(diff.trigger_changes)
         /\ (diff.trigger_changes = {} <=> SameTree(old.triggers, new.triggers))
    BY <2>6, <2>7 DEF DiffOK
  <2>12. (\E s \in Summaries[i] : s[1] = "Trigger changes") <=> ~ SameTree(old.triggers, new.triggers)
    BY <2>8, <2>11, SummarySpeaksOfChanges
  <2>13. ASSUME is_empty(diff), ~ HasDefect(old.triggers), ~ HasDefect(new.triggers)
         PROVE  \A e \in {"fired", "decided_by"} :
                  evaluate_rule(old, _context, inputs.applicable_jurisdiction_ids, request.project_types)[e]
                    = evaluate_rule(new, _context, inputs.applicable_jurisdiction_ids, request.project_types)[e]
    <3>1. /\ evaluate_trigger(old.triggers, _context) # Raised
          /\ evaluate_trigger(new.triggers, _context) # Raised
      BY <2>5, <2>9, <2>13, TreeRaises DEF IsContext
    <3> QED BY <2>5, <2>6, <2>9, <2>11, <2>13, <3>1, OutcomeOfRule
  <2> QED BY <2>1, <2>10, <2>12, <2>13 DEF old, new, diff
<1>2. EvaluationInv => ChangesRebuildTheTree
  BY <1>1 DEF ChangesRebuildTheTree
<1> QED BY <1>2, EvaluationInvariance, PTL
=============================================================================
