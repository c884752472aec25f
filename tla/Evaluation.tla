----------------------------- MODULE Evaluation -----------------------------
(***************************************************************************)
(* One evaluation from end to end: the confirmed detection becomes engine  *)
(* inputs, simulate_project picks the rules, evaluates them, explains what *)
(* fired, resolves and sequences it (module Simulation, whose steps are    *)
(* steps here), and the permit matrix is built.  evaluate_project of the   *)
(* API is the case without overrides, overlay or temporal selection.  The  *)
(* reports an analyst runs on the same rules are a branch of their own.    *)
(***************************************************************************)
EXTENDS Simulation, Reports, EdgeCases, RuleDiff, Confirmation

CONSTANTS Arguments,  \* what evaluations are called with
          us          \* the id of the federal jurisdiction

\* What the schema and the parser make sure of.
IsList(s) == s \in Seq(ToSet(s))

IsRuleList(rules) ==
  /\ IsList(rules)
  /\ \A i \in DOMAIN rules : /\ rules[i].rule_id \in RuleId
                             /\ rules[i].triggers \in Trigger
                             /\ rules[i].effective_from \in Nat
                             /\ rules[i].version[1] \in Nat

ASSUME ArgumentsAssumption ==
  \A a \in Arguments :
    /\ IsRuleList(a.rules) /\ IsRuleList(a.overlay.upsert)
    /\ IsList(a.jurisdiction_overrides) /\ IsList(a.overlay_overrides)
    /\ \A i \in DOMAIN a.overlay_overrides : a.overlay_overrides[i].value \in Value
    /\ \A f \in {a.project, a.detection.overlays} : \A path \in DOMAIN f : f[path] \in Value

VARIABLES request,      \* the arguments
          call,         \* what the pipeline does next
          confirmation, \* the confirmed detection
          working,      \* the rules of this evaluation
          fired,        \* the evaluations of the rules that fired, in order
          explanations,
          known_unknowns,
          matrix,
          reports       \* the analyst's reports on the same rules

evars == <<vars, request, call, confirmation, working, fired, explanations,
           known_unknowns, matrix, reports>>

\* None, or a dict without keys; an overlay of two empty lists is another one.
NoOverlay == [upsert |-> <<>>, remove |-> {}, given |-> FALSE]

EvaluationInit ==
  /\ SimulationInit
  /\ request \in Arguments
  /\ call = "confirm"
  /\ confirmation = [error |-> "none"]
  /\ working = <<>> /\ fired = <<>> /\ explanations = <<>> /\ known_unknowns = <<>>
  /\ matrix = <<>> /\ reports = <<>>

-----------------------------------------------------------------------------

\* confirm_detection and to_engine_inputs.
Confirm ==
  /\ call = "confirm"
  /\ confirmation' = confirm_detection(request.detection,
                       request.jurisdiction_overrides, request.overlay_overrides)
  /\ call' = IF confirmation'.error = "none" THEN "select" ELSE "raised"
  /\ UNCHANGED <<vars, request, working, fired, explanations, known_unknowns,
                 matrix, reports>>

inputs == to_engine_inputs(confirmation)

\* The project.* and derived.* paths of the request and, under geometry.*, the
\* overlays: the namespaces keep them apart.
_context == [path \in DOMAIN request.project \cup DOMAIN inputs.geometry |->
               IF path \in DOMAIN request.project THEN request.project[path]
               ELSE inputs.geometry[path]]

\* Faulty variant: an upserted rule is added to the versions it replaces.
WorkingAdds ==
  LET base == request.rules \o request.overlay.upsert
  IN  IF request.governing_only
      THEN select_governing(base, request.evaluation_date) ELSE base

\* What is no overlay is falsy and not applied; empty lists are applied, and leave one version.
Working ==
  LET base == IF request.overlay = NoOverlay THEN request.rules
              ELSE apply_overlay(request.rules, request.overlay)
  IN  IF request.governing_only
      THEN select_governing(base, request.evaluation_date) ELSE base

\* The rules sorted by id and version; the hash is not needed, only what it is of.
ruleset_content_hash(rules) ==
  LET v(i) == rules[i].version
      before(i, j) ==
        \/ rules[i].rule_id < rules[j].rule_id
        \/ rules[i].rule_id = rules[j].rule_id /\ LexLess(v(i), v(j))
        \/ rules[i].rule_id = rules[j].rule_id /\ v(i) = v(j) /\ i < j
      order == InOrder(DOMAIN rules, before)
  IN  [k \in DOMAIN order |-> rules[order[k]]]

hash_inputs(context) == context

Select ==
  /\ call = "select"
  /\ working' = Working
  /\ call' = "evaluate"
  /\ UNCHANGED <<vars, request, confirmation, fired, explanations, known_unknowns,
                 matrix, reports>>

Evaluations ==
  evaluate_ruleset(working, _context, inputs.applicable_jurisdiction_ids,
                   request.project_types)

\* The rule that by_id keeps for each id that fired.
FiredRules(evaluations) ==
  [n \in {evaluations[i].rule_id : i \in DOMAIN evaluations} |-> LastById(working)[n]]

Evaluate ==
  /\ call = "evaluate"
  /\ IF Evaluations = Raised
     THEN call' = "raised" /\ UNCHANGED <<fired, fired_rules>>
     ELSE /\ call' = "explain"
          /\ fired' = Evaluations.fired
          /\ fired_rules' = FiredRules(Evaluations.fired)
  /\ UNCHANGED <<phase, remaining, queue, processed, cyclic, stages, dist,
                 predecessor_on_path, critical_ids, step, resolution, request,
                 confirmation, working, explanations, known_unknowns, matrix, reports>>

Explanation(i) ==
  build_explanation(fired[i], LastById(working)[fired[i].rule_id],
                    inputs.jurisdiction_chain, request.evaluation_date,
                    ruleset_content_hash(working), hash_inputs(_context))

\* Explanations and known unknowns of every rule that fired, or an error.
Explain ==
  /\ call = "explain"
  /\ IF \E i \in DOMAIN fired : Explanation(i).error # "none"
     THEN call' = "raised" /\ UNCHANGED <<explanations, known_unknowns>>
     ELSE /\ call' = "simulate"
          /\ explanations' = [i \in DOMAIN fired |-> Explanation(i).value]
          /\ known_unknowns' = [i \in DOMAIN fired |->
               collect_known_unknowns(fired[i], LastById(working)[fired[i].rule_id])]
  /\ UNCHANGED <<vars, request, confirmation, working, fired, matrix, reports>>

\* resolve_conflicts and sequence_rules, step by step.
Simulate ==
  /\ call = "simulate"
  /\ Resolve \/ Sequence
  /\ call' = IF phase' = "raised" THEN "raised"
             ELSE IF phase' = "done" THEN "matrix" ELSE call
  /\ UNCHANGED <<request, confirmation, working, fired, explanations, known_unknowns,
                 matrix, reports>>

\* simulate_project has returned, and the matrix is built from its result.
BuildMatrix ==
  /\ call = "matrix"
  /\ matrix' = build_permit_matrix([i \in DOMAIN fired |-> fired_rules[fired[i].rule_id]],
                                   explanations, stages, critical_ids)
  /\ call' = "done"
  /\ UNCHANGED <<vars, request, confirmation, working, fired, explanations,
                 known_unknowns, reports>>

Results == [i \in DOMAIN working |->
              evaluate_rule(working[i], _context, inputs.applicable_jurisdiction_ids,
                            request.project_types)]

EdgeReport == analyze_edge_cases(working, _context, inputs.applicable_jurisdiction_ids,
                                request.project_types)

\* What the overlay changes in each rule that it replaces.
Diffs ==
  LET replaced == LastById(request.rules)
  IN  [i \in DOMAIN request.overlay.upsert |->
         LET new == request.overlay.upsert[i]
         IN  IF new.rule_id \in DOMAIN replaced THEN diff_rules(replaced[new.rule_id], new)
             ELSE Raises("no rule")]

Summaries == [i \in DOMAIN Diffs |->
                IF Diffs[i].error = "none" THEN summarize_diff(Diffs[i].value) ELSE {}]

\* The reports on the rules of this evaluation.
Review ==
  /\ call = "evaluate"
  /\ \A i \in DOMAIN Results : Results[i] # Raised
  /\ reports' = [edge_cases |-> EdgeReport, qa |-> build_qa_report(working, Results),
                 diffs |-> Diffs, summaries |-> Summaries]
  /\ call' = "reviewed"
  /\ UNCHANGED <<vars, request, confirmation, working, fired, explanations,
                 known_unknowns, matrix>>

EvaluationEnds ==
  /\ call \in {"done", "raised", "reviewed"}
  /\ UNCHANGED evars

EvaluationNext ==
  \/ Confirm \/ Select \/ Evaluate \/ Explain \/ Simulate \/ BuildMatrix
  \/ Review \/ EvaluationEnds

EvaluationSpec == EvaluationInit /\ [][EvaluationNext]_evars

-----------------------------------------------------------------------------

\* A rule that reaches its triggers (jurisdiction and project type match).
Applies(rule) ==
  /\ rule.jurisdiction_id \in inputs.applicable_jurisdiction_ids
  /\ rule.applicable_project_types \cap request.project_types # {}

\* A node no evaluation accepts: neither leaf nor composite, a composite without
\* children, an unknown operator, or a supplied value its operator refuses.
HasDefect(node) ==
  LET defect[n \in Trigger] ==
        IF n.kind = "leaf"
        THEN \/ n.operator \notin OPERATOR_KEYS
             \/ /\ n.operator # "exists"
                /\ n.field \in DOMAIN _context
                /\ ~ Accepts(n.operator, _context[n.field], n.value)
        ELSE n.children = <<>> \/ \E i \in DOMAIN n.children : defect[n.children[i]]
  IN  defect[node]

\* Evaluation ends with an error exactly when some rule that applies has a defect
\* anywhere in its tree: a sibling that already decides never hides it, and a
\* rule that does not apply never causes it.  (triggers.py: every child of a
\* composite is evaluated; engine.py: jurisdiction and project type come first)
ErrorsExactlyOnDefects ==
  call = "evaluate" =>
    (Evaluations = Raised
       <=> \E i \in DOMAIN working : Applies(working[i]) /\ HasDefect(working[i].triggers))

\* Every field that a fired rule's tree names and the request does not supply is
\* among its known unknowns, also when another branch made it fire.
\* (known_unknowns.py: "any leaf that was evaluated without a real value")
EveryGapIsDisclosed ==
  call = "simulate" => \A i \in DOMAIN fired : \E k \in DOMAIN working :
    /\ working[k].rule_id = fired[i].rule_id
    /\ \A leaf \in ToSet(Leaves(working[k].triggers)) :
         leaf.field \notin DOMAIN _context
           => <<"missing_input", leaf.field>> \in known_unknowns[i]

\* With an overlay or temporal selection there is one version of a rule, and each
\* explanation, and each row of the matrix, is of the version whose triggers
\* were evaluated.  (simulation.py keeps the last version of an id in by_id
\* whatever version fired)
ExplainsWhatFired ==
  call = "done" /\ (request.governing_only \/ request.overlay # NoOverlay) =>
    /\ \A i \in DOMAIN fired : \A k \in DOMAIN working :
         working[k].rule_id = fired[i].rule_id =>
           /\ explanations[i].rule_refs[1].rule_version = working[k].version
           /\ fired[i].evaluated_triggers = evaluate_trigger(working[k].triggers, _context)
    /\ \A row \in matrix.permits : \E i \in DOMAIN fired :
         /\ row.explanation_ref.rule_id = fired[i].rule_id
         /\ row.explanation_ref.rule_version = explanations[i].rule_refs[1].rule_version

\* The selection from dicts is the selection from rows, wherever the latter does
\* not refuse to choose.  (simulation.py: "mirror of effective_ruleset")
SelectionsAgree ==
  LET selection == effective_ruleset(request.rules, request.evaluation_date)
  IN  /\ call = "evaluate" /\ request.governing_only /\ request.overlay = NoOverlay
      /\ selection.error = "none"
      => working = selection.value

\* What key stands at after the first n entries of a log.
EntriesOn(log, target, key, n) ==
  {i \in 1..n : log[i].target = target /\ log[i].key = key}

Standing(log, target, key, n, before, absent) ==
  LET entries == EntriesOn(log, target, key, n)
  IN  IF entries = {} THEN At(before, key, absent) ELSE log[Max(entries)].confirmed

\* Each entry starts where the last one on its key ended, and the last one says
\* how it is now.
Accounts(log, target, before, after, absent) ==
  /\ \A i \in DOMAIN log : log[i].target = target =>
       log[i].previous = Standing(log, target, log[i].key, i - 1, before, absent)
  /\ \A key \in DOMAIN before \cup DOMAIN after :
       At(after, key, absent) = Standing(log, target, key, Len(log), before, absent)

\* The log tells the confirmed detection from the original, which is kept: a key
\* without entries is unchanged.  (confirmation.py: "every override is recorded")
OverridesAreReplayable ==
  call = "select" =>
    /\ Accounts(confirmation.override_log, "jurisdiction",
                request.detection.jurisdictions, confirmation.jurisdictions, Absent)
    /\ Accounts(confirmation.override_log, "overlay",
                request.detection.overlays, confirmation.overlays, NoValue)
    /\ confirmation.original = request.detection

\* A condition on an even number: between any two of those lies another number.
Even(leaf) == leaf.value[1] = "number" /\ leaf.value[2] % 2 = 0

\* The numbers at, between and around two thresholds.
Probes(a, b) == {Number(n + d) : n \in {a.value[2], b.value[2]}, d \in {-1, 0, 1}}

\* Some value of the field satisfies both conditions.
Together(a, b) ==
  \E v \in Probes(a, b) : /\ apply_operator(a.operator, v, a.value) = "true"
                         /\ apply_operator(b.operator, v, b.value) = "true"

\* Rule i has no other version, and compares the field with even numbers only.
NumericOnly(i, field) ==
  LET leaves == _collect_ordered_leaves(working[i])
  IN  /\ \A k \in DOMAIN working : working[k].rule_id = working[i].rule_id => k = i
      /\ \A k \in DOMAIN leaves : leaves[k].field = field => Even(leaves[k])

\* The report names the two operators for the field and the two rules.
IsReported(a, b, field, op_a, op_b) ==
  \E f \in reports.edge_cases.conflicting_triggers :
    /\ f.rule_id_a = a.rule_id /\ f.rule_id_b = b.rule_id
    /\ f.field = field /\ f.operator_a = op_a /\ f.operator_b = op_b

\* Some of the rules' conditions with them exclude each other.
Exclude(a, b, field, op_a, op_b) ==
  LET la == _collect_ordered_leaves(a)
      lb == _collect_ordered_leaves(b)
  IN  \E i \in DOMAIN la : \E j \in DOMAIN lb :
        /\ la[i].field = field /\ la[i].operator = op_a
        /\ lb[j].field = field /\ lb[j].operator = op_b
        /\ ~ Together(la[i], lb[j])

\* Two conditions on numbers are reported as contradictory exactly when no value
\* of the field satisfies both operators.  (edge_cases.py: interval bounds, kept
\* apart from the operators that decide; a pair of rules, a field and two
\* operators are reported once, for the leaves that come first)
ContradictionsAreExact ==
  call = "reviewed" =>
    \A i, j \in DOMAIN working : working[i].rule_id < working[j].rule_id =>
      \A a \in Range(_collect_ordered_leaves(working[i])),
         b \in Range(_collect_ordered_leaves(working[j])) :
        a.field = b.field /\ NumericOnly(i, a.field) /\ NumericOnly(j, a.field) =>
          (IsReported(working[i], working[j], a.field, a.operator, b.operator)
             <=> Exclude(working[i], working[j], a.field, a.operator, b.operator))

\* node with the changes below path put in.
Patched(tree, changes) ==
  LET patched[t \in (Trigger \cup {NoNode}) \X Seq(Nat)] ==
        LET node == t[1]
            path == t[2]
            here == {c \in changes : c.path = path}
            below == {c \in changes : Len(c.path) > Len(path)
                                        /\ SubSeq(c.path, 1, Len(path)) = path}
            children == [i \in DOMAIN node.children \cup {c.path[Len(path) + 1] : c \in below} |->
                           patched[<<Child(node, i), Append(path, i)>>]]
            kept == {i \in DOMAIN children : children[i] # NoNode}
        IN  IF here # {} THEN (CHOOSE c \in here : TRUE).new_node
            ELSE IF node.kind \in {"leaf", "absent", "malformed"} THEN node
            ELSE [kind |-> node.kind, children |-> [i \in 1..Cardinality(kept) |-> children[i]]]
  IN  patched[<<tree, <<>> >>]

SameTree(old, new) ==
  LET same[t \in Trigger \X Trigger] ==
        LET a == t[1]
            b == t[2]
        IN  /\ a.kind = b.kind
            /\ IF a.kind = "leaf" THEN SameLeaf(a, b)
               ELSE /\ Len(a.children) = Len(b.children)
                    /\ \A i \in DOMAIN a.children : same[<<a.children[i], b.children[i]>>]
  IN  same[<<old, new>>]

\* What a reviewer is shown of a rule's triggers is all that changed: the old tree
\* with the changes made in it is the new one, the summary speaks of the triggers
\* when they differ, and a diff without any change leaves the outcome as it was.
\* (rule_diff.py: "every detected difference"; positions are compared, so a child
\* put in front changes every later one)
ChangesRebuildTheTree ==
  call = "reviewed" => \A i \in DOMAIN reports.diffs :
    LET new  == request.overlay.upsert[i]
        old  == LastById(request.rules)[new.rule_id]
        diff == reports.diffs[i]
    IN  diff.error = "none" =>
          /\ SameTree(Patched(old.triggers, diff.value.trigger_changes), new.triggers)
          /\ (\E s \in reports.summaries[i] : s[1] = "Trigger changes")
               <=> ~ SameTree(old.triggers, new.triggers)
          /\ is_empty(diff.value) /\ ~ HasDefect(old.triggers) /\ ~ HasDefect(new.triggers)
               => \A e \in {"fired", "decided_by"} :
                    LET outcome(rule) == evaluate_rule(rule, _context,
                          inputs.applicable_jurisdiction_ids, request.project_types)[e]
                    IN  outcome(old) = outcome(new)
=============================================================================
