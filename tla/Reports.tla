------------------------------ MODULE Reports -------------------------------
(***************************************************************************)
(* What the platform says about a rule that fired: the explanation record, *)
(* the known unknowns, the quality report over a rule set, and the rows of *)
(* the permit matrix.                                                      *)
(*                                                                         *)
(* A text is a string; "" is empty and " " is blank.  An advisory is a     *)
(* text with the signals the code looks for in it.  Lists are sets where   *)
(* the source sorts them.  Wording is left out: an item that the engine    *)
(* words itself is named by its category and what it is about.             *)
(***************************************************************************)
EXTENDS Triggers, Versions, Conflict

VALID_TIERS == {1, 2, 3}

\* rule.get("confidence_tier") of a rule without one.
NoTier == 0

-----------------------------------------------------------------------------
(* Known unknowns.                                                         *)

_authored_items(rule) ==
  {<<"authored", text>> : text \in ToSet(rule.known_unknowns) \ {"", " "}}

_low_confidence_items(rule) ==
  IF rule.confidence_tier = 3 THEN {<<"low_confidence", "">>} ELSE {}

\* A field that was supplied as null looks like one that was not supplied.
_collect_missing_fields(tree) ==
  LET leaves == ToSet(Leaves(tree))
  IN  {leaf.field : leaf \in {l \in leaves : l.actual_value = Null}}

_missing_input_items(evaluation) ==
  {<<"missing_input", field>> :
     field \in _collect_missing_fields(evaluation.evaluated_triggers)}

_discretionary_items(rule) ==
  IF \E a \in ToSet(rule.advisories) : "discretion" \in a.signals
  THEN {<<"discretionary", "">>} ELSE {}

collect_known_unknowns(evaluation, rule) ==
  _authored_items(rule) \cup _low_confidence_items(rule)
    \cup _missing_input_items(evaluation) \cup _discretionary_items(rule)

-----------------------------------------------------------------------------
(* Explanations.                                                           *)

NUMERIC_OPS == {">", ">=", "<", "<=", "=", "!="}

STALE_THRESHOLD_DAYS == 365

\* Every comparison in the tree, those that did not match among them.
_extract_thresholds(tree) ==
  LET compares == SelectSeq(Leaves(tree), LAMBDA leaf : leaf.operator \in NUMERIC_OPS)
  IN  [i \in DOMAIN compares |->
         [field |-> compares[i].field, operator |-> compares[i].operator,
          threshold_value |-> compares[i].expected_value,
          actual_value |-> compares[i].actual_value]]

\* The first citation of each reference.
_build_citations(rule) ==
  LET raw == rule.source_citations
  IN  {raw[i] : i \in {j \in DOMAIN raw :
                         \A k \in 1..(j - 1) : raw[k].reference # raw[j].reference}}

\* A date the schema lets through (its formats are not asserted) and no
\* calendar has.
Unreadable == -1

\* Zero when the date is in the future, and when it cannot be read.
_days_since(last_verified, evaluation_date) ==
  IF last_verified \in {NoDate, Unreadable} \/ evaluation_date < last_verified THEN 0
  ELSE evaluation_date - last_verified

_build_freshness(rule, evaluation_date) ==
  LET days == _days_since(rule.last_verified, evaluation_date)
  IN  [last_verified |-> rule.last_verified, days_since_verified |-> days,
       stale |-> days > STALE_THRESHOLD_DAYS]

_build_confidence(rule, evaluation_date) ==
  [tier |-> IF rule.confidence_tier = NoTier THEN 3 ELSE rule.confidence_tier,
   freshness |-> _build_freshness(rule, evaluation_date)]

_build_known_unknowns(rule) == ToSet(rule.known_unknowns) \ {""}

_infer_advisory_category(advisory) ==
  IF "coordinate" \in advisory.signals THEN "agency_coordination"
  ELSE "professional_review_required"

\* The advisories of the platform and of the engine come with every record.
_build_advisories(rule) ==
  {[origin |-> "platform", category |-> "advisory_disclaimer", text |-> "platform"],
   [origin |-> "engine", category |-> "professional_review_required", text |-> "engine"]}
  \cup {[origin |-> "rule", category |-> _infer_advisory_category(a), text |-> a.text] :
          a \in {b \in ToSet(rule.advisories) : b.text # ""}}

_EVAL_STEPS == <<"jurisdiction", "temporal_validity", "project_type",
                 "trigger_conditions", "spatial_overlays", "dependencies">>

_decided_to_trace_step(decided) ==
  IF decided = "triggers" THEN "trigger_conditions" ELSE decided

_build_evaluation_trace(evaluation) ==
  LET at == CHOOSE i \in DOMAIN _EVAL_STEPS :
              evaluation.fired
              \/ _EVAL_STEPS[i] = _decided_to_trace_step(evaluation.decided_by)
      outcome(i) == IF evaluation.fired \/ i < at THEN "passed"
                    ELSE IF i = at THEN "failed" ELSE "skipped"
  IN  [i \in DOMAIN _EVAL_STEPS |-> [step |-> _EVAL_STEPS[i], outcome |-> outcome(i)]]

_build_rule_refs(rule) ==
  <<[rule_id |-> rule.rule_id, rule_version |-> rule.version,
     rule_status_at_evaluation |->
       IF rule.status = "archived" THEN "archived" ELSE "effective"]>>

\* The part of permit-explanation.schema.json that a record can fail: a level
\* of the chain is free text in an evaluation request.
ChainIsValid(chain) ==
  /\ chain # <<>>
  /\ \A i \in DOMAIN chain : precedence_rank(chain[i].jurisdiction_level) # 9

\* Refused with a ValueError for a rule that did not fire, and with a
\* ValidationError when the record does not fit its schema.
build_explanation(evaluation, rule, chain, evaluation_date, content_hash, inputs_hash) ==
  IF ~ evaluation.fired THEN Raises("ValueError")
  ELSE IF ~ ChainIsValid(chain) THEN Raises("ValidationError")
  ELSE Returns(
    [evaluation_date |-> evaluation_date,
     content_hash |-> content_hash,
     rule_refs |-> _build_rule_refs(rule),
     jurisdiction_chain |-> chain,
     trigger_path |-> evaluation.evaluated_triggers,
     applicable_thresholds |-> _extract_thresholds(evaluation.evaluated_triggers),
     citations |-> _build_citations(rule),
     confidence |-> _build_confidence(rule, evaluation_date),
     known_unknowns |-> _build_known_unknowns(rule),
     advisories |-> _build_advisories(rule),
     evaluation_trace |-> _build_evaluation_trace(evaluation),
     inputs_hash |-> inputs_hash])

-----------------------------------------------------------------------------
(* The quality report, over rules and evaluations of the same list.        *)

_collect_all_unknowns(rules, evaluations) ==
  LET eval_by_id == LastById(evaluations)
      fires(rule) == /\ rule.rule_id \in DOMAIN eval_by_id
                     /\ eval_by_id[rule.rule_id].fired
  IN  UNION {collect_known_unknowns(eval_by_id[rule.rule_id], rule) :
               rule \in {r \in ToSet(rules) : fires(r)}}

_count_tiers(rules) ==
  [tier \in VALID_TIERS \cup {NoTier} |->
     Cardinality({i \in DOMAIN rules :
       IF tier = NoTier THEN rules[i].confidence_tier \notin VALID_TIERS
       ELSE rules[i].confidence_tier = tier})]

_pending_review_ids(rules) ==
  {r.rule_id : r \in {q \in ToSet(rules) : q.status \in {"draft", "published"}}}

_gate_for_rule(rule) ==
  [rule_id |-> rule.rule_id,
   provenance_present |-> rule.source_citations # <<>> /\ rule.last_verified # NoDate,
   reviewer_present |-> rule.reviewer \notin {"", " "},
   confidence_tier_assigned |-> rule.confidence_tier \in VALID_TIERS,
   advisory_language_present |-> rule.advisories # <<>>]

build_qa_report(rules, evaluations) ==
  [unresolved_unknowns |-> _collect_all_unknowns(rules, evaluations),
   tier_counts |-> _count_tiers(rules),
   pending_review_rule_ids |-> _pending_review_ids(rules),
   publication_gates |-> {_gate_for_rule(rule) : rule \in ToSet(rules)}]

-----------------------------------------------------------------------------
(* The permit matrix.                                                      *)

\* Where the sequencer put each rule: its stage, counted from zero, and
\* whether a longest path goes through it.
_sequencing_index(stages, critical_ids) ==
  [n \in UNION ToSet(stages) |->
     [stage_index |-> (CHOOSE k \in DOMAIN stages : n \in stages[k]) - 1,
      on_critical_path |-> n \in critical_ids]]

_permit_entry(rule, explanation, permit, sequencing) ==
  [rule_id |-> rule.rule_id,
   permit_name |-> permit,
   jurisdiction_level |-> rule.jurisdiction_level,
   confidence |-> explanation.confidence,
   citations |-> explanation.citations,
   advisories |-> explanation.advisories,
   known_unknowns |-> explanation.known_unknowns,
   sequencing |-> IF rule.rule_id \in DOMAIN sequencing THEN sequencing[rule.rule_id]
                  ELSE [stage_index |-> 0, on_critical_path |-> FALSE],
   explanation_ref |-> [rule_id |-> rule.rule_id, rule_version |-> rule.version,
                        inputs_hash |-> explanation.inputs_hash,
                        content_hash |-> explanation.content_hash]]

\* The rows, which the source sorts by stage, precedence and permit.
_permits(fired_list, explanations, sequencing) ==
  UNION {{_permit_entry(fired_list[i], explanations[i], permit, sequencing) :
            permit \in fired_list[i].permits} : i \in DOMAIN fired_list}

build_permit_matrix(fired_list, explanations, stages, critical_ids) ==
  [permits |-> _permits(fired_list, explanations,
                        _sequencing_index(stages, critical_ids)),
   stages |-> stages, critical_path |-> critical_ids]
=============================================================================
