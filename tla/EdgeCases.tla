----------------------------- MODULE EdgeCases ------------------------------
(***************************************************************************)
(* analyze_edge_cases: what a reviewer should look at in a rule set and a  *)
(* project: requirements of several jurisdictions, conditions of two rules *)
(* that contradict each other, values on a boundary, and missing inputs.   *)
(* rules is a sequence with one rule per id.                               *)
(***************************************************************************)
EXTENDS Triggers, Conflict

_ORDERED_OPS == {">", ">=", "<", "<=", "="}

-----------------------------------------------------------------------------
(* Contradictory conditions.                                               *)

\* The bounds of one comparison: Null is no bound, and so is a null value.
_op_bounds(op, val) ==
  [lo |-> IF op \in {">", ">=", "="} THEN val ELSE Null, lo_in |-> op # ">",
   hi |-> IF op \in {"<", "<=", "="} THEN val ELSE Null, hi_in |-> op # "<"]

\* Words, and the elements of a list, in lexicographic order.
LexLess(s, t) ==
  \E k \in DOMAIN t : /\ \A i \in 1..(k - 1) : i \in DOMAIN s /\ s[i] = t[i]
                      /\ k \notin DOMAIN s \/ s[k] < t[k]

\* Python orders values of one type; across types it raises a TypeError, which
\* the caller takes for "not contradictory".
Ordered(a, b) == Plain(a)[1] = Plain(b)[1] /\ a[1] # "list"

Less(a, b) ==
  IF a[1] = "string" THEN LexLess(a[2], b[2]) ELSE a[2] < b[2]

\* The tighter of two bounds, exclusive if either is and they are equal.
_max_bound(a, a_in, b, b_in) ==
  IF a = Null THEN <<b, b_in>>
  ELSE IF b = Null THEN <<a, a_in>>
  ELSE IF Less(b, a) THEN <<a, a_in>>
  ELSE IF Less(a, b) THEN <<b, b_in>>
  ELSE <<a, a_in /\ b_in>>

_min_bound(a, a_in, b, b_in) ==
  IF a = Null THEN <<b, b_in>>
  ELSE IF b = Null THEN <<a, a_in>>
  ELSE IF Less(a, b) THEN <<a, a_in>>
  ELSE IF Less(b, a) THEN <<b, b_in>>
  ELSE <<a, a_in /\ b_in>>

\* Faulty variant: an interval that closes on one value is not empty.
IntervalInverted(lo, hi) == lo[1] # Null /\ hi[1] # Null /\ Less(hi[1], lo[1])

_interval_empty(lo, hi) ==
  /\ lo[1] # Null /\ hi[1] # Null
  /\ \/ Less(hi[1], lo[1])
     \/ ~ Less(lo[1], hi[1]) /\ ~ (lo[2] /\ hi[2])

_are_contradictory(op_a, val_a, op_b, val_b) ==
  LET a == _op_bounds(op_a, val_a)
      b == _op_bounds(op_b, val_b)
  IN  /\ val_a = Null \/ val_b = Null \/ Ordered(val_a, val_b)
      /\ _interval_empty(_max_bound(a.lo, a.lo_in, b.lo, b.lo_in),
                         _min_bound(a.hi, a.hi_in, b.hi, b.hi_in))

\* The comparisons of a rule, by their places, wherever they stand in its tree: a
\* `not' above one is not looked at.
_collect_ordered_leaves(rule) ==
  LET leaves == Leaves(rule.triggers)
  IN  [i \in {j \in DOMAIN leaves : leaves[j].operator \in _ORDERED_OPS} |-> leaves[i]]

Contradictory(a, b) ==
  a.field = b.field /\ _are_contradictory(a.operator, a.value, b.operator, b.value)

\* One finding for each pair of rules, field and pair of operators, of the
\* first leaves that contradict each other: those of the rule that comes first
\* in the list are gone through in the outer loop.
PairFindings(a, b, a_is_first) ==
  LET la == _collect_ordered_leaves(a)
      lb == _collect_ordered_leaves(b)
      same(i, j, k, l) == /\ la[i].field = la[k].field
                          /\ la[i].operator = la[k].operator
                          /\ lb[j].operator = lb[l].operator
      before(k, l, i, j) == IF a_is_first THEN k < i \/ (k = i /\ l < j)
                            ELSE l < j \/ (l = j /\ k < i)
      first(i, j) == \A k \in DOMAIN la : \A l \in DOMAIN lb :
        before(k, l, i, j) /\ same(i, j, k, l) => ~ Contradictory(la[k], lb[l])
      found(i, j) == Contradictory(la[i], lb[j]) /\ first(i, j)
  IN  {[rule_id_a |-> a.rule_id, rule_id_b |-> b.rule_id, field |-> la[p[1]].field,
        operator_a |-> la[p[1]].operator, value_a |-> la[p[1]].value,
        operator_b |-> lb[p[2]].operator, value_b |-> lb[p[2]].value] :
         p \in {q \in (DOMAIN la) \X (DOMAIN lb) : found(q[1], q[2])}}

_find_conflicting_triggers(rules) ==
  UNION {PairFindings(rules[p[1]], rules[p[2]], p[1] < p[2]) :
           p \in {q \in (DOMAIN rules) \X (DOMAIN rules) :
                   rules[q[1]].rule_id < rules[q[2]].rule_id}}

-----------------------------------------------------------------------------
(* Overlaps, boundaries and missing inputs.                                *)

\* A requirement key with more than one fired rule; none when fewer than two
\* rules fired.
_find_overlaps(F) ==
  IF Cardinality(DOMAIN F) < 2 THEN {}
  ELSE {[requirement_key |-> c.requirement_key, governing_rule_id |-> c.governing,
         preserved_rule_ids |-> c.preserved] : c \in Conflicts(F)}

\* A supplied value that equals the threshold of a strict comparison.
_find_ambiguous_thresholds(rules, context) ==
  LET boundary(leaf) == /\ leaf.operator \in {">", "<"}
                        /\ get(context, leaf.field) \notin {MISSING, Null}
                        /\ PyEqual(get(context, leaf.field), leaf.value)
      leaves(rule) == {l \in ToSet(Leaves(rule.triggers)) : boundary(l)}
  IN  UNION {{[rule_id |-> rule.rule_id, field |-> l.field, operator |-> l.operator,
               threshold |-> l.value, actual_value |-> get(context, l.field)] :
                l \in leaves(rule)} : rule \in ToSet(rules)}

\* Every rule is looked at, those of other jurisdictions too; a field that was
\* supplied as null is not missing here.
_find_incomplete_data(rules, context) ==
  LET missing(rule) == {l.field : l \in {m \in ToSet(Leaves(rule.triggers)) :
                                           get(context, m.field) = MISSING}}
  IN  {[rule_id |-> rule.rule_id, missing_fields |-> missing(rule)] :
         rule \in {r \in ToSet(rules) : missing(r) # {}}}

\* An error of a rule's evaluation leaves the analysis.
analyze_edge_cases(rules, context, jurisdictions, types) ==
  LET evaluation(rule) == evaluate_rule(rule, context, jurisdictions, types)
      fired == {r \in ToSet(rules) : evaluation(r).fired}
      ids   == {r.rule_id : r \in fired}
  IN  IF \E r \in ToSet(rules) : evaluation(r) = Raised
      THEN [kind |-> "raised"]
      ELSE [kind |-> "report",
            overlapping_jurisdictions |->
              _find_overlaps([n \in ids |-> CHOOSE r \in fired : r.rule_id = n]),
            conflicting_triggers |-> _find_conflicting_triggers(rules),
            ambiguous_thresholds |-> _find_ambiguous_thresholds(rules, context),
            incomplete_data |-> _find_incomplete_data(rules, context)]
=============================================================================
