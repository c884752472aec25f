------------------------------ MODULE Triggers ------------------------------
(***************************************************************************)
(* The deterministic core of the rules engine: the operators a condition   *)
(* compares with, trigger trees, and the evaluation of a rule and of a     *)
(* rule set against a project's context.                                   *)
(*                                                                         *)
(* A value is a pair <<type, payload>>: a number, a date (its day), a      *)
(* bool (0 or 1), a string (a sequence of words, for `contains') or a list *)
(* of scalars.  A context is a function from the paths supplied to their   *)
(* values.  An error is the outcome Raised.                                *)
(***************************************************************************)
EXTENDS Lists

CONSTANT MaxNesting  \* how deep a tree is nested at most

ASSUME NestingAssumption == MaxNesting \in Nat

Number(n)  == <<"number", n>>
Date(d)    == <<"date", d>>
Bool(b)    == <<"bool", b>>
Words(w)   == <<"string", w>>
List(s)    == <<"list", s>>
Null       == <<"null", 0>>    \* supplied as None
MISSING    == <<"missing", 0>> \* not supplied

Scalar == ({"number", "date"} \X Int) \cup ({"bool"} \X {0, 1})
            \cup ({"string"} \X Seq(Nat)) \cup {Null}
Value  == Scalar \cup ({"list"} \X Seq(Scalar))

OPERATOR_KEYS == {"=", "!=", ">", ">=", "<", "<=", "contains", "intersects",
                  "exists", "in", "not_in"}

get(context, path) == IF path \in DOMAIN context THEN context[path] ELSE MISSING

-----------------------------------------------------------------------------
(* Operators.  An outcome is "true", "false" or "raised".                  *)

Outcome(b) == IF b THEN "true" ELSE "false"

\* Python's ==: a bool equals the number it is, in a list too.
Plain(v) == IF v[1] = "bool" THEN Number(v[2]) ELSE v

PyEqual(a, b) ==
  IF a[1] = "list" /\ b[1] = "list"
  THEN [i \in DOMAIN a[2] |-> Plain(a[2][i])] = [i \in DOMAIN b[2] |-> Plain(b[2][i])]
  ELSE Plain(a) = Plain(b)

Elements(v) == {v[2][i] : i \in DOMAIN v[2]}

PyIn(v, list) == \E e \in Elements(list) : PyEqual(v, e)

IsSubstring(small, big) ==
  \E i \in 0..(Len(big) - Len(small)) : SubSeq(big, i + 1, i + Len(small)) = small

\* _check_ordered: both numbers or both dates; a bool is neither.
Orderable(a, b) == a[1] \in {"number", "date"} /\ b[1] = a[1]

Compare(operator, m, n) ==
  CASE operator = ">"  -> m > n
    [] operator = ">=" -> m >= n
    [] operator = "<"  -> m < n
    [] operator = "<=" -> m <= n

\* Operand types an operator accepts; the others raise OperatorError.
Accepts(operator, actual, expected) ==
  CASE operator \in {">", ">=", "<", "<="} -> Orderable(actual, expected)
    [] operator = "contains" ->
         \/ actual[1] = "string" /\ expected[1] = "string"
         \/ actual[1] = "list"
    [] operator = "intersects" -> actual[1] = "list" /\ expected[1] = "list"
    [] operator \in {"in", "not_in"} -> expected[1] = "list"
    [] OTHER -> TRUE

Holds(operator, actual, expected) ==
  CASE operator = "="      -> PyEqual(actual, expected)
    [] operator = "!="     -> ~ PyEqual(actual, expected)
    [] operator = "in"     -> PyIn(actual, expected)
    [] operator = "not_in" -> ~ PyIn(actual, expected)
    [] operator = "contains" ->
         IF actual[1] = "string" THEN IsSubstring(expected[2], actual[2])
         ELSE PyIn(expected, actual)
    [] operator = "intersects" -> \E e \in Elements(actual) : PyIn(e, expected)
    [] OTHER -> Compare(operator, actual[2], expected[2])

apply_operator(operator, actual, expected) ==
  IF operator \notin OPERATOR_KEYS THEN "raised"
  ELSE IF operator = "exists" THEN Outcome(actual \notin {MISSING, Null})
  ELSE IF actual = MISSING THEN "false"
  ELSE IF Accepts(operator, actual, expected)
       THEN Outcome(Holds(operator, actual, expected))
       ELSE "raised"

-----------------------------------------------------------------------------
(* Trigger trees.  A node that is neither a leaf nor exactly one composite *)
(* has the kind "malformed".                                               *)

Leaf(field, operator, value) ==
  [kind |-> "leaf", field |-> field, operator |-> operator, value |-> value]
AllOf(children) == [kind |-> "all", children |-> children]
AnyOf(children) == [kind |-> "any", children |-> children]
NotOf(child) == [kind |-> "not", children |-> <<child>>]
Malformed     == [kind |-> "malformed", children |-> <<>>]

Raised == [kind |-> "raised"]

\* Triggers, and what evaluation makes of them, by how deep they are nested.
Composites(nodes, evaluated) ==
  IF evaluated
  THEN [kind : {"all", "any", "not"}, children : Seq(nodes), matched : BOOLEAN]
  ELSE [kind : {"all", "any", "not"}, children : Seq(nodes)]

Nested(leaves, evaluated) ==
  LET nested[d \in 0..MaxNesting] ==
        IF d = 0 THEN leaves
        ELSE nested[d - 1] \cup Composites(nested[d - 1], evaluated)
  IN  nested

Condition == [kind : {"leaf"}, field : STRING, operator : STRING, value : Value]
Trigger == Nested(Condition \cup {Malformed}, FALSE)[MaxNesting]

EvaluatedLeaf == [kind : {"leaf"}, field : STRING, operator : STRING,
                  actual_value : Value, expected_value : Value, matched : BOOLEAN]
EvaluatedTrigger == Nested(EvaluatedLeaf, TRUE)[MaxNesting]

matched(evaluated) == evaluated.matched

_evaluate_leaf(node, context) ==
  LET raw      == get(context, node.field)
      is_match == apply_operator(node.operator, raw, node.value)
  IN  IF is_match = "raised" THEN Raised
      ELSE [kind |-> "leaf", field |-> node.field, operator |-> node.operator,
            actual_value |-> IF raw = MISSING THEN Null ELSE raw,
            expected_value |-> node.value, matched |-> is_match = "true"]

\* Whether a composite holds, from the flags of its children.
Combine(kind, flags) ==
  CASE kind = "all" -> \A i \in DOMAIN flags : flags[i]
    [] kind = "any" -> \E i \in DOMAIN flags : flags[i]
    [] kind = "not" -> ~ flags[1]

\* Faulty variant: an `any' stops at the first child that matches, and an
\* `all' at the first that does not.
CompositeLazy(kind, evaluated) ==
  LET decided(i) == /\ kind # "not" /\ evaluated[i] # Raised
                    /\ evaluated[i].matched = (kind = "any")
      stops == {i \in DOMAIN evaluated : decided(i)}
      last  == IF stops = {} THEN Len(evaluated)
               ELSE CHOOSE i \in stops : \A j \in stops : i <= j
      seen  == SubSeq(evaluated, 1, last)
  IN  IF Raised \in ToSet(seen) THEN Raised
      ELSE [kind |-> kind, children |-> seen,
            matched |-> Combine(kind, [i \in DOMAIN seen |-> matched(seen[i])])]

\* Every child is evaluated, whatever its siblings decided: one that raises
\* raises for the tree.
Composite(kind, evaluated) ==
  IF Raised \in ToSet(evaluated) THEN Raised
  ELSE [kind |-> kind, children |-> evaluated,
        matched |-> Combine(kind, [i \in DOMAIN evaluated |-> matched(evaluated[i])])]

\* An outcome per node of the tree, children first.
evaluate_trigger(node, context) ==
  LET evaluated[n \in Trigger] ==
        IF n.kind = "leaf" THEN _evaluate_leaf(n, context)
        ELSE IF n.children = <<>> THEN Raised
        ELSE Composite(n.kind, [i \in DOMAIN n.children |-> evaluated[n.children[i]]])
  IN  evaluated[node]

\* The leaves of a tree, evaluated or not, in document order.
Leaves(tree) ==
  LET leaves[n \in Trigger \cup EvaluatedTrigger] ==
        IF n.kind = "leaf" THEN <<n>>
        ELSE FlattenSeq([i \in DOMAIN n.children |-> leaves[n.children[i]]])
  IN  leaves[tree]

-----------------------------------------------------------------------------
(* Rules.  Jurisdiction, project type and triggers, in this order.         *)

NoTree == [kind |-> "none"]

Evaluation(rule, fired, decided_by, evaluated) ==
  [rule_id |-> rule.rule_id, fired |-> fired, decided_by |-> decided_by,
   evaluated_triggers |-> evaluated]

evaluate_rule(rule, context, jurisdictions, types) ==
  IF rule.jurisdiction_id \notin jurisdictions
  THEN Evaluation(rule, FALSE, "jurisdiction", NoTree)
  ELSE IF rule.applicable_project_types \cap types = {}
  THEN Evaluation(rule, FALSE, "project_type", NoTree)
  ELSE LET tree == evaluate_trigger(rule.triggers, context)
       IN  IF tree = Raised THEN Raised
           ELSE Evaluation(rule, tree.matched,
                           IF tree.matched THEN "fired" ELSE "triggers", tree)

\* rules is a sequence; the fired evaluations come back sorted by rule id
\* (a stable sort), or the first error does.
evaluate_ruleset(rules, context, jurisdictions, types) ==
  LET results == [i \in DOMAIN rules |->
                    evaluate_rule(rules[i], context, jurisdictions, types)]
      fires(i) == results[i].fired
      fired   == {i \in DOMAIN rules : fires(i)}
      before(i, j) == \/ rules[i].rule_id < rules[j].rule_id
                      \/ rules[i].rule_id = rules[j].rule_id /\ i < j
      order   == InOrder(fired, before)
  IN  IF Raised \in ToSet(results) THEN Raised
      ELSE [kind |-> "fired", fired |-> [k \in DOMAIN order |-> results[order[k]]]]
=============================================================================
