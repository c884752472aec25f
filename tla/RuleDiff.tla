------------------------------ MODULE RuleDiff ------------------------------
(***************************************************************************)
(* diff_rules: the changes between two versions of a rule, by category.    *)
(* Triggers are compared position by position, everything else as sets of  *)
(* keys, so that an item whose key stays the same has not changed.         *)
(*                                                                         *)
(* A permit, form or agency is its key after casefold; `title' stands for  *)
(* the fields of text.  The path of a node is the sequence of the places   *)
(* of its ancestors and itself among their siblings.                       *)
(***************************************************************************)
EXTENDS Triggers, Versions

_SCALAR_FIELDS == {"title", "confidence_tier", "status", "effective_from", "effective_to"}

\* The fields of F that changed, with the old and the new value.
Changed(F, old, new) ==
  [f \in {g \in F : old[g] # new[g]} |-> <<old[f], new[f]>>]

_diff_fields(old, new) == Changed(_SCALAR_FIELDS, old, new)

_diff_project_types(old, new) ==
  IF old.applicable_project_types = new.applicable_project_types THEN {}
  ELSE {[added   |-> new.applicable_project_types \ old.applicable_project_types,
         removed |-> old.applicable_project_types \ new.applicable_project_types]}

_diff_jurisdiction(old, new) ==
  Changed({"jurisdiction_level", "jurisdiction_id"}, old, new)

\* What was added to and removed from a set of keys.
KeyChanges(type, old, new) ==
  {[kind |-> "added", type |-> type, item_key |-> key] : key \in new \ old}
    \cup {[kind |-> "removed", type |-> type, item_key |-> key] : key \in old \ new}

_diff_outputs(old, new) ==
  KeyChanges("permit", old.permits, new.permits)
    \cup KeyChanges("form", old.forms, new.forms)
    \cup KeyChanges("agency", old.agencies, new.agencies)

References(rule) == {c.reference : c \in ToSet(rule.source_citations)}

_diff_citations(old, new) == KeyChanges("citation", References(old), References(new))

-----------------------------------------------------------------------------
(* Trigger trees.  A child past the end of the shorter list is NoNode.     *)

NoNode == [kind |-> "absent"]

Change(kind, path, old, new) ==
  [kind |-> kind, path |-> path, old_node |-> old, new_node |-> new]

\* Python's == on two leaves: True is 1 here.
SameLeaf(old, new) ==
  /\ old.field = new.field /\ old.operator = new.operator
  /\ PyEqual(old.value, new.value)

_diff_leaf(old, new, path) ==
  IF SameLeaf(old, new) THEN {} ELSE {Change("modified", path, old, new)}

Child(node, i) == IF i \in DOMAIN node.children THEN node.children[i] ELSE NoNode

Longer(old, new) ==
  IF Len(old.children) >= Len(new.children) THEN Len(old.children) ELSE Len(new.children)

\* Faulty variant: children past the end of the shorter list are left out.
PlacesInBoth(old, new) ==
  1..(IF Len(old.children) <= Len(new.children) THEN Len(old.children)
      ELSE Len(new.children))

Places(old, new) == 1..Longer(old, new)

_diff_trigger_node(old, new, path) ==
  LET Node == Trigger \cup {NoNode}
      changes[t \in Node \X Node \X Seq(Nat)] ==
        LET o == t[1]
            n == t[2]
        IN  IF o = NoNode THEN {Change("added", t[3], o, n)}
            ELSE IF n = NoNode THEN {Change("removed", t[3], o, n)}
            ELSE IF o.kind # n.kind THEN {Change("modified", t[3], o, n)}
            ELSE IF o.kind = "leaf" THEN _diff_leaf(o, n, t[3])
            ELSE IF o.kind = "malformed" THEN {}
            ELSE UNION {changes[<<Child(o, i), Child(n, i), Append(t[3], i)>>] :
                          i \in Places(o, n)}
  IN  changes[<<old, new, path>>]

_diff_triggers(old, new) == _diff_trigger_node(old.triggers, new.triggers, <<>>)

-----------------------------------------------------------------------------

\* Two rules with different ids are a ValueError.
diff_rules(old, new) ==
  IF old.rule_id # new.rule_id THEN Raises("ValueError")
  ELSE Returns([rule_id |-> old.rule_id, old_version |-> old.version,
                new_version |-> new.version,
                field_changes |-> _diff_fields(old, new),
                project_type_changes |-> _diff_project_types(old, new),
                trigger_changes |-> _diff_triggers(old, new),
                output_changes |-> _diff_outputs(old, new),
                jurisdiction_changes |-> _diff_jurisdiction(old, new),
                citation_changes |-> _diff_citations(old, new)])

is_empty(diff) ==
  /\ DOMAIN diff.field_changes = {} /\ diff.project_type_changes = {}
  /\ diff.trigger_changes = {} /\ diff.output_changes = {}
  /\ DOMAIN diff.jurisdiction_changes = {} /\ diff.citation_changes = {}

\* The sections of the summary, one line for each change of a category.
summarize_diff(diff) ==
  IF is_empty(diff) THEN {}
  ELSE {s \in {<<"Field changes", Cardinality(DOMAIN diff.field_changes)
                                    + Cardinality(diff.project_type_changes)>>,
               <<"Trigger changes", Cardinality(diff.trigger_changes)>>,
               <<"Output changes", Cardinality(diff.output_changes)>>,
               <<"Jurisdiction changes", Cardinality(DOMAIN diff.jurisdiction_changes)>>,
               <<"Citation changes", Cardinality(diff.citation_changes)>>} : s[2] > 0}
=============================================================================
