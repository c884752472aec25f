------------------------------ MODULE Versions ------------------------------
(***************************************************************************)
(* Which rules, and which version of each, an evaluation uses: an overlay  *)
(* put over the rules, and the version that governs a date, chosen once    *)
(* from dicts (select_governing) and once from rows (effective_ruleset).   *)
(*                                                                         *)
(* Rules come in sequences; days are numbers from 1 and NoDate is an unset *)
(* date.  A version is a pair <<key, spelling>>: its place in the semver   *)
(* order, and the text, which the pattern of the schema leaves free to pad *)
(* a part with zeros.                                                      *)
(***************************************************************************)
EXTENDS Lists

NoDate == 0

\* What a call returned or raised.
Returns(value) == [error |-> "none", value |-> value]
Raises(error)  == [error |-> error, value |-> <<>>]

\* The sequence of the values of a function on rule ids, by rule id.
ById(f) == LET ids == InOrder(DOMAIN f, <) IN [i \in DOMAIN ids |-> f[ids[i]]]

Ids(rules) == {rules[i].rule_id : i \in DOMAIN rules}

\* dict[rule_id] = rule, in order: the last rule of an id stays.
LastById(rules) ==
  [n \in Ids(rules) |->
     rules[CHOOSE i \in DOMAIN rules :
             /\ rules[i].rule_id = n
             /\ \A j \in DOMAIN rules : rules[j].rule_id = n => j <= i]]

apply_overlay(base, overlay) ==
  LET by_id == LastById(base \o overlay.upsert)
  IN  ById([n \in DOMAIN by_id \ overlay.remove |-> by_id[n]])

-----------------------------------------------------------------------------
(* The version that governs a date, from dicts.                            *)

_GOVERNING_STATUSES == {"effective", "archived"}

\* Faulty variant: the last day of a version is not one of its days.
GovernsBefore(rule, on_date) ==
  /\ rule.status \in _GOVERNING_STATUSES
  /\ rule.effective_from # NoDate /\ rule.effective_from <= on_date
  /\ rule.effective_to = NoDate \/ rule.effective_to > on_date

\* Both ends of the window belong to it.
_governs(rule, on_date) ==
  /\ rule.status \in _GOVERNING_STATUSES
  /\ rule.effective_from # NoDate /\ rule.effective_from <= on_date
  /\ rule.effective_to = NoDate \/ rule.effective_to >= on_date

\* Of the versions at some places, those that started last, and of these the
\* places of the highest.
Latest(rules, places) ==
  {i \in places : \A j \in places : rules[j].effective_from <= rules[i].effective_from}

Highest(rules, places) ==
  {i \in places : \A j \in places : rules[j].version[1] <= rules[i].version[1]}

Finalists(rules, places) == Highest(rules, Latest(rules, places))

\* Python's max: the first of equals.
_best_version(rules, places) == rules[Min(Finalists(rules, places))]

Group(rules, n, on_date) ==
  {i \in DOMAIN rules : rules[i].rule_id = n /\ _governs(rules[i], on_date)}

GoverningIds(rules, on_date) ==
  {n \in Ids(rules) : Group(rules, n, on_date) # {}}

select_governing(rules, on_date) ==
  ById([n \in GoverningIds(rules, on_date) |->
          _best_version(rules, Group(rules, n, on_date))])

-----------------------------------------------------------------------------
(* The same, from the rows of regulatory_rule.  A tie is a ValueError.     *)

is_governing(rule, on_date) ==
  /\ rule.status \in _GOVERNING_STATUSES
  /\ rule.effective_from # NoDate
  /\ rule.effective_from <= on_date
  /\ rule.effective_to = NoDate \/ rule.effective_to >= on_date

Tie == Raises("ValueError")

\* The query keeps the candidates of one rule id; on_date is checked again.
Candidates(rows, n, on_date) ==
  {i \in DOMAIN rows : rows[i].rule_id = n /\ is_governing(rows[i], on_date)}

_best(rows, candidates) ==
  LET finalists == Finalists(rows, candidates)
  IN  IF Cardinality(finalists) = 1 THEN Returns(rows[Min(finalists)]) ELSE Tie

None == Returns(<<>>)

effective_rule(rows, n, on_date) ==
  LET candidates == Candidates(rows, n, on_date)
  IN  IF candidates = {} THEN None ELSE _best(rows, candidates)

\* One tie raises for the whole rule set.
effective_ruleset(rows, on_date) ==
  LET ids  == {n \in Ids(rows) : Candidates(rows, n, on_date) # {}}
      tied == {n \in ids : effective_rule(rows, n, on_date) = Tie}
  IN  IF tied # {} THEN Tie
      ELSE Returns(ById([n \in ids |-> effective_rule(rows, n, on_date).value]))
=============================================================================
