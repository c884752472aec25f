----------------------------- MODULE Simulation -----------------------------
(***************************************************************************)
(* The second half of simulate_project: the rules that fired go through    *)
(* resolve_conflicts and then, the same list, through sequence_rules.  A   *)
(* CyclicDependencyError of the latter leaves simulate_project, and the    *)
(* resolution is lost with it.                                             *)
(***************************************************************************)
EXTENDS Sequencing, Conflict

VARIABLES step,        \* which call simulate_project makes next
          resolution   \* the result of resolve_conflicts

vars == <<svars, step, resolution>>

NoResolution == [requirements |-> {}, conflicts |-> {}, superseded_rule_ids |-> {}]

SimulationInit ==
  /\ Init
  /\ step = "resolve"
  /\ resolution = NoResolution

Resolve ==
  /\ step = "resolve"
  /\ step' = "sequence"
  /\ resolution' = resolve_conflicts(fired_rules)
  /\ UNCHANGED svars

Sequence ==
  /\ step = "sequence"
  /\ Next
  /\ UNCHANGED <<step, resolution>>

\* simulate_project has returned or raised; nothing more happens.
Return ==
  /\ phase \in {"done", "raised"}
  /\ UNCHANGED vars

SimulationNext == Resolve \/ Sequence \/ Return

SimulationSpec == SimulationInit /\ [][SimulationNext]_vars

-----------------------------------------------------------------------------

Resolved == step = "sequence"

\* All the rules a requirement keeps.
Kept(r) == {r.governing} \cup r.contributing

\* Firing one more rule takes no requirement and no rule away from the others,
\* unless its references name one of them: the requirement is kept with every
\* rule it had, and its governing rule changes, if at all, to the new rule.
\* (conflict.py: a lower jurisdiction may add and override, never silently
\* delete.)
AdditionsKeepRequirements ==
  Resolved => \A new \in fired_ids :
    LET before == [n \in fired_ids \ {new} |-> fired_rules[n]]
    IN  (\A ref \in fired_rules[new].supersedes : ref[1] \notin DOMAIN before)
        => \A old \in Requirements(before) : \E r \in resolution.requirements :
             /\ r.key = old.key
             /\ Kept(old) \subseteq Kept(r)
             /\ Kept(r) \subseteq Kept(old) \cup {new}
             /\ r.governing \in {old.governing, new}

\* No fired rule goes missing from a requirement it was part of: while one rule
\* of it survives, the governing, preserved and superseded rules are all the
\* fired rules that contend, and a conflict record says so as soon as there are
\* two of them.  What is superseded is listed, and some reference names it.
\* (conflict.py: "the deletion is never silent")
EveryContenderIsAccountedFor ==
  Resolved =>
    /\ \A r \in resolution.requirements :
         LET contenders == Contending(fired_rules, fired_ids, r.key)
             removed    == contenders \cap resolution.superseded_rule_ids
         IN  /\ Kept(r) = contenders \ removed
             /\ Cardinality(contenders) > 1 =>
                  \E c \in resolution.conflicts :
                    /\ c.requirement_key = r.key
                    /\ {c.governing} \cup c.preserved \cup c.superseded = contenders
                    /\ c.superseded = removed
    /\ \A n \in fired_ids \ resolution.superseded_rule_ids :
         \A key \in requirement_keys(fired_rules, n) :
           \E r \in resolution.requirements : r.key = key /\ n \in Kept(r)
    /\ \A n \in resolution.superseded_rule_ids :
         \E m \in fired_ids : \E ref \in fired_rules[m].supersedes : ref[1] = n

\* A rule is superseded only by a reference to the version that fired, or by
\* one without a version: "a supersedes reference to a rule that did NOT fire is
\* a no-op" (conflict.py).  The code drops the version when it finds no match.
UnfiredReferenceIsNoOp ==
  \A n \in resolution.superseded_rule_ids :
    \E m \in fired_ids :
      {version_ref(fired_rules, n), <<n, NoVersion>>} \cap fired_rules[m].supersedes # {}
=============================================================================
