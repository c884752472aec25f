------------------------------ MODULE Conflict ------------------------------
(***************************************************************************)
(* resolve_conflicts of the rules engine, a pure function of the rules     *)
(* that fired: explicit supersession first, then, for each requirement     *)
(* (permit identity), the most specific jurisdiction's rule governs and    *)
(* the others contribute.  F is the list of fired rules, as a function     *)
(* from rule id to rule: one version of a rule fires.  A requirement is    *)
(* named by its permit after _norm; lists are sets where only their order, *)
(* by (rank, rule_id), is lost.                                            *)
(***************************************************************************)
EXTENDS Integers, Sequences, FiniteSets

\* A reference that carries no version.
NoVersion == "no version"

JURISDICTION_PRECEDENCE ==
  <<"federal", "state", "county", "municipality", "etj", "utility_district",
    "drainage_district", "river_authority", "special">>

\* Places are counted from zero; any other level comes after all of them.
precedence_rank(level) ==
  IF \E i \in DOMAIN JURISDICTION_PRECEDENCE : JURISDICTION_PRECEDENCE[i] = level
  THEN (CHOOSE i \in DOMAIN JURISDICTION_PRECEDENCE :
          JURISDICTION_PRECEDENCE[i] = level) - 1
  ELSE Len(JURISDICTION_PRECEDENCE)

Rank(F, n) == precedence_rank(F[n].jurisdiction_level)

version_ref(F, n) == <<n, F[n].version>>

\* What a reference removes: the rule that answers to it, or else the fired
\* rule with the same id, whatever its version.
Targets(F, ref) ==
  LET by_ref == {n \in DOMAIN F : version_ref(F, n) = ref}
      by_id  == {n \in DOMAIN F : n = ref[1]}
  IN  IF by_ref # {} THEN by_ref ELSE by_id

\* Faulty variant: the rule that carries the reference is removed.
SupersededSwapped(F) ==
  {n \in DOMAIN F : \E ref \in F[n].supersedes : Targets(F, ref) # {}}

Superseded(F) ==
  UNION {UNION {Targets(F, ref) : ref \in F[n].supersedes} : n \in DOMAIN F}

Surviving(F) == DOMAIN F \ Superseded(F)

\* One key per permit; a rule without permits has a key of its own.
requirement_keys(F, n) ==
  IF F[n].permits = {} THEN {<<"rule", n>>}
  ELSE {<<"permit", p>> : p \in F[n].permits}

Keys(F, S) == UNION {requirement_keys(F, n) : n \in S}

Contending(F, S, key) == {n \in S : key \in requirement_keys(F, n)}

\* The order of _ordered: most specific first, then rule id.
Precedes(F, m, n) ==
  \/ Rank(F, m) > Rank(F, n)
  \/ Rank(F, m) = Rank(F, n) /\ m < n

First(F, S) == CHOOSE m \in S : \A n \in S \ {m} : Precedes(F, m, n)

\* The rules that contend for key, by what becomes of them.
Requirement(F, key) ==
  LET members == Contending(F, Surviving(F), key)
  IN  [key |-> key, governing |-> First(F, members),
       contributing |-> members \ {First(F, members)}]

Requirements(F) == {Requirement(F, key) : key \in Keys(F, Surviving(F))}

\* Faulty variant: a supersession without surviving parents is not reported.
ConflictsOfOverrides(F) ==
  {[requirement_key |-> r.key,
    governing |-> r.governing,
    preserved |-> r.contributing,
    superseded |-> Contending(F, Superseded(F), r.key)] :
   r \in {q \in Requirements(F) : q.contributing # {}}}

\* The conflict of a requirement more than one fired rule contended for.
Conflicts(F) ==
  {[requirement_key |-> r.key,
    governing |-> r.governing,
    preserved |-> r.contributing,
    superseded |-> Contending(F, Superseded(F), r.key)] :
   r \in {q \in Requirements(F) :
            \/ q.contributing # {}
            \/ Contending(F, Superseded(F), q.key) # {}}}

resolve_conflicts(F) ==
  [requirements |-> Requirements(F),
   conflicts |-> Conflicts(F),
   superseded_rule_ids |-> Superseded(F)]
=============================================================================
