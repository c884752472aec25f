---------------------------- MODULE MCSimulation ----------------------------
(* Simulation for TLC: every graph on four fired rules with up to two      *)
(* prerequisites each, lists that name an unfired rule or repeat one, and    *)
(* mixes of level, permits and references on two rules and on three.         *)
EXTENDS Simulation, TLC, SequencesExt

CONSTANTS p, q

\* A lead time for each rule, so that paths of different lengths tie.
LeadTime == <<1, 1, 2, 0>>

Plain(n, prerequisites) ==
  [prerequisites |-> prerequisites, typical_lead_time_days |-> LeadTime[n],
   version |-> "current", jurisdiction_level |-> "federal", permits |-> {},
   supersedes |-> {}]

\* Up to two prerequisites, a rule itself among them.
Lists == {SetToSortSeq(S, <) : S \in {T \in SUBSET RuleId : Cardinality(T) <= 2}}

Repeating == {<<>>, <<1>>, <<2>>, <<3>>, <<4>>, <<1, 1>>, <<1, 2>>, <<2, 1, 2>>}

Graphs(ids, lists) ==
  {[n \in ids |-> Plain(n, f[n])] : f \in [ids -> lists]}

Contender(n, level, permits, supersedes) ==
  [Plain(n, <<>>) EXCEPT !.jurisdiction_level = level, !.permits = permits,
                         !.supersedes = supersedes]

\* References a rule n may carry: to its own or another rule, by the version
\* that fires, by an earlier one, or by none.
References(n, ids) ==
  {{}, {<<n, "earlier">>}}
    \cup {{<<m, v>>} : m \in ids \ {n}, v \in {"current", "earlier", NoVersion}}

Contenders(n, ids, levels) ==
  {Contender(n, level, permits, refs) :
     level \in levels, permits \in {{}, {p}, {p, q}}, refs \in References(n, ids)}

Two(levels) ==
  {(1 :> a) @@ (2 :> b) :
     a \in Contenders(1, {1, 2}, levels), b \in Contenders(2, {1, 2}, levels)}

Three ==
  {(1 :> a) @@ (2 :> b) @@ (3 :> c) :
     a \in Contenders(1, {1, 2}, {"state", "county"}),
     b \in Contenders(2, {2, 3}, {"state", "county"}),
     c \in {Contender(3, level, permits, {}) : level \in {"state", "county"},
                                               permits \in {{p}, {p, q}}}}

Catalogue ==
  {<<>>} \cup Graphs(RuleId, Lists) \cup Graphs({1, 2, 3}, Repeating)
    \cup Two({"federal", "special", "unheard of"}) \cup Three
=============================================================================
