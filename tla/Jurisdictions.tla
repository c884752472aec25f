---------------------------- MODULE Jurisdictions ----------------------------
(***************************************************************************)
(* The registry of jurisdictions and the walk to the root                  *)
(* (ipermit_jurisdictions/repository.py, models.py).  Records are added    *)
(* through the repository; the parent column is also edited in place, by   *)
(* migrations and by hand.  PostgreSQL enforces its foreign key, SQLite,   *)
(* as the engine is made here, does not.                                   *)
(***************************************************************************)
EXTENDS Platform, Naturals, Sequences, FiniteSets

CONSTANTS
    Jurisdiction,     \* ids
    ForeignKeys       \* whether the database enforces them

CycleError == <<"cycle in jurisdiction hierarchy">>

ASSUME JurisdictionAssumption ==
    /\ IsFiniteSet(Jurisdiction)
    /\ None \notin Jurisdiction
    /\ CycleError \notin Seq(Jurisdiction)

VARIABLE parent       \* parent_jurisdiction_id of the records there are

JurisdictionsInit == parent = [j \in {} |-> None]

Known(j) == j \in DOMAIN parent

ValidParent(j, p) == p = None \/ ~ForeignKeys \/ p = j \/ Known(p)

\* add_record: the id is the primary key.
add_record(j, p) ==
    /\ ~Known(j) /\ ValidParent(j, p)
    /\ parent' = [k \in DOMAIN parent \cup {j} |-> IF k = j THEN p ELSE parent[k]]

EditParent(j, p) ==
    /\ Known(j) /\ ValidParent(j, p) /\ p # parent[j]
    /\ parent' = [parent EXCEPT ![j] = p]

JurisdictionsNext ==
    \E j \in Jurisdiction, p \in Jurisdiction \cup {None} : add_record(j, p) \/ EditParent(j, p)

JurisdictionsSpec == JurisdictionsInit /\ [][JurisdictionsNext]_parent

-----------------------------------------------------------------------------
\* Faulty variant: only the record that was asked for is looked out for.
WalkWatchingStart(j) ==
    LET step[n \in 0..Cardinality(Jurisdiction)] ==
            IF n = 0 THEN [at |-> j, chain |-> <<>>]
            ELSE LET s == step[n - 1]
                 IN IF ~Known(s.at) \/ parent[s.at] = None \/ parent[s.at] = j THEN s
                    ELSE [at |-> parent[s.at],
                          chain |-> IF Known(parent[s.at]) THEN Append(s.chain, parent[s.at]) ELSE s.chain]
        end == step[Cardinality(Jurisdiction)]
    IN IF Known(end.at) /\ parent[end.at] = j THEN CycleError ELSE end.chain

\* One turn of the loop: a parent that is known joins the chain, one seen before ends it.
Follow(s) ==
    LET p == IF Known(s.at) THEN parent[s.at] ELSE None
    IN IF p = None \/ p \in s.seen THEN s
       ELSE [at |-> p, seen |-> s.seen \cup {p},
             chain |-> IF Known(p) THEN Append(s.chain, p) ELSE s.chain]

\* ancestors: parents are followed until there is none, or none known; one seen before is an
\* error.  The walk takes at most one step for each id.
ancestors(j) ==
    LET step[n \in 0..Cardinality(Jurisdiction)] ==
            IF n = 0 THEN [at |-> j, seen |-> {j}, chain |-> <<>>] ELSE Follow(step[n - 1])
        end == step[Cardinality(Jurisdiction)]
    IN IF Known(end.at) /\ parent[end.at] \in end.seen THEN CycleError ELSE end.chain

-----------------------------------------------------------------------------
Parents(j) == IF Known(j) THEN {parent[j]} \ {None} ELSE {}

\* The smallest set that has the parent of j, and of each of its own.
Above(j) ==
    {k \in Jurisdiction : \A S \in SUBSET Jurisdiction :
        Parents(j) \subseteq S /\ (\A i \in S : Parents(i) \subseteq S) => k \in S}

(* Hazard: edits of parents make cycles and leave parents nobody knows     *)
(* (repository.py:146).  Against the smallest set that is closed under the *)
(* parent links: ancestors raises exactly when a cycle can be reached, and *)
(* otherwise returns exactly the known records above, each one the parent  *)
(* of the one before it, even if the last one's parent is missing.         *)
AncestorsFollowParents ==
    \A j \in DOMAIN parent :
        LET chain == ancestors(j)
        IN IF \E k \in Above(j) \cup {j} : k \in Above(k) THEN chain = CycleError
           ELSE /\ chain # CycleError
                /\ {chain[i] : i \in DOMAIN chain} = {k \in Above(j) : Known(k)}
                /\ \A i \in DOMAIN chain : chain[i] = parent[IF i = 1 THEN j ELSE chain[i - 1]]
=============================================================================
