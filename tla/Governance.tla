----------------------------- MODULE Governance -----------------------------
(***************************************************************************)
(* The two kinds of case an analyst decides: proposals to publish a rule   *)
(* (routers/publications.py, the RulePublication table) and feedback from  *)
(* consultants (routers/feedback.py, the Feedback table).                  *)
(*                                                                         *)
(* A decision loads the row, checks it in memory, writes the columns whose *)
(* value differs from what was loaded, and commits with one audit record.  *)
(* Requests run concurrently under READ COMMITTED; the row is locked from  *)
(* the UPDATE to the commit and not before, and the UPDATE addresses it by *)
(* primary key alone: what was checked may be stale when it is written.    *)
(***************************************************************************)
EXTENDS Naturals, Sequences

CONSTANTS
    Cases,          \* primary keys the database hands out, each once
    Workers,        \* requests served at once
    Drafters,       \* people with the capability analyst:draft
    Publishers,     \* people with the capability analyst:publish
    Analysts,       \* people whose role is regulatory_analyst or above
    Consultants,    \* people who are members of a tenant
    None,           \* no row, a NULL column
    MaxDecisions    \* bound: decisions that are begun

People == Drafters \cup Publishers \cup Analysts \cup Consultants

ASSUME BoundIsNatural == MaxDecisions \in Nat

VARIABLES
    rows,       \* committed rows, by key
    used,       \* keys handed out
    trail,      \* committed audit records about cases, in commit order
    txn,        \* the request each worker runs
    decisions

vars == <<rows, used, trail, txn, decisions>>

Kinds == {"publication", "feedback"}

Statuses == {"proposed", "approved", "rejected", "rolled_back", "open", "confirmed"}

Row == [kind : Kinds, status : Statuses, author : People, decider : People \cup {None}]

\* seen (history): how many transactions had committed when it loaded the row.
Request == [stage : {"write", "commit"}, case : Cases, who : People, loaded : Row \cup {None},
            row : Row, seen : Nat]

ASSUME NoneIsNothingElse == None \notin People /\ None \notin Row /\ None \notin Request

Record == [case : Cases, actor : People, status : Statuses, seen : Nat]

Exists(c) == rows[c] # None

\* The status a new row has, and the ones a decision may start from.
Opened(kind) == IF kind = "publication" THEN "proposed" ELSE "open"

RequireFrom(new) == IF new = "rolled_back" THEN "approved" ELSE "proposed"

Begin(w, request) ==
    /\ txn[w] = None
    /\ txn' = [txn EXCEPT ![w] = request]

-----------------------------------------------------------------------------
(* The rows two requests may not write at the same time.                   *)

Locked(c, w) == \E v \in Workers \ {w} : txn[v] # None /\ txn[v].stage = "commit"
                                                     /\ txn[v].case = c

\* Faulty variant: an UPDATE of a row that has changed matches nothing, unseen.
MergedIfUnchanged(x, current) == IF x.loaded = current THEN x.row ELSE current

\* The row after x commits: changed columns over what others have committed.
Merged(x, current) ==
    IF x.loaded = None THEN x.row
    ELSE [current EXCEPT !.status  = IF x.row.status # x.loaded.status THEN x.row.status ELSE @,
                         !.decider = IF x.row.decider # x.loaded.decider THEN x.row.decider ELSE @]

-----------------------------------------------------------------------------
\* A new case: the INSERT of a row under a fresh key, flushed.
Open(w, who, kind) ==
    \E c \in Cases \ used :
        /\ used' = used \cup {c}
        /\ Begin(w, [stage |-> "commit", case |-> c, who |-> who, loaded |-> None,
                     row |-> [kind |-> kind, status |-> Opened(kind), author |-> who,
                              decider |-> None],
                     seen |-> Len(trail)])
        /\ UNCHANGED <<rows, trail, decisions>>

\* propose_publication, require_capability("analyst:draft")
ProposePublication(w, who) == who \in Drafters /\ Open(w, who, "publication")

\* submit_feedback, for a member of a tenant
SubmitFeedback(w, who) == who \in Consultants /\ Open(w, who, "feedback")

\* The row is changed in memory.
Assign(w, who, c, new) ==
    /\ decisions < MaxDecisions
    /\ decisions' = decisions + 1
    /\ Begin(w, [stage |-> "write", case |-> c, who |-> who, loaded |-> rows[c],
                 row |-> [rows[c] EXCEPT !.status = new, !.decider = who],
                 seen |-> Len(trail)])
    /\ UNCHANGED <<rows, used, trail>>

\* Faulty variant: approving is free for the proposer too.
DecideAlone(w, who, c, new) ==
    /\ Exists(c) /\ rows[c].kind = "publication"
    /\ who \in Publishers
    /\ rows[c].status = RequireFrom(new)
    /\ Assign(w, who, c, new)

\* Faulty variant: the status of the case is not looked at.
DecideAnytime(w, who, c, new) ==
    /\ Exists(c) /\ rows[c].kind = "publication"
    /\ who \in Publishers
    /\ new # "rolled_back" => rows[c].author # who
    /\ Assign(w, who, c, new)

\* _decide: load, 409, 403, assignment; approve and reject enforce separation
\* of duties, rollback does not.
Decide(w, who, c, new) ==
    /\ Exists(c) /\ rows[c].kind = "publication"
    /\ who \in Publishers
    /\ rows[c].status = RequireFrom(new)
    /\ new # "rolled_back" => rows[c].author # who
    /\ Assign(w, who, c, new)

\* disposition_feedback, require_role("regulatory_analyst")
Disposition(w, who, c, new) ==
    /\ Exists(c) /\ rows[c].kind = "feedback"
    /\ who \in Analysts
    /\ rows[c].status = "open"
    /\ Assign(w, who, c, new)

\* session.flush(): the UPDATE waits for the row.
Write(w) ==
    /\ txn[w] # None /\ txn[w].stage = "write"
    /\ ~Locked(txn[w].case, w)
    /\ txn' = [txn EXCEPT ![w].stage = "commit"]
    /\ UNCHANGED <<rows, used, trail, decisions>>

\* append_audit, session.commit()
Commit(w) ==
    LET x == txn[w]
    IN  /\ x # None /\ x.stage = "commit"
        /\ rows' = [rows EXCEPT ![x.case] = Merged(x, @)]
        /\ trail' = Append(trail, [case |-> x.case, actor |-> x.who, status |-> x.row.status,
                                   seen |-> x.seen])
        /\ txn' = [txn EXCEPT ![w] = None]
        /\ UNCHANGED <<used, decisions>>

\* The handler raises or the process stops: rollback.
Fail(w) ==
    /\ txn[w] # None
    /\ txn' = [txn EXCEPT ![w] = None]
    /\ UNCHANGED <<rows, used, trail, decisions>>

Init ==
    /\ rows = [c \in Cases |-> None]
    /\ used = {}
    /\ trail = <<>>
    /\ txn = [w \in Workers |-> None]
    /\ decisions = 0

Next ==
    \E w \in Workers :
        \/ \E who \in People :
              \/ ProposePublication(w, who)
              \/ SubmitFeedback(w, who)
              \/ \E c \in Cases :
                    \/ \E new \in {"approved", "rejected", "rolled_back"} : Decide(w, who, c, new)
                    \/ \E new \in {"confirmed", "rejected"} : Disposition(w, who, c, new)
        \/ Write(w) \/ Commit(w) \/ Fail(w)

Spec == Init /\ [][Next]_vars

-----------------------------------------------------------------------------
\* The domains of the state.  A row was inserted under a key handed out.
TypeOK ==
    /\ rows \in [Cases -> Row \cup {None}]
    /\ used \subseteq Cases
    /\ trail \in Seq(Record)
    /\ txn \in [Workers -> Request \cup {None}]
    /\ decisions \in 0 .. MaxDecisions

\* "Separation-of-duties (proposer # approver)" (models.py:351): whatever
\* decisions raced, a publication that is approved or rejected names somebody
\* who did not propose it.
SeparationOfDuties ==
    \A c \in Cases :
        Exists(c) /\ rows[c].kind = "publication" /\ rows[c].status \in {"approved", "rejected"}
            => rows[c].decider \notin {None, rows[c].author}

\* The records about a case, and the last of them.
About(c) == {i \in DOMAIN trail : trail[i].case = c}
IsLast(i, c) == i \in About(c) /\ \A j \in About(c) : j <= i

\* The audit trail is the history of the row: the row has the status of the
\* last record about it, because that record is written under the row's lock;
\* and its decider is that record's actor, unless a decision overlapped (an
\* UPDATE leaves out a decider that equals the one it loaded).
RowFollowsTrail ==
    /\ \A c \in Cases : Exists(c) => About(c) # {}
    /\ \A c \in Cases : \A i \in About(c) : IsLast(i, c) =>
          /\ rows[c].status = trail[i].status
          /\ \/ rows[c].decider = trail[i].actor
             \/ rows[c].decider = None /\ trail[i].status = Opened(rows[c].kind)
             \/ \E j \in About(c) : trail[i].seen < j /\ j < i

\* What may follow what, in the order of the trail.
Follows(status) ==
    CASE status = "proposed" -> {"approved", "rejected"}
      [] status = "approved" -> {"rolled_back"}
      [] status = "open"     -> {"confirmed", "rejected"}
      [] OTHER               -> {}

\* Each decision starts from the status the one before it left (_decide,
\* disposition_feedback), unless it had loaded the row before that one
\* committed.
StepsAreLegalUnlessOverlapped ==
    \A c \in Cases : \A i, j \in About(c) :
        i < j /\ ~(\E k \in About(c) : i < k /\ k < j)
            => i > trail[j].seen \/ trail[j].status \in Follows(trail[i].status)

\* A publication "ends in approved (...), rejected, or rolled_back (an approved
\* promotion reversed)" (models.py:60-62): what is rejected or rolled back
\* stays so.
EndsStay ==
    [][\A c \in Cases :
          Exists(c) /\ rows[c].kind = "publication"
             /\ rows[c].status \in {"rejected", "rolled_back"} => rows'[c] = rows[c]]_vars
(***************************************************************************)
(* The inductive invariant behind the four: what a request under way knows *)
(* about its row, and what it can no longer know.                          *)
(***************************************************************************)
KeysAreFresh ==
    /\ \A c \in Cases : Exists(c) => c \in used
    /\ \A c \in Cases : ~Exists(c) => About(c) = {}
    /\ \A w \in Workers : txn[w] # None => txn[w].case \in used
    /\ \A w \in Workers : txn[w] # None /\ txn[w].loaded = None =>
          /\ ~Exists(txn[w].case)
          /\ \A v \in Workers \ {w} : txn[v] # None => txn[v].case # txn[w].case

\* An insert opens a case; an update was admitted by the row it loaded, and
\* the kind and author of a row never change.
InsertIsNew(x) == x.row.decider = None /\ x.row.status = Opened(x.row.kind)

UpdateIsChecked(x) ==
    /\ Exists(x.case)
    /\ x.row.decider = x.who
    /\ x.row.kind = rows[x.case].kind /\ x.row.author = rows[x.case].author
    /\ x.row.status \in Follows(x.loaded.status)
    /\ x.row.kind = "publication" /\ x.row.status \in {"approved", "rejected"}
          => x.who # x.row.author /\ x.loaded.decider = None

RequestsAreChecked ==
    \A w \in Workers : txn[w] # None =>
        IF txn[w].loaded = None THEN InsertIsNew(txn[w]) ELSE UpdateIsChecked(txn[w])

ProposalsAreUndecided ==
    \A c \in Cases : Exists(c) /\ rows[c].status = "proposed" => rows[c].decider = None

\* What a request loaded is stale only if a record about its case came since.
StaleOnlyIfOverlapped ==
    \A w \in Workers : txn[w] # None =>
        /\ txn[w].seen <= Len(trail)
        /\ \/ txn[w].loaded = None
           \/ rows[txn[w].case] = txn[w].loaded
           \/ \E j \in About(txn[w].case) : j > txn[w].seen

IInv ==
    /\ TypeOK /\ KeysAreFresh /\ RequestsAreChecked /\ ProposalsAreUndecided
    /\ StaleOnlyIfOverlapped
    /\ SeparationOfDuties /\ RowFollowsTrail /\ StepsAreLegalUnlessOverlapped
=============================================================================
