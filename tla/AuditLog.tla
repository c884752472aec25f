------------------------------ MODULE AuditLog ------------------------------
(***************************************************************************)
(* The audit log that every state-changing request of the API appends to   *)
(* (services/api/ipermit_api/audit.py, the AuditRecord table, and the      *)
(* append-only trigger of migration d4607521958a).                         *)
(*                                                                         *)
(* A request appends exactly one record, inside its own database           *)
(* transaction: it reads the hash of the latest record, inserts a record   *)
(* that carries that hash as prev_hash, and its handler commits later, or  *)
(* fails and rolls back.  Requests run in a thread pool and in more than   *)
(* one process, over READ COMMITTED transactions and without any lock, so  *)
(* the steps of different requests interleave freely.                      *)
(*                                                                         *)
(* Data: the hash of a record is represented by its id (sha256 over content *)
(* that includes the previous hash tells any two records apart), and 0     *)
(* stands for a NULL prev_hash.  Identifiers come from the table's         *)
(* sequence: taken at the INSERT, never given back.                        *)
(***************************************************************************)
EXTENDS Naturals

CONSTANT Requests      \* the requests that append; each runs once

VARIABLES
    stage,      \* where each request's transaction is
    prev,       \* the hash it read as the tip of the chain
    id,         \* the id of the record it inserted, 0 before
    nextId,     \* the next value of the id sequence
    (* history, for the properties only *)
    seen,       \* how many transactions had committed when it read the tip
    pos,        \* its place in the order of commits, 0 before
    commits     \* how many have committed

vars == <<stage, prev, id, nextId, seen, pos, commits>>

Stages == {"running", "read", "inserted", "committed", "failed"}

\* The requests whose record other transactions can see.
Committed == {r \in Requests : stage[r] = "committed"}

Init ==
    /\ stage = [r \in Requests |-> "running"]
    /\ prev = [r \in Requests |-> 0]
    /\ id = [r \in Requests |-> 0]
    /\ nextId = 1
    /\ seen = [r \in Requests |-> 0]
    /\ pos = [r \in Requests |-> 0]
    /\ commits = 0

-----------------------------------------------------------------------------
\* Faulty variant: the SELECT also sees records that are not committed.
VisibleDirty == {r \in Requests : stage[r] \in {"inserted", "committed"}}

\* The records a SELECT sees under READ COMMITTED.
Visible == Committed

\* Faulty variant: the order of the SELECT is reversed.
LatestHashAscending(h) ==
    /\ h = 0 => Visible = {}
    /\ \A u \in Visible : h <= id[u]

(* SELECT hash ... ORDER BY id DESC LIMIT 1: the visible record with the   *)
(* greatest id, or NULL.                                                   *)
LatestHash(h) ==
    /\ h = 0 => Visible = {}
    /\ \A u \in Visible : id[u] <= h

\* append_audit up to the SELECT.
ReadTip(r) ==
    /\ stage[r] = "running"
    /\ \E h \in {0} \cup {id[u] : u \in Visible} :
          LatestHash(h) /\ prev' = [prev EXCEPT ![r] = h]
    /\ stage' = [stage EXCEPT ![r] = "read"]
    /\ seen' = [seen EXCEPT ![r] = commits]
    /\ UNCHANGED <<id, nextId, pos, commits>>

\* Faulty variant: the sequence is read but not advanced.
InsertCurrval(r) ==
    /\ stage[r] = "read"
    /\ stage' = [stage EXCEPT ![r] = "inserted"]
    /\ id' = [id EXCEPT ![r] = nextId]
    /\ UNCHANGED <<nextId, prev, seen, pos, commits>>

\* The rest of append_audit: the record is added and flushed, not committed.
Insert(r) ==
    /\ stage[r] = "read"
    /\ stage' = [stage EXCEPT ![r] = "inserted"]
    /\ id' = [id EXCEPT ![r] = nextId]
    /\ nextId' = nextId + 1
    /\ UNCHANGED <<prev, seen, pos, commits>>

\* The handler's session.commit(), its last database call.
Commit(r) ==
    /\ stage[r] = "inserted"
    /\ stage' = [stage EXCEPT ![r] = "committed"]
    /\ commits' = commits + 1
    /\ pos' = [pos EXCEPT ![r] = commits + 1]
    /\ UNCHANGED <<prev, id, nextId, seen>>

\* The handler raises, or the process stops, before the commit: closing the
\* session rolls back, and the sequence value is lost.
Fail(r) ==
    /\ stage[r] \in {"running", "read", "inserted"}
    /\ stage' = [stage EXCEPT ![r] = "failed"]
    /\ UNCHANGED <<prev, id, nextId, seen, pos, commits>>

Next == \E r \in Requests : ReadTip(r) \/ Insert(r) \/ Commit(r) \/ Fail(r)

Spec == Init /\ [][Next]_vars

-----------------------------------------------------------------------------
\* The domains of the state: ids lie below the sequence, what a request has
\* seen and its place in the order of commits do not exceed the commits.
TypeOK ==
    /\ stage \in [Requests -> Stages]
    /\ prev \in [Requests -> Nat]
    /\ nextId \in Nat \ {0}
    /\ id \in [Requests -> 0..(nextId - 1)]
    /\ commits \in Nat
    /\ seen \in [Requests -> 0..commits]
    /\ pos \in [Requests -> 0..commits]

(* No link dangles and none points forward: a committed record names no    *)
(* predecessor, or a committed record with a smaller id, although ids are  *)
(* handed out before the commit and the transactions that took them may    *)
(* commit in any order, or never (audit.py append_audit).                  *)
LinksResolve ==
    \A r \in Committed :
        prev[r] = 0 \/ \E s \in Committed : id[s] = prev[r] /\ id[s] < id[r]

(* Two records share a predecessor only when their requests overlapped:    *)
(* each read the tip before the other committed.  So a request that starts *)
(* after another has answered always links behind it (audit.py             *)
(* _latest_hash, append_audit).                                            *)
ForksOnlyFromOverlap ==
    \A r, s \in Committed :
        r # s /\ prev[r] = prev[s] => seen[r] < pos[s] /\ seen[s] < pos[r]

(* A later record descends from every earlier one: nothing lies between a  *)
(* record and the predecessor it names.  The docstring of audit.py says    *)
(* so ("altering any past record breaks every link after it"), and it      *)
(* fails when two requests overlap.                                        *)
EveryLaterLinkDepends ==
    \A r, s \in Committed : id[r] < id[s] => prev[s] >= id[r]

-----------------------------------------------------------------------------
(* The table implements the append-only tree.                              *)
Table == {[id |-> id[r], prev |-> prev[r]] : r \in Committed}

Tree == INSTANCE AppendOnlyTree WITH records <- Table

TreeSpec == Tree!Spec

(***************************************************************************)
(* The inductive invariant behind the properties: ids in use lie below the *)
(* sequence and are distinct; what a request has read is a visible record, *)
(* below any id it will be given; and every record committed before a      *)
(* request read the tip has an id no greater than that tip.                *)
(***************************************************************************)
Inserted == {r \in Requests : id[r] # 0}

IdsFromSequence ==
    /\ \A r, s \in Inserted : id[r] = id[s] => r = s
    /\ \A r \in Requests : stage[r] \in {"inserted", "committed"} => id[r] # 0
    /\ \A r \in Requests : stage[r] \in {"running", "read"} => id[r] = 0

TipsAreVisible ==
    \A r \in Requests :
        /\ prev[r] # 0 => \E s \in Committed : id[s] = prev[r]
        /\ id[r] # 0 => prev[r] < id[r]
        /\ prev[r] < nextId

TipsAreLatest ==
    \A r \in Requests : stage[r] # "running" /\ stage[r] # "failed" =>
        \A s \in Committed : pos[s] <= seen[r] => id[s] <= prev[r]

CommitsAreCounted == \A r \in Committed : pos[r] # 0

IInv == TypeOK /\ IdsFromSequence /\ TipsAreVisible /\ TipsAreLatest /\ CommitsAreCounted
=============================================================================
