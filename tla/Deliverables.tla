---------------------------- MODULE Deliverables -----------------------------
(***************************************************************************)
(* Projects, their evaluations and what is made of them                    *)
(* (services/api/ipermit_api/routers/projects.py, routers/uploads.py,      *)
(* routers/usage.py, usage.py, storage.py and the write of evaluate.py).   *)
(* Requests run at the same time, each in a transaction of its own: it     *)
(* reads what others have committed, its writes appear together when it    *)
(* commits, and a failure leaves none of them.  Only the object store is   *)
(* outside the transaction.  What an evaluation contains is the subject of *)
(* module Evaluation, whether an export is paid for of Entitlement.        *)
(***************************************************************************)
EXTENDS Platform, Naturals, FiniteSets

CONSTANTS
    Worker,          \* requests the platform runs at the same time
    MaxRequests,     \* bound: requests admitted
    MaxFailures      \* bound: requests that fail

VARIABLES
    (* committed *)
    projects, evaluations, usage, trail,
    blobs,           \* the object store
    request,         \* the request each worker runs
    moment,          \* the wall clock: every step that reads it advances it
    admitted, failed

committed == <<projects, evaluations, usage, trail>>
deliverablesVars == <<committed, blobs, request, moment, admitted, failed>>

Kinds == {"create", "evaluate", "export", "upload", "matrix"}

Idle == [stage |-> "idle"]

\* The first tenant has a project; the others have none.
First == CHOOSE t \in Tenant : TRUE

DeliverablesInit ==
    /\ projects = {[project |-> 0, tenant |-> First]}
    /\ evaluations = {} /\ usage = {} /\ trail = {} /\ blobs = {}
    /\ request = [w \in Worker |-> Idle]
    /\ moment = 0 /\ admitted = 0 /\ failed = 0

-----------------------------------------------------------------------------
(* Queries                                                                 *)

\* Faulty variant: the project is found by its id alone.
LoadUnscoped(t, p) == \E row \in projects : row.project = p

\* _load_project: another tenant's project is not found.
_load_project(t, p) == [project |-> p, tenant |-> t] \in projects

\* list_projects
Listed(t) == {row \in projects : row.tenant = t}

\* list_evaluations, whatever their order.
History(t, p) == {e \in evaluations : e.project = p /\ e.tenant = t}

\* Faulty variant: the order is ascending.
Oldest(rows) == CHOOSE e \in rows : \A f \in rows : e.created_at <= f.created_at

\* The first of order_by(created_at.desc()).
Newest(rows) == CHOOSE e \in rows : \A f \in rows : f.created_at <= e.created_at

_latest_evaluation(t, p) == IF History(t, p) = {} THEN None ELSE Newest(History(t, p))

\* get_evaluation
Evaluated(t, p, id) == {e \in evaluations : e.id = id /\ e.project = p /\ e.tenant = t}

\* get_period_summary over [start, end).
Summary(t, metric, start, end) ==
    Cardinality({u \in usage : u.tenant = t /\ u.metric = metric
                               /\ u.occurred_at >= start /\ u.occurred_at < end})

-----------------------------------------------------------------------------
(* Requests                                                                *)

\* The project is created by the request and has its number.
Admit(w, kind, t, p) ==
    /\ request[w] = Idle
    /\ admitted < MaxRequests
    /\ kind = "create" => p = admitted + 1
    /\ kind # "create" => _load_project(t, p)
    /\ admitted' = admitted + 1
    /\ moment' = moment + 1
    /\ request' = [request EXCEPT ![w] =
          [stage |-> "work", kind |-> kind, id |-> admitted + 1, tenant |-> t, project |-> p,
           began |-> moment, at |-> None, got |-> None]]
    /\ UNCHANGED <<committed, blobs, failed>>

\* LocalObjectStorage.put: a file under a key of its own.
put(key) == blobs \cup {key}

\* The flush of an evaluation or a usage record, or the put of a file, by the clock.
Flush(w) ==
    /\ request[w].stage = "work" /\ request[w].kind \in {"create", "evaluate", "upload"}
    /\ request' = [request EXCEPT ![w].stage = "commit", ![w].at = moment]
    /\ moment' = moment + 1
    /\ blobs' = IF request[w].kind = "upload" THEN put(request[w].id) ELSE blobs
    /\ UNCHANGED <<committed, admitted, failed>>

\* get_matrix, and export_matrix_endpoint up to its usage record.
ReadLatest(w) ==
    LET r == request[w]
        e == _latest_evaluation(r.tenant, r.project)
    IN  /\ r.stage = "work" /\ r.kind \in {"export", "matrix"}
        /\ request' = [request EXCEPT ![w] =
              IF e = None THEN Idle              \* 404
              ELSE [r EXCEPT !.stage = IF r.kind = "export" THEN "commit" ELSE "answer",
                             !.at = moment, !.got = e]]
        /\ moment' = moment + 1
        /\ UNCHANGED <<committed, blobs, admitted, failed>>

Row(r) == [id |-> r.id, tenant |-> r.tenant, project |-> r.project, began |-> r.began,
           created_at |-> r.at, committed |-> moment]

Metered(r, metric) == [id |-> r.id, tenant |-> r.tenant, metric |-> metric, occurred_at |-> r.at]

Audited(r, action, subject) == [id |-> r.id, tenant |-> r.tenant, action |-> action, subject |-> subject]

CommitProject(r) ==
    /\ r.kind = "create"
    /\ projects' = projects \cup {[project |-> r.project, tenant |-> r.tenant]}
    /\ trail' = trail \cup {Audited(r, "project.created", r.project)}
    /\ UNCHANGED <<evaluations, usage>>

CommitEvaluation(r) ==
    /\ r.kind = "evaluate"
    /\ evaluations' = evaluations \cup {Row(r)}
    /\ usage' = usage \cup {Metered(r, "evaluation")}
    /\ trail' = trail \cup {Audited(r, "project.evaluated", r.id)}
    /\ UNCHANGED projects

CommitExport(r) ==
    /\ r.kind = "export"
    /\ usage' = usage \cup {Metered(r, "export")}
    /\ trail' = trail \cup {Audited(r, "matrix.exported", r.got.id)}
    /\ UNCHANGED <<projects, evaluations>>

CommitUpload(r) ==
    /\ r.kind = "upload"
    /\ trail' = trail \cup {Audited(r, "footprint.uploaded", r.id)}
    /\ UNCHANGED <<projects, evaluations, usage>>

\* The audit record is appended and the transaction commits.
Commit(w) ==
    LET r == request[w]
    IN  /\ r.stage = "commit"
        /\ CommitProject(r) \/ CommitEvaluation(r) \/ CommitExport(r) \/ CommitUpload(r)
        /\ request' = [request EXCEPT ![w] = [r EXCEPT !.stage = "answer"]]
        /\ moment' = moment + 1
        /\ UNCHANGED <<blobs, admitted, failed>>

Answer(w) ==
    /\ request[w].stage = "answer"
    /\ request' = [request EXCEPT ![w] = Idle]
    /\ UNCHANGED <<committed, blobs, moment, admitted, failed>>

\* The statement, the commit or the process fails: the session closes.
Fail(w) ==
    /\ request[w].stage \in {"work", "commit"}
    /\ failed < MaxFailures
    /\ failed' = failed + 1
    /\ request' = [request EXCEPT ![w] = Idle]
    /\ UNCHANGED <<committed, blobs, moment, admitted>>

DeliverablesNext ==
    \E w \in Worker :
        \/ \E kind \in Kinds, t \in Tenant, p \in 0..MaxRequests : Admit(w, kind, t, p)
        \/ Flush(w) \/ ReadLatest(w) \/ Commit(w) \/ Answer(w) \/ Fail(w)

DeliverablesSpec == DeliverablesInit /\ [][DeliverablesNext]_deliverablesVars

-----------------------------------------------------------------------------
(* Hazard: "latest" is by a time taken at the flush, and commits come in   *)
(* another order (projects.py:185).  An evaluation served as the latest is *)
(* passed over no evaluation that began after it was committed and was     *)
(* itself committed before the read: only overlapping evaluations can be   *)
(* served in another order than that of their commits.                     *)
LatestUnlessOverlapped ==
    \A w \in Worker :
        request[w] # Idle /\ request[w].got # None =>
            \A e \in evaluations :
                e.project = request[w].project /\ e.committed < request[w].at =>
                    ~ e.began > request[w].got.committed

(* Hazard: a request writes several records and a file, and fails in       *)
(* between (uploads.py:96).  Whatever overlaps and fails: each evaluation  *)
(* and each export is metered and audited, within its tenant; an audited   *)
(* file is in the store, and a file nobody names was left by a request     *)
(* that failed or is running; two consecutive billing periods together     *)
(* bill every evaluation once.                                             *)
RecordsAgree ==
    LET Trailed(action) == {[id |-> a.id, tenant |-> a.tenant] : a \in {b \in trail : b.action = action}}
        Used(metric) == {[id |-> u.id, tenant |-> u.tenant] : u \in {v \in usage : v.metric = metric}}
        Subjects(action) == {a.subject : a \in {b \in trail : b.action = action}}
        Running == {request[w].id : w \in {v \in Worker : request[v] # Idle}}
    IN  /\ Trailed("project.evaluated") = Used("evaluation")
        /\ Used("evaluation") = {[id |-> e.id, tenant |-> e.tenant] : e \in evaluations}
        /\ Trailed("matrix.exported") = Used("export")
        /\ \A a \in trail : a.action = "matrix.exported" =>
             \E e \in evaluations : e.id = a.subject /\ e.tenant = a.tenant
        /\ \A e \in evaluations :
             /\ e.project \in {row.project : row \in Listed(e.tenant)}
             /\ Evaluated(e.tenant, e.project, e.id) = {e}
        /\ Subjects("footprint.uploaded") \subseteq blobs
        /\ Cardinality((blobs \ Subjects("footprint.uploaded")) \ Running) <= failed
        /\ \A t \in Tenant, month \in 0..moment :
             Summary(t, "evaluation", 0, month) + Summary(t, "evaluation", month, moment)
                 = Cardinality({e \in evaluations : e.tenant = t})
=============================================================================
