-------------------------------- MODULE Team --------------------------------
(***************************************************************************)
(* The members of one tenant and the requests that change them: add,       *)
(* update and remove (services/api/ipermit_api/routers/team.py), with the  *)
(* identity that auth.py resolves from the database for each request.      *)
(*                                                                         *)
(* Requests run concurrently, each in a READ COMMITTED transaction without *)
(* explicit locks: every SELECT sees what is committed at that moment, a   *)
(* write addresses the row it was loaded from by primary key, and from the *)
(* write to the commit that row is locked.                                 *)
(***************************************************************************)
EXTENDS Naturals, Sequences, FiniteSets, TLC

CONSTANTS
    Users,          \* people, by the email they have or may get an account for
    PlatformAdmins, \* users whose platform role is platform_admin
    Workers,        \* requests served at once
    None,           \* no membership row, no user
    MaxRequests,    \* bound: requests served in all
    MaxFailures     \* bound: requests that fail for reasons of their own

\* A membership row: its primary key and is_team_admin.
Membership == [key : Nat, admin : BOOLEAN]

ASSUME TeamAssumption ==
    /\ PlatformAdmins \subseteq Users
    /\ IsFiniteSet(Users)
    /\ None \notin Users
    /\ None \notin Membership

VARIABLES
    accounts,   \* users with an account
    member,     \* committed Membership rows of the tenant, by user
    nextKey,    \* next primary key of a membership row
    trail,      \* committed audit records, in commit order
    txn,        \* the request each worker runs
    requests, failures

teamDb == <<accounts, member, nextKey, trail>>
teamVars == <<teamDb, txn, requests, failures>>

Members == {u \in Users : member[u] # None}

(* A request.  row: the membership row loaded for the target; promoted:    *)
(* the caller's row carries an uncommitted admin flag; invite: the         *)
(* invitation it is about, or 0; seen (history): how many transactions had *)
(* committed when the request was admitted.                                *)
Request(u) == [stage |-> "idle", op |-> "add", actor |-> u, target |-> u, flag |-> FALSE,
            row |-> None, promoted |-> FALSE, invite |-> 0, seen |-> 0]

Idle == Request(None)

End(w) == txn' = [txn EXCEPT ![w] = Idle]

-----------------------------------------------------------------------------
(* Row locks: what a transaction has written and not committed.            *)

Changes(x) ==
    CASE x.op = "add"    -> TRUE
      [] x.op = "update" -> x.row.admin # x.flag
      [] x.op = "remove" -> TRUE
      [] OTHER           -> FALSE

\* Faulty variant: the caller's row is read FOR UPDATE.
HoldsRowFromRead(x, u) ==
    x.stage \in {"check", "write", "commit"} /\ (x.actor = u \/ x.target = u)

HoldsRow(x, u) ==
    \/ x.promoted /\ x.actor = u
    \/ /\ x.stage = "commit" /\ x.target = u /\ Changes(x)
       /\ x.op = "add" \/ (u \in Members /\ member[u].key = x.row.key)

Free(w, u) == \A v \in Workers \ {w} : ~HoldsRow(txn[v], u)

-----------------------------------------------------------------------------
\* get_current_identity and _require_tenant: only a member gets further.
Authenticate(w, op, actor, target, flag) ==
    /\ txn[w].stage = "idle"
    /\ requests < MaxRequests
    /\ actor \in Members
    /\ txn' = [txn EXCEPT ![w] = [Request(actor) EXCEPT !.stage = "authorize", !.op = op,
                                         !.target = target, !.flag = flag]]
    /\ requests' = requests + 1
    /\ UNCHANGED <<teamDb, failures>>

IsAdmin(u) == u \in PlatformAdmins \/ (u \in Members /\ member[u].admin)

\* Faulty variant: being a member of the tenant is enough.
AuthorizeMembers(w) ==
    /\ txn[w].stage = "authorize"
    /\ IF txn[w].actor \in Members
       THEN txn' = [txn EXCEPT ![w].stage = "check", ![w].seen = Len(trail)] ELSE End(w)
    /\ UNCHANGED <<teamDb, requests, failures>>

\* Faulty variant: bootstrap for up to two members.
AuthorizeCouple(w) ==
    LET u == txn[w].actor
        bootstrap == u \in Members /\ Cardinality(Members) <= 2
    IN  /\ txn[w].stage = "authorize"
        /\ IF IsAdmin(u) \/ (bootstrap /\ Free(w, u))
           THEN txn' = [txn EXCEPT ![w].stage = "check", ![w].seen = Len(trail),
                                   ![w].promoted = ~IsAdmin(u)]
           ELSE End(w)
        /\ UNCHANGED <<teamDb, requests, failures>>

\* _require_team_admin; a sole member is promoted, and that UPDATE flushed.
Authorize(w) ==
    LET u == txn[w].actor
        sole == u \in Members /\ Cardinality(Members) <= 1
    IN  /\ txn[w].stage = "authorize"
        /\ \/ /\ IsAdmin(u)
              /\ txn' = [txn EXCEPT ![w].stage = "check", ![w].seen = Len(trail)]
           \/ /\ ~IsAdmin(u) /\ sole
              /\ Free(w, u)
              /\ txn' = [txn EXCEPT ![w].stage = "check", ![w].seen = Len(trail),
                                    ![w].promoted = TRUE]
           \/ /\ ~IsAdmin(u) /\ ~sole                                     \* 403
              /\ End(w)
        /\ UNCHANGED <<teamDb, requests, failures>>

\* The row of u as x sees it: the committed one under its own changes.
RowSeen(x, u) ==
    IF x.promoted /\ u = x.actor /\ member[u] # None
    THEN [member[u] EXCEPT !.admin = TRUE] ELSE member[u]

\* Faulty variant: the last member is not protected.
RefusedUncounted(x) ==
    \/ x.op = "add" /\ (x.target \notin accounts \/ x.target \in Members)
    \/ x.op \in {"update", "remove"} /\ x.target \notin Members

\* The preconditions of add, update and remove.
Refused(x) ==
    \/ x.op = "add" /\ (x.target \notin accounts \/ x.target \in Members)  \* 404, 409
    \/ x.op \in {"update", "remove"} /\ x.target \notin Members            \* 404
    \/ x.op = "remove" /\ Cardinality(Members) <= 1                        \* 409

\* The SELECTs of add_member, update_member and remove_member.
Check(w) ==
    LET x == txn[w]
    IN  /\ x.stage = "check" /\ x.op \in {"add", "update", "remove"}
        /\ IF Refused(x) THEN End(w)
           ELSE txn' = [txn EXCEPT ![w] = [@ EXCEPT !.stage = "write",
                                             !.row = RowSeen(x, x.target)]]
        /\ UNCHANGED <<teamDb, requests, failures>>

(* The INSERT, UPDATE or DELETE.  An insert of a row someone else inserted *)
(* violates unique (user_id, tenant_id), an update of a row that is gone   *)
(* finds nothing and raises; a delete of a row that is gone is only a      *)
(* warning.                                                                *)
Write(w) ==
    LET x == txn[w]
        gone == member[x.target] = None \/ member[x.target].key # x.row.key
    IN  /\ x.stage = "write"
        /\ Changes(x) => Free(w, x.target)
        /\ IF \/ x.op = "add" /\ member[x.target] # None
              \/ x.op = "update" /\ Changes(x) /\ gone
           THEN End(w)                                                   \* 500
           ELSE txn' = [txn EXCEPT ![w].stage = "commit"]
        /\ UNCHANGED <<teamDb, requests, failures>>

\* Faulty variant: a removal clears the flag and keeps the row.
RowAfterKept(x, u) ==
    LET row == RowSeen(x, u)
    IN  IF u # x.target THEN row ELSE
        CASE x.op = "add" -> [key |-> nextKey, admin |-> x.flag]
          [] x.op \in {"update", "remove"} /\ row # None -> [row EXCEPT !.admin = x.flag]
          [] OTHER -> row

\* The row of u after x commits, given the row that is committed now.
RowAfter(x, u) ==
    LET row == RowSeen(x, u)
    IN  IF u # x.target THEN row ELSE
        CASE x.op = "add"                    -> [key |-> nextKey, admin |-> x.flag]
          [] x.op = "update" /\ Changes(x)   -> [row EXCEPT !.admin = x.flag]
          [] x.op = "remove" /\ row # None /\ row.key = x.row.key -> None
          [] OTHER                           -> row

ActionOf(op) ==
    CASE op = "add" -> "member_added" [] op = "update" -> "member_role_changed"
      [] op = "remove" -> "member_removed" [] op = "invite" -> "member_invited"
      [] OTHER -> "invitation_accepted"

RecordOf(x) == [action |-> ActionOf(x.op), actor |-> x.actor, subject |-> x.target,
                flag |-> x.flag, seen |-> x.seen]

\* append_audit and session.commit().
Commit(w) ==
    LET x == txn[w]
    IN  /\ x.stage = "commit" /\ x.op \in {"add", "update", "remove"}
        /\ member' = [u \in Users |-> RowAfter(x, u)]
        /\ nextKey' = IF x.op = "add" THEN nextKey + 1 ELSE nextKey
        /\ trail' = Append(trail, RecordOf(x))
        /\ End(w)
        /\ UNCHANGED <<accounts, requests, failures>>

\* A handler raises or a process stops: the transaction is rolled back.
Fail(w) ==
    /\ txn[w].stage # "idle"
    /\ failures < MaxFailures
    /\ failures' = failures + 1
    /\ End(w)
    /\ UNCHANGED <<teamDb, requests>>

\* Tenants and first members are provisioned outside the API.
TeamInit ==
    /\ \E regd \in {S \in SUBSET Users : PlatformAdmins \subseteq S}, admin \in [Users -> BOOLEAN] :
          \E first \in (SUBSET regd) \ {{}} :
             /\ accounts = regd
             /\ \A u \in Users : u \notin first => ~admin[u]
             /\ member = [u \in Users |-> IF u \in first THEN [key |-> 0, admin |-> admin[u]]
                                          ELSE None]
    /\ nextKey = 1
    /\ trail = <<>>
    /\ txn = [w \in Workers |-> Idle]
    /\ requests = 0
    /\ failures = 0

Step(w) == Authorize(w) \/ Check(w) \/ Write(w) \/ Commit(w)

TeamNext ==
    \E w \in Workers :
        \/ \E op \in {"add", "update", "remove"}, actor, target \in Users, flag \in BOOLEAN :
              Authenticate(w, op, actor, target, flag)
        \/ Step(w)
        \/ Fail(w)

-----------------------------------------------------------------------------
\* remove_member, "team admin only; not the last member" (team.py:255): the
\* last member of a tenant stays.
LastMemberStays == Members # {}

\* The count that protects the last member is read before the delete, so two
\* removals can both pass it; that is the only way a tenant loses everybody:
\* two removals, one admitted before the other committed.
EmptyOnlyAfterOverlap ==
    Members = {} =>
        \E t \in DOMAIN trail : \E s \in 1 .. (t - 1) :
           /\ trail[s].action = "member_removed"
           /\ trail[t].action = "member_removed"
           /\ trail[t].seen < s

\* The request whose commit this step is, by the record it appends.
NewRecord == trail'[Len(trail')]

\* The sole member's own row, promoted by the request that is committing.
Promotion(u) ==
    /\ u = NewRecord.actor
    /\ member[u].key = member'[u].key
    /\ ~member[u].admin /\ member'[u].admin

\* What a step does to the rows is what its audit record says: a row appears,
\* disappears or changes its flag only with a record that names it and the
\* flag it gets.  The one change without a record of its own is the promotion
\* of the actor that was the sole member.
ChangesAreTrailed ==
    [][\A u \in Users : member'[u] # member[u] =>
          /\ Len(trail') = Len(trail) + 1
          /\ LET r == NewRecord IN
             \/ /\ r.subject = u
                /\ CASE member[u] = None ->
                          /\ r.action \in {"member_added", "invitation_accepted"}
                          /\ member'[u].admin = r.flag
                     [] member'[u] = None -> r.action = "member_removed"
                     [] OTHER -> /\ r.action = "member_role_changed"
                                 /\ member'[u].key = member[u].key
                                 /\ member'[u].admin = r.flag
             \/ Promotion(u)]_teamVars

\* The rights of the actor were taken away by a record after the first n.
RevokedSince(u, n) ==
    \E t \in (n + 1) .. Len(trail) :
       /\ trail[t].subject = u
       /\ \/ trail[t].action = "member_removed"
          \/ trail[t].action = "member_role_changed" /\ ~trail[t].flag

\* Only a team admin, a platform admin or a sole member who becomes one changes
\* the team (_require_team_admin); a right that was revoked is used only by a
\* request that had been admitted before the revocation committed.
AdminsDecide ==
    [][Len(trail') > Len(trail) /\ NewRecord.action # "invitation_accepted" =>
          \/ IsAdmin(NewRecord.actor)
          \/ \E w \in Workers : txn[w].promoted /\ txn[w].actor = NewRecord.actor
          \/ RevokedSince(NewRecord.actor, NewRecord.seen)]_teamVars

\* w waits for a row that v has written.
WaitsFor(w, v) ==
    \/ /\ txn[w].stage = "write" /\ Changes(txn[w])
       /\ HoldsRow(txn[v], txn[w].target)
    \/ /\ txn[w].stage = "authorize" /\ ~IsAdmin(txn[w].actor)
       /\ Members = {txn[w].actor}
       /\ HoldsRow(txn[v], txn[w].actor)

\* Requests lock rows in the order the handlers write them (the caller's own,
\* if promoted, then the target's); still no two of them ever wait for each
\* other.
NoStandoff == \A v, w \in Workers : v # w => ~(WaitsFor(v, w) /\ WaitsFor(w, v))
=============================================================================
