---------------------------- MODULE Invitations ----------------------------
(***************************************************************************)
(* Invitations of people who have no account: minted and mailed by         *)
(* invite_member (routers/team.py), looked up and consumed by accept       *)
(* (routers/invitations.py, invitations.py).  Together with Team, whose    *)
(* requests run at the same time on the same membership rows.              *)
(*                                                                         *)
(* The mail leaves before the transaction that holds the invitation        *)
(* commits, and accept trusts a lookup made before it registers the user.  *)
(***************************************************************************)
EXTENDS Team

CONSTANTS
    MaxInvites      \* bound: invitations minted

ASSUME MaxInvitesIsNatural == MaxInvites \in Nat

VARIABLES
    minted,     \* how many tokens have been minted
    invites,    \* committed invitations, by token number
    outbox,     \* tokens that have been mailed
    expired     \* tokens whose expires_at has passed

invVars == <<minted, invites, outbox, expired>>
vars == <<teamVars, invVars>>

\* A user who is being registered: the unique index on app_user.email makes a
\* second insert wait for the first transaction.
HoldsEmail(x, u) == x.op = "accept" /\ x.stage = "commit" /\ x.target = u

-----------------------------------------------------------------------------
\* invite_member: mint, flush, mail; the record and the commit are to come.
Invite(w) ==
    LET x == txn[w]
    IN  /\ x.stage = "check" /\ x.op = "invite"
        /\ \/ /\ x.target \in accounts                                    \* 409
              /\ End(w)
              /\ UNCHANGED <<minted, outbox>>
           \/ /\ x.target \notin accounts
              /\ minted' = minted + 1
              /\ outbox' = outbox \cup {minted + 1}
              /\ txn' = [txn EXCEPT ![w] = [@ EXCEPT !.stage = "commit", !.invite = minted + 1]]
        /\ UNCHANGED <<teamDb, requests, failures, invites, expired>>

CommitInvite(w) ==
    LET x == txn[w]
    IN  /\ x.stage = "commit" /\ x.op = "invite"
        /\ invites' = [i \in DOMAIN invites \cup {x.invite} |->
              IF i # x.invite THEN invites[i]
              ELSE [email |-> x.target, admin |-> x.flag, consumed |-> FALSE]]
        /\ member' = [u \in Users |-> RowSeen(x, u)]
        /\ trail' = Append(trail, RecordOf(x))
        /\ End(w)
        /\ UNCHANGED <<accounts, nextKey, requests, failures, minted, outbox, expired>>

\* A mailed token comes back.
BeginAccept(w, i) ==
    /\ txn[w].stage = "idle"
    /\ requests < MaxRequests
    /\ requests' = requests + 1
    /\ txn' = [txn EXCEPT ![w] = [Idle EXCEPT !.stage = "lookup", !.op = "accept",
                                                       !.invite = i]]
    /\ UNCHANGED <<teamDb, failures, invVars>>

\* find_active_invitation
Active(i) == i \in DOMAIN invites /\ ~invites[i].consumed /\ i \notin expired

\* _require_invitation (410), then the SELECT for an account (409).
Lookup(w) ==
    LET i == txn[w].invite
    IN  /\ txn[w].stage = "lookup"
        /\ IF Active(i) /\ invites[i].email \notin accounts
           THEN txn' = [txn EXCEPT ![w] = [@ EXCEPT !.stage = "register", !.seen = Len(trail),
                           !.actor = invites[i].email, !.target = invites[i].email,
                           !.flag = invites[i].admin]]
           ELSE End(w)
        /\ UNCHANGED <<teamDb, requests, failures, invVars>>

\* Faulty variant: the insert of the user relies on the SELECT alone.
RegisterUnchecked(w) ==
    /\ txn[w].stage = "register"
    /\ txn' = [txn EXCEPT ![w].stage = "commit"]
    /\ UNCHANGED <<teamDb, requests, failures, invVars>>

\* INSERT of the user, of its membership, and the UPDATE of consumed_at.
Register(w) ==
    LET x == txn[w]
    IN  /\ x.stage = "register"
        /\ \A v \in Workers \ {w} : ~HoldsEmail(txn[v], x.target)
        /\ IF x.target \in accounts THEN End(w)                           \* 500
           ELSE txn' = [txn EXCEPT ![w].stage = "commit"]
        /\ UNCHANGED <<teamDb, requests, failures, invVars>>

CommitAccept(w) ==
    LET x == txn[w]
    IN  /\ x.stage = "commit" /\ x.op = "accept"
        /\ accounts' = accounts \cup {x.target}
        /\ member' = [member EXCEPT ![x.target] = [key |-> nextKey, admin |-> x.flag]]
        /\ nextKey' = nextKey + 1
        /\ invites' = [invites EXCEPT ![x.invite].consumed = TRUE]
        /\ trail' = Append(trail, RecordOf(x))
        /\ End(w)
        /\ UNCHANGED <<requests, failures, minted, outbox, expired>>

\* invitation_ttl_minutes pass.
Expire(i) ==
    /\ i \in DOMAIN invites \ expired
    /\ expired' = expired \cup {i}
    /\ UNCHANGED <<teamVars, minted, invites, outbox>>

\* Some invitations are out already.
Init ==
    /\ TeamInit
    /\ minted \in 0 .. MaxInvites
    /\ invites \in [1 .. minted -> [email : Users \ accounts, admin : BOOLEAN, consumed : {FALSE}]]
    /\ outbox = 1 .. minted
    /\ expired = {}

\* Requests that may still mint a token, and the tokens minted: the bound.
Minting == minted + Cardinality({w \in Workers : txn[w].op = "invite"
                                                 /\ txn[w].stage \in {"authorize", "check"}})

InviteStep(w) == Invite(w) \/ CommitInvite(w) \/ Lookup(w) \/ Register(w) \/ CommitAccept(w)

Next ==
    \/ TeamNext /\ UNCHANGED invVars
    \/ \E w \in Workers :
          \/ \E actor, target \in Users, flag \in BOOLEAN :
                /\ Minting < MaxInvites
                /\ Authenticate(w, "invite", actor, target, flag)
                /\ UNCHANGED invVars
          \/ InviteStep(w)
          \/ \E i \in outbox : BeginAccept(w, i)
    \/ \E i \in outbox : Expire(i)

Spec == Init /\ [][Next]_vars

-----------------------------------------------------------------------------
\* An email gets its account through one invitation at most, however many were
\* sent to it and however many are accepted at once (accept, and the unique
\* index behind it); and a consumed invitation has made its member.
OneInvitationPerAccount ==
    /\ \A i, j \in DOMAIN invites :
          invites[i].consumed /\ invites[j].consumed /\ invites[i].email = invites[j].email
             => i = j
    /\ \A i \in DOMAIN invites :
          invites[i].consumed =>
             /\ invites[i].email \in accounts
             /\ \E t \in DOMAIN trail : /\ trail[t].action = "invitation_accepted"
                                       /\ trail[t].subject = invites[i].email
                                       /\ trail[t].flag = invites[i].admin

\* Two members or more and nobody to administer them: none is an admin, no
\* request has been admitted or comes from a platform admin who was a member,
\* no invitation that makes an admin can be used.
LockedOut ==
    /\ Cardinality(Members) >= 2
    /\ \A u \in Members : ~IsAdmin(u)
    /\ \A i \in DOMAIN invites : Active(i) => ~invites[i].admin
    /\ \A w \in Workers :
          \/ txn[w].stage \in {"idle", "lookup"}
          \/ txn[w].stage = "authorize" /\ txn[w].actor \notin PlatformAdmins
          \/ txn[w].op = "accept" /\ ~txn[w].flag

\* update_member lets the last admin give the right up, and then nothing the
\* members do brings an admin back: the bootstrap is for sole members only.
LockedOutIsForever == [][LockedOut => LockedOut']_vars
=============================================================================
