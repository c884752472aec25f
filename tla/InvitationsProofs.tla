------------------------- MODULE InvitationsProofs ---------------------------
(***************************************************************************)
(* Proofs about Team and Invitations for any users, workers and number of  *)
(* requests.  A commit does one of five things to a membership row; what   *)
(* another request has checked survives each of them, or the audit trail   *)
(* shows what it did not survive.                                          *)
(***************************************************************************)
EXTENDS Invitations, FiniteSetTheorems, SequenceTheorems, TLAPS

Stages == {"idle", "authorize", "check", "write", "commit", "lookup", "register"}
Ops == {"add", "update", "remove", "invite", "accept"}

AnyRequest == [stage : Stages, op : Ops, actor : Users \cup {None}, target : Users \cup {None},
               flag : BOOLEAN, row : Membership \cup {None}, promoted : BOOLEAN,
               invite : Nat, seen : Nat]

AuditRecord == [action : {"member_added", "member_role_changed", "member_removed",
                          "member_invited", "invitation_accepted"},
                actor : Users, subject : Users, flag : BOOLEAN, seen : Nat]

Invitation == [email : Users, admin : BOOLEAN, consumed : BOOLEAN]

TypeOK ==
    /\ accounts \subseteq Users
    /\ member \in [Users -> Membership \cup {None}]
    /\ nextKey \in Nat
    /\ trail \in Seq(AuditRecord)
    /\ txn \in [Workers -> AnyRequest]
    /\ minted \in Nat
    /\ DOMAIN invites \subseteq 1..minted
    /\ invites \in [DOMAIN invites -> Invitation]
    /\ outbox \subseteq Nat

-----------------------------------------------------------------------------

\* Where a request of each kind can be, and the people it is about.
StagesOK(x) ==
    /\ x.stage \in {"authorize", "check", "write"} => x.op # "accept"
    /\ x.stage = "write" => x.op # "invite"
    /\ x.stage \in {"lookup", "register"} => x.op = "accept"
    /\ x.stage \in {"authorize", "check", "write", "register", "commit"} =>
          x.actor \in Users /\ x.target \in Users

Admitted(x) == x.stage \in {"check", "write", "commit"} /\ x.op # "accept"

\* A promoted caller is still a member.
PromotedOK(x) == x.promoted => Admitted(x) /\ x.actor \in Members

\* What has been checked of the target, and what a row lock keeps that way.
TargetOK(x) ==
    /\ x.op = "add" /\ x.stage \in {"write", "commit"} => x.target \in accounts
    /\ x.op = "add" /\ x.stage = "commit" => member[x.target] = None
    /\ x.op \in {"update", "remove"} /\ x.stage \in {"write", "commit"} =>
          x.row \in Membership /\ x.row.key < nextKey
    /\ x.op = "update" /\ x.stage = "commit" /\ Changes(x) =>
          x.target \in Members /\ member[x.target].key = x.row.key

\* The caller's rights, or the record that took them away.
RightsOK(x) ==
    Admitted(x) =>
        /\ x.seen <= Len(trail)
        /\ IsAdmin(x.actor) \/ x.promoted \/ RevokedSince(x.actor, x.seen)

Several == \E u, v \in Members : u # v

RemovedSince(n) ==
    \E s \in 1..Len(trail) : trail[s].action = "member_removed" /\ n < s

\* Who is to be removed is not the last member, or was not when it was checked.
RemovalOK(x) ==
    x.op = "remove" /\ x.stage \in {"write", "commit"} => Several \/ RemovedSince(x.seen)

\* A token of its own, and an invitation as it was looked up.
InviteOK(x) ==
    /\ x.op = "invite" /\ x.stage = "commit" => x.invite \in (1..minted) \ DOMAIN invites
    /\ x.op = "accept" /\ x.stage \in {"register", "commit"} =>
          /\ x.invite \in DOMAIN invites
          /\ x.actor = x.target
          /\ invites[x.invite].email = x.target
          /\ invites[x.invite].admin = x.flag
    /\ x.op = "accept" /\ x.stage = "commit" => x.target \notin accounts

RequestOK(x) ==
    /\ StagesOK(x) /\ PromotedOK(x) /\ TargetOK(x)
    /\ RightsOK(x) /\ RemovalOK(x) /\ InviteOK(x)

RequestsOK == \A w \in Workers : RequestOK(txn[w])

\* Two requests hold no row, no email and no token together.
Compatible(x, y) ==
    /\ \A u \in Users : ~(HoldsRow(x, u) /\ HoldsRow(y, u))
    /\ \A u \in Users : ~(HoldsEmail(x, u) /\ HoldsEmail(y, u))
    /\ ~(x.promoted /\ y.promoted)
    /\ x.op = "invite" /\ y.op = "invite" /\ x.stage = "commit" /\ y.stage = "commit" =>
          x.invite # y.invite

Exclusive == \A v, w \in Workers : v # w => Compatible(txn[v], txn[w])

\* Members have accounts, as platform admins do; keys are handed out once.
MembersOK ==
    /\ Members \subseteq accounts /\ PlatformAdmins \subseteq accounts
    /\ \A u \in Members : member[u].key < nextKey

IInv ==
    /\ TypeOK /\ RequestsOK /\ Exclusive /\ MembersOK
    /\ EmptyOnlyAfterOverlap /\ OneInvitationPerAccount

-----------------------------------------------------------------------------

\* An idle worker is a request that has nothing and may be anywhere.
LEMMA IdleIsOK == /\ Idle \in AnyRequest /\ RequestOK(Idle)
                  /\ \A x \in AnyRequest : Compatible(Idle, x)
<1>1. /\ Idle.stage = "idle" /\ Idle.op = "add" /\ ~Idle.promoted
      /\ Idle \in AnyRequest
  BY DEF Idle, Request, AnyRequest, Stages, Ops
<1>2. RequestOK(Idle)
  BY <1>1 DEF RequestOK, StagesOK, PromotedOK, TargetOK, RightsOK, Admitted, RemovalOK, InviteOK
<1>3. \A x \in AnyRequest : Compatible(Idle, x)
  BY <1>1 DEF Compatible, HoldsRow, HoldsEmail
<1>4. QED
  BY <1>1, <1>2, <1>3

\* Whatever the tenant was provisioned with, nothing is under way.
LEMMA InitIInv == Init => IInv
<1> SUFFICES ASSUME Init PROVE IInv
  OBVIOUS
<1>1. PICK regd \in {S \in SUBSET Users : PlatformAdmins \subseteq S},
           admin \in [Users -> BOOLEAN] :
         \E first \in (SUBSET regd) \ {{}} :
            /\ accounts = regd
            /\ \A u \in Users : u \notin first => ~admin[u]
            /\ member = [u \in Users |-> IF u \in first THEN [key |-> 0, admin |-> admin[u]]
                                         ELSE None]
  <2>1. TeamInit
    BY DEF Init
  <2>2. QED
    BY <2>1 DEF TeamInit
<1>2. PICK first \in (SUBSET regd) \ {{}} :
         /\ accounts = regd
         /\ member = [u \in Users |-> IF u \in first THEN [key |-> 0, admin |-> admin[u]]
                                      ELSE None]
  BY <1>1
<1>3. /\ nextKey = 1 /\ trail = <<>> /\ Len(trail) = 0
      /\ txn = [w \in Workers |-> Idle]
      /\ minted \in Nat
      /\ invites \in [1..minted -> [email : Users \ accounts, admin : BOOLEAN,
                                    consumed : {FALSE}]]
      /\ outbox = 1..minted
  <2>1. /\ nextKey = 1 /\ trail = <<>> /\ txn = [w \in Workers |-> Idle]
        /\ outbox = 1..minted /\ minted \in 0..MaxInvites
    BY DEF Init, TeamInit
  <2>2. invites \in [1..minted -> [email : Users \ accounts, admin : BOOLEAN,
                                   consumed : {FALSE}]]
    BY DEF Init
  <2>3. Len(<<>>) = 0
    BY EmptySeq
  <2>4. minted \in Nat
    BY <2>1, MaxInvitesIsNatural
  <2>5. QED
    BY <2>1, <2>2, <2>3, <2>4
<1>4. /\ accounts \subseteq Users /\ PlatformAdmins \subseteq accounts
      /\ member \in [Users -> Membership \cup {None}]
      /\ Members = first
      /\ \A u \in Members : member[u].key = 0
  <2>1. \A u \in Users : [key |-> 0, admin |-> admin[u]] \in Membership
    BY DEF Membership
  <2>2. \A u \in Users : member[u] = IF u \in first THEN [key |-> 0, admin |-> admin[u]]
                                     ELSE None
    BY <1>2
  <2>3. Members = first
    BY <1>2, <2>1, <2>2, TeamAssumption DEF Members
  <2>4. QED
    BY <1>2, <2>1, <2>2, <2>3
<1>5. TypeOK
  <2>1. trail \in Seq(AuditRecord)
    BY <1>3, EmptySeq
  <2>2. txn \in [Workers -> AnyRequest]
    BY <1>3, IdleIsOK
  <2>3. DOMAIN invites = 1..minted /\ invites \in [DOMAIN invites -> Invitation]
    BY <1>3 DEF Invitation
  <2>4. QED
    BY <1>3, <1>4, <2>1, <2>2, <2>3 DEF TypeOK
<1>6. RequestsOK
  BY <1>3, IdleIsOK DEF RequestsOK
<1>7. Exclusive
  BY <1>3, IdleIsOK DEF Exclusive
<1>8. MembersOK
  BY <1>2, <1>3, <1>4 DEF MembersOK
<1>9. EmptyOnlyAfterOverlap /\ OneInvitationPerAccount
  <2>1. \A i \in DOMAIN invites : ~invites[i].consumed
    <3>1. DOMAIN invites = 1..minted
      BY <1>3
    <3>2. QED
      BY <1>3, <3>1
  <2>2. Members # {}
    BY <1>2, <1>4
  <2>3. QED
    BY <2>1, <2>2 DEF EmptyOnlyAfterOverlap, OneInvitationPerAccount
<1>10. QED
  BY <1>5, <1>6, <1>7, <1>8, <1>9 DEF IInv

\* A step that touches one worker's request and no table keeps the invariant,
\* when the request it leaves is in order and compatible with the others.
LEMMA RequestChanges ==
    ASSUME IInv, NEW w \in Workers, NEW y \in AnyRequest,
           txn' = [txn EXCEPT ![w] = y],
           UNCHANGED <<teamDb, minted, invites, outbox>>,
           RequestOK(y),
           \A v \in Workers \ {w} : Compatible(y, txn[v])
    PROVE  IInv'
<1>0. UNCHANGED <<accounts, member, nextKey, trail, minted, invites, outbox>>
  BY DEF teamDb
<1>1. /\ txn'[w] = y
      /\ \A v \in Workers \ {w} : txn'[v] = txn[v]
      /\ txn' \in [Workers -> AnyRequest]
  BY DEF IInv, TypeOK
<1>2. TypeOK'
  BY <1>0, <1>1 DEF IInv, TypeOK
<1>3. \A x \in AnyRequest : RequestOK(x) => RequestOK(x)'
  BY <1>0 DEF RequestOK, StagesOK, PromotedOK, TargetOK, RightsOK, Admitted, RemovalOK,
         InviteOK, Members, IsAdmin, RevokedSince, RemovedSince, Several, Changes
<1>4. \A x, z \in AnyRequest : Compatible(x, z) => Compatible(x, z)'
  BY <1>0 DEF Compatible, HoldsRow, HoldsEmail, Members, Changes
<1>5. RequestsOK'
  <2> SUFFICES ASSUME NEW v \in Workers PROVE RequestOK(txn[v])'
    BY DEF RequestsOK
  <2>1. RequestOK(txn'[v]) /\ txn'[v] \in AnyRequest
    BY <1>1 DEF IInv, RequestsOK
  <2>2. QED
    BY <2>1, <1>3
<1>6. Exclusive'
  <2> SUFFICES ASSUME NEW u \in Workers, NEW v \in Workers, u # v
               PROVE  Compatible(txn[u], txn[v])'
    BY DEF Exclusive
  <2>1. Compatible(txn'[u], txn'[v]) /\ txn'[u] \in AnyRequest /\ txn'[v] \in AnyRequest
    <3>1. \A x, z : Compatible(x, z) => Compatible(z, x)
      BY DEF Compatible
    <3>2. QED
      BY <1>1, <3>1 DEF IInv, Exclusive
  <2>2. QED
    BY <2>1, <1>4
<1>7. MembersOK' /\ EmptyOnlyAfterOverlap' /\ OneInvitationPerAccount'
  BY <1>0 DEF IInv, MembersOK, EmptyOnlyAfterOverlap, OneInvitationPerAccount, Members
<1>8. QED
  BY <1>2, <1>5, <1>6, <1>7 DEF IInv

\* A request that ends without a commit leaves nothing behind.
LEMMA EndIInv ==
    ASSUME IInv, NEW w \in Workers, End(w), UNCHANGED <<teamDb, minted, invites, outbox>>
    PROVE  IInv'
<1>1. \A v \in Workers \ {w} : Compatible(Idle, txn[v])
  BY IdleIsOK DEF IInv, TypeOK
<1>2. QED
  BY <1>1, IdleIsOK, RequestChanges DEF End

\* A request enters as it comes, with no rights and no row.
LEMMA AuthenticateIInv ==
    ASSUME IInv, NEW w \in Workers, NEW op \in {"add", "update", "remove", "invite"},
           NEW actor \in Users, NEW target \in Users, NEW flag \in BOOLEAN,
           Authenticate(w, op, actor, target, flag), UNCHANGED invVars
    PROVE  IInv'
<1> DEFINE y == [Request(actor) EXCEPT !.stage = "authorize", !.op = op, !.target = target,
                                       !.flag = flag]
<1>1. txn' = [txn EXCEPT ![w] = y] /\ UNCHANGED <<teamDb, minted, invites, outbox>>
  BY DEF Authenticate, invVars
<1>2. /\ y \in AnyRequest /\ y.stage = "authorize" /\ y.op = op
      /\ y.actor = actor /\ y.target = target /\ y.promoted = FALSE
  BY DEF Request, AnyRequest, Stages, Ops
<1> HIDE DEF y
<1>3. RequestOK(y)
  BY <1>2 DEF RequestOK, StagesOK, PromotedOK, TargetOK, RightsOK, Admitted, RemovalOK, InviteOK
<1>4. \A x \in AnyRequest : Compatible(y, x)
  BY <1>2 DEF Compatible, HoldsRow, HoldsEmail
<1>5. QED
  BY <1>1, <1>2, <1>3, <1>4, RequestChanges DEF IInv, TypeOK

\* Admission sees an admin, or promotes a sole member whose row nobody holds.
LEMMA AuthorizeIInv ==
    ASSUME IInv, NEW w \in Workers, Authorize(w), UNCHANGED invVars
    PROVE  IInv'
<1> DEFINE x == txn[w]
<1>1. /\ UNCHANGED <<teamDb, minted, invites, outbox>>
      /\ x.stage = "authorize" /\ x \in AnyRequest /\ RequestOK(x)
      /\ \A v \in Workers \ {w} : /\ Compatible(x, txn[v]) /\ txn[v] \in AnyRequest
                                  /\ RequestOK(txn[v])
      /\ Len(trail) \in Nat
  BY LenProperties DEF Authorize, invVars, IInv, TypeOK, RequestsOK, Exclusive
<1>2. x.op # "accept" /\ x.actor \in Users /\ x.target \in Users /\ ~x.promoted
  BY <1>1 DEF RequestOK, StagesOK, PromotedOK, Admitted
<1>3. CASE End(w)
  BY <1>1, <1>3, EndIInv
<1>4. CASE IsAdmin(x.actor) /\ txn' = [txn EXCEPT ![w].stage = "check", ![w].seen = Len(trail)]
  <2> DEFINE y == [x EXCEPT !.stage = "check", !.seen = Len(trail)]
  <2>1. /\ txn' = [txn EXCEPT ![w] = y] /\ y \in AnyRequest
        /\ y.stage = "check" /\ y.op = x.op /\ y.actor = x.actor /\ y.target = x.target
        /\ y.promoted = x.promoted /\ y.seen = Len(trail)
    BY <1>1, <1>4 DEF AnyRequest, Stages, IInv, TypeOK
  <2> HIDE DEF y, x
  <2>2. RequestOK(y)
    BY <1>1, <1>2, <1>4, <2>1
       DEF RequestOK, StagesOK, PromotedOK, TargetOK, RightsOK, Admitted, RemovalOK, InviteOK
  <2>3. \A v \in Workers \ {w} : Compatible(y, txn[v])
    BY <1>2, <2>1 DEF Compatible, HoldsRow, HoldsEmail
  <2>4. QED
    BY <1>1, <2>1, <2>2, <2>3, RequestChanges
<1>5. CASE /\ x.actor \in Members /\ Cardinality(Members) <= 1
           /\ Free(w, x.actor)
           /\ txn' = [txn EXCEPT ![w].stage = "check", ![w].seen = Len(trail),
                                 ![w].promoted = TRUE]
  <2> DEFINE y == [x EXCEPT !.stage = "check", !.seen = Len(trail), !.promoted = TRUE]
  <2>1. /\ txn' = [txn EXCEPT ![w] = y] /\ y \in AnyRequest
        /\ y.stage = "check" /\ y.op = x.op /\ y.actor = x.actor /\ y.target = x.target
        /\ y.promoted = TRUE /\ y.seen = Len(trail)
    BY <1>1, <1>5 DEF AnyRequest, Stages, IInv, TypeOK
  <2>2. \A u \in Members : u = x.actor
    <3>1. IsFiniteSet(Members)
      BY TeamAssumption, FS_Subset DEF Members
    <3>2. IsFiniteSet({x.actor}) /\ Cardinality({x.actor}) = 1
      BY FS_Singleton
    <3>3. {x.actor} \in SUBSET Members
      BY <1>5
    <3>4. Cardinality(Members) \in Nat
      BY <3>1, FS_CardinalityType
    <3>5. Cardinality({x.actor}) <= Cardinality(Members)
          /\ (Cardinality(Members) = Cardinality({x.actor}) => Members = {x.actor})
      BY <3>1, <3>3, FS_Subset
    <3>6. Members = {x.actor}
      BY <1>5, <3>2, <3>4, <3>5
    <3>7. QED
      BY <3>6
  <2> HIDE DEF y, x
  <2>3. RequestOK(y)
    BY <1>1, <1>2, <1>5, <2>1
       DEF RequestOK, StagesOK, PromotedOK, TargetOK, RightsOK, Admitted, RemovalOK, InviteOK
  <2>4. \A v \in Workers \ {w} : ~txn[v].promoted
    BY <1>1, <1>5, <2>2 DEF RequestOK, PromotedOK, Free, HoldsRow
  <2>5. \A v \in Workers \ {w} : Compatible(y, txn[v])
    BY <1>2, <1>5, <2>1, <2>4 DEF Compatible, HoldsRow, HoldsEmail, Free
  <2>6. QED
    BY <1>1, <2>1, <2>3, <2>5, RequestChanges
<1>6. QED
  BY <1>3, <1>4, <1>5 DEF Authorize

\* More than one member.
LEMMA MoreThanOne == ~(Cardinality(Members) <= 1) => Several
<1> SUFFICES ASSUME ~Several PROVE Cardinality(Members) <= 1
  OBVIOUS
<1>1. CASE Members = {}
  BY <1>1, FS_EmptySet
<1>2. CASE Members # {}
  <2>1. PICK u : Members = {u}
    BY <1>2 DEF Several
  <2>2. Cardinality({u}) = 1
    BY FS_Singleton
  <2>3. QED
    BY <2>1, <2>2
<1>3. QED
  BY <1>1, <1>2

\* The checks of a request hold when it makes them.
LEMMA CheckIInv ==
    ASSUME IInv, NEW w \in Workers, Check(w), UNCHANGED invVars
    PROVE  IInv'
<1> DEFINE x == txn[w]
           y == [x EXCEPT !.stage = "write", !.row = RowSeen(x, x.target)]
<1>1. /\ UNCHANGED <<teamDb, minted, invites, outbox>>
      /\ x.stage = "check" /\ x.op \in {"add", "update", "remove"}
      /\ x \in AnyRequest /\ RequestOK(x)
      /\ \A v \in Workers \ {w} : Compatible(x, txn[v])
  BY DEF Check, invVars, IInv, TypeOK, RequestsOK, Exclusive
<1>2. x.actor \in Users /\ x.target \in Users
  BY <1>1 DEF RequestOK, StagesOK
<1>3. CASE End(w)
  BY <1>1, <1>3, EndIInv
<1>4. CASE ~Refused(x) /\ txn' = [txn EXCEPT ![w] = y]
  <2>1. RowSeen(x, x.target) \in Membership \cup {None}
    BY <1>2 DEF RowSeen, Membership, IInv, TypeOK
  <2>2. x.op \in {"update", "remove"} =>
           /\ RowSeen(x, x.target) \in Membership
           /\ RowSeen(x, x.target).key < nextKey
    <3> SUFFICES ASSUME x.op \in {"update", "remove"}
                 PROVE  /\ RowSeen(x, x.target) \in Membership
                        /\ RowSeen(x, x.target).key < nextKey
      OBVIOUS
    <3>1. x.target \in Members /\ member[x.target] \in Membership
          /\ member[x.target].key < nextKey
      BY <1>4 DEF Refused, Members, IInv, TypeOK, MembersOK
    <3>2. [member[x.target] EXCEPT !.admin = TRUE] \in Membership
          /\ [member[x.target] EXCEPT !.admin = TRUE].key = member[x.target].key
      BY <3>1 DEF Membership
    <3>3. QED
      BY <3>1, <3>2 DEF RowSeen
  <2>3. x.op = "remove" => Several
    BY <1>4, MoreThanOne DEF Refused
  <2>4. x.op = "add" => x.target \in accounts
    BY <1>4 DEF Refused
  <2>5. /\ y \in AnyRequest /\ y.stage = "write" /\ y.op = x.op
        /\ y.actor = x.actor /\ y.target = x.target /\ y.promoted = x.promoted
        /\ y.seen = x.seen /\ y.row = RowSeen(x, x.target)
    BY <1>1, <2>1 DEF AnyRequest, Stages
  <2> HIDE DEF y, x
  <2>6. RequestOK(y)
    BY <1>1, <1>2, <2>2, <2>3, <2>4, <2>5
       DEF RequestOK, StagesOK, PromotedOK, TargetOK, RightsOK, Admitted, RemovalOK, InviteOK
  <2>7. \A v \in Workers \ {w} : Compatible(y, txn[v])
    BY <1>1, <2>5 DEF Compatible, HoldsRow, HoldsEmail
  <2>8. QED
    BY <1>1, <1>4, <2>5, <2>6, <2>7, RequestChanges
<1>5. QED
  BY <1>3, <1>4 DEF Check

\* A write waits for the row, and fails when it is not as it was loaded.
LEMMA WriteIInv ==
    ASSUME IInv, NEW w \in Workers, Write(w), UNCHANGED invVars
    PROVE  IInv'
<1> DEFINE x == txn[w]
           y == [x EXCEPT !.stage = "commit"]
           gone == member[x.target] = None \/ member[x.target].key # x.row.key
<1>1. /\ UNCHANGED <<teamDb, minted, invites, outbox>>
      /\ x.stage = "write" /\ x \in AnyRequest /\ RequestOK(x)
      /\ Changes(x) => Free(w, x.target)
      /\ \A v \in Workers \ {w} : Compatible(x, txn[v])
  BY DEF Write, invVars, IInv, TypeOK, RequestsOK, Exclusive
<1>2. x.actor \in Users /\ x.target \in Users /\ x.op \in {"add", "update", "remove"}
  BY <1>1 DEF RequestOK, StagesOK, AnyRequest, Ops
<1>3. CASE End(w)
  BY <1>1, <1>3, EndIInv
<1>4. CASE /\ txn' = [txn EXCEPT ![w].stage = "commit"]
           /\ x.op = "add" => member[x.target] = None
           /\ x.op = "update" /\ Changes(x) => ~gone
  <2>1. /\ txn' = [txn EXCEPT ![w] = y] /\ y \in AnyRequest
        /\ y.stage = "commit" /\ y.op = x.op /\ y.actor = x.actor /\ y.target = x.target
        /\ y.promoted = x.promoted /\ y.seen = x.seen /\ y.row = x.row /\ y.flag = x.flag
    BY <1>1, <1>4 DEF AnyRequest, Stages, IInv, TypeOK
  <2>2. x.op = "update" /\ Changes(x) =>
           x.target \in Members /\ member[x.target].key = x.row.key
    BY <1>2, <1>4 DEF Members
  <2>3. Changes(y) = Changes(x)
    BY <2>1 DEF Changes
  <2> HIDE DEF y, x
  <2>4. StagesOK(y) /\ PromotedOK(y) /\ RightsOK(y) /\ RemovalOK(y) /\ InviteOK(y)
    BY <1>1, <1>2, <2>1
       DEF RequestOK, StagesOK, PromotedOK, RightsOK, Admitted, RemovalOK, InviteOK
  <2>5. TargetOK(y)
    BY <1>1, <1>2, <1>4, <2>1, <2>2, <2>3 DEF RequestOK, TargetOK
  <2>6. \A u \in Users : HoldsRow(y, u) =>
           HoldsRow(x, u) \/ (u = x.target /\ Changes(x))
    BY <2>1, <2>3 DEF HoldsRow
  <2>7. \A v \in Workers \ {w} : Compatible(y, txn[v])
    <3> SUFFICES ASSUME NEW v \in Workers \ {w} PROVE Compatible(y, txn[v])
      OBVIOUS
    <3>1. \A u \in Users : ~(HoldsRow(y, u) /\ HoldsRow(txn[v], u))
      BY <1>1, <2>6 DEF Compatible, Free
    <3>2. QED
      BY <1>1, <1>2, <2>1, <3>1 DEF Compatible, HoldsEmail
  <2>8. QED
    BY <1>1, <2>1, <2>4, <2>5, <2>7, RequestChanges DEF RequestOK
<1>5. QED
  BY <1>3, <1>4 DEF Write

\* A request that fails ends.
LEMMA FailIInv ==
    ASSUME IInv, NEW w \in Workers, Fail(w), UNCHANGED invVars
    PROVE  IInv'
BY EndIInv DEF Fail, invVars

\* An acceptance starts with a token and nothing else.
LEMMA BeginAcceptIInv ==
    ASSUME IInv, NEW w \in Workers, NEW i \in outbox, BeginAccept(w, i)
    PROVE  IInv'
<1> DEFINE y == [Idle EXCEPT !.stage = "lookup", !.op = "accept", !.invite = i]
<1>1. txn' = [txn EXCEPT ![w] = y] /\ UNCHANGED <<teamDb, minted, invites, outbox>>
  BY DEF BeginAccept, invVars
<1>2. i \in Nat
  BY DEF IInv, TypeOK
<1>3. y \in AnyRequest /\ y.stage = "lookup" /\ y.op = "accept" /\ y.promoted = FALSE
  BY <1>2 DEF Idle, Request, AnyRequest, Stages, Ops
<1> HIDE DEF y
<1>4. RequestOK(y)
  BY <1>3 DEF RequestOK, StagesOK, PromotedOK, TargetOK, RightsOK, Admitted, RemovalOK, InviteOK
<1>5. \A x \in AnyRequest : Compatible(y, x)
  BY <1>3 DEF Compatible, HoldsRow, HoldsEmail
<1>6. QED
  BY <1>1, <1>3, <1>4, <1>5, RequestChanges DEF IInv, TypeOK

\* The lookup takes who the invitation names.
LEMMA LookupIInv ==
    ASSUME IInv, NEW w \in Workers, Lookup(w)
    PROVE  IInv'
<1> DEFINE x == txn[w]
           inv == invites[x.invite]
           y == [x EXCEPT !.stage = "register", !.seen = Len(trail), !.actor = inv.email,
                          !.target = inv.email, !.flag = inv.admin]
<1>1. /\ UNCHANGED <<teamDb, minted, invites, outbox>>
      /\ x.stage = "lookup" /\ x \in AnyRequest /\ RequestOK(x)
      /\ Len(trail) \in Nat
  BY LenProperties DEF Lookup, invVars, IInv, TypeOK, RequestsOK
<1>2. x.op = "accept" /\ ~x.promoted
  BY <1>1 DEF RequestOK, StagesOK, PromotedOK, Admitted
<1>3. CASE End(w)
  BY <1>1, <1>3, EndIInv
<1>4. CASE Active(x.invite) /\ txn' = [txn EXCEPT ![w] = y]
  <2>1. x.invite \in DOMAIN invites /\ inv \in Invitation
    BY <1>4 DEF Active, IInv, TypeOK
  <2>2. /\ y \in AnyRequest /\ y.stage = "register" /\ y.op = x.op /\ y.promoted = x.promoted
        /\ y.actor = inv.email /\ y.target = inv.email /\ y.flag = inv.admin
        /\ y.invite = x.invite
    BY <1>1, <2>1 DEF AnyRequest, Stages, Invitation
  <2> HIDE DEF y
  <2>3. inv.email \in Users
    BY <2>1 DEF Invitation
  <2>4. RequestOK(y)
    BY <1>2, <2>1, <2>2, <2>3
       DEF RequestOK, StagesOK, PromotedOK, TargetOK, RightsOK, Admitted, RemovalOK, InviteOK
  <2>5. \A z \in AnyRequest : Compatible(y, z)
    BY <1>2, <2>2 DEF Compatible, HoldsRow, HoldsEmail
  <2>6. QED
    BY <1>1, <1>4, <2>2, <2>4, <2>5, RequestChanges DEF IInv, TypeOK
<1>5. QED
  BY <1>3, <1>4 DEF Lookup

\* The registration waits for the email, and fails when it has an account.
LEMMA RegisterIInv ==
    ASSUME IInv, NEW w \in Workers, Register(w)
    PROVE  IInv'
<1> DEFINE x == txn[w]
           y == [x EXCEPT !.stage = "commit"]
<1>1. /\ UNCHANGED <<teamDb, minted, invites, outbox>>
      /\ x.stage = "register" /\ x \in AnyRequest /\ RequestOK(x)
      /\ \A v \in Workers \ {w} : ~HoldsEmail(txn[v], x.target)
  BY DEF Register, invVars, IInv, TypeOK, RequestsOK
<1>2. x.op = "accept" /\ ~x.promoted /\ x.actor \in Users /\ x.target \in Users
  BY <1>1 DEF RequestOK, StagesOK, PromotedOK, Admitted
<1>3. CASE End(w)
  BY <1>1, <1>3, EndIInv
<1>4. CASE x.target \notin accounts /\ txn' = [txn EXCEPT ![w].stage = "commit"]
  <2>1. /\ txn' = [txn EXCEPT ![w] = y] /\ y \in AnyRequest
        /\ y.stage = "commit" /\ y.op = x.op /\ y.actor = x.actor /\ y.target = x.target
        /\ y.promoted = x.promoted /\ y.flag = x.flag /\ y.invite = x.invite
    BY <1>1, <1>4 DEF AnyRequest, Stages, IInv, TypeOK
  <2> HIDE DEF y, x
  <2>2. RequestOK(y)
    BY <1>1, <1>2, <1>4, <2>1
       DEF RequestOK, StagesOK, PromotedOK, TargetOK, RightsOK, Admitted, RemovalOK, InviteOK
  <2>3. \A v \in Workers \ {w} : Compatible(y, txn[v])
    BY <1>1, <1>2, <2>1 DEF Compatible, HoldsRow, HoldsEmail, Changes
  <2>4. QED
    BY <1>1, <2>1, <2>2, <2>3, RequestChanges
<1>5. QED
  BY <1>3, <1>4 DEF Register

\* Time alone changes nothing the invariant is about.
LEMMA ExpireIInv ==
    ASSUME IInv, NEW i, Expire(i)
    PROVE  IInv'
<1>1. UNCHANGED <<accounts, member, nextKey, trail, txn, minted, invites, outbox>>
  BY DEF Expire, teamVars, teamDb
<1>2. QED
  BY <1>1 DEF IInv, TypeOK, RequestsOK, RequestOK, StagesOK, PromotedOK, TargetOK, RightsOK,
         Admitted, RemovalOK, InviteOK, Members, IsAdmin, RevokedSince, RemovedSince, Several,
         Changes, Exclusive, Compatible, HoldsRow, HoldsEmail, MembersOK,
         EmptyOnlyAfterOverlap, OneInvitationPerAccount

\* A token that is minted is nobody else's.
LEMMA InviteIInv ==
    ASSUME IInv, NEW w \in Workers, Invite(w)
    PROVE  IInv'
<1> DEFINE x == txn[w]
           y == [x EXCEPT !.stage = "commit", !.invite = minted + 1]
<1>1. /\ UNCHANGED <<accounts, member, nextKey, trail, invites>>
      /\ x.stage = "check" /\ x.op = "invite" /\ x \in AnyRequest /\ RequestOK(x)
      /\ \A v \in Workers \ {w} : Compatible(x, txn[v])
      /\ minted \in Nat
  BY DEF Invite, teamDb, IInv, TypeOK, RequestsOK, Exclusive
<1>2. x.actor \in Users /\ x.target \in Users
  BY <1>1 DEF RequestOK, StagesOK
<1>3. CASE End(w) /\ UNCHANGED <<minted, outbox>>
  BY <1>1, <1>3, EndIInv DEF teamDb
<1>4. CASE minted' = minted + 1 /\ outbox' = outbox \cup {minted + 1}
           /\ txn' = [txn EXCEPT ![w] = y]
  <2>1. /\ y \in AnyRequest /\ y.stage = "commit" /\ y.op = x.op /\ y.actor = x.actor
        /\ y.target = x.target /\ y.promoted = x.promoted /\ y.seen = x.seen
        /\ y.invite = minted + 1
    <3>1. minted + 1 \in Nat
      BY <1>1
    <3>2. QED
      BY <1>1, <3>1 DEF AnyRequest, Stages
  <2>2. /\ txn'[w] = y
        /\ \A v \in Workers \ {w} : txn'[v] = txn[v]
        /\ txn' \in [Workers -> AnyRequest]
    BY <1>4, <2>1 DEF IInv, TypeOK
  <2> HIDE DEF y, x
  <2>3. TypeOK'
    BY <1>1, <1>4, <2>2 DEF IInv, TypeOK
  <2>4. \A z \in AnyRequest : RequestOK(z) => RequestOK(z)'
    BY <1>1, <1>4 DEF RequestOK, StagesOK, PromotedOK, TargetOK, RightsOK, Admitted, RemovalOK,
         InviteOK, Members, IsAdmin, RevokedSince, RemovedSince, Several, Changes
  <2>5. DOMAIN invites \subseteq 1..minted
    BY DEF IInv, TypeOK
  <2>6. StagesOK(y) /\ PromotedOK(y) /\ TargetOK(y) /\ RightsOK(y) /\ RemovalOK(y)
    BY <1>1, <1>2, <2>1
       DEF RequestOK, StagesOK, PromotedOK, TargetOK, RightsOK, Admitted, RemovalOK
  <2>7. \A z : StagesOK(z) /\ PromotedOK(z) /\ TargetOK(z) /\ RightsOK(z) /\ RemovalOK(z) =>
           StagesOK(z)' /\ PromotedOK(z)' /\ TargetOK(z)' /\ RightsOK(z)' /\ RemovalOK(z)'
    BY <1>1 DEF StagesOK, PromotedOK, TargetOK, RightsOK, Admitted, RemovalOK,
         Members, IsAdmin, RevokedSince, RemovedSince, Several, Changes
  <2>8. RequestsOK'
    <3> SUFFICES ASSUME NEW v \in Workers PROVE RequestOK(txn[v])'
      BY DEF RequestsOK
    <3>1. CASE v = w
      <4>1. InviteOK(txn[w])'
        BY <1>1, <1>4, <2>1, <2>2, <2>5 DEF InviteOK
      <4>2. StagesOK(txn'[w]) /\ PromotedOK(txn'[w]) /\ TargetOK(txn'[w]) /\ RightsOK(txn'[w])
            /\ RemovalOK(txn'[w])
        BY <2>2, <2>6
      <4>3. QED
        BY <2>7, <3>1, <4>1, <4>2 DEF RequestOK
    <3>2. CASE v # w
      BY <2>2, <2>4, <3>2 DEF IInv, TypeOK, RequestsOK
    <3>3. QED
      BY <3>1, <3>2
  <2>9. Exclusive'
    <3> SUFFICES ASSUME NEW u \in Workers, NEW v \in Workers, u # v
                 PROVE  Compatible(txn[u], txn[v])'
      BY DEF Exclusive
    <3>1. \A v1 \in Workers \ {w} : Compatible(y, txn[v1]) /\ Compatible(txn[v1], y)
      <4> SUFFICES ASSUME NEW v1 \in Workers \ {w}
                   PROVE  Compatible(y, txn[v1]) /\ Compatible(txn[v1], y)
        OBVIOUS
      <4>1. InviteOK(txn[v1]) /\ Compatible(x, txn[v1])
        BY <1>1 DEF IInv, RequestsOK, RequestOK
      <4>2. \A u1 : HoldsRow(y, u1) => HoldsRow(x, u1)
        BY <1>1, <2>1 DEF HoldsRow, Changes
      <4>3. QED
        BY <1>1, <2>1, <4>1, <4>2 DEF Compatible, InviteOK, HoldsEmail
    <3>2. Compatible(txn'[u], txn'[v])
      BY <2>2, <3>1 DEF IInv, Exclusive
    <3>3. \A z1, z2 : Compatible(z1, z2) => Compatible(z1, z2)'
      BY <1>1 DEF Compatible, HoldsRow, HoldsEmail, Members, Changes
    <3>4. QED
      BY <3>2, <3>3
  <2>10. MembersOK' /\ EmptyOnlyAfterOverlap' /\ OneInvitationPerAccount'
    BY <1>1 DEF IInv, MembersOK, EmptyOnlyAfterOverlap, OneInvitationPerAccount, Members
  <2>11. QED
    BY <2>3, <2>8, <2>9, <2>10 DEF IInv
<1>5. QED
  BY <1>3, <1>4 DEF Invite

-----------------------------------------------------------------------------
(* What a commit does to a membership row: nothing, an insert, an update,  *)
(* a delete under the row's lock, or the promotion of the actor.           *)

Added(x, u) ==
    /\ x.op \in {"add", "accept"} /\ u = x.target
    /\ member[u] = None
    /\ member'[u] = [key |-> nextKey, admin |-> x.flag] /\ nextKey' = nextKey + 1

Updated(x, u) ==
    /\ x.op = "update" /\ u = x.target
    /\ u \in Members /\ member'[u] = [member[u] EXCEPT !.admin = x.flag]

Removed(x, u) ==
    /\ x.op = "remove" /\ u = x.target /\ HoldsRow(x, u)
    /\ u \in Members /\ member'[u] = None

Promoted(x, u) ==
    /\ x.promoted /\ u = x.actor
    /\ u \in Members /\ ~member[u].admin
    /\ member'[u] = [member[u] EXCEPT !.admin = TRUE]

Effect(x, u) ==
    \/ member'[u] = member[u]
    \/ Added(x, u) \/ Updated(x, u) \/ Removed(x, u) \/ Promoted(x, u)

\* What a commit does to the invitations.
InvitesAfter(x) ==
    CASE x.op = "invite" ->
            invites' = [i \in DOMAIN invites \cup {x.invite} |->
               IF i # x.invite THEN invites[i]
               ELSE [email |-> x.target, admin |-> x.flag, consumed |-> FALSE]]
      [] x.op = "accept" -> invites' = [invites EXCEPT ![x.invite].consumed = TRUE]
      [] OTHER -> UNCHANGED invites

Commits(w, x) ==
    /\ x = txn[w] /\ x.stage = "commit"
    /\ txn' = [txn EXCEPT ![w] = Idle]
    /\ trail' = Append(trail, RecordOf(x))
    /\ DOMAIN member' = Users /\ member' = [u \in Users |-> member'[u]]
    /\ \A u \in Users : Effect(x, u)
    /\ accounts' = accounts \cup (IF x.op = "accept" THEN {x.target} ELSE {})
    /\ nextKey' \in {nextKey, nextKey + 1}
    /\ InvitesAfter(x)
    /\ UNCHANGED <<minted, outbox>>

\* add, update and remove.
LEMMA CommitCommits ==
    ASSUME IInv, NEW w \in Workers, NEW x, x = txn[w], Commit(w), UNCHANGED invVars
    PROVE  Commits(w, x)
<1>1. /\ x.stage = "commit" /\ x.op \in {"add", "update", "remove"}
      /\ member' = [u \in Users |-> RowAfter(x, u)]
      /\ nextKey' = IF x.op = "add" THEN nextKey + 1 ELSE nextKey
      /\ trail' = Append(trail, RecordOf(x))
      /\ txn' = [txn EXCEPT ![w] = Idle]
      /\ UNCHANGED <<accounts, minted, invites, outbox>>
  BY DEF Commit, End, invVars
<1>2. x \in AnyRequest /\ RequestOK(x)
  BY DEF IInv, TypeOK, RequestsOK
<1>3. \A u \in Users : member'[u] = RowAfter(x, u)
  BY <1>1
<1>4. ASSUME NEW u \in Users PROVE Effect(x, u)
  <2>1. member[u] \in Membership \cup {None} /\ (u \in Members <=> member[u] # None)
    BY DEF IInv, TypeOK, Members
  <2>2. ASSUME member'[u] = RowSeen(x, u) PROVE Effect(x, u)
    <3>1. CASE x.promoted /\ u = x.actor /\ member[u] # None /\ ~member[u].admin
      BY <2>1, <2>2, <3>1 DEF RowSeen, Effect, Promoted
    <3>2. CASE x.promoted /\ u = x.actor /\ member[u] # None /\ member[u].admin
      <4>1. [member[u] EXCEPT !.admin = TRUE] = member[u]
        BY <2>1, <3>2 DEF Membership
      <4>2. QED
        BY <2>2, <3>2, <4>1 DEF RowSeen, Effect
    <3>3. CASE ~(x.promoted /\ u = x.actor /\ member[u] # None)
      BY <2>2, <3>3 DEF RowSeen, Effect
    <3>4. QED
      BY <3>1, <3>2, <3>3
  <2>3. CASE u # x.target
    BY <1>3, <2>2, <2>3 DEF RowAfter
  <2>4. CASE u = x.target /\ x.op = "add"
    <3>1. member[u] = None
      BY <1>1, <1>2, <2>4 DEF RequestOK, TargetOK
    <3>2. member'[u] = [key |-> nextKey, admin |-> x.flag]
      BY <1>3, <2>4 DEF RowAfter
    <3>3. QED
      BY <1>1, <2>4, <3>1, <3>2 DEF Effect, Added
  <2>5. CASE u = x.target /\ x.op = "update"
    <3>1. CASE Changes(x)
      <4>1. u \in Members
        BY <1>1, <1>2, <2>5, <3>1 DEF RequestOK, TargetOK
      <4>2. member'[u] = [RowSeen(x, u) EXCEPT !.admin = x.flag]
        BY <1>3, <2>5, <3>1 DEF RowAfter
      <4>3. [RowSeen(x, u) EXCEPT !.admin = x.flag] = [member[u] EXCEPT !.admin = x.flag]
        BY <2>1, <4>1 DEF RowSeen, Membership
      <4>4. QED
        BY <2>5, <4>1, <4>2, <4>3 DEF Effect, Updated
    <3>2. CASE ~Changes(x)
      BY <1>3, <2>2, <2>5, <3>2 DEF RowAfter
    <3>3. QED
      BY <3>1, <3>2
  <2>6. CASE u = x.target /\ x.op = "remove"
    <3>1. CASE RowSeen(x, u) # None /\ RowSeen(x, u).key = x.row.key
      <4>1. member'[u] = None
        BY <1>3, <2>6, <3>1 DEF RowAfter
      <4>2. u \in Members /\ member[u].key = x.row.key
        BY <2>1, <3>1 DEF RowSeen, Membership
      <4>3. HoldsRow(x, u)
        BY <1>1, <2>6, <4>2 DEF HoldsRow, Changes
      <4>4. QED
        BY <2>6, <4>1, <4>2, <4>3 DEF Effect, Removed
    <3>2. CASE ~(RowSeen(x, u) # None /\ RowSeen(x, u).key = x.row.key)
      BY <1>3, <2>2, <2>6, <3>2 DEF RowAfter
    <3>3. QED
      BY <3>1, <3>2
  <2>7. QED
    BY <1>1, <2>3, <2>4, <2>5, <2>6
<1>5. DOMAIN member' = Users /\ member' = [u \in Users |-> member'[u]]
  BY <1>1, <1>3
<1>6. QED
  BY <1>1, <1>4, <1>5 DEF Commits, InvitesAfter

\* invite_member
LEMMA CommitInviteCommits ==
    ASSUME IInv, NEW w \in Workers, NEW x, x = txn[w], CommitInvite(w)
    PROVE  Commits(w, x)
<1>1. /\ x.stage = "commit" /\ x.op = "invite"
      /\ invites' = [i \in DOMAIN invites \cup {x.invite} |->
            IF i # x.invite THEN invites[i]
            ELSE [email |-> x.target, admin |-> x.flag, consumed |-> FALSE]]
      /\ member' = [u \in Users |-> RowSeen(x, u)]
      /\ trail' = Append(trail, RecordOf(x))
      /\ txn' = [txn EXCEPT ![w] = Idle]
      /\ UNCHANGED <<accounts, nextKey, minted, outbox>>
  BY DEF CommitInvite, End
<1>2. ASSUME NEW u \in Users PROVE Effect(x, u)
  <2>1. member[u] \in Membership \cup {None} /\ member'[u] = RowSeen(x, u)
        /\ (u \in Members <=> member[u] # None)
    BY <1>1 DEF IInv, TypeOK, Members
  <2>2. CASE x.promoted /\ u = x.actor /\ member[u] # None /\ ~member[u].admin
    BY <2>1, <2>2 DEF RowSeen, Effect, Promoted
  <2>3. CASE x.promoted /\ u = x.actor /\ member[u] # None /\ member[u].admin
    <3>1. [member[u] EXCEPT !.admin = TRUE] = member[u]
      BY <2>1, <2>3 DEF Membership
    <3>2. QED
      BY <2>1, <2>3, <3>1 DEF RowSeen, Effect
  <2>4. CASE ~(x.promoted /\ u = x.actor /\ member[u] # None)
    BY <2>1, <2>4 DEF RowSeen, Effect
  <2>5. QED
    BY <2>2, <2>3, <2>4
<1>3. InvitesAfter(x)
  BY <1>1 DEF InvitesAfter
<1>4. DOMAIN member' = Users /\ member' = [u \in Users |-> member'[u]]
  BY <1>1
<1>5. QED
  BY <1>1, <1>2, <1>3, <1>4 DEF Commits

\* accept
LEMMA CommitAcceptCommits ==
    ASSUME IInv, NEW w \in Workers, NEW x, x = txn[w], CommitAccept(w)
    PROVE  Commits(w, x)
<1>1. /\ x.stage = "commit" /\ x.op = "accept"
      /\ accounts' = accounts \cup {x.target}
      /\ member' = [member EXCEPT ![x.target] = [key |-> nextKey, admin |-> x.flag]]
      /\ nextKey' = nextKey + 1
      /\ invites' = [invites EXCEPT ![x.invite].consumed = TRUE]
      /\ trail' = Append(trail, RecordOf(x))
      /\ txn' = [txn EXCEPT ![w] = Idle]
      /\ UNCHANGED <<minted, outbox>>
  BY DEF CommitAccept, End
<1>2. RequestOK(x)
  BY DEF IInv, RequestsOK
<1>3. x.target \in Users /\ x.target \notin accounts
  BY <1>1, <1>2 DEF RequestOK, StagesOK, InviteOK
<1>4. member[x.target] = None
  BY <1>3 DEF IInv, MembersOK, Members
<1>5. ASSUME NEW u \in Users PROVE Effect(x, u)
  BY <1>1, <1>3, <1>4 DEF Effect, Added, IInv, TypeOK
<1>6. DOMAIN member' = Users /\ member' = [u \in Users |-> member'[u]]
  BY <1>1 DEF IInv, TypeOK
<1>7. QED
  BY <1>1, <1>5, <1>6 DEF Commits, InvitesAfter

\* The trail grows by the record of the request.
LEMMA TrailGrows ==
    ASSUME IInv, NEW w \in Workers, NEW x, Commits(w, x)
    PROVE  /\ x \in AnyRequest /\ RequestOK(x) /\ x.actor \in Users /\ x.target \in Users
           /\ Len(trail) \in Nat /\ Len(trail') = Len(trail) + 1
           /\ trail' \in Seq(AuditRecord)
           /\ \A i \in 1..Len(trail) : trail'[i] = trail[i]
           /\ trail'[Len(trail) + 1].action = ActionOf(x.op)
           /\ trail'[Len(trail) + 1].actor = x.actor
           /\ trail'[Len(trail) + 1].subject = x.target
           /\ trail'[Len(trail) + 1].flag = x.flag
           /\ trail'[Len(trail) + 1].seen = x.seen
<1>1. x \in AnyRequest /\ RequestOK(x)
  BY DEF Commits, IInv, TypeOK, RequestsOK
<1>2. x.actor \in Users /\ x.target \in Users
  BY <1>1 DEF Commits, RequestOK, StagesOK
<1>3. ActionOf(x.op) \in {"member_added", "member_role_changed", "member_removed",
                          "member_invited", "invitation_accepted"}
  BY DEF ActionOf
<1>4. /\ RecordOf(x).action = ActionOf(x.op) /\ RecordOf(x).actor = x.actor
      /\ RecordOf(x).subject = x.target /\ RecordOf(x).flag = x.flag
      /\ RecordOf(x).seen = x.seen
  BY DEF RecordOf
<1>5. RecordOf(x) \in AuditRecord
  <2>1. x.flag \in BOOLEAN /\ x.seen \in Nat
    BY <1>1 DEF AnyRequest
  <2>2. QED
    BY <1>2, <1>3, <2>1 DEF RecordOf, AuditRecord
<1>6. trail \in Seq(AuditRecord) /\ trail' = Append(trail, RecordOf(x))
  BY DEF Commits, IInv, TypeOK
<1>7. /\ Len(trail) \in Nat /\ Len(trail') = Len(trail) + 1
      /\ trail' \in Seq(AuditRecord)
      /\ \A i \in 1..Len(trail) : trail'[i] = trail[i]
      /\ trail'[Len(trail) + 1] = RecordOf(x)
  BY <1>5, <1>6, AppendProperties, LenProperties
<1>8. QED
  BY <1>1, <1>2, <1>4, <1>7

\* An admin who stops to be one is the subject of the record that says so.
LEMMA RightsAreTrailed ==
    ASSUME IInv, NEW w \in Workers, NEW x, Commits(w, x), NEW u \in Users, NEW n \in Nat,
           n <= Len(trail)
    PROVE  /\ IsAdmin(u) => IsAdmin(u)' \/ RevokedSince(u, n)'
           /\ RevokedSince(u, n) => RevokedSince(u, n)'
<1>1. /\ Len(trail) \in Nat /\ Len(trail') = Len(trail) + 1
      /\ \A i \in 1..Len(trail) : trail'[i] = trail[i]
      /\ trail'[Len(trail) + 1].action = ActionOf(x.op)
      /\ trail'[Len(trail) + 1].subject = x.target
      /\ trail'[Len(trail) + 1].flag = x.flag
  BY TrailGrows
<1>2. RevokedSince(u, n) => RevokedSince(u, n)'
  <2> SUFFICES ASSUME NEW t \in (n + 1)..Len(trail),
                      /\ trail[t].subject = u
                      /\ \/ trail[t].action = "member_removed"
                         \/ trail[t].action = "member_role_changed" /\ ~trail[t].flag
               PROVE  RevokedSince(u, n)'
    BY DEF RevokedSince
  <2>1. t \in (n + 1)..Len(trail') /\ trail'[t] = trail[t]
    BY <1>1
  <2>2. QED
    BY <2>1 DEF RevokedSince
<1>3. IsAdmin(u) => IsAdmin(u)' \/ RevokedSince(u, n)'
  <2> SUFFICES ASSUME u \in Members, member[u].admin
               PROVE  IsAdmin(u)' \/ RevokedSince(u, n)'
    BY DEF IsAdmin
  <2>1. Effect(x, u) /\ member[u] \in Membership
    BY DEF Commits, IInv, TypeOK, Members
  <2>2. (Len(trail) + 1) \in (n + 1)..Len(trail')
    BY <1>1
  <2>3. CASE member'[u] = member[u]
    BY <2>3 DEF IsAdmin, Members
  <2>4. CASE Added(x, u)
    BY <2>4 DEF Added, Members
  <2>5. CASE Updated(x, u)
    <3>1. member'[u] = [member[u] EXCEPT !.admin = x.flag] /\ x.op = "update" /\ u = x.target
      BY <2>5 DEF Updated
    <3>2. member'[u].admin = x.flag /\ member'[u] # None
      <4>1. x.flag \in BOOLEAN
        BY TrailGrows DEF AnyRequest
      <4>2. member'[u] \in Membership /\ member'[u].admin = x.flag
        BY <2>1, <3>1, <4>1 DEF Membership
      <4>3. QED
        BY <4>2, TeamAssumption
    <3>3. CASE x.flag
      BY <3>2, <3>3 DEF IsAdmin, Members
    <3>4. CASE ~x.flag
      <4>1. trail'[Len(trail) + 1].action = "member_role_changed"
            /\ ~trail'[Len(trail) + 1].flag /\ trail'[Len(trail) + 1].subject = u
        BY <1>1, <3>1, <3>4 DEF ActionOf
      <4>2. QED
        BY <2>2, <4>1 DEF RevokedSince
    <3>5. QED
      BY <3>3, <3>4
  <2>6. CASE Removed(x, u)
    <3>1. trail'[Len(trail) + 1].action = "member_removed"
          /\ trail'[Len(trail) + 1].subject = u
      BY <1>1, <2>6 DEF Removed, ActionOf
    <3>2. QED
      BY <2>2, <3>1 DEF RevokedSince
  <2>7. CASE Promoted(x, u)
    BY <2>7 DEF Promoted
  <2>8. QED
    BY <2>1, <2>3, <2>4, <2>5, <2>6, <2>7 DEF Effect
<1>4. QED
  BY <1>2, <1>3

\* Members leave one at a time, and with a record.
LEMMA RemovalsAreTrailed ==
    ASSUME IInv, NEW w \in Workers, NEW x, Commits(w, x), NEW n \in Nat, n <= Len(trail)
    PROVE  /\ Members \subseteq Members' \/ RemovedSince(n)'
           /\ Members \subseteq Members' \cup {x.target}
           /\ ~(Members \subseteq Members') => x.op = "remove" /\ x.target \in Members
           /\ RemovedSince(n) => RemovedSince(n)'
<1>1. /\ Len(trail) \in Nat /\ Len(trail') = Len(trail) + 1
      /\ \A i \in 1..Len(trail) : trail'[i] = trail[i]
      /\ trail'[Len(trail) + 1].action = ActionOf(x.op)
  BY TrailGrows
<1>2. \A u \in Members : u \in Members' \/ Removed(x, u)
  <2> SUFFICES ASSUME NEW u \in Members PROVE u \in Members' \/ Removed(x, u)
    OBVIOUS
  <2>1. Effect(x, u) /\ member[u] \in Membership /\ member[u] # None /\ u \in Users
    BY DEF Commits, IInv, TypeOK, Members
  <2>2. x.flag \in BOOLEAN
    BY TrailGrows DEF AnyRequest
  <2>3. \A f \in BOOLEAN : [member[u] EXCEPT !.admin = f] \in Membership
    BY <2>1 DEF Membership
  <2>4. member'[u] # None \/ Removed(x, u)
    BY <2>1, <2>2, <2>3, TeamAssumption DEF Effect, Added, Updated, Promoted
  <2>5. QED
    BY <2>1, <2>4 DEF Members
<1>3. RemovedSince(n) => RemovedSince(n)'
  BY <1>1 DEF RemovedSince
<1>4. ~(Members \subseteq Members') =>
         /\ x.op = "remove" /\ x.target \in Members
         /\ RemovedSince(n)'
  <2> SUFFICES ASSUME NEW u \in Members, u \notin Members'
               PROVE  x.op = "remove" /\ x.target \in Members /\ RemovedSince(n)'
    OBVIOUS
  <2>1. x.op = "remove" /\ u = x.target
    BY <1>2 DEF Removed
  <2>2. trail'[Len(trail) + 1].action = "member_removed"
    BY <1>1, <2>1 DEF ActionOf
  <2>3. Len(trail) + 1 \in 1..Len(trail') /\ n < Len(trail) + 1
    BY <1>1
  <2>4. QED
    BY <2>1, <2>2, <2>3 DEF RemovedSince
<1>5. QED
  BY <1>2, <1>3, <1>4 DEF Removed

\* What another request has checked survives a commit, or the trail says why not.
LEMMA CommitKeepsRequests ==
    ASSUME IInv, NEW w \in Workers, NEW x, Commits(w, x),
           NEW y \in AnyRequest, RequestOK(y), Compatible(x, y)
    PROVE  RequestOK(y)'
<1>1. /\ x \in AnyRequest /\ RequestOK(x) /\ x.stage = "commit"
      /\ x.actor \in Users /\ x.target \in Users
      /\ Len(trail) \in Nat /\ Len(trail') = Len(trail) + 1
  BY TrailGrows DEF Commits
<1>2. /\ accounts' = accounts \cup (IF x.op = "accept" THEN {x.target} ELSE {})
      /\ nextKey' \in {nextKey, nextKey + 1} /\ nextKey \in Nat
      /\ \A u \in Users : Effect(x, u) /\ member[u] \in Membership \cup {None}
      /\ minted' = minted
  BY DEF Commits, IInv, TypeOK
<1>3. StagesOK(y)'
  BY DEF RequestOK, StagesOK
<1>4. \A u \in Users : HoldsRow(y, u) /\ u \in Members =>
         u \in Members' /\ member'[u].key = member[u].key
  <2> SUFFICES ASSUME NEW u \in Users, HoldsRow(y, u), u \in Members
               PROVE  u \in Members' /\ member'[u].key = member[u].key
    OBVIOUS
  <2>1. ~HoldsRow(x, u) /\ member[u] \in Membership /\ Effect(x, u) /\ member[u] # None
    BY <1>2, TeamAssumption DEF Compatible, Members
  <2>2. x.flag \in BOOLEAN
    BY <1>1 DEF AnyRequest
  <2>3. \A f \in BOOLEAN : /\ [member[u] EXCEPT !.admin = f] \in Membership
                           /\ [member[u] EXCEPT !.admin = f].key = member[u].key
    BY <2>1 DEF Membership
  <2>4. member'[u] \in Membership /\ member'[u].key = member[u].key
    BY <2>1, <2>2, <2>3 DEF Effect, Added, Updated, Removed, Promoted
  <2>5. QED
    BY <2>4, TeamAssumption DEF Members
<1>5. PromotedOK(y)'
  <2>1. y.promoted => HoldsRow(y, y.actor) /\ y.actor \in Members /\ y.actor \in Users
    BY DEF RequestOK, PromotedOK, StagesOK, Admitted, HoldsRow
  <2>2. QED
    BY <1>4, <2>1 DEF RequestOK, PromotedOK, Admitted
<1>6. TargetOK(y)'
  <2>1. y.op = "add" /\ y.stage \in {"write", "commit"} => y.target \in accounts'
    BY <1>2 DEF RequestOK, TargetOK
  <2>2. y.op = "add" /\ y.stage = "commit" => member'[y.target] = None
    <3> SUFFICES ASSUME y.op = "add" /\ y.stage = "commit" PROVE member'[y.target] = None
      OBVIOUS
    <3>1. /\ y.target \in accounts /\ member[y.target] = None /\ y.target \in Users
          /\ HoldsRow(y, y.target)
      BY DEF RequestOK, TargetOK, StagesOK, HoldsRow, Changes
    <3>2. x.op = "add" => x.target # y.target
      BY <1>1, <3>1 DEF Compatible, HoldsRow, Changes
    <3>3. x.op = "accept" => x.target # y.target
      BY <1>1, <3>1 DEF RequestOK, InviteOK
    <3>4. QED
      BY <1>2, <3>1, <3>2, <3>3 DEF Effect, Added, Updated, Removed, Promoted, Members
  <2>3. y.op \in {"update", "remove"} /\ y.stage \in {"write", "commit"} =>
           y.row \in Membership /\ y.row.key < nextKey'
    <3>1. \A r \in Membership : r.key < nextKey => r.key < nextKey'
      BY <1>2 DEF Membership
    <3>2. QED
      BY <3>1 DEF RequestOK, TargetOK
  <2>4. y.op = "update" /\ y.stage = "commit" /\ Changes(y) =>
           y.target \in Members' /\ member'[y.target].key = y.row.key
    <3> SUFFICES ASSUME y.op = "update" /\ y.stage = "commit" /\ Changes(y)
                 PROVE  y.target \in Members' /\ member'[y.target].key = y.row.key
      OBVIOUS
    <3>1. /\ y.target \in Members /\ member[y.target].key = y.row.key
          /\ y.target \in Users
      BY DEF RequestOK, TargetOK, StagesOK
    <3>2. HoldsRow(y, y.target)
      BY <3>1 DEF HoldsRow
    <3>3. QED
      BY <1>4, <3>1, <3>2
  <2>5. QED
    BY <2>1, <2>2, <2>3, <2>4 DEF TargetOK, Changes
<1>7. RightsOK(y)'
  <2> SUFFICES ASSUME Admitted(y)
               PROVE  /\ y.seen <= Len(trail')
                      /\ IsAdmin(y.actor)' \/ y.promoted \/ RevokedSince(y.actor, y.seen)'
    BY DEF RightsOK, Admitted
  <2>1. /\ y.seen <= Len(trail) /\ y.seen \in Nat /\ y.actor \in Users
        /\ IsAdmin(y.actor) \/ y.promoted \/ RevokedSince(y.actor, y.seen)
    BY DEF RequestOK, RightsOK, AnyRequest, StagesOK, Admitted
  <2>2. QED
    BY <1>1, <2>1, RightsAreTrailed
<1>8. RemovalOK(y)'
  <2> SUFFICES ASSUME y.op = "remove" /\ y.stage \in {"write", "commit"}
               PROVE  Several' \/ RemovedSince(y.seen)'
    BY DEF RemovalOK
  <2>1. /\ Several \/ RemovedSince(y.seen)
        /\ y.seen \in Nat /\ y.seen <= Len(trail)
    BY DEF RequestOK, RemovalOK, RightsOK, Admitted, AnyRequest
  <2>2. Members \subseteq Members' => (Several => Several')
    BY DEF Several
  <2>3. QED
    BY <2>1, <2>2, RemovalsAreTrailed
<1>9. InviteOK(y)'
  <2>1. InvitesAfter(x) /\ InviteOK(x) /\ InviteOK(y) /\ x.op \in Ops /\ y.op \in Ops
    BY <1>1 DEF Commits, RequestOK, AnyRequest
  <2>2. y.op = "invite" /\ y.stage = "commit" => y.invite \in (1..minted') \ DOMAIN invites'
    BY <1>1, <1>2, <2>1 DEF InvitesAfter, InviteOK, Compatible
  <2>3. y.op = "accept" /\ y.stage \in {"register", "commit"} =>
          /\ y.invite \in DOMAIN invites'
          /\ y.actor = y.target
          /\ invites'[y.invite].email = y.target
          /\ invites'[y.invite].admin = y.flag
    <3> SUFFICES ASSUME y.op = "accept" /\ y.stage \in {"register", "commit"}
                 PROVE  /\ y.invite \in DOMAIN invites'
                        /\ invites'[y.invite].email = y.target
                        /\ invites'[y.invite].admin = y.flag
      BY <2>1 DEF InviteOK
    <3>1. /\ y.invite \in DOMAIN invites /\ invites[y.invite] \in Invitation
          /\ invites[y.invite].email = y.target /\ invites[y.invite].admin = y.flag
      BY <2>1 DEF InviteOK, IInv, TypeOK
    <3>2. CASE x.op = "invite"
      BY <1>1, <2>1, <3>1, <3>2 DEF InvitesAfter, InviteOK
    <3>3. CASE x.op = "accept"
      <4>1. invites' = [invites EXCEPT ![x.invite].consumed = TRUE]
        BY <2>1, <3>3 DEF InvitesAfter
      <4>2. /\ [invites[y.invite] EXCEPT !.consumed = TRUE].email = invites[y.invite].email
            /\ [invites[y.invite] EXCEPT !.consumed = TRUE].admin = invites[y.invite].admin
        BY <3>1 DEF Invitation
      <4>3. QED
        BY <3>1, <4>1, <4>2
    <3>4. CASE x.op \notin {"invite", "accept"}
      BY <2>1, <3>1, <3>4 DEF InvitesAfter
    <3>5. QED
      BY <3>2, <3>3, <3>4
  <2>4. y.op = "accept" /\ y.stage = "commit" => y.target \notin accounts'
    BY <1>1, <1>2, <2>1 DEF InviteOK, Compatible, HoldsEmail
  <2>5. QED
    BY <2>2, <2>3, <2>4 DEF InviteOK
<1>10. QED
  BY <1>3, <1>5, <1>6, <1>7, <1>8, <1>9 DEF RequestOK

\* No commit gives a request a row that it did not hold.
LEMMA CommitKeepsCompatible ==
    ASSUME IInv, NEW w \in Workers, NEW x, Commits(w, x),
           NEW y \in AnyRequest, RequestOK(y), NEW z \in AnyRequest, RequestOK(z),
           Compatible(y, z)
    PROVE  Compatible(y, z)'
<1>1. ASSUME NEW r \in AnyRequest, RequestOK(r), NEW u \in Users, HoldsRow(r, u)'
      PROVE  HoldsRow(r, u)
  <2>1. CASE r.promoted /\ r.actor = u
    BY <2>1 DEF HoldsRow
  <2>2. CASE r.stage = "commit" /\ r.target = u /\ Changes(r) /\ r.op = "add"
    BY <2>2 DEF HoldsRow
  <2>3. CASE /\ r.stage = "commit" /\ r.target = u /\ Changes(r) /\ r.op # "add"
             /\ u \in Members' /\ member'[u].key = r.row.key
    <3>1. r.op \in {"update", "remove"}
      BY <1>1, <2>3 DEF Changes, AnyRequest, Ops
    <3>2. r.row \in Membership /\ r.row.key < nextKey
      BY <1>1, <2>3, <3>1 DEF RequestOK, TargetOK
    <3>3. Effect(x, u) /\ member[u] \in Membership \cup {None} /\ nextKey \in Nat
      BY DEF Commits, IInv, TypeOK
    <3>4. x.flag \in BOOLEAN
      BY TrailGrows DEF AnyRequest
    <3>5. member'[u] # None
      BY <2>3 DEF Members
    <3>6. ~Added(x, u)
      <4> SUFFICES ASSUME Added(x, u) PROVE FALSE
        OBVIOUS
      <4>1. member'[u].key = nextKey
        BY DEF Added
      <4>2. r.row.key \in Nat
        BY <3>2 DEF Membership
      <4>3. QED
        BY <2>3, <3>2, <3>3, <4>1, <4>2
    <3>7. u \in Members
      BY <3>3, <3>5, <3>6 DEF Effect, Updated, Removed, Promoted, Members
    <3>8. member[u] \in Membership
      BY <3>3, <3>7 DEF Members
    <3>9. \A f \in BOOLEAN : [member[u] EXCEPT !.admin = f].key = member[u].key
      BY <3>8 DEF Membership
    <3>10. member'[u].key = member[u].key
      BY <3>3, <3>4, <3>5, <3>6, <3>9 DEF Effect, Updated, Removed, Promoted
    <3>11. QED
      BY <2>3, <3>7, <3>10 DEF HoldsRow
  <2>4. QED
    BY <1>1, <2>1, <2>2, <2>3 DEF HoldsRow, Changes
<1>2. QED
  BY <1>1 DEF Compatible, HoldsEmail

\* The rows after a commit: of the type they were, members with accounts, keys
\* that have been handed out.
LEMMA CommitKeepsMembers ==
    ASSUME IInv, NEW w \in Workers, NEW x, Commits(w, x)
    PROVE  /\ member' \in [Users -> Membership \cup {None}]
           /\ accounts' \subseteq Users /\ nextKey' \in Nat
           /\ MembersOK'
<1>1. /\ x \in AnyRequest /\ RequestOK(x) /\ x.stage = "commit"
      /\ x.actor \in Users /\ x.target \in Users /\ x.flag \in BOOLEAN
  BY TrailGrows DEF Commits, AnyRequest
<1>2. /\ accounts' = accounts \cup (IF x.op = "accept" THEN {x.target} ELSE {})
      /\ nextKey' \in {nextKey, nextKey + 1} /\ nextKey \in Nat
      /\ accounts \subseteq Users
      /\ Members \subseteq accounts /\ PlatformAdmins \subseteq accounts
  BY DEF Commits, IInv, TypeOK, MembersOK
<1>3. ASSUME NEW u \in Users
      PROVE  /\ member'[u] \in Membership \cup {None}
             /\ member'[u] # None => u \in accounts' /\ member'[u].key < nextKey'
  <2>1. /\ Effect(x, u) /\ member[u] \in Membership \cup {None}
        /\ u \in Members <=> member[u] # None
        /\ u \in Members => u \in accounts /\ member[u].key < nextKey
    BY DEF Commits, IInv, TypeOK, MembersOK, Members
  <2>2. \A r \in Membership : r.key < nextKey => r.key < nextKey'
    BY <1>2 DEF Membership
  <2>3. \A f \in BOOLEAN : u \in Members =>
           /\ [member[u] EXCEPT !.admin = f] \in Membership
           /\ [member[u] EXCEPT !.admin = f].key = member[u].key
    BY <2>1 DEF Membership
  <2>4. CASE member'[u] = member[u]
    BY <1>2, <2>1, <2>2, <2>4
  <2>5. CASE Added(x, u)
    <3>1. u \in accounts'
      BY <1>1, <1>2, <2>5 DEF Added, RequestOK, TargetOK
    <3>2. [key |-> nextKey, admin |-> x.flag] \in Membership
      BY <1>1, <1>2 DEF Membership
    <3>3. nextKey < nextKey'
      BY <1>2, <2>5 DEF Added
    <3>4. QED
      BY <2>5, <3>1, <3>2, <3>3 DEF Added
  <2>6. CASE Updated(x, u)
    BY <1>1, <1>2, <2>1, <2>2, <2>3, <2>6 DEF Updated
  <2>7. CASE Removed(x, u)
    BY <2>7 DEF Removed
  <2>8. CASE Promoted(x, u)
    BY <1>2, <2>1, <2>2, <2>3, <2>8 DEF Promoted
  <2>9. QED
    BY <2>1, <2>4, <2>5, <2>6, <2>7, <2>8 DEF Effect
<1>4. member' \in [Users -> Membership \cup {None}]
  BY <1>3 DEF Commits
<1>5. MembersOK'
  BY <1>2, <1>3 DEF MembersOK, Members
<1>6. QED
  BY <1>1, <1>2, <1>4, <1>5

\* The invitations after a commit.
LEMMA CommitKeepsInvitations ==
    ASSUME IInv, NEW w \in Workers, NEW x, Commits(w, x)
    PROVE  /\ DOMAIN invites' \subseteq 1..minted /\ DOMAIN invites \subseteq DOMAIN invites'
           /\ invites' \in [DOMAIN invites' -> Invitation]
           /\ \A i \in DOMAIN invites :
                 /\ invites'[i].email = invites[i].email /\ invites'[i].admin = invites[i].admin
                 /\ invites'[i].consumed
                       <=> invites[i].consumed \/ (x.op = "accept" /\ i = x.invite)
           /\ \A i \in DOMAIN invites' \ DOMAIN invites : ~invites'[i].consumed
<1>1. /\ x \in AnyRequest /\ InviteOK(x) /\ x.stage = "commit"
      /\ x.target \in Users /\ x.flag \in BOOLEAN /\ x.op \in Ops
  <2>1. x \in AnyRequest /\ RequestOK(x) /\ x.target \in Users /\ x.stage = "commit"
    BY TrailGrows DEF Commits
  <2>2. QED
    BY <2>1 DEF AnyRequest, RequestOK
<1>2. /\ InvitesAfter(x) /\ DOMAIN invites \subseteq 1..minted
      /\ invites \in [DOMAIN invites -> Invitation]
  BY DEF Commits, IInv, TypeOK
<1>3. CASE x.op = "invite"
  <2>1. invites' = [i \in DOMAIN invites \cup {x.invite} |->
               IF i # x.invite THEN invites[i]
               ELSE [email |-> x.target, admin |-> x.flag, consumed |-> FALSE]]
    BY <1>2, <1>3 DEF InvitesAfter
  <2>2. x.invite \in (1..minted) \ DOMAIN invites
    BY <1>1, <1>3 DEF InviteOK
  <2>3. [email |-> x.target, admin |-> x.flag, consumed |-> FALSE] \in Invitation
    BY <1>1 DEF Invitation
  <2>4. DOMAIN invites' = DOMAIN invites \cup {x.invite}
    BY <2>1
  <2>5. \A i \in DOMAIN invites : invites'[i] = invites[i]
    BY <2>1, <2>2
  <2>6. invites'[x.invite] = [email |-> x.target, admin |-> x.flag, consumed |-> FALSE]
    BY <2>1
  <2>7. invites' \in [DOMAIN invites' -> Invitation]
    BY <1>2, <2>1, <2>3, <2>4, <2>5, <2>6
  <2>8. QED
    BY <1>2, <1>3, <2>2, <2>4, <2>5, <2>6, <2>7
<1>4. CASE x.op = "accept"
  <2>1. invites' = [invites EXCEPT ![x.invite].consumed = TRUE]
    BY <1>2, <1>4 DEF InvitesAfter
  <2>2. DOMAIN invites' = DOMAIN invites
    BY <2>1
  <2>3. \A i \in DOMAIN invites : invites'[i] = IF i = x.invite
           THEN [invites[i] EXCEPT !.consumed = TRUE] ELSE invites[i]
    BY <2>1
  <2>4. \A i \in DOMAIN invites :
           /\ [invites[i] EXCEPT !.consumed = TRUE] \in Invitation
           /\ [invites[i] EXCEPT !.consumed = TRUE].email = invites[i].email
           /\ [invites[i] EXCEPT !.consumed = TRUE].admin = invites[i].admin
           /\ [invites[i] EXCEPT !.consumed = TRUE].consumed
    BY <1>2 DEF Invitation
  <2>5. invites' \in [DOMAIN invites' -> Invitation]
    BY <1>2, <2>1, <2>2, <2>3, <2>4
  <2>6. QED
    BY <1>2, <1>4, <2>2, <2>3, <2>4, <2>5
<1>5. CASE x.op \notin {"invite", "accept"}
  BY <1>2, <1>5 DEF InvitesAfter
<1>6. QED
  BY <1>3, <1>4, <1>5

\* Who removes the last member had been admitted before another removal.
LEMMA CommitKeepsEmptiness ==
    ASSUME IInv, NEW w \in Workers, NEW x, Commits(w, x)
    PROVE  EmptyOnlyAfterOverlap'
<1> SUFFICES ASSUME Members' = {}
             PROVE  \E t \in DOMAIN trail' : \E s \in 1..(t - 1) :
                       /\ trail'[s].action = "member_removed"
                       /\ trail'[t].action = "member_removed"
                       /\ trail'[t].seen < s
  BY DEF EmptyOnlyAfterOverlap
<1>1. /\ Len(trail) \in Nat /\ Len(trail') = Len(trail) + 1
      /\ \A i \in 1..Len(trail) : trail'[i] = trail[i]
      /\ trail'[Len(trail) + 1].action = ActionOf(x.op)
      /\ trail'[Len(trail) + 1].seen = x.seen
      /\ x \in AnyRequest /\ RequestOK(x)
  BY TrailGrows
<1>2. DOMAIN trail = 1..Len(trail) /\ DOMAIN trail' = 1..Len(trail')
  <2>1. trail \in Seq(AuditRecord) /\ trail' \in Seq(AuditRecord)
    BY TrailGrows DEF IInv, TypeOK
  <2>2. QED
    BY <2>1, LenProperties
<1>3. CASE Members = {}
  <2>1. PICK t \in DOMAIN trail : \E s \in 1..(t - 1) :
           /\ trail[s].action = "member_removed"
           /\ trail[t].action = "member_removed"
           /\ trail[t].seen < s
    BY <1>3 DEF IInv, EmptyOnlyAfterOverlap
  <2>2. PICK s \in 1..(t - 1) : /\ trail[s].action = "member_removed"
                                /\ trail[t].action = "member_removed"
                                /\ trail[t].seen < s
    BY <2>1
  <2>3. t \in DOMAIN trail' /\ trail'[t] = trail[t] /\ trail'[s] = trail[s]
    BY <1>1, <1>2
  <2>4. QED
    BY <2>2, <2>3
<1>4. CASE Members # {}
  <2>1. x.op = "remove" /\ Members \subseteq {x.target}
    <3>1. /\ ~(Members \subseteq Members') => x.op = "remove"
          /\ Members \subseteq Members' \cup {x.target}
      <4>1. 0 \in Nat /\ 0 <= Len(trail)
        BY <1>1
      <4>2. QED
        BY <4>1, RemovalsAreTrailed
    <3>2. QED
      BY <1>4, <3>1
  <2>2. RemovedSince(x.seen)
    BY <1>1, <2>1 DEF RequestOK, RemovalOK, Commits, Several
  <2>3. PICK s \in 1..Len(trail) : trail[s].action = "member_removed" /\ x.seen < s
    BY <2>2 DEF RemovedSince
  <2>4. /\ Len(trail) + 1 \in DOMAIN trail' /\ s \in 1..(Len(trail) + 1 - 1)
        /\ trail'[s].action = "member_removed"
    BY <1>1, <1>2, <2>3
  <2>5. trail'[Len(trail) + 1].action = "member_removed"
    BY <1>1, <2>1 DEF ActionOf
  <2>6. QED
    BY <1>1, <2>3, <2>4, <2>5
<1>5. QED
  BY <1>3, <1>4

\* The invitation that is consumed is the first of its email, and recorded.
LEMMA CommitKeepsAccounts ==
    ASSUME IInv, NEW w \in Workers, NEW x, Commits(w, x)
    PROVE  OneInvitationPerAccount'
<1>1. /\ Len(trail) \in Nat /\ Len(trail') = Len(trail) + 1
      /\ \A i \in 1..Len(trail) : trail'[i] = trail[i]
      /\ trail'[Len(trail) + 1].action = ActionOf(x.op)
      /\ trail'[Len(trail) + 1].subject = x.target
      /\ trail'[Len(trail) + 1].flag = x.flag
  BY TrailGrows
<1>2. DOMAIN trail = 1..Len(trail) /\ DOMAIN trail' = 1..Len(trail')
  <2>1. trail \in Seq(AuditRecord) /\ trail' \in Seq(AuditRecord)
    BY TrailGrows DEF IInv, TypeOK
  <2>2. QED
    BY <2>1, LenProperties
<1>3. /\ \A i \in DOMAIN invites :
            /\ invites'[i].email = invites[i].email /\ invites'[i].admin = invites[i].admin
            /\ invites'[i].consumed
                  <=> invites[i].consumed \/ (x.op = "accept" /\ i = x.invite)
      /\ \A i \in DOMAIN invites' \ DOMAIN invites : ~invites'[i].consumed
  BY CommitKeepsInvitations
<1>4. /\ accounts \subseteq accounts'
      /\ x.op = "accept" => /\ x.target \in accounts' /\ x.target \notin accounts
                            /\ x.invite \in DOMAIN invites
                            /\ invites[x.invite].email = x.target
                            /\ invites[x.invite].admin = x.flag
  <2>1. RequestOK(x) /\ x.stage = "commit"
    BY TrailGrows DEF Commits
  <2>2. QED
    BY <2>1 DEF Commits, RequestOK, InviteOK
<1>5. /\ \A i, j \in DOMAIN invites :
            invites[i].consumed /\ invites[j].consumed /\ invites[i].email = invites[j].email
               => i = j
      /\ \A i \in DOMAIN invites :
            invites[i].consumed =>
               /\ invites[i].email \in accounts
               /\ \E t \in DOMAIN trail : /\ trail[t].action = "invitation_accepted"
                                         /\ trail[t].subject = invites[i].email
                                         /\ trail[t].flag = invites[i].admin
  BY DEF IInv, OneInvitationPerAccount
<1>6. \A i, j \in DOMAIN invites' :
         invites'[i].consumed /\ invites'[j].consumed /\ invites'[i].email = invites'[j].email
            => i = j
  BY <1>3, <1>4, <1>5
<1>7. ASSUME NEW i \in DOMAIN invites', invites'[i].consumed
      PROVE  /\ invites'[i].email \in accounts'
             /\ \E t \in DOMAIN trail' : /\ trail'[t].action = "invitation_accepted"
                                        /\ trail'[t].subject = invites'[i].email
                                        /\ trail'[t].flag = invites'[i].admin
  <2>1. i \in DOMAIN invites
    BY <1>3, <1>7
  <2>2. CASE invites[i].consumed
    <3>1. PICK t \in DOMAIN trail : /\ trail[t].action = "invitation_accepted"
                                   /\ trail[t].subject = invites[i].email
                                   /\ trail[t].flag = invites[i].admin
      BY <1>5, <2>1, <2>2
    <3>2. t \in DOMAIN trail' /\ trail'[t] = trail[t]
      BY <1>1, <1>2
    <3>3. QED
      BY <1>3, <1>4, <1>5, <2>1, <2>2, <3>1, <3>2
  <2>3. CASE x.op = "accept" /\ i = x.invite
    <3>1. trail'[Len(trail) + 1].action = "invitation_accepted"
      BY <1>1, <2>3 DEF ActionOf
    <3>2. Len(trail) + 1 \in DOMAIN trail'
      BY <1>1, <1>2
    <3>3. QED
      BY <1>1, <1>3, <1>4, <2>1, <2>3, <3>1, <3>2
  <2>4. QED
    BY <1>3, <1>7, <2>1, <2>2, <2>3
<1>8. QED
  BY <1>6, <1>7 DEF OneInvitationPerAccount

\* A commit keeps the invariant.
LEMMA CommitIInv ==
    ASSUME IInv, NEW w \in Workers, NEW x, Commits(w, x)
    PROVE  IInv'
<1>1. /\ txn'[w] = Idle
      /\ \A v \in Workers \ {w} : /\ txn'[v] = txn[v] /\ txn[v] \in AnyRequest
                                  /\ RequestOK(txn[v]) /\ Compatible(x, txn[v])
      /\ txn' \in [Workers -> AnyRequest]
  BY IdleIsOK DEF Commits, IInv, TypeOK, RequestsOK, Exclusive
<1>2. TypeOK'
  <2>1. UNCHANGED <<minted, outbox>> /\ minted \in Nat /\ outbox \subseteq Nat
    BY DEF Commits, IInv, TypeOK
  <2>2. trail' \in Seq(AuditRecord)
    BY TrailGrows
  <2>3. QED
    BY <1>1, <2>1, <2>2, CommitKeepsMembers, CommitKeepsInvitations DEF TypeOK
<1>3. ASSUME NEW v \in Workers PROVE RequestOK(txn[v])'
  <2>1. CASE v = w
    <3>1. Idle.stage = "idle" /\ ~Idle.promoted
      BY DEF Idle, Request
    <3>2. RequestOK(Idle)'
      BY <3>1 DEF RequestOK, StagesOK, PromotedOK, TargetOK, RightsOK, Admitted, RemovalOK,
             InviteOK
    <3>3. QED
      BY <1>1, <2>1, <3>2
  <2>2. CASE v # w
    <3>1. \A y \in AnyRequest : RequestOK(y) /\ Compatible(x, y) => RequestOK(y)'
      BY CommitKeepsRequests
    <3>2. QED
      BY <1>1, <2>2, <3>1
  <2>3. QED
    BY <2>1, <2>2
<1>4. ASSUME NEW u \in Workers, NEW v \in Workers, u # v
      PROVE  Compatible(txn[u], txn[v])'
  <2>1. \A y, z \in AnyRequest : RequestOK(y) /\ RequestOK(z) /\ Compatible(y, z)
           => Compatible(y, z)'
    BY CommitKeepsCompatible
  <2>2. /\ RequestOK(Idle) /\ Idle \in AnyRequest
        /\ \A y \in AnyRequest : Compatible(Idle, y) /\ Compatible(y, Idle)
    BY IdleIsOK DEF Compatible
  <2>3. /\ txn'[u] \in AnyRequest /\ RequestOK(txn'[u])
        /\ txn'[v] \in AnyRequest /\ RequestOK(txn'[v])
        /\ Compatible(txn'[u], txn'[v])
    BY <1>1, <1>4, <2>2 DEF IInv, Exclusive
  <2>4. QED
    BY <2>1, <2>3
<1>5. RequestsOK' /\ Exclusive'
  BY <1>3, <1>4 DEF RequestsOK, Exclusive
<1>6. QED
  BY <1>2, <1>5, CommitKeepsMembers, CommitKeepsEmptiness, CommitKeepsAccounts DEF IInv

-----------------------------------------------------------------------------

\* Every step of a team request keeps the invariant.
LEMMA TeamStepIInv == ASSUME IInv, TeamNext, UNCHANGED invVars PROVE IInv'
<1>1. ASSUME NEW w \in Workers, NEW op \in {"add", "update", "remove"},
             NEW actor \in Users, NEW target \in Users, NEW flag \in BOOLEAN,
             Authenticate(w, op, actor, target, flag)
      PROVE  IInv'
  BY <1>1, AuthenticateIInv
<1>2. ASSUME NEW w \in Workers, Commit(w) PROVE IInv'
  <2>1. PICK x : x = txn[w]
    OBVIOUS
  <2>2. Commits(w, x)
    BY <1>2, <2>1, CommitCommits
  <2>3. QED
    BY <2>2, CommitIInv
<1>3. ASSUME NEW w \in Workers, Step(w) \/ Fail(w) PROVE IInv'
  BY <1>2, <1>3, AuthorizeIInv, CheckIInv, WriteIInv, FailIInv DEF Step
<1>4. QED
  BY <1>1, <1>3 DEF TeamNext

\* So does every step of an invitation's creation or acceptance.
LEMMA InviteStepIInv == ASSUME IInv, NEW w \in Workers, InviteStep(w) PROVE IInv'
<1>1. PICK x : x = txn[w]
  OBVIOUS
<1>2. ASSUME CommitInvite(w) \/ CommitAccept(w) PROVE IInv'
  <2>1. Commits(w, x)
    BY <1>1, <1>2, CommitInviteCommits, CommitAcceptCommits
  <2>2. QED
    BY <2>1, CommitIInv
<1>3. QED
  BY <1>2, InviteIInv, LookupIInv, RegisterIInv DEF InviteStep

\* So does every step.
LEMMA StepIInv == IInv /\ [Next]_vars => IInv'
<1> SUFFICES ASSUME IInv, [Next]_vars PROVE IInv'
  OBVIOUS
<1>1. CASE TeamNext /\ UNCHANGED invVars
  BY <1>1, TeamStepIInv
<1>2. ASSUME NEW w \in Workers, NEW actor \in Users, NEW target \in Users,
             NEW flag \in BOOLEAN, Authenticate(w, "invite", actor, target, flag),
             UNCHANGED invVars
      PROVE  IInv'
  BY <1>2, AuthenticateIInv
<1>3. ASSUME NEW w \in Workers, InviteStep(w) PROVE IInv'
  BY <1>3, InviteStepIInv
<1>4. ASSUME NEW w \in Workers, NEW i \in outbox, BeginAccept(w, i) PROVE IInv'
  BY <1>4, BeginAcceptIInv
<1>5. ASSUME NEW i \in outbox, Expire(i) PROVE IInv'
  BY <1>5, ExpireIInv
<1>6. CASE UNCHANGED vars
  <2>1. UNCHANGED <<accounts, member, nextKey, trail, txn, minted, invites, outbox>>
    BY <1>6 DEF vars, teamVars, teamDb, invVars
  <2>2. QED
    BY <2>1 DEF IInv, TypeOK, RequestsOK, RequestOK, StagesOK, PromotedOK, TargetOK, RightsOK,
           Admitted, RemovalOK, InviteOK, Members, IsAdmin, RevokedSince, RemovedSince, Several,
           Changes, Exclusive, Compatible, HoldsRow, HoldsEmail, MembersOK,
           EmptyOnlyAfterOverlap, OneInvitationPerAccount
<1>7. QED
  BY <1>1, <1>2, <1>3, <1>4, <1>5, <1>6 DEF Next

\* The invariant holds in every reachable state.
LEMMA InvariantHolds == Spec => []IInv
BY InitIInv, StepIInv, PTL DEF Spec

(* The count that protects the last member is not locked (remove_member),  *)
(* so a tenant can lose everybody; it does so only by two removals of      *)
(* which one had been admitted before the other committed, with any number *)
(* of users, requests and failures around them.                            *)
THEOREM EmptinessTakesOverlap == Spec => []EmptyOnlyAfterOverlap
<1>1. IInv => EmptyOnlyAfterOverlap
  BY DEF IInv
<1>2. QED
  BY <1>1, InvariantHolds, PTL

(* Whoever was invited several times, or accepts one mail several times at *)
(* once, gets one account through one invitation, and the trail has its    *)
(* record (accept).                                                        *)
THEOREM AccountsComeFromOneInvitation == Spec => []OneInvitationPerAccount
<1>1. IInv => OneInvitationPerAccount
  BY DEF IInv
<1>2. QED
  BY <1>1, InvariantHolds, PTL

(* No two requests wait for each other's rows: only a promoted caller      *)
(* holds a row while it waits, and at most one request at a time is        *)
(* promoted (_require_team_admin).                                         *)
THEOREM RequestsNeverStandOff == Spec => []NoStandoff
<1>1. IInv => NoStandoff
  <2> SUFFICES ASSUME IInv, NEW v \in Workers, NEW w \in Workers, v # w,
                      WaitsFor(v, w), WaitsFor(w, v)
               PROVE  FALSE
    BY DEF NoStandoff
  <2>1. txn[v].promoted
    BY DEF WaitsFor, HoldsRow
  <2>2. txn[w].promoted
    BY DEF WaitsFor, HoldsRow
  <2>3. QED
    BY <2>1, <2>2 DEF IInv, Exclusive, Compatible
<1>2. QED
  BY <1>1, InvariantHolds, PTL

-----------------------------------------------------------------------------

\* Rows, accounts and trail change by commits only.
LEMMA OnlyCommits ==
    ASSUME IInv, [Next]_vars
    PROVE  UNCHANGED <<member, trail>> \/ \E w \in Workers : Commits(w, txn[w])
<1>1. ASSUME NEW w \in Workers, Commit(w), UNCHANGED invVars PROVE Commits(w, txn[w])
  <2>1. PICK x : x = txn[w]
    OBVIOUS
  <2>2. Commits(w, x)
    BY <1>1, <2>1, CommitCommits
  <2>3. QED
    BY <2>1, <2>2
<1>2. ASSUME NEW w \in Workers, CommitInvite(w) \/ CommitAccept(w) PROVE Commits(w, txn[w])
  <2>1. PICK x : x = txn[w]
    OBVIOUS
  <2>2. Commits(w, x)
    BY <1>2, <2>1, CommitInviteCommits, CommitAcceptCommits
  <2>3. QED
    BY <2>1, <2>2
<1>3. CASE TeamNext /\ UNCHANGED invVars
  <2>1. ASSUME NEW w \in Workers, Step(w)
        PROVE  UNCHANGED <<member, trail>> \/ Commits(w, txn[w])
    BY <1>1, <1>3, <2>1 DEF Step, Authorize, Check, Write, teamDb
  <2>2. ASSUME NEW w \in Workers, Fail(w) PROVE UNCHANGED <<member, trail>>
    BY <2>2 DEF Fail, teamDb
  <2>3. ASSUME NEW w \in Workers, NEW op, NEW actor, NEW target, NEW flag,
               Authenticate(w, op, actor, target, flag)
        PROVE  UNCHANGED <<member, trail>>
    BY <2>3 DEF Authenticate, teamDb
  <2>4. QED
    BY <1>3, <2>1, <2>2, <2>3 DEF TeamNext
<1>4. ASSUME NEW w \in Workers, NEW actor, NEW target, NEW flag,
             Authenticate(w, "invite", actor, target, flag)
      PROVE  UNCHANGED <<member, trail>>
  BY <1>4 DEF Authenticate, teamDb
<1>5. ASSUME NEW w \in Workers, InviteStep(w)
      PROVE  UNCHANGED <<member, trail>> \/ Commits(w, txn[w])
  BY <1>2, <1>5 DEF InviteStep, Invite, Lookup, Register, teamDb
<1>6. ASSUME NEW w \in Workers, NEW i, BeginAccept(w, i) PROVE UNCHANGED <<member, trail>>
  BY <1>6 DEF BeginAccept, teamDb
<1>7. ASSUME NEW i, Expire(i) PROVE UNCHANGED <<member, trail>>
  BY <1>7 DEF Expire, teamVars, teamDb
<1>8. CASE UNCHANGED vars
  BY <1>8 DEF vars, teamVars, teamDb
<1>9. QED
  BY <1>3, <1>4, <1>5, <1>6, <1>7, <1>8 DEF Next

\* What an audit record has to say of a row that changes.
Trailed(u) ==
    /\ Len(trail') = Len(trail) + 1
    /\ LET r == NewRecord IN
       \/ /\ r.subject = u
          /\ CASE member[u] = None ->
                    /\ r.action \in {"member_added", "invitation_accepted"}
                    /\ member'[u].admin = r.flag
               [] member'[u] = None -> r.action = "member_removed"
               [] OTHER -> /\ r.action = "member_role_changed"
                           /\ member'[u].key = member[u].key
                           /\ member'[u].admin = r.flag
       \/ Promotion(u)

\* A commit that changes a membership writes the record that says so.
LEMMA CommitIsTrailed ==
    ASSUME IInv, NEW w \in Workers, NEW x, Commits(w, x), NEW u \in Users,
           member'[u] # member[u]
    PROVE  Trailed(u)
<1>1. PICK r : r = NewRecord
  OBVIOUS
<1>2. /\ x \in AnyRequest /\ x.flag \in BOOLEAN /\ Len(trail') = Len(trail) + 1
      /\ r.action = ActionOf(x.op) /\ r.actor = x.actor
      /\ r.subject = x.target /\ r.flag = x.flag
  BY <1>1, TrailGrows DEF NewRecord, AnyRequest
<1>3. /\ Added(x, u) \/ Updated(x, u) \/ Removed(x, u) \/ Promoted(x, u)
      /\ u \in Members <=> member[u] # None
      /\ u \in Members => member[u] \in Membership
  BY DEF Commits, Effect, IInv, TypeOK, Members
<1>4. \A f \in BOOLEAN : u \in Members =>
         /\ [member[u] EXCEPT !.admin = f] \in Membership
         /\ [member[u] EXCEPT !.admin = f].key = member[u].key
         /\ [member[u] EXCEPT !.admin = f].admin = f
  BY <1>3 DEF Membership
<1>5. CASE Added(x, u)
  <2>1. r.action \in {"member_added", "invitation_accepted"}
    BY <1>2, <1>5 DEF Added, ActionOf
  <2>2. member[u] = None /\ member'[u].admin = r.flag /\ r.subject = u
    BY <1>2, <1>5 DEF Added
  <2>3. QED
    BY <1>1, <1>2, <2>1, <2>2 DEF Trailed
<1>6. CASE Updated(x, u)
  <2>1. r.action = "member_role_changed"
    BY <1>2, <1>6 DEF Updated, ActionOf
  <2>2. /\ member'[u].key = member[u].key /\ member'[u].admin = r.flag /\ r.subject = u
        /\ member'[u] \in Membership
    BY <1>2, <1>4, <1>6 DEF Updated
  <2>3. member[u] # None /\ member'[u] # None
    BY <1>3, <1>6, <2>2, TeamAssumption DEF Updated
  <2>4. QED
    BY <1>1, <1>2, <2>1, <2>2, <2>3 DEF Trailed
<1>7. CASE Removed(x, u)
  <2>1. r.action = "member_removed"
    BY <1>2, <1>7 DEF Removed, ActionOf
  <2>2. member[u] # None /\ member'[u] = None /\ r.subject = u
    BY <1>2, <1>3, <1>7 DEF Removed
  <2>3. QED
    BY <1>1, <1>2, <2>1, <2>2 DEF Trailed
<1>8. CASE Promoted(x, u)
  <2>1. /\ member[u].key = member'[u].key /\ ~member[u].admin /\ member'[u].admin
        /\ r.actor = u
    BY <1>2, <1>4, <1>8 DEF Promoted
  <2>2. QED
    BY <1>1, <1>2, <2>1 DEF Trailed, Promotion
<1>9. QED
  BY <1>3, <1>5, <1>6, <1>7, <1>8

(* Whatever runs at the same time, a row changes only with an audit record *)
(* that says how, or by the promotion of the sole member it belongs to     *)
(* (append_audit in team.py and invitations.py).                           *)
THEOREM TrailTellsEveryChange == Spec => ChangesAreTrailed
<1>1. IInv /\ [Next]_vars => [\A u \in Users : member'[u] # member[u] => Trailed(u)]_teamVars
  <2> SUFFICES ASSUME IInv, [Next]_vars, NEW u \in Users, member'[u] # member[u]
               PROVE  Trailed(u)
    OBVIOUS
  <2>1. PICK w \in Workers : Commits(w, txn[w])
    BY OnlyCommits
  <2>2. PICK x : x = txn[w]
    OBVIOUS
  <2>3. Commits(w, x)
    BY <2>1, <2>2
  <2>4. QED
    BY <2>3, CommitIsTrailed
<1>2. QED
  BY <1>1, InvariantHolds, PTL DEF Spec, ChangesAreTrailed, Trailed

(* A change of the team is decided by an admin, a platform admin or the    *)
(* promoted sole member; a right that was revoked in the meantime was      *)
(* still there when the request was admitted (_require_team_admin).        *)
THEOREM AdminsDecideChanges == Spec => AdminsDecide
<1> DEFINE Decided == Len(trail') > Len(trail) /\ NewRecord.action # "invitation_accepted" =>
              \/ IsAdmin(NewRecord.actor)
              \/ \E w \in Workers : txn[w].promoted /\ txn[w].actor = NewRecord.actor
              \/ RevokedSince(NewRecord.actor, NewRecord.seen)
<1>1. IInv /\ [Next]_vars => [Decided]_teamVars
  <2> SUFFICES ASSUME IInv, [Next]_vars, Len(trail') > Len(trail),
                      NewRecord.action # "invitation_accepted"
               PROVE  \/ IsAdmin(NewRecord.actor)
                      \/ \E w \in Workers : txn[w].promoted /\ txn[w].actor = NewRecord.actor
                      \/ RevokedSince(NewRecord.actor, NewRecord.seen)
    OBVIOUS
  <2>1. Len(trail) \in Nat
    BY LenProperties DEF IInv, TypeOK
  <2>2. PICK w \in Workers : Commits(w, txn[w])
    BY <2>1, OnlyCommits
  <2>3. PICK x : x = txn[w]
    OBVIOUS
  <2>4. Commits(w, x) /\ x.stage = "commit"
    BY <2>2, <2>3 DEF Commits
  <2>5. /\ RequestOK(x) /\ x \in AnyRequest /\ NewRecord.action = ActionOf(x.op)
        /\ NewRecord.actor = x.actor /\ NewRecord.seen = x.seen
    BY <2>4, TrailGrows DEF NewRecord
  <2>6. x.op # "accept"
    BY <2>5 DEF ActionOf
  <2>7. IsAdmin(x.actor) \/ x.promoted \/ RevokedSince(x.actor, x.seen)
    BY <2>4, <2>5, <2>6 DEF RequestOK, RightsOK, Admitted
  <2>8. QED
    BY <2>3, <2>5, <2>7
<1>2. QED
  BY <1>1, InvariantHolds, PTL DEF Spec, AdminsDecide

-----------------------------------------------------------------------------
(* A locked-out tenant: what a request may be in one, and that no step lets *)
(* an admin in.                                                             *)

Harmless(x) ==
    \/ x.stage \in {"idle", "lookup"}
    \/ x.stage = "authorize" /\ x.actor \notin PlatformAdmins
    \/ x.op = "accept" /\ ~x.flag

\* A step that makes one worker's request harmless and touches nothing else.
LEMMA HarmlessChange ==
    ASSUME IInv, LockedOut, NEW w \in Workers, NEW y, txn' = [txn EXCEPT ![w] = y],
           Harmless(y), UNCHANGED <<member, invites>>, expired \subseteq expired'
    PROVE  LockedOut'
<1>1. \A v \in Workers : Harmless(txn'[v])
  BY DEF LockedOut, Harmless, IInv, TypeOK
<1>2. \A v \in Workers : Harmless(txn[v])'
  BY <1>1 DEF Harmless
<1>3. /\ (Cardinality(Members) >= 2)'
      /\ (\A u \in Members : ~IsAdmin(u))'
      /\ (\A i \in DOMAIN invites : Active(i) => ~invites[i].admin)'
  BY DEF LockedOut, Members, IsAdmin, Active
<1>4. QED
  BY <1>2, <1>3 DEF LockedOut, Harmless

\* A request that ends does not let anybody in.
LEMMA HarmlessEnd ==
    ASSUME IInv, LockedOut, NEW w \in Workers, End(w),
           UNCHANGED <<member, invites, expired>>
    PROVE  LockedOut'
<1>1. Harmless(Idle)
  BY DEF Harmless, Idle, Request
<1>2. QED
  BY <1>1, HarmlessChange DEF End

\* An acceptance adds a member who is not an admin.
LEMMA AcceptedLockedOut ==
    ASSUME IInv, LockedOut, NEW w \in Workers, CommitAccept(w)
    PROVE  LockedOut'
<1>1. PICK x : x = txn[w]
  OBVIOUS
<1>2. /\ x.op = "accept" /\ x.stage = "commit" /\ ~x.flag
      /\ x.target \in Users /\ x.target \notin accounts
      /\ member' = [member EXCEPT ![x.target] = [key |-> nextKey, admin |-> x.flag]]
      /\ txn' = [txn EXCEPT ![w] = Idle] /\ expired' = expired
  <2>1. /\ x.op = "accept" /\ x.stage = "commit"
        /\ member' = [member EXCEPT ![x.target] = [key |-> nextKey, admin |-> x.flag]]
        /\ txn' = [txn EXCEPT ![w] = Idle] /\ expired' = expired
    BY <1>1 DEF CommitAccept, End
  <2>2. ~x.flag
    BY <1>1, <2>1 DEF LockedOut
  <2>3. RequestOK(x)
    BY <1>1 DEF IInv, RequestsOK
  <2>4. QED
    BY <2>1, <2>2, <2>3 DEF RequestOK, StagesOK, InviteOK
<1>3. \A u \in Users : member'[u] = IF u = x.target THEN [key |-> nextKey, admin |-> x.flag]
                                    ELSE member[u]
  BY <1>2 DEF IInv, TypeOK
<1>4. [key |-> nextKey, admin |-> x.flag] # None
  <2>1. x \in AnyRequest /\ nextKey \in Nat
    BY <1>1 DEF IInv, TypeOK
  <2>2. [key |-> nextKey, admin |-> x.flag] \in Membership
    BY <2>1 DEF AnyRequest, Membership
  <2>3. QED
    BY <2>2, TeamAssumption
<1>5. Members \subseteq Members' /\ x.target \notin PlatformAdmins
  BY <1>2, <1>3, <1>4 DEF Members, IInv, MembersOK
<1>6. (Cardinality(Members) >= 2)'
  <2>1. IsFiniteSet(Members')
    BY TeamAssumption, FS_Subset DEF Members
  <2>2. /\ IsFiniteSet(Members) /\ Cardinality(Members) <= Cardinality(Members')
        /\ Cardinality(Members) \in Nat /\ Cardinality(Members') \in Nat
    BY <1>5, <2>1, FS_Subset, FS_CardinalityType
  <2>3. QED
    BY <2>2 DEF LockedOut
<1>7. (\A u \in Members : ~IsAdmin(u))'
  <2> SUFFICES ASSUME NEW u \in Users, member'[u] # None
               PROVE  u \notin PlatformAdmins /\ ~member'[u].admin
    BY DEF Members, IsAdmin
  <2>1. CASE u = x.target
    BY <1>2, <1>3, <1>5, <2>1
  <2>2. CASE u # x.target
    BY <1>3, <2>2 DEF LockedOut, Members, IsAdmin
  <2>3. QED
    BY <2>1, <2>2
<1>8. (\A i \in DOMAIN invites : Active(i) => ~invites[i].admin)'
  <2>1. Commits(w, x)
    BY <1>1, CommitAcceptCommits
  <2>2. /\ \A i \in DOMAIN invites :
              /\ invites'[i].admin = invites[i].admin
              /\ invites'[i].consumed
                    <=> invites[i].consumed \/ (x.op = "accept" /\ i = x.invite)
        /\ DOMAIN invites' = DOMAIN invites
    BY <2>1, CommitKeepsInvitations DEF CommitAccept
  <2>3. QED
    BY <1>2, <2>2 DEF LockedOut, Active
<1>9. \A v \in Workers : Harmless(txn[v])'
  <2>1. Harmless(Idle)
    BY DEF Harmless, Idle, Request
  <2>2. \A v \in Workers : Harmless(txn'[v])
    BY <1>2, <2>1 DEF LockedOut, Harmless, IInv, TypeOK
  <2>3. QED
    BY <2>2 DEF Harmless
<1>10. QED
  BY <1>6, <1>7, <1>8, <1>9 DEF LockedOut, Harmless

\* No step lets anybody in again.
LEMMA LockedOutStays == ASSUME IInv, LockedOut, [Next]_vars PROVE LockedOut'
<1>1. ASSUME NEW w \in Workers
      PROVE  /\ Harmless(txn[w]) /\ RequestOK(txn[w]) /\ txn[w] \in AnyRequest
             /\ txn[w].actor \in Members => ~IsAdmin(txn[w].actor)
  BY DEF LockedOut, Harmless, IInv, TypeOK, RequestsOK
<1>2. ASSUME NEW w \in Workers, NEW op, NEW actor \in Users, NEW target, NEW flag,
             Authenticate(w, op, actor, target, flag), UNCHANGED invVars
      PROVE  LockedOut'
  <2> DEFINE y == [Request(actor) EXCEPT !.stage = "authorize", !.op = op, !.target = target,
                                         !.flag = flag]
  <2>1. txn' = [txn EXCEPT ![w] = y] /\ UNCHANGED <<member, invites, expired>>
    BY <1>2 DEF Authenticate, invVars, teamDb
  <2>2. actor \notin PlatformAdmins
    BY <1>2 DEF Authenticate, LockedOut, IsAdmin
  <2>3. y.stage = "authorize" /\ y.actor = actor
    BY DEF Request
  <2> HIDE DEF y
  <2>4. QED
    BY <2>1, <2>2, <2>3, HarmlessChange DEF Harmless
<1>3. ASSUME NEW w \in Workers, Authorize(w), UNCHANGED invVars PROVE LockedOut'
  <2>1. UNCHANGED <<member, invites, expired>> /\ txn[w].stage = "authorize"
    BY <1>3 DEF Authorize, invVars, teamDb
  <2>2. txn[w].actor \notin PlatformAdmins
    BY <1>1, <2>1 DEF Harmless, RequestOK, StagesOK
  <2>3. ~IsAdmin(txn[w].actor)
    BY <1>1, <2>2 DEF IsAdmin
  <2>4. ~(Cardinality(Members) <= 1)
    <3>1. IsFiniteSet(Members)
      BY TeamAssumption, FS_Subset DEF Members
    <3>2. Cardinality(Members) \in Nat
      BY <3>1, FS_CardinalityType
    <3>3. QED
      BY <3>2 DEF LockedOut
  <2>5. End(w)
    BY <1>3, <2>3, <2>4 DEF Authorize
  <2>6. QED
    BY <2>1, <2>5, HarmlessEnd
<1>4. ASSUME NEW w \in Workers, Check(w) \/ Write(w) \/ Commit(w) \/ Invite(w) \/ CommitInvite(w)
      PROVE  FALSE
  <2>1. txn[w].stage \in {"check", "write", "commit"} /\ txn[w].op # "accept"
    BY <1>1, <1>4 DEF Check, Write, Commit, Invite, CommitInvite, RequestOK, StagesOK
  <2>2. QED
    BY <1>1, <2>1 DEF Harmless
<1>5. ASSUME NEW w \in Workers, Fail(w), UNCHANGED invVars PROVE LockedOut'
  BY <1>5, HarmlessEnd DEF Fail, invVars, teamDb
<1>6. CASE TeamNext /\ UNCHANGED invVars
  BY <1>2, <1>3, <1>4, <1>5, <1>6 DEF TeamNext, Step
<1>7. ASSUME NEW w \in Workers, Lookup(w) PROVE LockedOut'
  <2> DEFINE inv == invites[txn[w].invite]
             y == [txn[w] EXCEPT !.stage = "register", !.seen = Len(trail),
                                 !.actor = inv.email, !.target = inv.email, !.flag = inv.admin]
  <2>1. UNCHANGED <<member, invites, expired>> /\ txn[w].stage = "lookup"
    BY <1>7 DEF Lookup, invVars, teamDb
  <2>2. CASE End(w)
    BY <2>1, <2>2, HarmlessEnd
  <2>3. CASE Active(txn[w].invite) /\ txn' = [txn EXCEPT ![w] = y]
    <3>1. ~inv.admin
      BY <2>3 DEF LockedOut, Active
    <3>2. y.op = txn[w].op /\ y.flag = inv.admin
      BY <1>1 DEF AnyRequest
    <3>3. txn[w].op = "accept"
      BY <1>1, <2>1 DEF RequestOK, StagesOK
    <3> HIDE DEF y
    <3>4. QED
      BY <2>1, <2>3, <3>1, <3>2, <3>3, HarmlessChange DEF Harmless
  <2>4. QED
    BY <1>7, <2>2, <2>3 DEF Lookup
<1>8. ASSUME NEW w \in Workers, Register(w) PROVE LockedOut'
  <2> DEFINE y == [txn[w] EXCEPT !.stage = "commit"]
  <2>1. UNCHANGED <<member, invites, expired>> /\ txn[w].stage = "register"
    BY <1>8 DEF Register, invVars, teamDb
  <2>2. CASE End(w)
    BY <2>1, <2>2, HarmlessEnd
  <2>3. CASE txn' = [txn EXCEPT ![w].stage = "commit"]
    <3>1. txn' = [txn EXCEPT ![w] = y] /\ y.op = txn[w].op /\ y.flag = txn[w].flag
      BY <1>1, <2>3 DEF AnyRequest, IInv, TypeOK
    <3>2. txn[w].op = "accept" /\ ~txn[w].flag
      BY <1>1, <2>1 DEF Harmless
    <3> HIDE DEF y
    <3>3. QED
      BY <2>1, <3>1, <3>2, HarmlessChange DEF Harmless
  <2>4. QED
    BY <1>8, <2>2, <2>3 DEF Register
<1>9. ASSUME NEW w \in Workers, InviteStep(w) PROVE LockedOut'
  BY <1>4, <1>7, <1>8, <1>9, AcceptedLockedOut DEF InviteStep
<1>10. ASSUME NEW w \in Workers, NEW i \in outbox, BeginAccept(w, i) PROVE LockedOut'
  <2> DEFINE y == [Idle EXCEPT !.stage = "lookup", !.op = "accept", !.invite = i]
  <2>1. txn' = [txn EXCEPT ![w] = y] /\ UNCHANGED <<member, invites, expired>>
    BY <1>10 DEF BeginAccept, invVars, teamDb
  <2>2. y.stage = "lookup"
    BY DEF Idle, Request
  <2> HIDE DEF y
  <2>3. QED
    BY <2>1, <2>2, HarmlessChange DEF Harmless
<1>11. ASSUME NEW i \in outbox, Expire(i) PROVE LockedOut'
  <2>1. UNCHANGED <<member, txn, invites>> /\ expired \subseteq expired'
    BY <1>11 DEF Expire, teamVars, teamDb
  <2>2. QED
    BY <2>1 DEF LockedOut, Members, IsAdmin, Active
<1>12. CASE UNCHANGED vars
  <2>1. UNCHANGED <<member, txn, invites, expired>>
    BY <1>12 DEF vars, teamVars, teamDb, invVars
  <2>2. QED
    BY <2>1 DEF LockedOut, Members, IsAdmin, Active
<1>13. QED
  BY <1>2, <1>6, <1>9, <1>10, <1>11, <1>12 DEF Next

(* Once a tenant of several members has no admin and none on the way,      *)
(* nothing its members, their requests or its invitations do brings one    *)
(* back: the bootstrap of _require_team_admin is for a sole member.        *)
THEOREM NoWayBackIn == Spec => LockedOutIsForever
<1>1. IInv /\ [Next]_vars => [LockedOut => LockedOut']_vars
  BY LockedOutStays
<1>2. QED
  BY <1>1, InvariantHolds, PTL DEF Spec, LockedOutIsForever
=============================================================================
