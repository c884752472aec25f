------------------------------ MODULE Identity -------------------------------
(***************************************************************************)
(* Who a request is (services/api/ipermit_api/auth.py, oidc.py and         *)
(* routers/auth.py).  A bearer token is the platform's own (HS256) or an   *)
(* identity token of the configured issuer, checked against the keys the   *)
(* issuer publishes, which each process caches.  The token says who; the   *)
(* user row and the memberships, read on every request, say what.          *)
(*                                                                         *)
(* Signatures, password hashes and malformed tokens are values: a token    *)
(* carries whether it is sound.  The cache is _CachedJwksResolver; the     *)
(* resolver production uses keeps the client library's cache, of the same  *)
(* lifetime.                                                               *)
(***************************************************************************)
EXTENDS Clock, FiniteSets, FiniteSetsExt

CONSTANTS
    User, Key,
    JwksLifetime,              \* ttl_seconds
    TokenLifetime,             \* settings.auth_token_ttl_minutes
    IssuerConfigured,          \* settings.auth_oidc_issuer_url is set
    Accounts,                  \* what the users are at first
    MaxEdits                   \* bound: changes of users, memberships, keys and reachability

VARIABLES
    account,      \* user rows with their memberships
    issued,       \* the platform's tokens
    published,    \* the issuer's current keys
    reachable,    \* the issuer answers
    cache,        \* _cache and _fetched_at of each process
    answer,       \* the request answered by the last step, if it was one
    seen, unseen, \* history: when a key was last published, and last not
    edits

identityVars == <<account, issued, published, reachable, cache, answer, seen, unseen, edits>>

_ROLE_RANK == [consultant_user |-> 0, regulatory_analyst |-> 1, platform_admin |-> 2]

Capability == {"analyst:draft", "analyst:review", "analyst:publish"}

Account == [active : BOOLEAN, tenants : SUBSET Tenant, role : DOMAIN _ROLE_RANK,
            capabilities : SUBSET Capability]

ASSUME AccountAssumption == Tenant \subseteq Nat /\ None \notin Tenant /\ Accounts \subseteq Account

ASSUME LifetimeAssumption == JwksLifetime \in Nat

NoCache == [keys |-> {}, at |-> None]

IdentityInit ==
    /\ now = 0
    /\ account \in [User -> Accounts]
    /\ issued = {}
    /\ published \in SUBSET Key
    /\ reachable = TRUE
    /\ cache = [p \in Process |-> NoCache]
    /\ answer = None
    /\ seen = [k \in Key |-> -1 - JwksLifetime]
    /\ unseen = [k \in Key |-> -1 - JwksLifetime]
    /\ edits = 0

-----------------------------------------------------------------------------
(* Verifying                                                               *)

Refused(status) == [status |-> status, tenant |-> None]

\* Faulty variant: while the issuer does not answer, the old keys serve.
StaleWhileUnreachable(p) ==
    cache[p].at = None \/ (now - cache[p].at > JwksLifetime /\ reachable)

\* fetch refreshes a cache that is empty or older than its lifetime.
Expired(p) == cache[p].at = None \/ now - cache[p].at > JwksLifetime

Fetched(p) == IF Expired(p) THEN [keys |-> published, at |-> now] ELSE cache[p]

\* _select_tenant: the tenant the token names, else the first.
_select_tenant(token, tenants) ==
    IF token.tid \in tenants THEN token.tid
    ELSE IF tenants = {} THEN None ELSE Min(tenants)

\* _resolve_user, and what get_current_identity makes of the row.
Resolved(token) ==
    LET user == account[token.sub]
    IN IF ~user.active THEN Refused(401)
       ELSE [status |-> 200, tenant |-> _select_tenant(token, user.tenants)]

\* _decode: the platform's own tokens; an issuer's token is none of them.
_decode(token) ==
    IF token.kind = "platform" /\ now < token.exp THEN Resolved(token) ELSE Refused(401)

\* verify: an issuer that cannot be reached is not a refusal but an error.
_resolve_via_oidc(p, token) ==
    IF Expired(p) /\ ~reachable THEN Refused(500)
    ELSE IF token.kid \in Fetched(p).keys /\ token.sound THEN Resolved(token)
    ELSE Refused(401)

\* _is_oidc_token routes by the issuer the token names.
Verified(p, token) ==
    IF IssuerConfigured /\ token.kind = "issuer" THEN _resolve_via_oidc(p, token)
    ELSE _decode(token)

has_role(user, minimum) == _ROLE_RANK[user.role] >= _ROLE_RANK[minimum]

\* require_role and require_capability: what a route asks of the identity.
Permitted(user, route) ==
    /\ has_role(user, route.minimum)
    /\ route.flag = None \/ has_role(user, "platform_admin") \/ route.flag \in user.capabilities

-----------------------------------------------------------------------------
(* Requests                                                                *)

IssuerToken == [kind : {"issuer"}, sub : User, kid : Key, sound : BOOLEAN, tid : {None}]

Route == [minimum : {"consultant_user", "regulatory_analyst"}, flag : {None}]
         \cup [minimum : {"consultant_user"}, flag : {"analyst:review"}]

Request(p, token, route) ==
    LET result == Verified(p, token)
        status == IF result.status = 200 /\ ~Permitted(account[token.sub], route) THEN 403
                  ELSE result.status
    IN  /\ answer' = [status |-> status, tenant |-> result.tenant, token |-> token]
        /\ cache' = IF IssuerConfigured /\ token.kind = "issuer" /\ (reachable \/ ~Expired(p))
                    THEN [cache EXCEPT ![p] = Fetched(p)] ELSE cache
        /\ UNCHANGED <<now, account, issued, published, reachable, seen, unseen, edits>>

\* login: the token names the first tenant; a refusal leaves an audit record.
Login(u, password_ok) ==
    /\ IF password_ok /\ account[u].active
       THEN issued' = issued \cup
                {[kind |-> "platform", sub |-> u, exp |-> now + TokenLifetime,
                  tid |-> IF account[u].tenants = {} THEN None ELSE Min(account[u].tenants)]}
       ELSE UNCHANGED issued
    /\ answer' = None
    /\ UNCHANGED <<now, account, published, reachable, cache, seen, unseen, edits>>

-----------------------------------------------------------------------------
(* The rest of the platform, and the issuer                                *)

Edit == edits < MaxEdits /\ edits' = edits + 1 /\ answer' = None

\* Users are deactivated, join and leave tenants, gain and lose a capability.
EditAccount(u, new) ==
    /\ Edit
    /\ new # account[u]
    /\ account' = [account EXCEPT ![u] = new]
    /\ UNCHANGED <<now, issued, published, reachable, cache, seen, unseen>>

\* A key is rotated in or out.
Rotate(k) ==
    /\ Edit
    /\ published' = IF k \in published THEN published \ {k} ELSE published \cup {k}
    /\ seen' = IF k \in published THEN [seen EXCEPT ![k] = now] ELSE seen
    /\ unseen' = IF k \in published THEN unseen ELSE [unseen EXCEPT ![k] = now]
    /\ UNCHANGED <<now, account, issued, reachable, cache>>

Outage ==
    /\ Edit
    /\ reachable' = ~reachable
    /\ UNCHANGED <<now, account, issued, published, cache, seen, unseen>>

RestartApi(p) ==
    /\ cache[p] # NoCache
    /\ cache' = [cache EXCEPT ![p] = NoCache]
    /\ answer' = None
    /\ UNCHANGED <<now, account, issued, published, reachable, seen, unseen, edits>>

Edited(u) ==
    {[account[u] EXCEPT !.active = FALSE], [account[u] EXCEPT !.capabilities = {"analyst:review"}]}
    \cup {[account[u] EXCEPT !.tenants = t] : t \in SUBSET Tenant}

IdentityNext ==
    \/ \E p \in Process, token \in issued \cup IssuerToken, route \in Route :
          Request(p, token, route)
    \/ \E u \in User, password_ok \in BOOLEAN : Login(u, password_ok)
    \/ \E u \in User : \E new \in Edited(u) : EditAccount(u, new)
    \/ \E k \in Key : Rotate(k)
    \/ Outage
    \/ \E p \in Process : RestartApi(p)
    \/ /\ Tick
       /\ answer' = None
       /\ UNCHANGED <<account, issued, published, reachable, cache, seen, unseen, edits>>

IdentitySpec == IdentityInit /\ [][IdentityNext]_<<now, identityVars>>

-----------------------------------------------------------------------------
(* Hazard: keys are cached while the issuer rotates them and fails         *)
(* (oidc.py:67).  However keys, outages, restarts and requests interleave: *)
(* a token passes only if the issuer published its key at some moment      *)
(* within the lifetime, so a withdrawn key serves no longer than that; a   *)
(* sound token of an active user is refused only if its key was absent at  *)
(* some such moment; and whoever passes is a user who is active now, in a  *)
(* tenant she is in now, whatever the token says.                          *)
KeysWithinLifetime ==
    answer # None =>
        LET t == answer.token
            user == account[t.sub]
            Seen == IF t.kid \in published THEN now ELSE seen[t.kid]
            Unseen == IF t.kid \in published THEN unseen[t.kid] ELSE now
        IN  /\ answer.status = 200 =>
                 user.active /\ (answer.tenant \in user.tenants \/ user.tenants = {})
            /\ t.kind = "issuer" /\ answer.status \in {200, 403} => now - Seen <= JwksLifetime
            /\ t.kind = "issuer" /\ IssuerConfigured /\ answer.status = 401 /\ t.sound /\ user.active
                 => now - Unseen <= JwksLifetime
=============================================================================
