---------------------------- MODULE ServiceProofs ----------------------------
(***************************************************************************)
(* Proofs about the service components: Identity, RuleIngest,              *)
(* Deliverables, LoginLimiter, SourceHealth, GeometryStores,               *)
(* Jurisdictions, Entitlement and Footprints.  Each has an inductive       *)
(* invariant of its own.                                                   *)
(***************************************************************************)
EXTENDS Identity, RuleIngest, Deliverables, LoginLimiter, SourceHealth,
        GeometryStores, Jurisdictions, Entitlement, Footprints, ListsProofs

\* The least of a set of naturals is one of them.
LEMMA MinIsElement ==
    ASSUME NEW S \in SUBSET Nat, S # {}
    PROVE  Min(S) \in S /\ \A x \in S : Min(S) <= x
  BY LeastNatural DEF Min

-----------------------------------------------------------------------------
(* Identity                                                                *)

IdentityTypeOK ==
    /\ now \in Nat
    /\ account \in [User -> Account]
    /\ \A t \in issued : t.kind = "platform" /\ t.sub \in User
    /\ cache \in [Process -> [keys : SUBSET Key, at : Nat \cup {None}]]
    /\ published \in SUBSET Key
    /\ seen \in [Key -> Int] /\ unseen \in [Key -> Int]
    /\ \A k \in Key : seen[k] <= now /\ unseen[k] <= now

\* When a key was last published, and when it was last not.
SeenAt(k) == IF k \in published THEN now ELSE seen[k]
UnseenAt(k) == IF k \in published THEN unseen[k] ELSE now

\* A cache was filled at some moment; every key was published since then or
\* at that moment if it is in the cache, and was absent if it is not.
CacheOK ==
    \A p \in Process : cache[p].at # None =>
        /\ cache[p].at <= now
        /\ \A k \in Key : IF k \in cache[p].keys THEN cache[p].at <= SeenAt(k)
                          ELSE cache[p].at <= UnseenAt(k)

IdentityInv == IdentityTypeOK /\ CacheOK /\ KeysWithinLifetime

\* With empty caches and no sessions the invariant holds.
LEMMA IdentityInitInv == IdentityInit => IdentityInv
BY AccountAssumption, LifetimeAssumption
   DEF IdentityInit, IdentityInv, IdentityTypeOK, CacheOK, KeysWithinLifetime, NoCache

\* Whoever is resolved is active, and in a tenant of hers.
LEMMA ResolvedIsCurrent ==
    ASSUME IdentityTypeOK, NEW token, token.sub \in User
    PROVE  LET user == account[token.sub]
               r == Resolved(token)
           IN  IF user.active
               THEN /\ r.status = 200
                    /\ r.tenant \in user.tenants \/ user.tenants = {}
               ELSE r.status = 401
<1> DEFINE user == account[token.sub]
<1>1. user.tenants \subseteq Nat
  BY AccountAssumption DEF IdentityTypeOK, Account
<1>2. user.tenants # {} => _select_tenant(token, user.tenants) \in user.tenants
  BY <1>1, MinIsElement DEF _select_tenant
<1>3. QED
  BY <1>2 DEF Resolved, Refused

\* What the cache serves: keys published within the lifetime, and no others.
LEMMA ServedKeys ==
    ASSUME IdentityTypeOK, CacheOK, NEW p \in Process
    PROVE  /\ Fetched(p) \in [keys : SUBSET Key, at : Nat \cup {None}]
           /\ \A k \in Key : IF k \in Fetched(p).keys THEN now - SeenAt(k) <= JwksLifetime
                             ELSE now - UnseenAt(k) <= JwksLifetime
           /\ Fetched(p).at # None =>
                 /\ Fetched(p).at <= now
                 /\ \A k \in Key : IF k \in Fetched(p).keys THEN Fetched(p).at <= SeenAt(k)
                                   ELSE Fetched(p).at <= UnseenAt(k)
<1>1. CASE Expired(p)
  <2>1. Fetched(p) = [keys |-> published, at |-> now]
    BY <1>1 DEF Fetched
  <2>2. QED
    BY <2>1, LifetimeAssumption DEF IdentityTypeOK, SeenAt, UnseenAt
<1>2. CASE ~Expired(p)
  <2>1. Fetched(p) = cache[p] /\ cache[p].at \in Nat /\ now - cache[p].at <= JwksLifetime
    BY <1>2, LifetimeAssumption DEF Fetched, Expired, IdentityTypeOK
  <2>2. \A k \in Key : SeenAt(k) \in Int /\ UnseenAt(k) \in Int
    BY DEF SeenAt, UnseenAt, IdentityTypeOK
  <2>3. cache[p] \in [keys : SUBSET Key, at : Nat \cup {None}]
    BY DEF IdentityTypeOK
  <2>4. cache[p].at # None
    BY <1>2 DEF Expired
  <2>5. /\ cache[p].at <= now
        /\ \A k \in Key : IF k \in cache[p].keys THEN cache[p].at <= SeenAt(k)
                          ELSE cache[p].at <= UnseenAt(k)
    BY <2>4 DEF CacheOK
  <2>6. QED
    BY <2>1, <2>2, <2>3, <2>5, LifetimeAssumption DEF IdentityTypeOK
<1>3. QED
  BY <1>1, <1>2

\* The answer to a request respects the lifetime, whichever branch it takes.
LEMMA RequestAnswers ==
    ASSUME IdentityInv, NEW p \in Process, NEW token \in issued \cup IssuerToken,
           NEW route \in Route, Request(p, token, route)
    PROVE  IdentityInv'
<1> DEFINE returned == Verified(p, token)
           user == account[token.sub]
<1>1. token.sub \in User /\ token.kind \in {"platform", "issuer"}
  BY DEF IdentityInv, IdentityTypeOK, IssuerToken
<1>2. token.kind = "issuer" => token.kid \in Key
  BY DEF IdentityInv, IdentityTypeOK, IssuerToken
<1>3. returned.status = 200 =>
        user.active /\ (returned.tenant \in user.tenants \/ user.tenants = {})
  BY <1>1, ResolvedIsCurrent DEF IdentityInv, Verified, _resolve_via_oidc, _decode, Refused
<1>4. token.kind = "issuer" /\ returned.status = 200 => now - SeenAt(token.kid) <= JwksLifetime
  BY <1>2, ServedKeys DEF IdentityInv, Verified, _resolve_via_oidc, _decode, Refused
<1>5. token.kind = "issuer" /\ IssuerConfigured /\ returned.status = 401 /\ token.sound /\ user.active
        => now - UnseenAt(token.kid) <= JwksLifetime
  BY <1>1, <1>2, ServedKeys, ResolvedIsCurrent
     DEF IdentityInv, Verified, _resolve_via_oidc, Refused
<1>6. /\ UNCHANGED <<now, account, issued, published, seen, unseen>>
      /\ answer'.token = token
      /\ answer'.tenant = returned.tenant
      /\ answer'.status = IF returned.status = 200 /\ ~Permitted(user, route) THEN 403
                          ELSE returned.status
  BY DEF Request
<1>7. returned.status \in {200, 401, 500}
  BY <1>1, ResolvedIsCurrent DEF IdentityInv, Verified, _resolve_via_oidc, _decode, Refused
<1>8. KeysWithinLifetime'
  BY <1>3, <1>4, <1>5, <1>6, <1>7 DEF KeysWithinLifetime, SeenAt, UnseenAt
<1>9. cache' = cache \/ cache' = [cache EXCEPT ![p] = Fetched(p)]
  BY DEF Request
<1>10. ASSUME NEW q \in Process PROVE cache'[q] = cache[q] \/ cache'[q] = Fetched(q)
  BY <1>9 DEF IdentityInv, IdentityTypeOK
<1>11. IdentityTypeOK'
  <2>1. Fetched(p) \in [keys : SUBSET Key, at : Nat \cup {None}]
    BY ServedKeys DEF IdentityInv
  <2>2. cache' \in [Process -> [keys : SUBSET Key, at : Nat \cup {None}]]
    BY <1>9, <2>1 DEF IdentityInv, IdentityTypeOK
  <2>3. QED
    BY <1>6, <2>2 DEF IdentityInv, IdentityTypeOK
<1>12. CacheOK'
  <2>1. \A k \in Key : SeenAt(k)' = SeenAt(k) /\ UnseenAt(k)' = UnseenAt(k)
    BY <1>6 DEF SeenAt, UnseenAt
  <2>2. ASSUME NEW q \in Process, NEW c, c = cache[q] \/ c = Fetched(q), c.at # None
        PROVE  /\ c.at <= now
               /\ \A k \in Key : IF k \in c.keys THEN c.at <= SeenAt(k) ELSE c.at <= UnseenAt(k)
    BY <2>2, ServedKeys DEF IdentityInv, CacheOK
  <2>3. QED
    BY <1>6, <1>10, <2>1, <2>2 DEF CacheOK
<1>13. QED
  BY <1>8, <1>11, <1>12 DEF IdentityInv

\* No other step answers a request; what has been published is not forgotten.
LEMMA IdentityStep == IdentityInv /\ [IdentityNext]_<<now, identityVars>> => IdentityInv'
<1> SUFFICES ASSUME IdentityInv, [IdentityNext]_<<now, identityVars>>
             PROVE  IdentityInv'
  OBVIOUS
<1> USE DEF IdentityInv, IdentityTypeOK
<1>1. ASSUME answer' = None PROVE KeysWithinLifetime'
  BY <1>1 DEF KeysWithinLifetime
<1>2. ASSUME NEW p \in Process, NEW token \in issued \cup IssuerToken, NEW route \in Route,
             Request(p, token, route)
      PROVE  IdentityInv'
  BY <1>2, RequestAnswers
<1>3. ASSUME NEW u \in User, NEW password_ok \in BOOLEAN, Login(u, password_ok)
      PROVE  IdentityInv'
  <2>1. \A t \in issued' : t.kind = "platform" /\ t.sub \in User
    BY <1>3 DEF Login
  <2>2. CacheOK'
    BY <1>3 DEF Login, CacheOK, SeenAt, UnseenAt
  <2>3. QED
    BY <1>1, <1>3, <2>1, <2>2 DEF Login
<1>4. ASSUME NEW u \in User, NEW new \in Edited(u), EditAccount(u, new)
      PROVE  IdentityInv'
  <2>1. new \in Account
    <3>1. account[u] \in Account /\ {"analyst:review"} \subseteq Capability
      BY DEF Capability
    <3>2. CASE new = [account[u] EXCEPT !.active = FALSE]
      BY <3>1, <3>2 DEF Account
    <3>3. CASE new = [account[u] EXCEPT !.capabilities = {"analyst:review"}]
      BY <3>1, <3>3 DEF Account
    <3>4. ASSUME NEW t \in SUBSET Tenant, new = [account[u] EXCEPT !.tenants = t]
          PROVE  new \in Account
      BY <3>1, <3>4 DEF Account
    <3>5. QED
      BY <1>4, <3>2, <3>3, <3>4 DEF Edited
  <2>2. QED
    BY <1>1, <1>4, <2>1 DEF EditAccount, Edit, CacheOK, SeenAt, UnseenAt
<1>5. ASSUME NEW k \in Key, Rotate(k)
      PROVE  IdentityInv'
  <2>1. \A l \in Key : SeenAt(l) <= SeenAt(l)' /\ UnseenAt(l) <= UnseenAt(l)'
    BY <1>5 DEF Rotate, SeenAt, UnseenAt
  <2>2. \A l \in Key : /\ SeenAt(l) \in Int /\ UnseenAt(l) \in Int
                        /\ SeenAt(l)' \in Int /\ UnseenAt(l)' \in Int
    BY <1>5 DEF Rotate, SeenAt, UnseenAt
  <2>3. CacheOK'
    <3>1. UNCHANGED cache /\ UNCHANGED now
      BY <1>5 DEF Rotate
    <3>2. ASSUME NEW q \in Process, cache[q].at # None, NEW l \in Key
          PROVE  IF l \in cache[q].keys THEN cache[q].at <= SeenAt(l)' ELSE cache[q].at <= UnseenAt(l)'
      <4>1. cache[q].at \in Int
        BY <3>2
      <4>2. IF l \in cache[q].keys THEN cache[q].at <= SeenAt(l) ELSE cache[q].at <= UnseenAt(l)
        BY <3>2 DEF CacheOK
      <4>3. QED
        BY <2>1, <2>2, <4>1, <4>2
    <3>3. QED
      BY <3>1, <3>2 DEF CacheOK
  <2>4. IdentityTypeOK'
    BY <1>5 DEF Rotate
  <2>5. QED
    BY <1>1, <1>5, <2>3, <2>4 DEF Rotate, Edit
<1>6. CASE Outage
  BY <1>1, <1>6 DEF Outage, Edit, CacheOK, SeenAt, UnseenAt
<1>7. ASSUME NEW p \in Process, RestartApi(p)
      PROVE  IdentityInv'
  BY <1>1, <1>7 DEF RestartApi, NoCache, CacheOK, SeenAt, UnseenAt
<1>8. CASE Tick /\ answer' = None /\
           UNCHANGED <<account, issued, published, reachable, cache, seen, unseen, edits>>
  BY <1>1, <1>8 DEF Tick, CacheOK, SeenAt, UnseenAt
<1>9. CASE UNCHANGED <<now, identityVars>>
  BY <1>9 DEF identityVars, CacheOK, SeenAt, UnseenAt, KeysWithinLifetime
<1>10. QED
  BY <1>2, <1>3, <1>4, <1>5, <1>6, <1>7, <1>8, <1>9 DEF IdentityNext

\* For any users, keys, processes and lifetime: a token passes only by a key that was
\* published within the lifetime, a sound one is refused only by a key that was absent within
\* it, and whoever passes is active and in one of her tenants (oidc.py:67, auth.py).
THEOREM KeysServeWithinLifetime == IdentitySpec => []KeysWithinLifetime
<1>1. IdentityInv => KeysWithinLifetime
  BY DEF IdentityInv
<1>2. QED
  BY IdentityInitInv, IdentityStep, <1>1, PTL DEF IdentitySpec

-----------------------------------------------------------------------------
(* RuleIngest                                                              *)

\* The row of the table that load n makes of row i of a file.
Stored(n, file, i) ==
    [key |-> file[i].key, status |-> file[i].status, doc |-> normalize(file[i]),
     cells |-> file[i].cells, load |-> n, file |-> file, index |-> i]

Records == {Stored(n, file, i) : n \in Nat, file \in Files, i \in Nat}

Errors == {"ingest_error", "value_error", "attribute_error"}

IngestTypeOK ==
    /\ loads \in Nat
    /\ load = NoLoad \/ load \in [stage : {"reading", "loaded"} \cup Errors,
                                  file : Files, next : Nat \ {0}, dry_run : BOOLEAN,
                                  pending : Seq(Records)]

\* The rows read so far that are rules.
ReadRules == {i \in 1..(load.next - 1) : ~load.file[i].comment}

\* A load has added every rule it has read, and none of them is bad; it has
\* stopped at a bad one, or at the end of the file.
LoadOK ==
    load # NoLoad =>
        /\ loads > 0
        /\ load.next <= Len(load.file) + 1
        /\ load.dry_run => load.pending = <<>>
        /\ ~load.dry_run =>
              /\ Range(load.pending) = {Stored(loads, load.file, i) : i \in ReadRules}
              /\ \A i \in 1..(load.next - 1) : ~Bad(load.file[i])
        /\ load.stage = "loaded" => load.next = Len(load.file) + 1
        /\ load.stage \in Errors =>
              load.next <= Len(load.file) /\ Bad(load.file[load.next])

\* A stored rule is a good row of its file, and of a load that has ended.
RulesOK ==
    \A r \in rules : \E n \in 1..loads, file \in Files : \E i \in DOMAIN file :
        /\ r = Stored(n, file, i)
        /\ ~file[i].comment /\ ~Bad(file[i])
        /\ load # NoLoad => n < loads

IngestInv == IngestTypeOK /\ LoadOK /\ RulesOK /\ StoredRulesAreValid

\* A good row satisfies the schema, and leaves out only what may be lost.
LEMMA GoodRow ==
    ASSUME NEW file \in Files, NEW i \in DOMAIN file, ~file[i].comment, ~Bad(file[i])
    PROVE  LET row == file[i]
               doc == normalize(row)
           IN  /\ SchemaAccepts(doc, row.status) /\ DatesParse(doc)
               /\ \A f \in Fields : doc[f] = "absent" =>
                     MayBeLost(f, row.cells[f])
<1> DEFINE row == file[i]
           doc == normalize(row)
<1>1. row.cells \in [Fields -> Cells]
  BY FilesAssumption DEF Range
<1>2. ~Raises(doc) /\ SchemaAccepts(doc, row.status) /\ DatesParse(doc)
  BY DEF Bad
<1>3. ASSUME NEW f \in Fields, doc[f] = "absent"
      PROVE  MayBeLost(f, row.cells[f])
  <2>1. doc[f] = Normalized(f, row.cells[f])
    <3>1. \A e : Raises(Raised(e))
      BY DEF Raises, Raised
    <3>2. QED
      BY <1>2, <3>1 DEF normalize
  <2>2. f \notin Required
    BY <1>2, <1>3 DEF SchemaAccepts
  <2>3. row.cells[f] \in Cells
    BY <1>1
  <2>4. QED
    BY <2>1, <2>2, <2>3, <1>3 DEF Normalized, Cells, Required, MayBeLost
<1>4. QED
  BY <1>2, <1>3

\* Before any ingestion the invariant holds.
LEMMA IngestInitInv == IngestInit => IngestInv
BY DEF IngestInit, IngestInv, IngestTypeOK, LoadOK, RulesOK, StoredRulesAreValid, NoLoad

\* Reading a row keeps what has been read before.
LEMMA Reading ==
    ASSUME IngestInv, ReadRow
    PROVE  IngestInv'
<1> DEFINE file == load.file
           n == load.next
           row == file[n]
           doc == normalize(row)
<1>1. /\ load \in [stage : {"reading", "loaded"} \cup Errors,
                   file : Files, next : Nat \ {0}, dry_run : BOOLEAN, pending : Seq(Records)]
      /\ load # NoLoad /\ load.stage = "reading" /\ n <= Len(file)
      /\ UNCHANGED <<rules, loads>>
  BY DEF ReadRow, IngestInv, IngestTypeOK, NoLoad
<1>2. n \in DOMAIN file /\ file \in Files /\ Len(file) \in Nat /\ n \in Nat
  BY <1>1, FilesAssumption
<1>3. StoredRulesAreValid'
  BY <1>1 DEF StoredRulesAreValid, IngestInv
<1>4. RulesOK'
  BY <1>1 DEF RulesOK, IngestInv
<1>5. CASE load' = [load EXCEPT !.next = n + 1] /\ (row.comment \/ load.dry_run)
  <2>1. load' # NoLoad /\ IngestTypeOK'
    BY <1>1, <1>2, <1>5 DEF NoLoad, IngestTypeOK, IngestInv
  <2>2. LoadOK'
    BY <1>1, <1>2, <1>5, <2>1 DEF LoadOK, IngestInv, ReadRules, Bad, Errors
  <2>3. QED
    BY <1>3, <1>4, <2>1, <2>2 DEF IngestInv
<1>6. CASE \E e \in Errors :
              load' = [load EXCEPT !.stage = e] /\ Bad(row)
  <2>1. load' # NoLoad /\ IngestTypeOK'
    BY <1>1, <1>2, <1>6 DEF NoLoad, IngestTypeOK, IngestInv
  <2>2. LoadOK'
    BY <1>1, <1>2, <1>6, <2>1 DEF LoadOK, IngestInv, ReadRules, Errors
  <2>3. QED
    BY <1>3, <1>4, <2>1, <2>2 DEF IngestInv
<1>7. CASE /\ load' = [load EXCEPT !.next = n + 1, !.pending = Append(load.pending, Added(row, doc))]
           /\ ~row.comment /\ ~Bad(row) /\ ~load.dry_run
  <2>1. Added(row, doc) = Stored(loads, file, n)
    BY DEF Added, Stored
  <2>2. Stored(loads, file, n) \in Records
    BY <1>1, <1>2 DEF Records, IngestInv, IngestTypeOK
  <2> DEFINE new == Stored(loads, file, n)
             longer == Append(load.pending, new)
  <2>3. load' = [load EXCEPT !.next = n + 1, !.pending = longer]
    BY <1>7, <2>1
  <2>4. longer \in Seq(Records) /\ Range(longer) = Range(load.pending) \cup {new}
    <3>1. load.pending \in Seq(Records) /\ new \in Records
      BY <1>1, <2>2
    <3> HIDE DEF new
    <3>2. longer \in Seq(Records)
      BY <3>1
    <3>3. /\ DOMAIN load.pending = 1..Len(load.pending) /\ Len(load.pending) \in Nat
          /\ DOMAIN longer = 1..(Len(load.pending) + 1)
          /\ longer[Len(load.pending) + 1] = new
          /\ \A i \in 1..Len(load.pending) : longer[i] = load.pending[i]
      BY <3>1
    <3> HIDE DEF longer
    <3>4. QED
      BY <3>2, <3>3 DEF Range
  <2> HIDE DEF longer
  <2>5. /\ load' \in [stage : {"reading", "loaded"} \cup Errors,
                      file : Files, next : Nat \ {0}, dry_run : BOOLEAN, pending : Seq(Records)]
        /\ load'.stage = "reading"
    <3>1. longer \in Seq(Records) /\ n + 1 \in Nat \ {0}
      BY <2>4, <1>2
    <3>2. QED
      BY <1>1, <2>3, <3>1
  <2>6. load' # NoLoad /\ IngestTypeOK'
    BY <1>1, <2>5 DEF NoLoad, IngestTypeOK, IngestInv
  <2>7. Range(load.pending') = Range(load.pending) \cup {Stored(loads, file, n)}
    BY <1>1, <2>3, <2>4
  <2>8. ReadRules' = ReadRules \cup {n}
    BY <1>1, <1>2, <1>7 DEF ReadRules
  <2>9. LoadOK'
    BY <1>1, <1>2, <1>7, <2>6, <2>7, <2>8 DEF LoadOK, IngestInv
  <2>10. QED
    BY <1>3, <1>4, <2>6, <2>9 DEF IngestInv
<1>8. Raises(doc) => doc.error \in Errors
  <2>1. \A e : Raised(e).error = e
    BY DEF Raised
  <2>2. ~Raises([f \in Fields |-> Normalized(f, row.cells[f])])
    BY DEF Raises, Fields
  <2>3. doc = Raised("attribute_error") \/ doc = Raised("ingest_error") \/ ~Raises(doc)
    BY <2>2 DEF normalize
  <2>4. QED
    BY <2>1, <2>3 DEF Errors
<1>9. "ingest_error" \in Errors /\ "value_error" \in Errors
  BY DEF Errors
<1>10. QED
  BY <1>1, <1>2, <1>5, <1>6, <1>7, <1>8, <1>9 DEF ReadRow, _load_one, Stop, Bad

\* A list without repeated keys has one element for each of them.
LEMMA KeysTellApart ==
    ASSUME NEW S, NEW s \in Seq(S), ~ (Cardinality(Keys(s)) < Len(s)),
           NEW i \in DOMAIN s, NEW j \in DOMAIN s, s[i].key = s[j].key
    PROVE  i = j
<1> DEFINE keyed == [k \in 1..Len(s) |-> s[k].key]
<1>1. Len(s) \in Nat /\ DOMAIN s = 1..Len(s)
  OBVIOUS
<1>2. keyed \in Surjection(1..Len(s), Keys(s))
  BY <1>1 DEF Surjection, Keys
<1>3. IsFiniteSet(1..Len(s)) /\ Cardinality(1..Len(s)) = Len(s)
  <2>1. 1 \in Int /\ Len(s) \in Int
    BY <1>1
  <2>2. /\ IsFiniteSet(1..Len(s))
        /\ Cardinality(1..Len(s)) = IF 1 > Len(s) THEN 0 ELSE Len(s) - 1 + 1
    BY <2>1, FS_Interval
  <2>3. QED
    BY <1>1, <2>2
<1>4. IsFiniteSet(Keys(s)) /\ Cardinality(Keys(s)) <= Len(s)
      /\ (Cardinality(Keys(s)) = Len(s) => keyed \in Injection(1..Len(s), Keys(s)))
  BY <1>2, <1>3, FS_Surjection
<1>5. Cardinality(Keys(s)) \in Nat
  BY <1>4, FS_CardinalityType
<1>6. keyed \in Injection(1..Len(s), Keys(s))
  BY <1>1, <1>4, <1>5
<1>7. QED
  BY <1>1, <1>6 DEF Injection, IsInjective

\* The records of a load that goes in are new, and are the rules up to its end.
LEMMA Committing ==
    ASSUME IngestInv, CommitLoad
    PROVE  IngestInv'
<1> DEFINE file == load.file
           n == load.next
           fresh == Range(load.pending)
<1>1. /\ load \in [stage : {"reading", "loaded"} \cup Errors,
                   file : Files, next : Nat \ {0}, dry_run : BOOLEAN, pending : Seq(Records)]
      /\ load # NoLoad /\ load.stage \in {"loaded"} \cup Errors
      /\ loads' = loads /\ load' = NoLoad
  BY DEF CommitLoad, LoadEnded, IngestInv, IngestTypeOK
<1>2. IngestTypeOK' /\ LoadOK'
  BY <1>1 DEF IngestTypeOK, LoadOK, IngestInv
<1>3. CASE rules' = rules
  <2>1. StoredRulesAreValid'
    BY <1>3 DEF IngestInv, StoredRulesAreValid
  <2>2. RulesOK'
    BY <1>1, <1>3 DEF IngestInv, RulesOK
  <2>3. QED
    BY <1>2, <2>1, <2>2 DEF IngestInv
<1>4. CASE load.dry_run
  <2>1. load.pending = <<>> /\ DOMAIN load.pending = {}
    BY <1>1, <1>4 DEF IngestInv, LoadOK
  <2>2. fresh = {}
    BY <2>1 DEF Range
  <2>3. QED
    BY <1>3, <2>2 DEF CommitLoad
<1>5. CASE ~load.dry_run /\ rules' # rules
  <2>1. /\ rules' = rules \cup fresh
        /\ ~ (Cardinality(Keys(load.pending)) < Len(load.pending))
        /\ Keys(load.pending) \cap {r.key : r \in rules} = {}
    BY <1>5 DEF CommitLoad
  <2>2. /\ fresh = {Stored(loads, file, i) : i \in ReadRules}
        /\ \A i \in 1..(n - 1) : ~Bad(file[i])
        /\ n <= Len(file) => Bad(file[n])
        /\ n <= Len(file) + 1
    BY <1>1, <1>5 DEF IngestInv, LoadOK
  <2>3. Len(file) \in Nat /\ DOMAIN file = 1..Len(file) /\ file \in Files /\ n \in Nat \ {0} /\ loads \in Nat
    BY <1>1, FilesAssumption DEF IngestInv, IngestTypeOK
  <2>4. ReadRules = {i \in DOMAIN file : ~file[i].comment /\ \A j \in 1..i : ~Bad(file[j])}
    <3>1. ASSUME NEW i \in DOMAIN file, \A j \in 1..i : ~Bad(file[j]) PROVE i \in 1..(n - 1)
      BY <2>2, <2>3, <3>1
    <3>2. ASSUME NEW i \in 1..(n - 1) PROVE i \in DOMAIN file /\ \A j \in 1..i : ~Bad(file[j])
      BY <2>2, <2>3, <3>2
    <3>3. QED
      BY <3>1, <3>2 DEF ReadRules
  <2>5. \A i \in ReadRules : i \in DOMAIN file /\ ~file[i].comment /\ ~Bad(file[i])
    BY <2>2, <2>3 DEF ReadRules
  <2>6. \A r \in rules : r.load \in 1..loads /\ r.load # loads
    BY <1>1, <2>3 DEF IngestInv, RulesOK, Stored
  <2>7. \A r \in fresh : r.load = loads /\ r.file = file /\ r.index \in ReadRules
    BY <2>2 DEF Stored
  <2>8. loads \in 1..loads
    BY <1>1, <2>3 DEF IngestInv, LoadOK
  <2>9. RulesOK'
    BY <1>1, <2>1, <2>2, <2>3, <2>5, <2>8 DEF RulesOK, IngestInv
  <2>10. \A r, s \in rules' : r.key = s.key => r = s
    <3>1. \A r, s \in fresh : r.key = s.key => r = s
      BY <1>1, <2>1, KeysTellApart DEF Range
    <3>2. \A r \in rules, s \in fresh : r.key # s.key
      BY <2>1 DEF Keys, Range
    <3>3. \A r, s \in rules : r.key = s.key => r = s
      BY DEF IngestInv, StoredRulesAreValid
    <3>4. QED
      BY <2>1, <3>1, <3>2, <3>3
  <2>11. \A r \in fresh : \E i \in ReadRules : r = Stored(loads, file, i)
    BY <2>2
  <2>12. \A r \in fresh : /\ SchemaAccepts(r.doc, r.status) /\ DatesParse(r.doc)
                          /\ \A f \in Fields : r.doc[f] = "absent" =>
                                MayBeLost(f, r.cells[f])
    BY <2>3, <2>5, <2>11, GoodRow DEF Stored
  <2>13. \A r \in fresh : {q \in rules' : q.load = r.load} = fresh
    BY <2>1, <2>6, <2>7
  <2>14. {q.index : q \in fresh} = ReadRules
    <3>1. \A i \in ReadRules : Stored(loads, file, i) \in fresh /\ Stored(loads, file, i).index = i
      BY <2>2 DEF Stored
    <3>2. QED
      BY <2>7, <3>1
  <2>15. \A r \in rules : {q \in rules' : q.load = r.load} = {q \in rules : q.load = r.load}
    BY <2>1, <2>6, <2>7
  <2>16. \A r \in rules' : {s.index : s \in {q \in rules' : q.load = r.load}}
            = {i \in DOMAIN r.file : ~r.file[i].comment /\ \A j \in 1..i : ~Bad(r.file[j])}
    <3>1. ASSUME NEW r \in fresh
          PROVE  {s.index : s \in {q \in rules' : q.load = r.load}}
            = {i \in DOMAIN r.file : ~r.file[i].comment /\ \A j \in 1..i : ~Bad(r.file[j])}
      BY <2>4, <2>7, <2>13, <2>14
    <3>2. ASSUME NEW r \in rules
          PROVE  {s.index : s \in {q \in rules' : q.load = r.load}}
            = {i \in DOMAIN r.file : ~r.file[i].comment /\ \A j \in 1..i : ~Bad(r.file[j])}
      BY <2>15 DEF IngestInv, StoredRulesAreValid
    <3>3. QED
      BY <2>1, <3>1, <3>2
  <2>17. StoredRulesAreValid'
    BY <2>1, <2>10, <2>12, <2>16 DEF IngestInv, StoredRulesAreValid
  <2>18. QED
    BY <1>2, <2>9, <2>17 DEF IngestInv
<1>6. QED
  BY <1>3, <1>4, <1>5

\* Every step of an ingestion keeps its invariant.
LEMMA IngestStep == IngestInv /\ [IngestNext]_ingestVars => IngestInv'
<1> SUFFICES ASSUME IngestInv, [IngestNext]_ingestVars
             PROVE  IngestInv'
  OBVIOUS
<1>1. ASSUME NEW file \in Files, NEW dry_run \in BOOLEAN, Start(file, dry_run)
      PROVE  IngestInv'
  <2>1. /\ load' = [stage |-> "reading", file |-> file, next |-> 1, dry_run |-> dry_run,
                    pending |-> <<>>]
        /\ loads' = loads + 1 /\ rules' = rules /\ load = NoLoad /\ loads \in Nat
    BY <1>1 DEF Start, IngestInv, IngestTypeOK
  <2>2. IngestTypeOK' /\ load' # NoLoad
    BY <2>1 DEF IngestTypeOK, NoLoad
  <2>3. LoadOK'
    <3>1. ReadRules' = {}
      BY <2>1 DEF ReadRules
    <3>2. Len(file) \in Nat /\ Range(<<>>) = {}
      BY FilesAssumption DEF Range
    <3>3. QED
      BY <2>1, <3>1, <3>2 DEF LoadOK, Errors
  <2>4. RulesOK'
    <3>1. \A m \in 1..loads : m \in 1..loads' /\ m < loads'
      BY <2>1
    <3>2. QED
      BY <2>1, <3>1 DEF RulesOK, IngestInv
  <2>5. QED
    BY <2>1, <2>2, <2>3, <2>4 DEF IngestInv, StoredRulesAreValid
<1>2. CASE ReadRow
  BY <1>2, Reading
<1>3. CASE Finish
  <2>1. /\ load \in [stage : {"reading", "loaded"} \cup Errors,
                     file : Files, next : Nat \ {0}, dry_run : BOOLEAN, pending : Seq(Records)]
        /\ load # NoLoad /\ load.next > Len(load.file) /\ Len(load.file) \in Nat
        /\ load' = [load EXCEPT !.stage = "loaded"]
        /\ UNCHANGED <<rules, loads>>
    BY <1>3, FilesAssumption DEF Finish, Stop, IngestInv, IngestTypeOK, NoLoad
  <2>2. IngestTypeOK' /\ load' # NoLoad
    BY <2>1 DEF IngestTypeOK, NoLoad, IngestInv
  <2>3. LoadOK' /\ RulesOK'
    BY <2>1, <2>2 DEF LoadOK, RulesOK, ReadRules, IngestInv, Errors
  <2>4. QED
    BY <2>1, <2>2, <2>3 DEF IngestInv, StoredRulesAreValid
<1>4. CASE CommitLoad
  BY <1>4, Committing
<1>5. CASE RollBack
  <2>1. load' = NoLoad /\ UNCHANGED <<rules, loads>>
    BY <1>5 DEF RollBack
  <2>2. IngestTypeOK' /\ LoadOK'
    BY <2>1 DEF IngestInv, IngestTypeOK, LoadOK
  <2>3. RulesOK'
    BY <2>1 DEF IngestInv, RulesOK
  <2>4. StoredRulesAreValid'
    BY <2>1 DEF IngestInv, StoredRulesAreValid
  <2>5. QED
    BY <2>2, <2>3, <2>4 DEF IngestInv
<1>6. CASE UNCHANGED ingestVars
  <2>1. load' = load /\ UNCHANGED <<rules, loads>>
    BY <1>6 DEF ingestVars
  <2>2. IngestTypeOK' /\ LoadOK'
    BY <2>1 DEF IngestInv, IngestTypeOK, LoadOK, ReadRules
  <2>3. RulesOK'
    BY <2>1 DEF IngestInv, RulesOK
  <2>4. StoredRulesAreValid'
    BY <2>1 DEF IngestInv, StoredRulesAreValid
  <2>5. QED
    BY <2>2, <2>3, <2>4 DEF IngestInv
<1>7. QED
  BY <1>1, <1>2, <1>3, <1>4, <1>5, <1>6 DEF IngestNext

\* For any files and any number of loads, committed or not, after an error or not: what is stored
\* satisfies the schema, once for each key, whole files up to their first bad row, and leaves
\* out nothing but what was blank, a sequencing that could not be read, and optional lists that
\* could not be read or are none (ingest.py:144-170,251-271).
THEOREM LoadsStoreValidRules == IngestSpec => []StoredRulesAreValid
<1>1. IngestInv => StoredRulesAreValid
  BY DEF IngestInv
<1>2. QED
  BY IngestInitInv, IngestStep, <1>1, PTL DEF IngestSpec

-----------------------------------------------------------------------------
(* Deliverables                                                            *)

EvaluationRow == [id : Nat, tenant : Tenant, project : Nat, began : Nat, created_at : Nat,
                  committed : Nat]

Work == [stage : {"work", "commit", "answer"}, kind : Kinds, id : Nat, tenant : Tenant,
         project : Nat, began : Nat, at : Nat \cup {None}, got : EvaluationRow \cup {None}]

DeliverablesTypeOK ==
    /\ moment \in Nat /\ admitted \in Nat /\ failed \in Nat
    /\ evaluations \in SUBSET EvaluationRow /\ IsFiniteSet(evaluations)
    /\ usage \in SUBSET [id : Nat, tenant : Tenant, metric : {"evaluation", "export"},
                         occurred_at : Nat]
    /\ trail \in SUBSET [id : Nat, tenant : Tenant, subject : Nat,
                         action : {"project.created", "project.evaluated", "matrix.exported",
                                   "footprint.uploaded"}]
    /\ blobs \in SUBSET (1..admitted)
    /\ request \in [Worker -> Work \cup {Idle}]

Owned(t, p) == [project |-> p, tenant |-> t] \in projects

\* A project is one tenant's, and has the number of the request that made it.
ProjectsOK ==
    /\ \A row \in projects : row = [project |-> row.project, tenant |-> row.tenant]
                             /\ row.project \in 0..admitted
    /\ \A row, other \in projects : row.project = other.project => row = other

\* Evaluations have ids of their own, and times in order.
EvaluationsOK ==
    /\ \A e \in evaluations :
          /\ e.id <= admitted /\ Owned(e.tenant, e.project)
          /\ e.began < e.created_at /\ e.created_at < e.committed /\ e.committed < moment
    /\ \A e, f \in evaluations : e.id = f.id => e = f

Billed(e) == [id |-> e.id, tenant |-> e.tenant, metric |-> "evaluation",
              occurred_at |-> e.created_at]

Logged(e) == [id |-> e.id, tenant |-> e.tenant, action |-> "project.evaluated", subject |-> e.id]

Uploaded == {a.subject : a \in {b \in trail : b.action = "footprint.uploaded"}}

\* Every evaluation and every export has one record of each kind.
RecordsOK ==
    /\ \A u \in usage : u.id <= admitted
    /\ \A a \in trail : a.id <= admitted
    /\ {u \in usage : u.metric = "evaluation"} = {Billed(e) : e \in evaluations}
    /\ {a \in trail : a.action = "project.evaluated"} = {Logged(e) : e \in evaluations}
    /\ {[id |-> a.id, tenant |-> a.tenant] : a \in {b \in trail : b.action = "matrix.exported"}}
          = {[id |-> u.id, tenant |-> u.tenant] : u \in {v \in usage : v.metric = "export"}}
    /\ \A a \in trail : a.action = "matrix.exported" =>
          \E e \in evaluations : e.id = a.subject /\ e.tenant = a.tenant
    /\ Uploaded \subseteq blobs

Unrecorded(n) ==
    /\ \A e \in evaluations : e.id # n
    /\ \A u \in usage : u.id # n
    /\ \A a \in trail : a.id # n

\* What is served was the latest evaluation of the project when it was read.
ServedOK(r) ==
    /\ r.got \in evaluations /\ r.got.tenant = r.tenant
    /\ \A e \in evaluations : e.project = r.project /\ e.committed < r.at =>
          e.created_at <= r.got.created_at

WorkOK(r) ==
    r # Idle =>
        /\ r.id \in 1..admitted
        /\ r.began < moment
        /\ r.stage \in {"commit", "answer"} => r.at \in Nat /\ r.began < r.at /\ r.at < moment
        /\ r.stage \in {"work", "commit"} => Unrecorded(r.id)
        /\ IF r.kind = "create"
           THEN /\ r.project = r.id
                /\ r.stage \in {"work", "commit"} => \A row \in projects : row.project # r.id
           ELSE Owned(r.tenant, r.project)
        /\ IF r.kind \in {"export", "matrix"} /\ r.stage # "work" THEN ServedOK(r) ELSE r.got = None
        /\ r.id \in blobs => r.kind = "upload"
        /\ r.kind = "upload" /\ r.stage # "work" => r.id \in blobs
        /\ r.kind = "upload" /\ r.stage = "answer" => r.id \in Uploaded

WorkersOK ==
    /\ \A w \in Worker : WorkOK(request[w])
    /\ \A v, w \in Worker : v # w /\ request[v] # Idle /\ request[w] # Idle =>
          request[v].id # request[w].id

Running == {request[w].id : w \in {v \in Worker : request[v] # Idle}}

\* Files that nobody names and nobody is about to.
Lost == (blobs \ Uploaded) \ Running

LostOK == Cardinality(Lost) <= failed

DeliverablesInv ==
    /\ DeliverablesTypeOK /\ ProjectsOK /\ EvaluationsOK /\ RecordsOK /\ WorkersOK /\ LostOK

\* Nothing is stored or under way at first.
LEMMA DeliverablesInitInv == DeliverablesInit => DeliverablesInv
<1> SUFFICES ASSUME DeliverablesInit PROVE DeliverablesInv
  OBVIOUS
<1> USE DEF DeliverablesInit
<1>1. DeliverablesTypeOK
  BY FS_EmptySet DEF DeliverablesTypeOK
<1>2. ProjectsOK /\ EvaluationsOK
  BY DEF ProjectsOK, EvaluationsOK
<1>3. RecordsOK
  BY DEF RecordsOK, Uploaded
<1>4. WorkersOK
  BY DEF WorkersOK, WorkOK
<1>5. Lost = {}
  BY DEF Lost
<1>6. LostOK
  BY <1>5, FS_EmptySet DEF LostOK
<1>7. QED
  BY <1>1, <1>2, <1>3, <1>4, <1>6 DEF DeliverablesInv

\* No file is lost but by a failure, and one at most by each.
LEMMA FewAreLost ==
    ASSUME DeliverablesInv
    PROVE  /\ Lost' \subseteq Lost /\ failed' = failed => LostOK'
           /\ \A n : Lost' \subseteq Lost \cup {n} /\ failed' = failed + 1 => LostOK'
<1>1. IsFiniteSet(1..admitted)
  BY FS_Interval DEF DeliverablesInv, DeliverablesTypeOK
<1>2. IsFiniteSet(Lost)
  BY <1>1, FS_Subset DEF Lost, DeliverablesInv, DeliverablesTypeOK
<1>3. Cardinality(Lost) \in Nat /\ Cardinality(Lost) <= failed /\ failed \in Nat
  BY <1>2, FS_CardinalityType DEF DeliverablesInv, LostOK, DeliverablesTypeOK
<1>4. ASSUME Lost' \subseteq Lost, failed' = failed PROVE LostOK'
  <2>1. IsFiniteSet(Lost') /\ Cardinality(Lost') <= Cardinality(Lost)
    BY <1>2, <1>4, FS_Subset
  <2>2. Cardinality(Lost') \in Nat
    BY <2>1, FS_CardinalityType
  <2>3. QED
    BY <1>3, <1>4, <2>1, <2>2 DEF LostOK
<1>5. ASSUME NEW n, Lost' \subseteq Lost \cup {n}, failed' = failed + 1 PROVE LostOK'
  <2>1. IsFiniteSet(Lost \cup {n}) /\ Cardinality(Lost \cup {n}) <= Cardinality(Lost) + 1
        /\ Cardinality(Lost \cup {n}) \in Nat
    <3>1. /\ IsFiniteSet(Lost \cup {n})
          /\ Cardinality(Lost \cup {n}) = IF n \in Lost THEN Cardinality(Lost) ELSE Cardinality(Lost) + 1
      BY <1>2, FS_AddElement
    <3>2. QED
      BY <1>3, <3>1
  <2>2. IsFiniteSet(Lost') /\ Cardinality(Lost') <= Cardinality(Lost \cup {n})
    BY <1>5, <2>1, FS_Subset
  <2>3. Cardinality(Lost') \in Nat
    BY <2>2, FS_CardinalityType
  <2>4. QED
    BY <1>3, <1>5, <2>1, <2>2, <2>3 DEF LostOK
<1>6. QED
  BY <1>4, <1>5

\* A step of one request that commits nothing.
LEMMA NothingCommitted ==
    ASSUME DeliverablesInv, NEW w \in Worker, NEW y \in Work \cup {Idle},
           request' = [request EXCEPT ![w] = y],
           UNCHANGED committed,
           moment' \in Nat, moment <= moment', admitted' \in Nat, admitted <= admitted',
           failed' \in Nat,
           blobs \subseteq blobs', blobs' \subseteq 1..admitted',
           \A v \in Worker \ {w} : request[v] # Idle /\ request[v].id \in blobs'
             => request[v].id \in blobs,
           WorkOK(y)',
           \A v \in Worker \ {w} : y # Idle /\ request[v] # Idle => request[v].id # y.id
    PROVE  DeliverablesTypeOK' /\ ProjectsOK' /\ EvaluationsOK' /\ RecordsOK' /\ WorkersOK'
<1>1. UNCHANGED <<projects, evaluations, usage, trail>>
  BY DEF committed
<1>2. DeliverablesTypeOK'
  BY <1>1 DEF DeliverablesInv, DeliverablesTypeOK
<1>3. ProjectsOK'
  BY <1>1 DEF DeliverablesInv, DeliverablesTypeOK, ProjectsOK
<1>4. EvaluationsOK'
  BY <1>1 DEF DeliverablesInv, DeliverablesTypeOK, EvaluationsOK, EvaluationRow, Owned
<1>5. Uploaded' = Uploaded
  BY <1>1 DEF Uploaded
<1>6. RecordsOK'
  BY <1>1, <1>5 DEF DeliverablesInv, DeliverablesTypeOK, RecordsOK
<1>7. ASSUME NEW v \in Worker, v # w
      PROVE  WorkOK(request[v])' /\ request'[v] = request[v]
  <2>1. PICK r \in Work \cup {Idle} : r = request[v] /\ r = request'[v]
    BY <1>7 DEF DeliverablesInv, DeliverablesTypeOK
  <2>2. WorkOK(r)
    BY <2>1 DEF DeliverablesInv, WorkersOK
  <2>3. CASE r = Idle
    BY <2>1, <2>3 DEF WorkOK
  <2>4. CASE r # Idle
    <3>1. r \in Work /\ r.id \in Nat /\ r.began \in Nat
      BY <2>1, <2>4 DEF Work
    <3>2. ServedOK(r) => ServedOK(r)'
      BY <1>1, <2>1 DEF ServedOK
    <3>3. Unrecorded(r.id) => Unrecorded(r.id)'
      BY <1>1, <2>1 DEF Unrecorded
    <3>4. r.id \in blobs' <=> r.id \in blobs
      BY <1>7, <2>1, <2>4
    <3>5. r.id \in 1..admitted => r.id \in 1..admitted'
      BY <3>1 DEF DeliverablesInv, DeliverablesTypeOK
    <3>6. WorkOK(r)'
      BY <1>1, <1>5, <2>1, <2>2, <2>4, <3>1, <3>2, <3>3, <3>4, <3>5
         DEF WorkOK, Owned, DeliverablesInv, DeliverablesTypeOK
    <3>7. QED
      BY <2>1, <3>6
  <2>5. QED
    BY <2>1, <2>3, <2>4
<1>8. request'[w] = y
  BY DEF DeliverablesInv, DeliverablesTypeOK
<1>9. WorkersOK'
  BY <1>7, <1>8 DEF WorkersOK, DeliverablesInv
<1>10. QED
  BY <1>2, <1>3, <1>4, <1>6, <1>9

\* What the steps of one request that commit nothing have in common.
LEMMA Leaves ==
    ASSUME DeliverablesInv, NEW w \in Worker, NEW y \in Work \cup {Idle},
           request' = [request EXCEPT ![w] = y]
    PROVE  /\ request'[w] = y
           /\ Running \ {request[w].id} \subseteq Running'
           /\ y # Idle => y.id \in Running'
<1>1. /\ request'[w] = y
      /\ \A v \in Worker \ {w} : request'[v] = request[v]
  BY DEF DeliverablesInv, DeliverablesTypeOK
<1>2. ASSUME NEW v \in Worker, request[v] # Idle, request[v].id # request[w].id
      PROVE  request[v].id \in Running'
  BY <1>1, <1>2 DEF Running
<1>3. QED
  BY <1>1, <1>2 DEF Running

\* Taking a request keeps the invariant.
LEMMA Admitting ==
    ASSUME DeliverablesInv, NEW w \in Worker, NEW kind \in Kinds, NEW t \in Tenant,
           NEW p \in 0..MaxRequests, Admit(w, kind, t, p)
    PROVE  DeliverablesInv'
<1>1. PICK y : y = [stage |-> "work", kind |-> kind, id |-> admitted + 1, tenant |-> t,
                    project |-> p, began |-> moment, at |-> None, got |-> None]
  OBVIOUS
<1>2. /\ request' = [request EXCEPT ![w] = y] /\ request[w] = Idle
      /\ UNCHANGED committed /\ UNCHANGED <<projects, evaluations, usage, trail, blobs, failed>>
      /\ moment' = moment + 1 /\ admitted' = admitted + 1
      /\ kind = "create" => p = admitted + 1
      /\ kind # "create" => Owned(t, p)
  BY <1>1 DEF Admit, committed, _load_project, Owned
<1>3. moment \in Nat /\ admitted \in Nat /\ failed \in Nat /\ blobs \subseteq 1..admitted
      /\ request \in [Worker -> Work \cup {Idle}]
  BY DEF DeliverablesInv, DeliverablesTypeOK
<1>4. y \in Work /\ y # Idle
  BY <1>1, <1>3 DEF Work, Idle
<1>5. Unrecorded(y.id)' /\ \A row \in projects' : row.project # y.id
  BY <1>1, <1>2, <1>3 DEF Unrecorded, EvaluationsOK, EvaluationRow, RecordsOK, ProjectsOK,
                    DeliverablesInv, DeliverablesTypeOK
<1>6. admitted + 1 \notin blobs' /\ admitted + 1 \in 1..admitted' /\ moment < moment'
  BY <1>2, <1>3
<1>7. y.stage = "work" /\ y.kind = kind /\ y.id = admitted + 1 /\ y.tenant = t /\ y.project = p
      /\ y.began = moment /\ y.got = None
  BY <1>1
<1>8. WorkOK(y)'
  BY <1>2, <1>5, <1>6, <1>7 DEF WorkOK, Owned
<1>9. \A v \in Worker \ {w} : y # Idle /\ request[v] # Idle => request[v].id # y.id
  BY <1>3, <1>7 DEF WorkersOK, WorkOK, DeliverablesInv
<1>10. moment' \in Nat /\ moment <= moment' /\ admitted' \in Nat /\ admitted <= admitted'
       /\ failed' \in Nat /\ blobs \subseteq blobs' /\ blobs' \subseteq 1..admitted'
  BY <1>2, <1>3
<1>11. \A v \in Worker \ {w} : request[v] # Idle /\ request[v].id \in blobs'
          => request[v].id \in blobs
  BY <1>2
<1>12. DeliverablesTypeOK' /\ ProjectsOK' /\ EvaluationsOK' /\ RecordsOK' /\ WorkersOK'
  BY <1>2, <1>4, <1>8, <1>9, <1>10, <1>11, NothingCommitted
<1>13. Lost' \subseteq Lost
  <2>1. \A v \in Worker : request[v] # Idle => v # w /\ request'[v] = request[v]
    BY <1>2, <1>3
  <2>2. Running \subseteq Running'
    BY <2>1 DEF Running
  <2>3. Uploaded' = Uploaded
    BY <1>2 DEF Uploaded
  <2>4. QED
    BY <1>2, <2>2, <2>3 DEF Lost
<1>14. LostOK'
  BY <1>2, <1>13, FewAreLost
<1>15. QED
  BY <1>12, <1>14 DEF DeliverablesInv

\* Flushing it, with the file of an upload stored at that moment, keeps it too.
LEMMA Flushing ==
    ASSUME DeliverablesInv, NEW w \in Worker, Flush(w)
    PROVE  DeliverablesInv'
<1>1. moment \in Nat /\ admitted \in Nat /\ failed \in Nat /\ blobs \subseteq 1..admitted
      /\ request \in [Worker -> Work \cup {Idle}]
  BY DEF DeliverablesInv, DeliverablesTypeOK
<1>2. PICK r \in Work : r = request[w] /\ r # Idle
  BY <1>1 DEF Flush, Idle
<1>3. PICK y : y = [r EXCEPT !.stage = "commit", !.at = moment]
  OBVIOUS
<1>4. /\ request' = [request EXCEPT ![w] = y]
      /\ UNCHANGED committed /\ UNCHANGED <<projects, evaluations, usage, trail, admitted, failed>>
      /\ moment' = moment + 1
      /\ blobs' = IF r.kind = "upload" THEN blobs \cup {r.id} ELSE blobs
      /\ r.stage = "work" /\ r.kind \in {"create", "evaluate", "upload"}
  BY <1>2, <1>3 DEF Flush, put, committed
<1>5. y \in Work /\ y # Idle
  BY <1>1, <1>2, <1>3 DEF Work, Idle
<1>6. WorkOK(r)
  BY <1>2 DEF WorkersOK, DeliverablesInv
<1>7. Unrecorded(r.id) => Unrecorded(r.id)'
  BY <1>4 DEF Unrecorded
<1>8. /\ y.stage = "commit" /\ y.kind = r.kind /\ y.id = r.id /\ y.tenant = r.tenant
      /\ y.project = r.project /\ y.began = r.began /\ y.at = moment /\ y.got = r.got
      /\ r.id \in Nat /\ r.began \in Nat
  BY <1>2, <1>3 DEF Work
<1>9. WorkOK(y)'
  BY <1>1, <1>2, <1>4, <1>6, <1>7, <1>8 DEF WorkOK, Owned
<1>10. r.id \in 1..admitted /\ \A v \in Worker \ {w} : request[v] # Idle => request[v].id # r.id
  BY <1>2, <1>6 DEF WorkersOK, WorkOK, DeliverablesInv
<1>11. moment' \in Nat /\ moment <= moment' /\ admitted' \in Nat /\ admitted <= admitted'
       /\ failed' \in Nat /\ blobs \subseteq blobs' /\ blobs' \subseteq 1..admitted'
  <2>1. blobs' \subseteq blobs \cup {r.id} /\ blobs \subseteq blobs'
    BY <1>4
  <2>2. blobs \cup {r.id} \subseteq 1..admitted
    BY <1>1, <1>10
  <2>3. QED
    BY <1>1, <1>4, <2>1, <2>2
<1>12. \A v \in Worker \ {w} : request[v] # Idle /\ request[v].id \in blobs'
          => request[v].id \in blobs
  BY <1>4, <1>10
<1>13. \A v \in Worker \ {w} : y # Idle /\ request[v] # Idle => request[v].id # y.id
  BY <1>8, <1>10
<1>14. DeliverablesTypeOK' /\ ProjectsOK' /\ EvaluationsOK' /\ RecordsOK' /\ WorkersOK'
  BY <1>4, <1>5, <1>9, <1>11, <1>12, <1>13, NothingCommitted
<1>15. Lost' \subseteq Lost
  <2>1. y.id \in Running' /\ Running \ {request[w].id} \subseteq Running'
    BY <1>4, <1>5, Leaves
  <2>2. Uploaded' = Uploaded
    BY <1>4 DEF Uploaded
  <2>3. QED
    BY <1>2, <1>4, <1>8, <2>1, <2>2 DEF Lost
<1>16. LostOK'
  BY <1>4, <1>15, FewAreLost
<1>17. QED
  BY <1>14, <1>16 DEF DeliverablesInv

\* The order by time has a first row, as the clock bounds the times.
LEMMA NewestIsLatest ==
    ASSUME DeliverablesInv, NEW listed \in SUBSET evaluations, listed # {}
    PROVE  Newest(listed) \in listed /\ \A f \in listed : f.created_at <= Newest(listed).created_at
<1> DEFINE ages == {moment - e.created_at : e \in listed}
<1>1. moment \in Nat /\ \A e \in listed : e.created_at \in Nat /\ e.created_at <= moment
  BY DEF DeliverablesInv, DeliverablesTypeOK, EvaluationsOK, EvaluationRow
<1>2. ages \in SUBSET Nat /\ ages # {}
  BY <1>1
<1> HIDE DEF ages
<1>3. Min(ages) \in ages /\ \A x \in ages : Min(ages) <= x
  BY <1>2, MinIsElement
<1>4. PICK e \in listed : Min(ages) = moment - e.created_at
  BY <1>3 DEF ages
<1>5. ASSUME NEW f \in listed PROVE f.created_at <= e.created_at
  <2>1. moment - f.created_at \in ages
    BY DEF ages
  <2>2. moment - e.created_at <= moment - f.created_at
    BY <1>3, <1>4, <2>1
  <2>3. QED
    BY <1>1, <2>2
<1>6. QED
  BY <1>5 DEF Newest

\* So does reading the latest evaluation for an answer.
LEMMA Serving ==
    ASSUME DeliverablesInv, NEW w \in Worker, ReadLatest(w)
    PROVE  DeliverablesInv'
<1>1. moment \in Nat /\ admitted \in Nat /\ failed \in Nat /\ blobs \subseteq 1..admitted
      /\ request \in [Worker -> Work \cup {Idle}] /\ evaluations \subseteq EvaluationRow
  BY DEF DeliverablesInv, DeliverablesTypeOK
<1>2. PICK r \in Work : r = request[w] /\ r # Idle
  BY <1>1 DEF ReadLatest, Idle
<1>3. PICK e : e = _latest_evaluation(r.tenant, r.project)
  OBVIOUS
<1>4. PICK y : y = IF e = None THEN Idle
                   ELSE [r EXCEPT !.stage = IF r.kind = "export" THEN "commit" ELSE "answer",
                                  !.at = moment, !.got = e]
  OBVIOUS
<1>5. /\ request' = [request EXCEPT ![w] = y]
      /\ UNCHANGED committed
      /\ UNCHANGED <<projects, evaluations, usage, trail, blobs, admitted, failed>>
      /\ moment' = moment + 1
      /\ r.stage = "work" /\ r.kind \in {"export", "matrix"}
  BY <1>2, <1>3, <1>4 DEF ReadLatest, committed
<1>6. WorkOK(r)
  BY <1>2 DEF WorkersOK, DeliverablesInv
<1>7. Owned(r.tenant, r.project) /\ r.id \in 1..admitted /\ r.id \notin blobs /\ Unrecorded(r.id)
      /\ r.began < moment /\ r.id \in Nat /\ r.began \in Nat
  BY <1>2, <1>5, <1>6 DEF WorkOK, Work
<1>8. e # None => /\ e \in evaluations /\ e.tenant = r.tenant
                  /\ \A f \in evaluations : f.project = r.project => f.created_at <= e.created_at
  <2>1. SUFFICES ASSUME e # None
                 PROVE  /\ e \in evaluations /\ e.tenant = r.tenant
                        /\ \A f \in evaluations : f.project = r.project => f.created_at <= e.created_at
    OBVIOUS
  <2>2. History(r.tenant, r.project) # {} /\ e = Newest(History(r.tenant, r.project))
    BY <1>3, <2>1 DEF _latest_evaluation
  <2>3. /\ e \in History(r.tenant, r.project)
        /\ \A f \in History(r.tenant, r.project) : f.created_at <= e.created_at
    BY <2>2, NewestIsLatest DEF History
  <2>4. ASSUME NEW f \in evaluations, f.project = r.project
        PROVE  f.tenant = r.tenant
    <3>1. Owned(f.tenant, r.project)
      BY <2>4 DEF DeliverablesInv, EvaluationsOK
    <3>2. [project |-> r.project, tenant |-> f.tenant] = [project |-> r.project, tenant |-> r.tenant]
      BY <1>7, <3>1 DEF Owned, DeliverablesInv, ProjectsOK
    <3>3. QED
      BY <3>2
  <2>5. QED
    BY <2>3, <2>4 DEF History
<1>9. Unrecorded(r.id)'
  BY <1>2, <1>5, <1>7 DEF Unrecorded
<1>10. y \in Work \cup {Idle} /\ WorkOK(y)' /\ (y # Idle => y.id = r.id)
  <2>1. CASE e = None
    BY <1>4, <2>1 DEF WorkOK
  <2>2. CASE e # None
    <3>1. /\ y = [r EXCEPT !.stage = IF r.kind = "export" THEN "commit" ELSE "answer",
                           !.at = moment, !.got = e]
          /\ e \in EvaluationRow
      BY <1>1, <1>4, <1>8, <2>2
    <3>2. y \in Work
      BY <1>1, <1>2, <3>1 DEF Work
    <3>3. /\ y.stage \in {"commit", "answer"} /\ y.kind = r.kind /\ y.id = r.id /\ y.tenant = r.tenant
          /\ y.project = r.project /\ y.began = r.began /\ y.at = moment /\ y.got = e
      BY <1>2, <3>1 DEF Work
    <3>4. ServedOK(y)'
      BY <1>5, <1>8, <2>2, <3>3 DEF ServedOK
    <3>5. QED
      BY <1>1, <1>5, <1>7, <1>9, <3>2, <3>3, <3>4 DEF WorkOK, Owned
  <2>3. QED
    BY <2>1, <2>2
<1>11. \A v \in Worker \ {w} : y # Idle /\ request[v] # Idle => request[v].id # y.id
  BY <1>2, <1>10 DEF WorkersOK, DeliverablesInv
<1>12. moment' \in Nat /\ moment <= moment' /\ admitted' \in Nat /\ admitted <= admitted'
       /\ failed' \in Nat /\ blobs \subseteq blobs' /\ blobs' \subseteq 1..admitted'
  BY <1>1, <1>5
<1>13. \A v \in Worker \ {w} : request[v] # Idle /\ request[v].id \in blobs'
          => request[v].id \in blobs
  BY <1>5
<1>14. DeliverablesTypeOK' /\ ProjectsOK' /\ EvaluationsOK' /\ RecordsOK' /\ WorkersOK'
  BY <1>5, <1>10, <1>11, <1>12, <1>13, NothingCommitted
<1>15. Lost' \subseteq Lost
  <2>1. Running \ {r.id} \subseteq Running'
    BY <1>2, <1>5, <1>10, Leaves
  <2>2. Uploaded' = Uploaded
    BY <1>5 DEF Uploaded
  <2>3. QED
    BY <1>5, <1>7, <2>1, <2>2 DEF Lost
<1>16. LostOK'
  BY <1>5, <1>15, FewAreLost
<1>17. QED
  BY <1>14, <1>16 DEF DeliverablesInv

\* The session closes, after the answer or a failure.
LEMMA Closing ==
    ASSUME DeliverablesInv, NEW w \in Worker, Answer(w) \/ Fail(w)
    PROVE  DeliverablesInv'
<1>1. moment \in Nat /\ admitted \in Nat /\ failed \in Nat /\ blobs \subseteq 1..admitted
      /\ request \in [Worker -> Work \cup {Idle}]
  BY DEF DeliverablesInv, DeliverablesTypeOK
<1>2. PICK r \in Work : r = request[w] /\ r # Idle
  BY <1>1 DEF Answer, Fail, Idle
<1>3. /\ request' = [request EXCEPT ![w] = Idle]
      /\ UNCHANGED committed
      /\ UNCHANGED <<projects, evaluations, usage, trail, blobs, admitted, moment>>
      /\ (r.stage = "answer" /\ failed' = failed) \/ failed' = failed + 1
  BY <1>2 DEF Answer, Fail, committed
<1>4. WorkOK(Idle)'
  BY DEF WorkOK
<1>5. moment' \in Nat /\ moment <= moment' /\ admitted' \in Nat /\ admitted <= admitted'
      /\ failed' \in Nat /\ blobs \subseteq blobs' /\ blobs' \subseteq 1..admitted'
  BY <1>1, <1>3
<1>6. \A v \in Worker \ {w} : request[v] # Idle /\ request[v].id \in blobs'
         => request[v].id \in blobs
  BY <1>3
<1>7. DeliverablesTypeOK' /\ ProjectsOK' /\ EvaluationsOK' /\ RecordsOK' /\ WorkersOK'
  BY <1>3, <1>4, <1>5, <1>6, NothingCommitted
<1>8. Running \ {r.id} \subseteq Running' /\ Uploaded' = Uploaded
  BY <1>2, <1>3, Leaves DEF Uploaded
<1>9. CASE r.stage = "answer" /\ failed' = failed
  <2>1. r.id \in blobs => r.id \in Uploaded
    BY <1>2, <1>9 DEF WorkersOK, WorkOK, DeliverablesInv
  <2>2. Lost' \subseteq Lost
    BY <1>3, <1>8, <2>1 DEF Lost
  <2>3. QED
    BY <1>7, <1>9, <2>2, FewAreLost DEF DeliverablesInv
<1>10. CASE failed' = failed + 1
  <2>1. Lost' \subseteq Lost \cup {r.id}
    BY <1>3, <1>8 DEF Lost
  <2>2. QED
    BY <1>7, <1>10, <2>1, FewAreLost DEF DeliverablesInv
<1>11. QED
  BY <1>3, <1>9, <1>10

\* What any commit adds carries the number of its request.
LEMMA CommitAdds ==
    ASSUME DeliverablesInv, NEW w \in Worker, NEW r \in Work, r = request[w], Commit(w)
    PROVE  /\ r # Idle /\ r.stage = "commit" /\ request' = [request EXCEPT ![w] = [r EXCEPT !.stage = "answer"]]
           /\ moment' = moment + 1 /\ UNCHANGED <<blobs, admitted, failed>>
           /\ projects' = projects \cup (IF r.kind = "create"
                 THEN {[project |-> r.project, tenant |-> r.tenant]} ELSE {})
           /\ evaluations' = evaluations \cup (IF r.kind = "evaluate" THEN {Row(r)} ELSE {})
           /\ usage' = usage \cup (IF r.kind = "evaluate" THEN {Metered(r, "evaluation")}
                 ELSE IF r.kind = "export" THEN {Metered(r, "export")} ELSE {})
           /\ trail' = trail \cup {CASE r.kind = "create"   -> Audited(r, "project.created", r.project)
                                     [] r.kind = "evaluate" -> Audited(r, "project.evaluated", r.id)
                                     [] r.kind = "export"   -> Audited(r, "matrix.exported", r.got.id)
                                     [] r.kind = "upload"   -> Audited(r, "footprint.uploaded", r.id)}
           /\ r.kind # "matrix"
BY DEF Commit, CommitProject, CommitEvaluation, CommitExport, CommitUpload, Idle

\* A commit does not touch the request of another worker.
LEMMA CommitKeepsOthers ==
    ASSUME DeliverablesInv, NEW w \in Worker, Commit(w), NEW v \in Worker, v # w
    PROVE  WorkOK(request[v])' /\ request'[v] = request[v]
<1>1. moment \in Nat /\ admitted \in Nat /\ blobs \subseteq 1..admitted
      /\ request \in [Worker -> Work \cup {Idle}]
  BY DEF DeliverablesInv, DeliverablesTypeOK
<1>2. PICK r \in Work : r = request[w]
  BY <1>1 DEF Commit, Idle
<1>3. PICK x \in Work \cup {Idle} : x = request[v] /\ x = request'[v]
  BY <1>1, <1>2, CommitAdds
<1>4. WorkOK(x)
  BY <1>3 DEF DeliverablesInv, WorkersOK
<1>5. CASE x = Idle
  BY <1>3, <1>5 DEF WorkOK
<1>6. CASE x # Idle
  <2>1. x \in Work /\ x.id # r.id
    BY <1>2, <1>3, <1>6, CommitAdds DEF DeliverablesInv, WorkersOK
  <2>2. /\ projects \subseteq projects' /\ evaluations \subseteq evaluations'
        /\ usage \subseteq usage' /\ trail \subseteq trail'
        /\ \A row \in projects' \ projects : row.project = r.id
        /\ \A e \in evaluations' \ evaluations : e = Row(r)
        /\ \A u \in usage' \ usage : u.id = r.id
        /\ \A a \in trail' \ trail : a.id = r.id
    <3>1. r.kind = "create" => r.project = r.id
      BY <1>2, CommitAdds DEF DeliverablesInv, WorkersOK, WorkOK
    <3>2. /\ \A metric : Metered(r, metric).id = r.id
          /\ \A action, subject : Audited(r, action, subject).id = r.id
      BY DEF Metered, Audited
    <3>3. r.kind \in Kinds
      BY DEF Work
    <3>4. QED
      BY <1>2, <3>1, <3>2, <3>3, CommitAdds DEF Kinds
  <2>3. Unrecorded(x.id) => Unrecorded(x.id)'
    <3>1. Row(r).id = r.id
      BY DEF Row
    <3>2. QED
      BY <1>3, <2>1, <2>2, <3>1 DEF Unrecorded
  <2>4. x.at \in Nat /\ x.at < moment /\ ServedOK(x) => ServedOK(x)'
    <3>1. Row(r).committed = moment
      BY DEF Row
    <3>2. QED
      BY <1>1, <1>3, <2>2, <3>1 DEF ServedOK
  <2>5. Uploaded \subseteq Uploaded'
    BY <2>2 DEF Uploaded
  <2>6. moment' = moment + 1 /\ UNCHANGED <<blobs, admitted>>
    BY <1>2, CommitAdds
  <2>7. x.began \in Nat /\ x.stage \in {"work", "commit", "answer"}
    BY <2>1 DEF Work
  <2>8. WorkOK(x)'
    BY <1>1, <1>3, <1>4, <1>6, <2>1, <2>2, <2>3, <2>4, <2>5, <2>6, <2>7 DEF WorkOK, Owned
  <2>9. QED
    BY <1>3, <2>8
<1>7. QED
  BY <1>5, <1>6

\* A commit keeps what is known of the projects and evaluations.
LEMMA CommitKeepsRows ==
    ASSUME DeliverablesInv, NEW w \in Worker, NEW r \in Work, r = request[w], Commit(w)
    PROVE  DeliverablesTypeOK' /\ ProjectsOK' /\ EvaluationsOK'
<1>1. /\ moment \in Nat /\ admitted \in Nat /\ failed \in Nat /\ blobs \subseteq 1..admitted
      /\ request \in [Worker -> Work \cup {Idle}]
      /\ evaluations \subseteq EvaluationRow /\ IsFiniteSet(evaluations)
  BY DEF DeliverablesInv, DeliverablesTypeOK
<1>2. /\ r # Idle /\ r.stage = "commit" /\ request' = [request EXCEPT ![w] = [r EXCEPT !.stage = "answer"]]
      /\ moment' = moment + 1 /\ UNCHANGED <<blobs, admitted, failed>>
  BY CommitAdds
<1>3. WorkOK(r)
  BY DEF DeliverablesInv, WorkersOK
<1>4. r.id \in 1..admitted /\ r.at \in Nat /\ r.began < r.at /\ r.at < moment /\ Unrecorded(r.id)
      /\ r.began \in Nat /\ r.kind \in Kinds /\ r.tenant \in Tenant /\ r.project \in Nat
  BY <1>2, <1>3 DEF WorkOK, Work
<1>5. [r EXCEPT !.stage = "answer"] \in Work
  BY DEF Work
<1>6. Row(r) \in EvaluationRow /\ Row(r).id = r.id /\ Row(r).tenant = r.tenant
      /\ Row(r).project = r.project /\ Row(r).began = r.began /\ Row(r).created_at = r.at
      /\ Row(r).committed = moment
  BY <1>1, <1>4 DEF Row, EvaluationRow
<1>7. evaluations' \in SUBSET EvaluationRow /\ IsFiniteSet(evaluations')
  <2>1. evaluations' = evaluations \/ evaluations' = evaluations \cup {Row(r)}
    BY CommitAdds
  <2>2. IsFiniteSet(evaluations \cup {Row(r)})
    BY <1>1, FS_AddElement
  <2>3. QED
    BY <1>1, <1>6, <2>1, <2>2
<1>8. usage' \in SUBSET [id : Nat, tenant : Tenant, metric : {"evaluation", "export"}, occurred_at : Nat]
  <2>1. \A metric \in {"evaluation", "export"} :
          Metered(r, metric) \in [id : Nat, tenant : Tenant, metric : {"evaluation", "export"},
                                  occurred_at : Nat]
    BY <1>4 DEF Metered
  <2>2. usage \in SUBSET [id : Nat, tenant : Tenant, metric : {"evaluation", "export"},
                          occurred_at : Nat]
    BY DEF DeliverablesInv, DeliverablesTypeOK
  <2>3. QED
    BY <2>1, <2>2, CommitAdds
<1>9. trail' \in SUBSET [id : Nat, tenant : Tenant, subject : Nat,
                         action : {"project.created", "project.evaluated", "matrix.exported",
                                   "footprint.uploaded"}]
  <2>1. \A action \in {"project.created", "project.evaluated", "matrix.exported",
                       "footprint.uploaded"}, n \in Nat :
          Audited(r, action, n) \in [id : Nat, tenant : Tenant, subject : Nat,
             action : {"project.created", "project.evaluated", "matrix.exported",
                       "footprint.uploaded"}]
    BY <1>4 DEF Audited
  <2>2. r.kind = "export" => r.got.id \in Nat
    BY <1>1, <1>2, <1>3 DEF WorkOK, ServedOK, EvaluationRow
  <2>3. trail \in SUBSET [id : Nat, tenant : Tenant, subject : Nat,
                          action : {"project.created", "project.evaluated", "matrix.exported",
                                    "footprint.uploaded"}]
    BY DEF DeliverablesInv, DeliverablesTypeOK
  <2>4. r.id \in Nat
    BY DEF Work
  <2>5. QED
    BY <1>4, <2>1, <2>2, <2>3, <2>4, CommitAdds DEF Kinds
<1>10. DeliverablesTypeOK'
  BY <1>1, <1>2, <1>5, <1>7, <1>8, <1>9 DEF DeliverablesTypeOK
<1>11. ProjectsOK'
  <2>1. CASE r.kind # "create"
    BY <1>2, <2>1, CommitAdds DEF ProjectsOK, DeliverablesInv
  <2>2. CASE r.kind = "create"
    <3>1. projects' = projects \cup {[project |-> r.id, tenant |-> r.tenant]}
          /\ \A row \in projects : row.project # r.id
      BY <1>2, <1>3, <2>2, CommitAdds DEF WorkOK
    <3>2. QED
      BY <1>2, <1>4, <3>1 DEF ProjectsOK, DeliverablesInv
  <2>3. QED
    BY <2>1, <2>2
<1>12. EvaluationsOK'
  <2>1. \A t, p : Owned(t, p) => Owned(t, p)'
    BY CommitAdds DEF Owned
  <2>2. \A e \in evaluations : e.committed < moment'
    BY <1>1, <1>2 DEF DeliverablesInv, EvaluationsOK, EvaluationRow
  <2>3. CASE r.kind # "evaluate"
    BY <1>2, <2>1, <2>2, <2>3, CommitAdds DEF DeliverablesInv, EvaluationsOK
  <2>4. CASE r.kind = "evaluate"
    <3>1. Owned(r.tenant, r.project)
      BY <1>2, <1>3, <2>4 DEF WorkOK
    <3>2. evaluations' = evaluations \cup {Row(r)}
      BY <2>4, CommitAdds
    <3>3. \A e \in evaluations : e.id # r.id
      BY <1>4 DEF Unrecorded
    <3>4. /\ Row(r).id <= admitted' /\ Owned(r.tenant, r.project)'
          /\ r.began < r.at /\ r.at < moment /\ moment < moment'
      BY <1>1, <1>2, <1>4, <1>6, <2>1, <3>1
    <3>5. \A e \in evaluations' :
            /\ e.id <= admitted' /\ Owned(e.tenant, e.project)'
            /\ e.began < e.created_at /\ e.created_at < e.committed /\ e.committed < moment'
      BY <1>2, <1>6, <2>1, <2>2, <3>2, <3>4 DEF DeliverablesInv, EvaluationsOK
    <3>6. \A e, f \in evaluations' : e.id = f.id => e = f
      BY <1>6, <3>2, <3>3 DEF DeliverablesInv, EvaluationsOK
    <3>7. QED
      BY <3>5, <3>6 DEF EvaluationsOK
  <2>5. QED
    BY <2>3, <2>4
<1>13. QED
  BY <1>10, <1>11, <1>12

\* An evaluation brings its usage and audit records along, an export too.
LEMMA CommitKeepsRecords ==
    ASSUME DeliverablesInv, NEW w \in Worker, NEW r \in Work, r = request[w], Commit(w)
    PROVE  RecordsOK'
<1>1. /\ r # Idle /\ r.stage = "commit" /\ UNCHANGED <<blobs, admitted>> /\ r.kind # "matrix"
      /\ admitted \in Nat
  BY CommitAdds DEF DeliverablesInv, DeliverablesTypeOK
<1>2. WorkOK(r)
  BY DEF DeliverablesInv, WorkersOK
<1>3. r.id \in 1..admitted /\ r.kind \in Kinds
  BY <1>1, <1>2 DEF WorkOK, Work
<1>4. /\ \A m : /\ Metered(r, m).id = r.id /\ Metered(r, m).tenant = r.tenant
                 /\ Metered(r, m).metric = m
      /\ \A a, s : /\ Audited(r, a, s).id = r.id /\ Audited(r, a, s).tenant = r.tenant
                    /\ Audited(r, a, s).action = a /\ Audited(r, a, s).subject = s
  BY DEF Metered, Audited
<1>5. /\ usage \subseteq usage' /\ \A u \in usage' \ usage : u.id = r.id
      /\ trail \subseteq trail' /\ \A a \in trail' \ trail : a.id = r.id
      /\ evaluations \subseteq evaluations'
  BY <1>1, <1>3, <1>4, CommitAdds DEF Kinds
<1>6. /\ \A u \in usage' : u.id <= admitted'
      /\ \A a \in trail' : a.id <= admitted'
  BY <1>1, <1>3, <1>5 DEF DeliverablesInv, RecordsOK
<1>7. /\ {u \in usage' : u.metric = "evaluation"} = {Billed(e) : e \in evaluations'}
      /\ {a \in trail' : a.action = "project.evaluated"} = {Logged(e) : e \in evaluations'}
  <2>1. /\ {u \in usage : u.metric = "evaluation"} = {Billed(e) : e \in evaluations}
        /\ {a \in trail : a.action = "project.evaluated"} = {Logged(e) : e \in evaluations}
    BY DEF DeliverablesInv, RecordsOK
  <2>2. CASE r.kind = "evaluate"
    <3>1. /\ Billed(Row(r)) = Metered(r, "evaluation")
          /\ Logged(Row(r)) = Audited(r, "project.evaluated", r.id)
      BY DEF Billed, Logged, Row, Metered, Audited
    <3>2. /\ evaluations' = evaluations \cup {Row(r)}
          /\ usage' = usage \cup {Billed(Row(r))}
          /\ trail' = trail \cup {Logged(Row(r))}
      BY <2>2, <3>1, CommitAdds
    <3>3. Billed(Row(r)).metric = "evaluation" /\ Logged(Row(r)).action = "project.evaluated"
      BY DEF Billed, Logged
    <3>4. QED
      BY <2>1, <3>2, <3>3
  <2>3. CASE r.kind # "evaluate"
    <3>1. evaluations' = evaluations
      BY <2>3, CommitAdds
    <3>2. \A u \in usage' \ usage : u.metric = "export"
      BY <1>4, <2>3, CommitAdds
    <3>3. \A a \in trail' \ trail : a.action # "project.evaluated"
      BY <1>1, <1>3, <1>4, <2>3, CommitAdds DEF Kinds
    <3>4. QED
      BY <1>5, <2>1, <3>1, <3>2, <3>3
  <2>4. QED
    BY <2>2, <2>3
<1>8. /\ {[id |-> a.id, tenant |-> a.tenant] : a \in {b \in trail' : b.action = "matrix.exported"}}
            = {[id |-> u.id, tenant |-> u.tenant] : u \in {v \in usage' : v.metric = "export"}}
      /\ \A a \in trail' : a.action = "matrix.exported" =>
            \E e \in evaluations' : e.id = a.subject /\ e.tenant = a.tenant
  <2>1. /\ {[id |-> a.id, tenant |-> a.tenant] : a \in {b \in trail : b.action = "matrix.exported"}}
              = {[id |-> u.id, tenant |-> u.tenant] : u \in {v \in usage : v.metric = "export"}}
        /\ \A a \in trail : a.action = "matrix.exported" =>
              \E e \in evaluations' : e.id = a.subject /\ e.tenant = a.tenant
    BY <1>5 DEF DeliverablesInv, RecordsOK
  <2>2. CASE r.kind = "export"
    <3> DEFINE u == Metered(r, "export")
               a == Audited(r, "matrix.exported", r.got.id)
    <3>1. usage' = usage \cup {u} /\ trail' = trail \cup {a}
      BY <2>2, CommitAdds
    <3>2. /\ u.metric = "export" /\ a.action = "matrix.exported"
          /\ u.id = r.id /\ a.id = r.id /\ u.tenant = r.tenant /\ a.tenant = r.tenant
          /\ a.subject = r.got.id
      BY <1>4
    <3>3. r.got \in evaluations /\ r.got.tenant = r.tenant
      BY <1>1, <1>2, <2>2 DEF WorkOK, ServedOK
    <3> HIDE DEF u, a
    <3>4. QED
      BY <1>5, <2>1, <3>1, <3>2, <3>3
  <2>3. CASE r.kind # "export"
    <3>1. \A u \in usage' \ usage : u.metric = "evaluation"
      BY <1>4, <2>3, CommitAdds
    <3>2. \A a \in trail' \ trail : a.action # "matrix.exported"
      BY <1>1, <1>3, <1>4, <2>3, CommitAdds DEF Kinds
    <3>3. QED
      BY <1>5, <2>1, <3>1, <3>2
  <2>4. QED
    BY <2>2, <2>3
<1>9. (Uploaded \subseteq blobs)'
  <2>1. ASSUME NEW a \in trail' \ trail, a.action = "footprint.uploaded"
        PROVE  a.subject \in blobs'
    <3>1. r.kind = "upload" /\ a.subject = r.id
      BY <1>1, <1>3, <1>4, <2>1, CommitAdds DEF Kinds
    <3>2. r.id \in blobs
      BY <1>1, <1>2, <3>1 DEF WorkOK
    <3>3. QED
      BY <1>1, <3>1, <3>2
  <2>2. QED
    BY <1>1, <2>1 DEF Uploaded, DeliverablesInv, RecordsOK
<1>10. QED
  BY <1>6, <1>7, <1>8, <1>9 DEF RecordsOK

\* A commit keeps the invariant.
LEMMA Recording ==
    ASSUME DeliverablesInv, NEW w \in Worker, Commit(w)
    PROVE  DeliverablesInv'
<1>1. moment \in Nat /\ admitted \in Nat /\ blobs \subseteq 1..admitted
      /\ request \in [Worker -> Work \cup {Idle}]
  BY DEF DeliverablesInv, DeliverablesTypeOK
<1>2. PICK r \in Work : r = request[w]
  BY <1>1 DEF Commit, Idle
<1>3. PICK y : y = [r EXCEPT !.stage = "answer"]
  OBVIOUS
<1>4. /\ r # Idle /\ r.stage = "commit" /\ request' = [request EXCEPT ![w] = y]
      /\ moment' = moment + 1 /\ UNCHANGED <<blobs, admitted, failed>>
  BY <1>2, <1>3, CommitAdds
<1>5. /\ y.stage = "answer" /\ y.kind = r.kind /\ y.id = r.id /\ y.tenant = r.tenant
      /\ y.project = r.project /\ y.began = r.began /\ y.at = r.at /\ y.got = r.got
      /\ y \in Work /\ y # Idle /\ r.began \in Nat
  BY <1>2, <1>3 DEF Work, Idle
<1>6. WorkOK(r)
  BY <1>2 DEF DeliverablesInv, WorkersOK
<1>7. DeliverablesTypeOK' /\ ProjectsOK' /\ EvaluationsOK' /\ RecordsOK'
  BY <1>2, CommitKeepsRows, CommitKeepsRecords
<1>8. Uploaded \subseteq Uploaded' /\ (r.kind = "upload" => r.id \in Uploaded')
  <2>1. trail \subseteq trail'
    BY <1>2, CommitAdds
  <2>2. r.kind = "upload" => Audited(r, "footprint.uploaded", r.id) \in trail'
    BY <1>2, CommitAdds
  <2>3. Audited(r, "footprint.uploaded", r.id).action = "footprint.uploaded"
        /\ Audited(r, "footprint.uploaded", r.id).subject = r.id
    BY DEF Audited
  <2>4. QED
    BY <2>1, <2>2, <2>3 DEF Uploaded
<1>9. WorkOK(y)'
  <2>1. Owned(r.tenant, r.project) => Owned(y.tenant, y.project)'
    BY <1>2, <1>5, CommitAdds DEF Owned
  <2>2. r.kind \in {"export", "matrix"} /\ ServedOK(r) => ServedOK(y)'
    <3>1. r.kind \in {"export", "matrix"} => evaluations' = evaluations
      BY <1>2, CommitAdds
    <3>2. QED
      BY <1>5, <3>1 DEF ServedOK
  <2>3. QED
    BY <1>1, <1>4, <1>5, <1>6, <1>8, <2>1, <2>2 DEF WorkOK
<1>10. WorkersOK'
  <2>1. request'[w] = y
    BY <1>1, <1>4
  <2>2. \A v \in Worker \ {w} : WorkOK(request[v])' /\ request'[v] = request[v]
    BY CommitKeepsOthers
  <2>3. \A v \in Worker \ {w} : request[v] # Idle => request[v].id # y.id
    BY <1>2, <1>4, <1>5 DEF DeliverablesInv, WorkersOK
  <2>4. \A v \in Worker : WorkOK(request[v])'
    BY <1>9, <2>1, <2>2
  <2>5. \A u, v \in Worker : u # v /\ request'[u] # Idle /\ request'[v] # Idle =>
          request'[u].id # request'[v].id
    BY <2>1, <2>2, <2>3 DEF DeliverablesInv, WorkersOK
  <2>6. QED
    BY <2>4, <2>5 DEF WorkersOK
<1>11. Lost' \subseteq Lost
  <2>1. y.id \in Running' /\ Running \ {request[w].id} \subseteq Running'
    BY <1>4, <1>5, Leaves
  <2>2. Running \subseteq Running'
    BY <1>2, <1>5, <2>1
  <2>3. QED
    BY <1>4, <1>8, <2>2 DEF Lost
<1>12. LostOK'
  BY <1>4, <1>11, FewAreLost
<1>13. QED
  BY <1>7, <1>10, <1>12 DEF DeliverablesInv

\* Every step of a worker keeps it.
LEMMA DeliverablesStep ==
    DeliverablesInv /\ [DeliverablesNext]_deliverablesVars => DeliverablesInv'
<1> SUFFICES ASSUME DeliverablesInv, [DeliverablesNext]_deliverablesVars
             PROVE  DeliverablesInv'
  OBVIOUS
<1>1. ASSUME NEW w \in Worker, NEW kind \in Kinds, NEW t \in Tenant, NEW p \in 0..MaxRequests,
             Admit(w, kind, t, p)
      PROVE  DeliverablesInv'
  BY <1>1, Admitting
<1>2. ASSUME NEW w \in Worker, Flush(w) \/ ReadLatest(w) \/ Commit(w) \/ Answer(w) \/ Fail(w)
      PROVE  DeliverablesInv'
  BY <1>2, Flushing, Serving, Recording, Closing
<1>3. CASE UNCHANGED deliverablesVars
  <2>1. UNCHANGED <<projects, evaluations, usage, trail, blobs, request, moment, admitted, failed>>
    BY <1>3 DEF deliverablesVars, committed
  <2>2. DeliverablesTypeOK' /\ ProjectsOK' /\ EvaluationsOK'
    BY <2>1 DEF DeliverablesInv, DeliverablesTypeOK, ProjectsOK, EvaluationsOK, Owned
  <2>3. RecordsOK'
    BY <2>1 DEF DeliverablesInv, RecordsOK, Uploaded
  <2>4. WorkersOK'
    BY <2>1 DEF DeliverablesInv, WorkersOK, WorkOK, ServedOK, Unrecorded, Owned, Uploaded
  <2>5. LostOK'
    BY <2>1 DEF DeliverablesInv, LostOK, Lost, Running, Uploaded
  <2>6. QED
    BY <2>2, <2>3, <2>4, <2>5 DEF DeliverablesInv
<1>4. QED
  BY <1>1, <1>2, <1>3 DEF DeliverablesNext

\* For any workers, requests, failures and tenants: an evaluation served as the latest is passed
\* over no evaluation that began after it was committed and was committed before the read
\* (projects.py:185).
THEOREM LatestWasServed == DeliverablesSpec => []LatestUnlessOverlapped
<1>1. DeliverablesInv => LatestUnlessOverlapped
  <2> SUFFICES ASSUME DeliverablesInv, NEW w \in Worker,
                      request[w] # Idle, request[w].got # None,
                      NEW e \in evaluations, e.project = request[w].project,
                      e.committed < request[w].at
               PROVE  ~ e.began > request[w].got.committed
    BY DEF LatestUnlessOverlapped
  <2>1. ServedOK(request[w])
    BY DEF DeliverablesInv, WorkersOK, WorkOK
  <2>2. request[w].got \in evaluations /\ e.created_at <= request[w].got.created_at
    BY <2>1 DEF ServedOK
  <2>3. \A f \in evaluations : /\ f.began \in Nat /\ f.created_at \in Nat /\ f.committed \in Nat
                              /\ f.began < f.created_at /\ f.created_at < f.committed
    BY DEF DeliverablesInv, DeliverablesTypeOK, EvaluationsOK, EvaluationRow
  <2>4. QED
    BY <2>2, <2>3
<1>2. QED
  BY DeliverablesInitInv, DeliverablesStep, <1>1, PTL DEF DeliverablesSpec

\* A set of evaluations is billed by as many records.
LEMMA BilledOnce ==
    ASSUME DeliverablesInv, NEW listed \in SUBSET evaluations
    PROVE  /\ IsFiniteSet(listed)
           /\ Cardinality({Billed(e) : e \in listed}) = Cardinality(listed)
<1> DEFINE bill == [e \in listed |-> Billed(e)]
<1>1. IsFiniteSet(listed)
  BY FS_Subset DEF DeliverablesInv, DeliverablesTypeOK
<1>2. \A e, f \in listed : Billed(e) = Billed(f) => e = f
  <2>1. \A e \in listed : Billed(e).id = e.id
    BY DEF Billed
  <2>2. QED
    BY <2>1 DEF DeliverablesInv, EvaluationsOK
<1>3. bill \in Bijection(listed, {Billed(e) : e \in listed})
  BY <1>2 DEF Bijection, Injection, IsInjective, Surjection
<1>4. QED
  BY <1>1, <1>3, FS_Bijection DEF ExistsBijection

\* Two consecutive billing periods bill every evaluation once.
LEMMA PeriodsAddUp ==
    ASSUME DeliverablesInv, NEW t \in Tenant, NEW month \in 0..moment
    PROVE  Summary(t, "evaluation", 0, month) + Summary(t, "evaluation", month, moment)
              = Cardinality({e \in evaluations : e.tenant = t})
<1> DEFINE all == {e \in evaluations : e.tenant = t}
           early == {e \in all : e.created_at < month}
           late == {e \in all : ~ e.created_at < month}
           Bills(start, end) == {u \in usage : u.tenant = t /\ u.metric = "evaluation"
                                      /\ u.occurred_at >= start /\ u.occurred_at < end}
<1>1. \A e \in evaluations : e.created_at \in Nat /\ e.created_at < moment
  BY DEF DeliverablesInv, DeliverablesTypeOK, EvaluationsOK, EvaluationRow
<1>2. moment \in Nat /\ month \in Nat
  BY DEF DeliverablesInv, DeliverablesTypeOK
<1>3. {u \in usage : u.metric = "evaluation"} = {Billed(e) : e \in evaluations}
  BY DEF DeliverablesInv, RecordsOK
<1>4. \A e \in evaluations : /\ Billed(e).tenant = e.tenant /\ Billed(e).metric = "evaluation"
                             /\ Billed(e).occurred_at = e.created_at /\ Billed(e) \in usage
  BY <1>3 DEF Billed
<1>5. Bills(0, month) = {Billed(e) : e \in early}
  BY <1>1, <1>3, <1>4
<1>6. Bills(month, moment) = {Billed(e) : e \in late}
  BY <1>1, <1>2, <1>3, <1>4
<1>7. Summary(t, "evaluation", 0, month) = Cardinality(early)
  BY <1>5, BilledOnce DEF Summary
<1>8. Summary(t, "evaluation", month, moment) = Cardinality(late)
  BY <1>6, BilledOnce DEF Summary
<1>9. IsFiniteSet(early) /\ IsFiniteSet(late) /\ early \cap late = {} /\ early \cup late = all
  BY BilledOnce
<1>10. Cardinality(all) = Cardinality(early) + Cardinality(late)
  <2>1. Cardinality(early \cup late) = Cardinality(early) + Cardinality(late) - Cardinality(early \cap late)
    BY <1>9, FS_Union
  <2>2. Cardinality(early) \in Nat /\ Cardinality(late) \in Nat
    BY <1>9, FS_CardinalityType
  <2>3. early \cup late = all /\ Cardinality(early \cap late) = 0
    BY <1>9, FS_EmptySet
  <2>4. Cardinality(all) = Cardinality(early \cup late)
    BY <2>3
  <2>5. \A a, b, c, d, e : a \in Nat /\ b \in Nat /\ c = 0 /\ d = a + b - c /\ e = d => e = a + b
    OBVIOUS
  <2> HIDE DEF all, early, late
  <2>6. QED
    BY <2>1, <2>2, <2>3, <2>4, <2>5
<1>11. QED
  BY <1>7, <1>8, <1>10

\* For any workers, requests, failures and tenants: usage, audit trail, evaluations and files
\* agree, whatever overlaps and fails, and two consecutive periods bill every evaluation once
\* (uploads.py:96, usage.py).
THEOREM RecordsOfRequestsAgree == DeliverablesSpec => []RecordsAgree
<1>1. DeliverablesInv => RecordsAgree
  <2> SUFFICES ASSUME DeliverablesInv PROVE RecordsAgree
    OBVIOUS
  <2> DEFINE Trailed(action) == {[id |-> a.id, tenant |-> a.tenant] : a \in {b \in trail : b.action = action}}
             Used(metric) == {[id |-> u.id, tenant |-> u.tenant] : u \in {v \in usage : v.metric = metric}}
             pairs == {[id |-> e.id, tenant |-> e.tenant] : e \in evaluations}
  <2>1. Used("evaluation") = pairs
    <3>1. \A e \in evaluations : Billed(e).id = e.id /\ Billed(e).tenant = e.tenant
      BY DEF Billed
    <3>2. QED
      BY <3>1 DEF DeliverablesInv, RecordsOK
  <2>2. Trailed("project.evaluated") = pairs
    <3>1. \A e \in evaluations : Logged(e).id = e.id /\ Logged(e).tenant = e.tenant
      BY DEF Logged
    <3>2. QED
      BY <3>1 DEF DeliverablesInv, RecordsOK
  <2>3. /\ Trailed("matrix.exported") = Used("export")
        /\ \A a \in trail : a.action = "matrix.exported" =>
             \E e \in evaluations : e.id = a.subject /\ e.tenant = a.tenant
        /\ Uploaded \subseteq blobs
    BY DEF DeliverablesInv, RecordsOK
  <2>4. ASSUME NEW e \in evaluations
        PROVE  /\ e.project \in {row.project : row \in Listed(e.tenant)}
               /\ Evaluated(e.tenant, e.project, e.id) = {e}
    <3>1. Owned(e.tenant, e.project)
      BY DEF DeliverablesInv, EvaluationsOK
    <3>2. [project |-> e.project, tenant |-> e.tenant] \in Listed(e.tenant)
      BY <3>1 DEF Owned, Listed
    <3>3. \A f \in evaluations : f.id = e.id => f = e
      BY DEF DeliverablesInv, EvaluationsOK
    <3>4. QED
      BY <3>2, <3>3 DEF Evaluated
  <2>5. Cardinality((blobs \ Uploaded) \ Running) <= failed
    BY DEF DeliverablesInv, LostOK, Lost
  <2> HIDE DEF Trailed, Used, pairs
  <2>6. QED
    BY <2>1, <2>2, <2>3, <2>4, <2>5, PeriodsAddUp
       DEF RecordsAgree, Uploaded, Running, Trailed, Used, pairs
<1>2. QED
  BY DeliverablesInitInv, DeliverablesStep, <1>1, PTL DEF DeliverablesSpec

-----------------------------------------------------------------------------
(* LoginLimiter                                                            *)

Try == [at : Nat, admitted : BOOLEAN]

LimiterTypeOK ==
    /\ now \in Nat
    /\ hits \in [Process -> [Address -> Seq(Nat)]]
    /\ attempts \in [Process -> [Address -> Seq(Try)]]

\* The attempts up to the k-th that fall in the minute before it.
Within(s, k) == {j \in 1..k : s[j].at >= s[k].at - Minute}

\* Attempts are in the order of time; the list has the last of them, those of
\* the minute before the last; each was decided by its own minute.
ListOK(h, s) ==
    /\ Len(h) <= Len(s)
    /\ \A i \in 1..Len(h) : h[i] = s[Len(s) - Len(h) + i].at
    /\ \A i, j \in 1..Len(s) : i <= j => s[i].at <= s[j].at
    /\ \A j \in 1..Len(s) : s[j].at <= now
    /\ \A j \in 1..(Len(s) - Len(h)) : s[j].at < s[Len(s)].at - Minute
    /\ \A k \in 1..Len(s) : s[k].admitted <=> Cardinality(Within(s, k)) <= MaxPerMinute

ListsOK == \A p \in Process, a \in Address : ListOK(hits[p][a], attempts[p][a])

LimiterInv == LimiterTypeOK /\ ListsOK

\* How many elements an initial part of a list has.
LEMMA Prefix ==
    ASSUME NEW m \in Nat, NEW S \in SUBSET (1..m), \A i \in S : \A j \in 1..i : j \in S
    PROVE  Cardinality(S) \in 0..m /\ S = 1..Cardinality(S)
<1> DEFINE others == {i \in Nat : i >= 1 /\ i \notin S}
           x == Min(others)
<1>1. m + 1 \in others
  OBVIOUS
<1>2. x \in others /\ \A i \in others : x <= i
  BY <1>1, MinIsElement
<1>3. x \in Nat /\ x >= 1 /\ x \notin S /\ x <= m + 1
  BY <1>1, <1>2
<1>4. \A j \in Nat : j >= 1 /\ j < x => j \in S
  BY <1>2
<1> HIDE DEF x, others
<1>5. S = 1..(x - 1)
  <2>1. ASSUME NEW i \in S PROVE i \in 1..(x - 1)
    <3>1. i \in Nat /\ i >= 1 /\ (x <= i => x \in 1..i)
      BY <1>3
    <3>2. ~ (x <= i)
      BY <1>3, <3>1
    <3>3. QED
      BY <1>3, <3>1, <3>2
  <2>2. ASSUME NEW i \in 1..(x - 1) PROVE i \in S
    BY <1>3, <1>4
  <2>3. QED
    BY <2>1, <2>2
<1>6. Cardinality(1..(x - 1)) = IF 1 > x - 1 THEN 0 ELSE (x - 1) - 1 + 1
  BY <1>3, FS_Interval
<1>7. Cardinality(S) = x - 1
  BY <1>3, <1>5, <1>6
<1>8. QED
  BY <1>3, <1>5, <1>7

\* The list of an attempt has exactly the attempts of its minute.
LEMMA NewList ==
    ASSUME LimiterTypeOK, NEW h \in Seq(Nat), NEW s \in Seq(Try), ListOK(h, s),
           NEW kept, kept = Append(Recent(h), now),
           NEW t, t = Append(s, [at |-> now, admitted |-> Len(kept) <= MaxPerMinute])
    PROVE  kept \in Seq(Nat) /\ t \in Seq(Try) /\ ListOK(kept, t)
<1>1. PICK m, n, c : m = Len(h) /\ n = Len(s) /\ c = Cardinality({i \in DOMAIN h : h[i] < now - Minute})
  OBVIOUS
<1>2. /\ m \in Nat /\ n \in Nat /\ now \in Nat /\ Minute \in Nat /\ MaxPerMinute \in Nat
      /\ DOMAIN h = 1..m /\ DOMAIN s = 1..n
      /\ \A i \in 1..m : h[i] \in Nat
      /\ \A i \in 1..n : s[i].at \in Nat /\ s[i].admitted \in BOOLEAN
  <2>1. now \in Nat /\ Minute \in Nat /\ MaxPerMinute \in Nat
    BY RateAssumption DEF LimiterTypeOK
  <2>2. m \in Nat /\ DOMAIN h = 1..m /\ \A i \in 1..m : h[i] \in Nat
    BY <1>1
  <2>3. n \in Nat /\ DOMAIN s = 1..n /\ \A i \in 1..n : s[i] \in Try
    BY <1>1
  <2>4. QED
    BY <2>1, <2>2, <2>3 DEF Try
<1>3. /\ m <= n
      /\ \A i \in 1..m : h[i] = s[n - m + i].at
      /\ \A i, j \in 1..n : i <= j => s[i].at <= s[j].at
      /\ \A j \in 1..n : s[j].at <= now
      /\ \A j \in 1..(n - m) : s[j].at < s[n].at - Minute
      /\ \A k \in 1..n : s[k].admitted <=> Cardinality(Within(s, k)) <= MaxPerMinute
  BY <1>1 DEF ListOK
<1>4. ASSUME NEW i \in 1..m, NEW j \in 1..m, i <= j PROVE h[i] <= h[j]
  <2>1. n - m + i \in 1..n /\ n - m + j \in 1..n /\ n - m + i <= n - m + j
    BY <1>2, <1>3, <1>4
  <2>2. QED
    BY <1>3, <2>1
<1>5. c \in 0..m /\ \A i \in 1..m : h[i] < now - Minute <=> i <= c
  <2> DEFINE old == {i \in DOMAIN h : h[i] < now - Minute}
  <2>1. old \in SUBSET (1..m)
    BY <1>2
  <2>2. \A i \in old : \A j \in 1..i : j \in old
    <3>1. ASSUME NEW i \in old, NEW j \in 1..i PROVE j \in old
      <4>1. i \in 1..m /\ j \in 1..m /\ j <= i
        BY <1>2
      <4>2. h[j] <= h[i] /\ h[i] \in Nat /\ h[j] \in Nat /\ h[i] < now - Minute
        BY <1>2, <1>4, <4>1
      <4>3. QED
        BY <1>2, <4>1, <4>2
    <3>2. QED
      BY <3>1
  <2>3. c = Cardinality(old)
    BY <1>1
  <2>4. c \in 0..m /\ old = 1..c
    <3> HIDE DEF old
    <3>1. QED
      BY <1>2, <2>1, <2>2, <2>3, Prefix
  <2>5. \A i \in 1..m : i \in old <=> h[i] < now - Minute
    BY <1>2
  <2> HIDE DEF old
  <2>6. \A i \in 1..m : i \in old <=> i <= c
    BY <1>2, <2>4
  <2>7. QED
    BY <2>4, <2>5, <2>6
<1>6. c \in Nat /\ c <= m
  BY <1>2, <1>5
<1>7. /\ Recent(h) \in Seq(Nat) /\ Len(Recent(h)) = m - c
      /\ \A i \in 1..(m - c) : Recent(h)[i] = h[c + i]
  <2>1. Recent(h) = SubSeq(h, c + 1, m)
    BY <1>1 DEF Recent
  <2>2. \A i \in (c + 1)..m : h[i] \in Nat
    BY <1>2, <1>6
  <2>3. /\ SubSeq(h, c + 1, m) \in Seq(Nat)
        /\ Len(SubSeq(h, c + 1, m)) = IF c + 1 <= m THEN m - (c + 1) + 1 ELSE 0
        /\ \A i \in 1..(m - (c + 1) + 1) : SubSeq(h, c + 1, m)[i] = h[(c + 1) + i - 1]
    <3>1. c + 1 \in Int /\ m \in Int
      BY <1>2, <1>6
    <3>2. QED
      BY <2>2, <3>1, SubSeqProperties
  <2>4. QED
    BY <1>2, <1>6, <2>1, <2>3
<1>8. /\ kept \in Seq(Nat) /\ Len(kept) = m - c + 1
      /\ kept[m - c + 1] = now
      /\ \A i \in 1..(m - c) : kept[i] = h[c + i]
  <2>1. \A r \in Seq(Nat) : /\ Append(r, now) \in Seq(Nat) /\ Len(Append(r, now)) = Len(r) + 1
                            /\ Append(r, now)[Len(r) + 1] = now
                            /\ \A i \in 1..Len(r) : Append(r, now)[i] = r[i]
    BY <1>2
  <2>2. QED
    BY <1>2, <1>6, <1>7, <2>1
<1>9. /\ t \in Seq(Try) /\ Len(t) = n + 1
      /\ t[n + 1].at = now
      /\ t[n + 1].admitted <=> m - c + 1 <= MaxPerMinute
      /\ \A i \in 1..n : t[i] = s[i]
  <2>1. PICK new : new = [at |-> now, admitted |-> Len(kept) <= MaxPerMinute]
    OBVIOUS
  <2>2. new.at = now /\ (new.admitted <=> Len(kept) <= MaxPerMinute) /\ new \in Try
    <3>1. CASE Len(kept) <= MaxPerMinute
      <4>1. new = [at |-> now, admitted |-> TRUE]
        BY <2>1, <3>1
      <4>2. QED
        BY <1>2, <3>1, <4>1 DEF Try
    <3>2. CASE ~ (Len(kept) <= MaxPerMinute)
      <4>1. (Len(kept) <= MaxPerMinute) = FALSE
        BY <3>2
      <4>2. new = [at |-> now, admitted |-> FALSE]
        BY <2>1, <4>1
      <4>3. QED
        BY <1>2, <3>2, <4>2 DEF Try
    <3>3. QED
      BY <3>1, <3>2
  <2>3. /\ Append(s, new) \in Seq(Try) /\ Len(Append(s, new)) = n + 1
        /\ Append(s, new)[n + 1] = new
        /\ \A i \in 1..n : Append(s, new)[i] = s[i]
    BY <1>1, <1>2, <2>2
  <2>4. t = Append(s, new)
    BY <2>1
  <2>5. QED
    BY <1>8, <2>2, <2>3, <2>4
<1>10. ASSUME NEW j \in 1..n PROVE t[j].at >= now - Minute <=> j > n - m + c
  <2>1. t[j].at = s[j].at /\ s[j].at \in Nat
    BY <1>2, <1>9
  <2>2. CASE j <= n - m
    <3>1. s[j].at < s[n].at - Minute /\ s[n].at <= now /\ s[n].at \in Nat
      BY <1>2, <1>3, <2>2
    <3>2. QED
      BY <1>2, <1>6, <2>1, <2>2, <3>1
  <2>3. CASE ~ (j <= n - m)
    <3>1. PICK i \in 1..m : j = n - m + i
      <4>1. j - (n - m) \in 1..m /\ j = n - m + (j - (n - m))
        BY <1>2, <1>3, <2>3
      <4>2. QED
        BY <4>1
    <3>2. h[i] = s[j].at
      BY <1>3, <3>1
    <3>3. h[i] < now - Minute <=> i <= c
      BY <1>5
    <3>4. j > n - m + c <=> i > c
      BY <1>2, <1>6, <3>1
    <3>5. QED
      BY <1>2, <1>6, <2>1, <3>2, <3>3, <3>4
  <2>4. QED
    BY <2>2, <2>3
<1>11. Within(t, n + 1) = (n - m + c + 1)..(n + 1)
  <2>1. ASSUME NEW j \in 1..(n + 1) PROVE t[j].at >= now - Minute <=> j >= n - m + c + 1
    <3>1. CASE j \in 1..n
      BY <1>2, <1>3, <1>6, <1>10, <3>1
    <3>2. CASE j = n + 1
      BY <1>2, <1>3, <1>6, <1>9, <3>2
    <3>3. QED
      BY <1>2, <3>1, <3>2
  <2>2. \A j \in (n - m + c + 1)..(n + 1) : j \in 1..(n + 1)
    BY <1>2, <1>3, <1>6
  <2>3. Within(t, n + 1) = {j \in 1..(n + 1) : t[j].at >= now - Minute}
    BY <1>9 DEF Within
  <2>4. ASSUME NEW j \in 1..(n + 1), j >= n - m + c + 1
        PROVE  j \in (n - m + c + 1)..(n + 1)
    BY <1>2, <1>3, <1>6, <2>4
  <2>5. \A j \in (n - m + c + 1)..(n + 1) : j >= n - m + c + 1
    BY <1>2, <1>3, <1>6
  <2>6. QED
    BY <2>1, <2>2, <2>3, <2>4, <2>5
<1>12. Cardinality(Within(t, n + 1)) = m - c + 1
  <2>1. n - m + c + 1 \in Int /\ n + 1 \in Int /\ ~ (n - m + c + 1 > n + 1)
    BY <1>2, <1>3, <1>6
  <2>2. Cardinality((n - m + c + 1)..(n + 1)) = (n + 1) - (n - m + c + 1) + 1
    BY <2>1, FS_Interval
  <2>3. QED
    BY <1>2, <1>6, <1>11, <2>2
<1>13. \A k \in 1..Len(t) : t[k].admitted <=> Cardinality(Within(t, k)) <= MaxPerMinute
  <2>1. ASSUME NEW k \in 1..n PROVE t[k].admitted <=> Cardinality(Within(t, k)) <= MaxPerMinute
    <3>1. \A j \in 1..k : t[j] = s[j]
      BY <1>2, <1>9
    <3>2. Within(t, k) = Within(s, k)
      BY <1>9, <3>1 DEF Within
    <3>3. QED
      BY <1>3, <1>9, <3>2
  <2>2. \A k \in 1..(n + 1) : k \in 1..n \/ k = n + 1
    BY <1>2
  <2>3. QED
    BY <1>9, <1>12, <2>1, <2>2
<1>14. \A i \in 1..Len(kept) : kept[i] = t[Len(t) - Len(kept) + i].at
  <2>1. ASSUME NEW i \in 1..(m - c) PROVE kept[i] = t[(n + 1) - (m - c + 1) + i].at
    <3>1. c + i \in 1..m /\ n - m + (c + i) \in 1..n
          /\ (n + 1) - (m - c + 1) + i = n - m + (c + i)
      BY <1>2, <1>3, <1>6
    <3>2. h[c + i] = s[n - m + (c + i)].at
      BY <1>3, <3>1
    <3>3. QED
      BY <1>8, <1>9, <3>1, <3>2
  <2>2. kept[m - c + 1] = t[(n + 1) - (m - c + 1) + (m - c + 1)].at
    <3>1. (n + 1) - (m - c + 1) + (m - c + 1) = n + 1
      BY <1>2, <1>6
    <3>2. QED
      BY <1>8, <1>9, <3>1
  <2>3. \A i \in 1..(m - c + 1) : i \in 1..(m - c) \/ i = m - c + 1
    BY <1>2, <1>6
  <2>4. \A i \in 1..(m - c + 1) : kept[i] = t[(n + 1) - (m - c + 1) + i].at
    BY <2>1, <2>2, <2>3
  <2>5. ASSUME NEW i \in 1..Len(kept) PROVE kept[i] = t[Len(t) - Len(kept) + i].at
    <3>1. i \in 1..(m - c + 1) /\ Len(t) - Len(kept) = (n + 1) - (m - c + 1)
      BY <1>8, <1>9
    <3>2. QED
      BY <2>4, <3>1
  <2>6. QED
    BY <2>5
<1>15. \A j \in 1..(Len(t) - Len(kept)) : t[j].at < t[Len(t)].at - Minute
  <2>1. ASSUME NEW j \in 1..((n + 1) - (m - c + 1)) PROVE t[j].at < now - Minute
    <3>1. j \in 1..n /\ ~ (j > n - m + c)
      BY <1>2, <1>3, <1>6
    <3>2. t[j].at \in Nat
      BY <1>2, <1>9, <3>1
    <3>3. QED
      BY <1>2, <1>10, <3>1, <3>2
  <2>2. QED
    BY <1>8, <1>9, <2>1
<1>16. /\ \A i, j \in 1..Len(t) : i <= j => t[i].at <= t[j].at
       /\ \A j \in 1..Len(t) : t[j].at <= now
  <2>1. \A k \in 1..(n + 1) : k \in 1..n \/ k = n + 1
    BY <1>2
  <2>2. \A k \in 1..(n + 1) : t[k].at <= now
    BY <1>2, <1>3, <1>9, <2>1
  <2>3. ASSUME NEW i \in 1..(n + 1), NEW j \in 1..(n + 1), i <= j PROVE t[i].at <= t[j].at
    <3>1. CASE j = n + 1
      BY <1>9, <2>2, <3>1
    <3>2. CASE j \in 1..n
      <4>1. i \in 1..n
        BY <1>2, <2>3, <3>2
      <4>2. QED
        BY <1>3, <1>9, <2>3, <3>2, <4>1
    <3>3. QED
      BY <2>1, <3>1, <3>2
  <2>4. QED
    BY <1>9, <2>2, <2>3
<1>17. Len(kept) <= Len(t)
  BY <1>2, <1>3, <1>6, <1>8, <1>9
<1>18. QED
  BY <1>8, <1>9, <1>13, <1>14, <1>15, <1>16, <1>17 DEF ListOK

\* No minute admits more than the limit: the last one admitted would not have been.
LEMMA NoMinuteAdmitsMore ==
    ASSUME LimiterTypeOK, NEW h \in Seq(Nat), NEW s \in Seq(Try), ListOK(h, s),
           NEW k \in DOMAIN s
    PROVE  Cardinality({j \in Within(s, k) : s[j].admitted}) <= MaxPerMinute
<1> DEFINE passed == {j \in Within(s, k) : s[j].admitted}
           gaps == {k - j : j \in passed}
<1>1. /\ k \in Nat /\ k \in 1..Len(s) /\ Minute \in Nat /\ MaxPerMinute \in Nat
      /\ \A j \in 1..Len(s) : s[j].at \in Nat
      /\ \A i, j \in 1..Len(s) : i <= j => s[i].at <= s[j].at
  <2>1. Len(s) \in Nat /\ DOMAIN s = 1..Len(s) /\ \A j \in 1..Len(s) : s[j] \in Try
    OBVIOUS
  <2>2. QED
    BY <2>1, RateAssumption DEF Try, ListOK
<1>2. passed \subseteq 1..k /\ \A j \in passed : j \in 1..Len(s) /\ s[j].at >= s[k].at - Minute
                                                    /\ s[j].admitted
  BY <1>1 DEF Within
<1> HIDE DEF passed
<1>3. CASE passed = {}
  <2>1. Cardinality(passed) = 0
    BY <1>3, FS_EmptySet
  <2>2. Cardinality(passed) <= MaxPerMinute
    BY <1>1, <2>1
  <2>3. QED
    BY <2>2 DEF passed
<1>4. CASE passed # {}
  <2>1. gaps \in SUBSET Nat /\ gaps # {}
    <3>1. \A j \in 1..k : k - j \in Nat
      BY <1>1
    <3>2. gaps \subseteq Nat
      BY <1>2, <3>1
    <3>3. gaps # {}
      BY <1>4
    <3>4. QED
      BY <3>2, <3>3
  <2>2. Min(gaps) \in gaps /\ \A x \in gaps : Min(gaps) <= x
    <3> HIDE DEF gaps
    <3>1. QED
      BY <2>1, MinIsElement
  <2>3. PICK last \in passed : \A j \in passed : k - last <= k - j
    BY <2>2
  <2>4. ASSUME NEW j \in passed PROVE j \in Within(s, last)
    <3>1. j \in 1..last /\ last \in 1..Len(s) /\ last <= k
      BY <1>1, <1>2, <2>3
    <3>2. s[last].at <= s[k].at /\ s[last].at \in Nat /\ s[k].at \in Nat /\ s[j].at \in Nat
      BY <1>1, <1>2, <3>1
    <3>3. s[j].at >= s[k].at - Minute
      BY <1>2
    <3>4. \A x, y, z \in Nat : x >= y - Minute /\ z <= y => x >= z - Minute
      BY <1>1
    <3>5. s[j].at >= s[last].at - Minute
      BY <3>2, <3>3, <3>4
    <3>6. QED
      BY <3>1, <3>5 DEF Within
  <2>5. IsFiniteSet(Within(s, last))
    <3>1. IsFiniteSet(1..last)
      BY <1>1, <1>2, FS_Interval
    <3>2. QED
      BY <3>1, FS_Subset DEF Within
  <2>6. Cardinality(passed) <= Cardinality(Within(s, last)) /\ IsFiniteSet(passed)
    BY <2>4, <2>5, FS_Subset
  <2>7. Cardinality(passed) \in Nat /\ Cardinality(Within(s, last)) \in Nat
    BY <2>5, <2>6, FS_CardinalityType
  <2>8. Cardinality(Within(s, last)) <= MaxPerMinute
    BY <1>2 DEF ListOK
  <2>9. Cardinality(passed) <= MaxPerMinute
    BY <1>1, <2>6, <2>7, <2>8
  <2>10. QED
    BY <2>9 DEF passed
<1>5. QED
  BY <1>3, <1>4

\* No attempt is counted at first.
LEMMA LimiterInitInv == LimiterInit => LimiterInv
<1> SUFFICES ASSUME LimiterInit PROVE LimiterInv
  OBVIOUS
<1>1. LimiterTypeOK
  BY DEF LimiterInit, LimiterTypeOK
<1>2. \A p \in Process, a \in Address : hits[p][a] = <<>> /\ attempts[p][a] = <<>>
  BY DEF LimiterInit
<1>3. ListOK(<<>>, <<>>)
  BY DEF ListOK
<1>4. QED
  BY <1>1, <1>2, <1>3 DEF LimiterInv, ListsOK

\* Every attempt, and the passing of time, keeps the invariant.
LEMMA LimiterStep == LimiterInv /\ [LimiterNext]_<<now, limiterVars>> => LimiterInv'
<1> SUFFICES ASSUME LimiterInv, [LimiterNext]_<<now, limiterVars>>
             PROVE  LimiterInv'
  OBVIOUS
<1>1. /\ now \in Nat /\ hits \in [Process -> [Address -> Seq(Nat)]]
      /\ attempts \in [Process -> [Address -> Seq(Try)]]
      /\ LimiterTypeOK /\ ListsOK
  BY DEF LimiterInv, LimiterTypeOK
<1>2. ASSUME NEW p \in Process, NEW a \in Address, Attempt(p, a)
      PROVE  LimiterInv'
  <2>1. PICK kept : kept = Append(Recent(hits[p][a]), now)
    OBVIOUS
  <2>2. PICK t : t = Append(attempts[p][a], [at |-> now, admitted |-> Len(kept) <= MaxPerMinute])
    OBVIOUS
  <2>3. kept \in Seq(Nat) /\ t \in Seq(Try) /\ ListOK(kept, t)
    <3>1. PICK h, s : h = hits[p][a] /\ s = attempts[p][a]
      OBVIOUS
    <3>2. h \in Seq(Nat) /\ s \in Seq(Try) /\ ListOK(h, s)
      BY <1>1, <3>1 DEF ListsOK
    <3>3. /\ kept = Append(Recent(h), now)
          /\ t = Append(s, [at |-> now, admitted |-> Len(kept) <= MaxPerMinute])
      BY <2>1, <2>2, <3>1
    <3>4. QED
      BY <1>1, <3>2, <3>3, NewList
  <2>4. /\ hits' = [hits EXCEPT ![p][a] = kept]
        /\ attempts' = [attempts EXCEPT ![p][a] = t]
        /\ now' = now
    BY <1>2, <2>1, <2>2 DEF Attempt
  <2>5. LimiterTypeOK'
    BY <1>1, <2>3, <2>4 DEF LimiterTypeOK
  <2>6. ASSUME NEW q \in Process, NEW b \in Address PROVE ListOK(hits[q][b], attempts[q][b])'
    <3>1. CASE q = p /\ b = a
      <4>1. hits'[q][b] = kept /\ attempts'[q][b] = t
        BY <1>1, <2>4, <3>1
      <4>2. QED
        BY <2>3, <2>4, <4>1 DEF ListOK
    <3>2. CASE ~ (q = p /\ b = a)
      <4>1. hits'[q][b] = hits[q][b] /\ attempts'[q][b] = attempts[q][b]
        BY <1>1, <2>4, <3>2
      <4>2. ListOK(hits[q][b], attempts[q][b])
        BY <1>1 DEF ListsOK
      <4>3. QED
        BY <2>4, <4>1, <4>2 DEF ListOK
    <3>3. QED
      BY <3>1, <3>2
  <2>7. QED
    BY <2>5, <2>6 DEF LimiterInv, ListsOK
<1>3. ASSUME NEW p \in Process, RestartProcess(p)
      PROVE  LimiterInv'
  <2>1. /\ hits' = [hits EXCEPT ![p] = [a \in Address |-> <<>>]]
        /\ attempts' = [attempts EXCEPT ![p] = [a \in Address |-> <<>>]]
        /\ now' = now
    BY <1>3 DEF RestartProcess
  <2>2. LimiterTypeOK'
    BY <1>1, <2>1 DEF LimiterTypeOK
  <2>3. ASSUME NEW q \in Process, NEW b \in Address PROVE ListOK(hits[q][b], attempts[q][b])'
    <3>1. CASE q = p
      <4>1. hits'[q][b] = <<>> /\ attempts'[q][b] = <<>>
        BY <1>1, <2>1, <3>1
      <4>2. QED
        BY <4>1 DEF ListOK
    <3>2. CASE q # p
      <4>1. hits'[q][b] = hits[q][b] /\ attempts'[q][b] = attempts[q][b]
        BY <1>1, <2>1, <3>2
      <4>2. ListOK(hits[q][b], attempts[q][b])
        BY <1>1 DEF ListsOK
      <4>3. QED
        BY <2>1, <4>1, <4>2 DEF ListOK
    <3>3. QED
      BY <3>1, <3>2
  <2>4. QED
    BY <2>2, <2>3 DEF LimiterInv, ListsOK
<1>4. ASSUME now' \in Nat, now <= now', UNCHANGED <<hits, attempts>>
      PROVE  LimiterInv'
  <2>1. LimiterTypeOK'
    BY <1>1, <1>4 DEF LimiterTypeOK
  <2>2. ASSUME NEW p \in Process, NEW a \in Address PROVE ListOK(hits[p][a], attempts[p][a])'
    <3>1. PICK h, s : h = hits[p][a] /\ s = attempts[p][a]
      OBVIOUS
    <3>2. h' = h /\ s' = s /\ hits'[p][a] = h /\ attempts'[p][a] = s
      BY <1>4, <3>1
    <3>3. s \in Seq(Try) /\ ListOK(h, s)
      BY <1>1, <3>1 DEF ListsOK
    <3>4. \A j \in 1..Len(s) : s[j] \in Try
      BY <3>3
    <3>5. \A j \in 1..Len(s) : s[j].at \in Nat /\ s[j].at <= now
      BY <3>3, <3>4 DEF Try, ListOK
    <3>6. \A x \in Nat : x <= now => x <= now'
      BY <1>1, <1>4
    <3>7. \A j \in 1..Len(s) : s[j].at <= now'
      BY <3>5, <3>6
    <3>8. QED
      BY <3>2, <3>3, <3>7 DEF ListOK
  <2>3. QED
    BY <2>1, <2>2 DEF LimiterInv, ListsOK
<1>5. CASE Tick /\ UNCHANGED <<hits, attempts, restarts>>
  BY <1>1, <1>4, <1>5 DEF Tick
<1>6. CASE UNCHANGED <<now, limiterVars>>
  BY <1>1, <1>4, <1>6 DEF limiterVars
<1>7. QED
  BY <1>2, <1>3, <1>5, <1>6 DEF LimiterNext

\* For any limit, any minute, any processes and addresses: an attempt goes ahead exactly when at
\* most the limit fall in the closed minute up to it, and no minute admits more
\* (middleware.py:56-62).
THEOREM LimitHolds == LimiterSpec => []AtMostMaxPerWindow
<1>1. LimiterInv => AtMostMaxPerWindow
  <2> SUFFICES ASSUME LimiterInv, NEW p \in Process, NEW a \in Address,
                      NEW k \in DOMAIN attempts[p][a]
               PROVE  LET s == attempts[p][a]
                          Before(n) == {j \in 1..n : s[j].at >= s[n].at - Minute}
                      IN  /\ s[k].admitted <=> Cardinality(Before(k)) <= MaxPerMinute
                          /\ Cardinality({j \in Before(k) : s[j].admitted}) <= MaxPerMinute
    BY DEF AtMostMaxPerWindow
  <2>1. /\ hits[p][a] \in Seq(Nat) /\ attempts[p][a] \in Seq(Try)
        /\ ListOK(hits[p][a], attempts[p][a]) /\ LimiterTypeOK
    BY DEF LimiterInv, LimiterTypeOK, ListsOK
  <2>2. k \in 1..Len(attempts[p][a])
    BY <2>1
  <2>3. Cardinality({j \in Within(attempts[p][a], k) : attempts[p][a][j].admitted}) <= MaxPerMinute
    BY <2>1, NoMinuteAdmitsMore
  <2>4. attempts[p][a][k].admitted <=> Cardinality(Within(attempts[p][a], k)) <= MaxPerMinute
    BY <2>1, <2>2 DEF ListOK
  <2>5. QED
    BY <2>3, <2>4 DEF Within
<1>2. QED
  BY LimiterInitInv, LimiterStep, <1>1, PTL DEF LimiterSpec

-----------------------------------------------------------------------------
(* SourceHealth                                                            *)

CheckRow == [reference : Reference, checked_at : Int, url_reachable : BOOLEAN \cup {None},
          form_changed : BOOLEAN \cup {None}]

SourceTypeOK ==
    /\ rule \in [confidence_tier : 1..3, last_verified : {0}]
    /\ today \in Nat
    /\ checks \in Seq(CheckRow)

\* No check is of a day after the next.
DatesOK == \A i \in 1..Len(checks) : checks[i].checked_at <= today + 1

SourceInv == SourceTypeOK /\ DatesOK

\* The greatest of a set of integers with a bound is one of them.
LEMMA MaxIsElement ==
    ASSUME NEW S \in SUBSET Int, S # {}, NEW bound \in Int, \A x \in S : x <= bound
    PROVE  Max(S) \in S /\ \A x \in S : x <= Max(S)
<1> DEFINE below == {bound - x : x \in S}
<1>1. below \in SUBSET Nat /\ below # {}
  <2>1. \A x \in S : bound - x \in Nat
    OBVIOUS
  <2>2. QED
    BY <2>1
<1>2. PICK d \in below : \A e \in below : d <= e
  <2> HIDE DEF below
  <2>1. QED
    BY <1>1, MinIsElement
<1>3. PICK m \in S : d = bound - m
  OBVIOUS
<1>4. ASSUME NEW x \in S PROVE x <= m
  <2>1. bound - x \in below /\ x \in Int /\ m \in Int
    OBVIOUS
  <2>2. bound - m <= bound - x
    BY <1>2, <1>3, <2>1
  <2>3. QED
    BY <2>1, <2>2
<1>5. \A x \in S : m >= x
  BY <1>4
<1>6. Max(S) \in S /\ \A x \in S : Max(S) >= x
  BY <1>5 DEF Max
<1>7. QED
  BY <1>6

\* The greater of two.
LEMMA MaxOfTwo ==
    ASSUME NEW a \in Int, NEW b \in Int
    PROVE  Max({a, b}) = IF a >= b THEN a ELSE b
<1>1. PICK m : m = IF a >= b THEN a ELSE b
  OBVIOUS
<1>2. m \in {a, b} /\ m \in Int /\ m >= a /\ m >= b
  BY <1>1
<1>3. {a, b} \in SUBSET Int /\ {a, b} # {} /\ \A x \in {a, b} : x <= m
  BY <1>2
<1>4. Max({a, b}) \in {a, b} /\ \A x \in {a, b} : x <= Max({a, b})
  BY <1>2, <1>3, MaxIsElement
<1>5. QED
  BY <1>1, <1>4

\* The smaller of two.
LEMMA MinOfTwo ==
    ASSUME NEW a \in Int, NEW b \in Int
    PROVE  Min({a, b}) = IF a <= b THEN a ELSE b
<1>1. PICK m \in {a, b} : \A y \in {a, b} : m <= y
  OBVIOUS
<1>2. Min({a, b}) \in {a, b} /\ \A y \in {a, b} : Min({a, b}) <= y
  BY <1>1 DEF Min
<1>3. QED
  BY <1>2

\* Check i of a reference is not after check j.
NotAfter(cs, i, j) ==
    cs[i].checked_at < cs[j].checked_at \/ (cs[i].checked_at = cs[j].checked_at /\ i <= j)

ChecksOf(cs, r) == {i \in DOMAIN cs : cs[i].reference = r}

\* The latest check is the one that no other is after.
LEMMA LatestIsLast ==
    ASSUME NEW cs \in Seq(CheckRow), NEW bound \in Int,
           \A i \in 1..Len(cs) : cs[i].checked_at <= bound, NEW r
    PROVE  IF ChecksOf(cs, r) = {} THEN latest_check(cs, r) = 0
           ELSE /\ latest_check(cs, r) \in ChecksOf(cs, r)
                /\ \A i \in ChecksOf(cs, r) : NotAfter(cs, i, latest_check(cs, r))
<1> DEFINE of == ChecksOf(cs, r)
           days == {cs[i].checked_at : i \in of}
           last == {i \in of : cs[i].checked_at = Max(days)}
<1>1. /\ Len(cs) \in Nat /\ DOMAIN cs = 1..Len(cs) /\ of \subseteq 1..Len(cs)
      /\ \A i \in 1..Len(cs) : cs[i].checked_at \in Int
  <2>1. Len(cs) \in Nat /\ DOMAIN cs = 1..Len(cs) /\ \A i \in 1..Len(cs) : cs[i] \in CheckRow
    OBVIOUS
  <2>2. QED
    BY <2>1 DEF CheckRow, ChecksOf
<1>2. latest_check(cs, r) = Max({0} \cup last)
  BY DEF latest_check, ChecksOf
<1> HIDE DEF of
<1> DEFINE l == latest_check(cs, r)
<1>3. PICK some : some = {0} \cup last
  OBVIOUS
<1>4. l \in {0} \cup last /\ \A x \in {0} \cup last : x <= l
  <2>1. \A x \in some : x \in Int /\ x <= Len(cs)
    <3>1. \A x \in 1..Len(cs) : x \in Int /\ x <= Len(cs)
      BY <1>1
    <3>2. \A x \in some : x = 0 \/ x \in 1..Len(cs)
      BY <1>1, <1>3
    <3>3. QED
      BY <1>1, <3>1, <3>2
  <2>2. some # {} /\ some \in SUBSET Int
    BY <1>3, <2>1
  <2>3. Max(some) \in some /\ \A x \in some : x <= Max(some)
    <3>1. PICK n \in Int : \A x \in some : x <= n
      BY <1>1, <2>1
    <3>2. QED
      BY <2>2, <3>1, MaxIsElement
  <2>4. QED
    BY <1>2, <1>3, <2>3
<1>5. CASE of = {}
  BY <1>4, <1>5 DEF of
<1>6. CASE of # {}
  <2>1. days \in SUBSET Int /\ days # {} /\ \A x \in days : x <= bound
    BY <1>1, <1>6
  <2>2. Max(days) \in days /\ \A x \in days : x <= Max(days)
    <3> HIDE DEF days
    <3>1. QED
      BY <2>1, MaxIsElement
  <2>3. PICK i \in of : i \in last
    BY <2>2
  <2>4. l \in last
    <3>1. i <= l /\ i >= 1
      BY <1>1, <1>4, <2>3
    <3> HIDE DEF last, l
    <3>2. QED
      BY <1>1, <1>4, <3>1
  <2>5. ASSUME NEW j \in of PROVE NotAfter(cs, j, l)
    <3>1. cs[j].checked_at <= cs[l].checked_at /\ l \in of
      BY <2>2, <2>4
    <3>2. cs[j].checked_at = cs[l].checked_at => j <= l
      BY <1>4, <2>4
    <3>3. cs[j].checked_at \in Int /\ cs[l].checked_at \in Int
      BY <1>1, <3>1
    <3> HIDE DEF l
    <3>4. QED
      BY <3>1, <3>2, <3>3 DEF NotAfter
  <2>6. QED
    BY <1>6, <2>4, <2>5 DEF of
<1>7. QED
  BY <1>5, <1>6
\* A new check that is of another reference, or not as late, is not the latest.
LEMMA LatestStays ==
    ASSUME NEW cs \in Seq(CheckRow), NEW c \in CheckRow, NEW bound \in Int,
           \A i \in 1..Len(cs) : cs[i].checked_at <= bound, c.checked_at <= bound,
           NEW r, ChecksOf(cs, r) # {}, ~ Supersedes(c, r, cs)
    PROVE  /\ latest_check(Append(cs, c), r) = latest_check(cs, r)
           /\ Append(cs, c)[latest_check(cs, r)] = cs[latest_check(cs, r)]
           /\ ChecksOf(Append(cs, c), r) # {}
<1>1. PICK n, ds, l, m : /\ n = Len(cs) /\ ds = Append(cs, c)
                         /\ l = latest_check(cs, r) /\ m = latest_check(ds, r)
  OBVIOUS
<1>2. /\ n \in Nat /\ DOMAIN cs = 1..n /\ ds \in Seq(CheckRow) /\ Len(ds) = n + 1
      /\ DOMAIN ds = 1..(n + 1) /\ ds[n + 1] = c /\ \A i \in 1..n : ds[i] = cs[i]
  BY <1>1
<1>3. \A i \in 1..n : cs[i].checked_at \in Int
  <2>1. \A i \in 1..n : cs[i] \in CheckRow
    BY <1>2
  <2>2. QED
    BY <2>1 DEF CheckRow
<1>4. c.checked_at \in Int
  BY DEF CheckRow
<1>5. \A i \in 1..Len(ds) : ds[i].checked_at <= bound
  <2>1. \A i \in 1..(n + 1) : i \in 1..n \/ i = n + 1
    BY <1>2
  <2>2. QED
    BY <1>1, <1>2, <2>1
<1>6. l \in ChecksOf(cs, r) /\ \A i \in ChecksOf(cs, r) : NotAfter(cs, i, l)
  BY <1>1, LatestIsLast
<1>7. ChecksOf(cs, r) \subseteq 1..n /\ ChecksOf(cs, r) \subseteq ChecksOf(ds, r)
  BY <1>2 DEF ChecksOf
<1>8. m \in ChecksOf(ds, r) /\ \A i \in ChecksOf(ds, r) : NotAfter(ds, i, m)
  BY <1>1, <1>2, <1>5, <1>6, <1>7, LatestIsLast
<1>9. c.reference = r => c.checked_at < cs[l].checked_at
  BY <1>1, <1>3, <1>4, <1>6, <1>7 DEF Supersedes
<1>10. m # n + 1
  <2>1. SUFFICES ASSUME m = n + 1 PROVE FALSE
    OBVIOUS
  <2>2. c.reference = r
    BY <1>2, <1>8, <2>1 DEF ChecksOf
  <2>3. l \in 1..n /\ NotAfter(ds, l, m)
    BY <1>6, <1>7, <1>8
  <2>4. cs[l].checked_at <= c.checked_at
    BY <1>2, <1>3, <1>4, <2>1, <2>3 DEF NotAfter
  <2>5. QED
    BY <1>3, <1>4, <1>9, <2>2, <2>3, <2>4
<1>11. m \in ChecksOf(cs, r) /\ m \in 1..n
  BY <1>2, <1>8, <1>10 DEF ChecksOf
<1>12. NotAfter(cs, m, l) /\ NotAfter(cs, l, m) /\ l \in 1..n
  <2>1. l \in 1..n /\ NotAfter(ds, l, m)
    BY <1>6, <1>7, <1>8
  <2>2. NotAfter(cs, l, m)
    BY <1>2, <1>11, <2>1 DEF NotAfter
  <2>3. QED
    BY <1>6, <1>11, <2>1, <2>2
<1>13. m = l
  <2>1. cs[m].checked_at \in Int /\ cs[l].checked_at \in Int /\ m \in Nat /\ l \in Nat
    BY <1>2, <1>3, <1>11, <1>12
  <2>2. QED
    BY <1>12, <2>1 DEF NotAfter
<1>14. QED
  BY <1>1, <1>2, <1>7, <1>8, <1>12, <1>13

\* The history of a reference ends with its latest check.
LEMMA HistoryEndsWithLatest ==
    ASSUME NEW cs \in Seq(CheckRow), NEW bound \in Int,
           \A i \in 1..Len(cs) : cs[i].checked_at <= bound, NEW r, ChecksOf(cs, r) # {}
    PROVE  Last(check_history(cs, r)) = latest_check(cs, r)
<1> DEFINE UpTo(i) == {j \in ChecksOf(cs, r) : NotAfter(cs, j, i)}
<1>1. PICK N, l : N = Cardinality(ChecksOf(cs, r)) /\ l = latest_check(cs, r)
  OBVIOUS
<1>2. l \in ChecksOf(cs, r) /\ UpTo(l) = ChecksOf(cs, r)
  BY <1>1, LatestIsLast
<1>3. /\ Len(cs) \in Nat /\ DOMAIN cs = 1..Len(cs) /\ ChecksOf(cs, r) \subseteq 1..Len(cs)
      /\ \A i \in 1..Len(cs) : cs[i].checked_at \in Int
  <2>1. Len(cs) \in Nat /\ DOMAIN cs = 1..Len(cs) /\ \A i \in 1..Len(cs) : cs[i] \in CheckRow
    OBVIOUS
  <2>2. QED
    BY <2>1 DEF CheckRow, ChecksOf
<1>4. IsFiniteSet(ChecksOf(cs, r)) /\ N \in Nat \ {0}
  <2>1. IsFiniteSet(1..Len(cs))
    BY <1>3, FS_Interval
  <2>2. IsFiniteSet(ChecksOf(cs, r))
    BY <1>3, <2>1, FS_Subset
  <2>3. QED
    BY <1>1, <2>2, FS_CardinalityType, FS_EmptySet
<1>5. ASSUME NEW i \in ChecksOf(cs, r), Cardinality(UpTo(i)) = N PROVE i = l
  <2>1. UpTo(i) = ChecksOf(cs, r)
    BY <1>1, <1>4, <1>5, FS_Subset
  <2>2. NotAfter(cs, l, i) /\ NotAfter(cs, i, l)
    BY <1>2, <2>1
  <2>3. cs[i].checked_at \in Int /\ cs[l].checked_at \in Int /\ i \in Nat /\ l \in Nat
    BY <1>2, <1>3
  <2>4. QED
    BY <2>2, <2>3 DEF NotAfter
<1>6. (CHOOSE i \in ChecksOf(cs, r) : Cardinality(UpTo(i)) = N) = l
  BY <1>1, <1>2, <1>5
<1>7. check_history(cs, r) = [k \in 1..N |-> CHOOSE i \in ChecksOf(cs, r) : Cardinality(UpTo(i)) = k]
  BY <1>1 DEF check_history, ChecksOf, NotAfter
<1>8. check_history(cs, r)[N] = l
  <2> HIDE DEF UpTo
  <2>1. QED
    BY <1>4, <1>6, <1>7
<1>9. Len(check_history(cs, r)) = N
  BY <1>4, <1>7
<1>10. QED
  BY <1>1, <1>8, <1>9 DEF Last

\* The base score falls with the days, and is zero past the cadence.
LEMMA BaseFalls ==
    ASSUME NEW date \in Int, NEW cadence \in {365, 180, 90}, today \in Nat
    PROVE  /\ Base(date, cadence) \in Nat
           /\ today - date > cadence => Base(date, cadence) = 0
           /\ date <= today => Base(date, cadence) <= 100
<1>1. PICK d, p : d = today - date /\ p = Percent(d, cadence)
  OBVIOUS
<1>2. d \in Int /\ p \in Int /\ (d > cadence => p >= 100) /\ (d >= 0 => p >= 0)
  <2>1. d \in Int
    BY <1>1
  <2>2. CASE cadence = 365
    BY <1>1, <2>1, <2>2 DEF Percent
  <2>3. CASE cadence = 180
    BY <1>1, <2>1, <2>3 DEF Percent
  <2>4. CASE cadence = 90
    BY <1>1, <2>1, <2>4 DEF Percent
  <2>5. QED
    BY <2>2, <2>3, <2>4
<1>3. Base(date, cadence) = IF 0 >= 100 - p THEN 0 ELSE 100 - p
  <2>1. 100 - p \in Int /\ 0 \in Int
    BY <1>2
  <2>2. Base(date, cadence) = Max({0, 100 - p})
    BY <1>1 DEF Base
  <2>3. QED
    BY <2>1, <2>2, MaxOfTwo
<1>4. date <= today => d >= 0
  BY <1>1
<1>5. QED
  BY <1>1, <1>2, <1>3, <1>4

Failed(cs, r) == latest_check(cs, r) # 0 /\ (Unreachable(cs[latest_check(cs, r)])
                                             \/ FormChanged(cs[latest_check(cs, r)]))

\* A failing citation costs at least twenty points.
LEMMA PenaltyCounts ==
    ASSUME NEW cs
    PROVE  /\ _url_penalty(cs) \in Nat
           /\ (\E r \in Reference : Failed(cs, r)) => _url_penalty(cs) >= 20
<1> DEFINE checked == {r \in Reference : latest_check(cs, r) # 0}
           unreachable == {r \in checked : Unreachable(cs[latest_check(cs, r)])}
           changed == {r \in checked : FormChanged(cs[latest_check(cs, r)])}
<1>1. PICK a, b : a = Cardinality(unreachable) /\ b = Cardinality(changed)
  OBVIOUS
<1>2. IsFiniteSet(unreachable) /\ IsFiniteSet(changed)
  <2>1. unreachable \in SUBSET Reference /\ changed \in SUBSET Reference
    OBVIOUS
  <2>2. QED
    BY <2>1, SourceAssumption, FS_Subset
<1>3. a \in Nat /\ b \in Nat /\ (unreachable # {} => a # 0) /\ (changed # {} => b # 0)
  <2> HIDE DEF unreachable, changed
  <2>1. QED
    BY <1>1, <1>2, FS_CardinalityType, FS_EmptySet
<1>4. (\E r \in Reference : Failed(cs, r)) => unreachable # {} \/ changed # {}
  BY DEF Failed
<1>5. _url_penalty(cs) = Min({30 * a + 20 * b, 50})
  BY <1>1 DEF _url_penalty
<1>6. PICK n : n = 30 * a + 20 * b
  OBVIOUS
<1>7. n \in Nat /\ (a # 0 \/ b # 0 => n >= 20)
  BY <1>3, <1>6
<1>8. Min({n, 50}) = IF n <= 50 THEN n ELSE 50
  BY <1>7, MinOfTwo
<1>9. QED
  BY <1>3, <1>4, <1>5, <1>6, <1>7, <1>8

\* What the score is made of.
LEMMA ScoreIsBaseLessPenalty ==
    ASSUME SourceInv
    PROVE  LET cadence == _cadence(rule.confidence_tier)
               base == Base(rule.last_verified, cadence)
               score == freshness_score(rule, checks)
           IN  /\ cadence \in {365, 180, 90} /\ rule.last_verified = 0
               /\ checks # <<>> => _last_check_date(checks) \in Int
               /\ score \in Nat /\ score <= base
               /\ score = 0 \/ score <= base - _url_penalty(checks)
               /\ checks # <<>> => score <= Base(_last_check_date(checks), cadence)
<1>1. /\ rule.confidence_tier \in 1..3 /\ rule.last_verified = 0 /\ today \in Nat
      /\ checks \in Seq(CheckRow) /\ today + 1 \in Int
  BY DEF SourceInv, SourceTypeOK
<1>2. PICK cadence : cadence = _cadence(rule.confidence_tier)
  OBVIOUS
<1>3. cadence \in {365, 180, 90}
  BY <1>1, <1>2 DEF _cadence, CADENCE_DAYS, _DEFAULT_CADENCE
<1>4. checks # <<>> => _last_check_date(checks) \in Int
  <2> SUFFICES ASSUME checks # <<>> PROVE _last_check_date(checks) \in Int
    OBVIOUS
  <2>1. PICK days : days = {c.checked_at : c \in Range(checks)}
    OBVIOUS
  <2>2. Len(checks) \in Nat \ {0} /\ DOMAIN checks = 1..Len(checks)
    BY <1>1
  <2>3. \A i \in 1..Len(checks) : checks[i] \in CheckRow /\ checks[i].checked_at <= today + 1
    BY <1>1 DEF SourceInv, DatesOK
  <2>4. \A c \in Range(checks) : c.checked_at \in Int /\ c.checked_at <= today + 1
    BY <2>2, <2>3 DEF Range, CheckRow
  <2>5. checks[1] \in Range(checks)
    BY <2>2 DEF Range
  <2>6. days \in SUBSET Int /\ days # {} /\ \A x \in days : x <= today + 1
    BY <2>1, <2>4, <2>5
  <2>7. QED
    BY <1>1, <2>1, <2>6, MaxIsElement DEF _last_check_date
<1>5. PICK date : date = IF checks = <<>> THEN rule.last_verified ELSE _last_check_date(checks)
  OBVIOUS
<1>6. PICK a, b, p : /\ a = Base(rule.last_verified, cadence) /\ b = Base(date, cadence)
                     /\ p = _url_penalty(checks)
  OBVIOUS
<1>7. a \in Nat /\ b \in Nat /\ p \in Nat
  <2>1. date \in Int /\ rule.last_verified \in Int
    BY <1>1, <1>4, <1>5
  <2>2. ASSUME NEW d \in Int PROVE Base(d, cadence) \in Nat
    <3>1. today \in Nat
      BY <1>1
    <3>2. QED
      BY <1>3, <3>1, BaseFalls
  <2>3. p \in Nat
    BY <1>6, PenaltyCounts
  <2>4. QED
    BY <1>6, <2>1, <2>2, <2>3
<1>8. freshness_score(rule, checks) = Max({0, Min({a, b}) - p})
  <2>1. {rule.last_verified} \cup (IF checks = <<>> THEN {} ELSE {_last_check_date(checks)})
          = {rule.last_verified, date}
    BY <1>5
  <2>2. {Base(d, cadence) : d \in {rule.last_verified, date}} = {a, b}
    BY <1>6
  <2>3. freshness_score(rule, checks)
          = Max({0, Min({Base(d, cadence) : d \in {rule.last_verified, date}}) - p})
    BY <1>2, <1>6, <2>1 DEF freshness_score
  <2>4. QED
    BY <2>2, <2>3
<1>9. Min({a, b}) = IF a <= b THEN a ELSE b
  BY <1>7, MinOfTwo
<1>10. PICK m : m = Min({a, b}) - p
  OBVIOUS
<1>11. m \in Int /\ m <= a - p /\ m <= b - p
  BY <1>7, <1>9, <1>10
<1>12. freshness_score(rule, checks) = IF 0 >= m THEN 0 ELSE m
  BY <1>8, <1>10, <1>11, MaxOfTwo
<1>13. PICK score : score = freshness_score(rule, checks)
  OBVIOUS
<1>14. score \in Nat /\ score <= a /\ score <= b /\ (score = 0 \/ score <= a - p)
  BY <1>7, <1>11, <1>12, <1>13
<1>15. QED
  BY <1>1, <1>2, <1>3, <1>4, <1>5, <1>6, <1>13, <1>14

\* At first nothing is checked.
LEMMA SourceInitInv == SourceInit => SourceInv
BY DEF SourceInit, SourceInv, SourceTypeOK, DatesOK

\* Every recorded check keeps the invariant.
LEMMA SourceStep == SourceInv /\ [SourceNext]_sourceVars => SourceInv'
<1> SUFFICES ASSUME SourceInv, [SourceNext]_sourceVars
             PROVE  SourceInv'
  OBVIOUS
<1>1. /\ rule \in [confidence_tier : 1..3, last_verified : {0}]
      /\ today \in Nat /\ checks \in Seq(CheckRow) /\ Len(checks) \in Nat
      /\ \A i \in 1..Len(checks) : checks[i] \in CheckRow
      /\ \A i \in 1..Len(checks) : checks[i].checked_at <= today + 1
  BY DEF SourceInv, SourceTypeOK, DatesOK
<1>2. ASSUME NEW r \in Reference, NEW date \in (today - 1)..(today + 1), NEW found \in Outcome,
             record_check(r, date, found)
      PROVE  SourceInv'
  <2>1. PICK c : c = [reference |-> r, checked_at |-> date, url_reachable |-> found.url_reachable,
                      form_changed |-> found.form_changed]
    OBVIOUS
  <2>2. date \in Int /\ date <= today + 1
    BY <1>1
  <2>3. c \in CheckRow /\ c.checked_at = date
    BY <2>1, <2>2, SourceAssumption DEF CheckRow
  <2>4. checks' = Append(checks, c) /\ rule' = rule /\ today' = today
    BY <1>2, <2>1 DEF record_check
  <2>5. /\ checks' \in Seq(CheckRow) /\ Len(checks') = Len(checks) + 1
        /\ checks'[Len(checks) + 1] = c
        /\ \A i \in 1..Len(checks) : checks'[i] = checks[i]
    BY <1>1, <2>3, <2>4
  <2>6. \A i \in 1..(Len(checks) + 1) : i \in 1..Len(checks) \/ i = Len(checks) + 1
    BY <1>1
  <2>7. \A i \in 1..Len(checks') : checks'[i].checked_at <= today + 1
    BY <1>1, <2>2, <2>3, <2>5, <2>6
  <2>8. QED
    BY <1>1, <2>4, <2>5, <2>7 DEF SourceInv, SourceTypeOK, DatesOK
<1>3. ASSUME NEW day \in Days, DaysPass(day) PROVE SourceInv'
  <2>1. day \in Nat /\ today' = day /\ today < day /\ rule' = rule /\ checks' = checks
    BY <1>3, SourceAssumption DEF DaysPass
  <2>2. ASSUME NEW i \in 1..Len(checks) PROVE checks[i].checked_at <= day + 1
    <3>1. checks[i].checked_at \in Int /\ checks[i].checked_at <= today + 1
      BY <1>1 DEF CheckRow
    <3>2. QED
      BY <1>1, <2>1, <3>1
  <2>3. QED
    BY <1>1, <2>1, <2>2 DEF SourceInv, SourceTypeOK, DatesOK
<1>4. CASE UNCHANGED sourceVars
  BY <1>4 DEF sourceVars, SourceInv, SourceTypeOK, DatesOK
<1>5. QED
  BY <1>2, <1>3, <1>4 DEF SourceNext

\* The citations with a check are those that have a latest one.
LEMMA LatestOfEach ==
    ASSUME NEW cs \in Seq(CheckRow), NEW bound \in Int,
           \A i \in 1..Len(cs) : cs[i].checked_at <= bound
    PROVE  /\ \A r : ChecksOf(cs, r) # {} <=> latest_check(cs, r) # 0
           /\ \A r : ChecksOf(cs, r) # {} => r \in Reference
           /\ (\E c \in Latest(cs) : Unreachable(c) \/ FormChanged(c))
                <=> \E r \in Reference : Failed(cs, r)
<1>1. Len(cs) \in Nat /\ DOMAIN cs = 1..Len(cs) /\ \A i \in DOMAIN cs : cs[i].reference \in Reference
  <2>1. Len(cs) \in Nat /\ DOMAIN cs = 1..Len(cs) /\ \A i \in 1..Len(cs) : cs[i] \in CheckRow
    OBVIOUS
  <2>2. QED
    BY <2>1 DEF CheckRow
<1>2. ASSUME NEW r PROVE ChecksOf(cs, r) # {} <=> latest_check(cs, r) # 0
  <2>1. 0 \notin ChecksOf(cs, r)
    BY <1>1 DEF ChecksOf
  <2>2. QED
    BY <2>1, LatestIsLast
<1>3. ASSUME NEW r PROVE ChecksOf(cs, r) # {} => r \in Reference
  BY <1>1 DEF ChecksOf
<1>4. \A r : ChecksOf(cs, r) # {} <=> r \in {c.reference : c \in Range(cs)}
  BY DEF ChecksOf, Range
<1>5. (\E c \in Latest(cs) : Unreachable(c) \/ FormChanged(c)) <=> \E r \in Reference : Failed(cs, r)
  BY <1>2, <1>3, <1>4 DEF Latest, Failed
<1>6. QED
  BY <1>2, <1>3, <1>5

\* Once flagged: the states before and after a step.
LEMMA FlagStays ==
    ASSUME SourceInv, SourceInv', SourceNext, needs_review(rule, checks), ~ needs_review(rule, checks)'
    PROVE  /\ Len(checks') = Len(checks) + 1
           /\ today - rule.last_verified <= _cadence(rule.confidence_tier)
           /\ \A r \in Failing(checks) : Supersedes(Last(checks'), r, checks)
<1>1. /\ rule.confidence_tier \in 1..3 /\ rule.last_verified = 0 /\ today \in Nat
      /\ checks \in Seq(CheckRow) /\ today + 1 \in Int
      /\ \A i \in 1..Len(checks) : checks[i].checked_at <= today + 1
  BY DEF SourceInv, SourceTypeOK, DatesOK
<1>2. PICK cadence : cadence = _cadence(rule.confidence_tier)
  OBVIOUS
<1>3. cadence \in {365, 180, 90} /\ (checks # <<>> => _last_check_date(checks) \in Int)
  BY <1>2, ScoreIsBaseLessPenalty
<1>4. ASSUME NEW day \in Days, DaysPass(day) PROVE FALSE
  <2>1. day \in Nat /\ today' = day /\ today < day /\ rule' = rule /\ checks' = checks
    BY <1>4, SourceAssumption DEF DaysPass
  <2>2. /\ today - rule.last_verified > cadence => day - rule.last_verified > cadence
        /\ checks # <<>> /\ today - _last_check_date(checks) > cadence
             => day - _last_check_date(checks) > cadence
    BY <1>1, <1>3, <2>1
  <2>3. needs_review(rule, checks)'
    BY <1>2, <2>1, <2>2 DEF needs_review
  <2>4. QED
    BY <2>3
<1>5. ASSUME NEW r \in Reference, NEW date \in (today - 1)..(today + 1), NEW found \in Outcome,
             record_check(r, date, found)
      PROVE  /\ Len(checks') = Len(checks) + 1
             /\ today - rule.last_verified <= cadence
             /\ \A q \in Failing(checks) : Supersedes(Last(checks'), q, checks)
  <2>1. PICK c : c = [reference |-> r, checked_at |-> date, url_reachable |-> found.url_reachable,
                      form_changed |-> found.form_changed]
    OBVIOUS
  <2>2. c \in CheckRow /\ c.checked_at <= today + 1
    BY <1>1, <2>1, SourceAssumption DEF CheckRow
  <2>3. checks' = Append(checks, c) /\ rule' = rule /\ today' = today
    BY <1>5, <2>1 DEF record_check
  <2>4. Len(checks') = Len(checks) + 1 /\ Last(checks') = c
    BY <1>1, <2>2, <2>3 DEF Last
  <2>5. ~ (today - rule.last_verified > cadence)
    BY <1>2, <2>3 DEF needs_review
  <2>6. ASSUME NEW q \in Failing(checks), ~ Supersedes(c, q, checks) PROVE FALSE
    <3>1. q \in Reference /\ latest_check(checks, q) # 0 /\ Failed(checks, q)
      <4>1. CASE is_currently_reachable(checks, q) = FALSE
        BY <2>6, <4>1, SourceAssumption
           DEF Failing, is_currently_reachable, Failed, Unreachable
      <4>2. CASE latest_check(checks, q) # 0 /\ FormChanged(checks[Last(check_history(checks, q))])
        <5>1. Last(check_history(checks, q)) = latest_check(checks, q)
          BY <1>1, <4>2, LatestOfEach, HistoryEndsWithLatest
        <5>2. QED
          BY <4>2, <5>1 DEF Failing, Failed
      <4>3. QED
        BY <4>1, <4>2 DEF Failing
    <3>2. ChecksOf(checks, q) # {}
      BY <1>1, <3>1, LatestOfEach
    <3>3. /\ latest_check(checks', q) = latest_check(checks, q)
          /\ checks'[latest_check(checks, q)] = checks[latest_check(checks, q)]
      BY <1>1, <2>2, <2>3, <2>6, <3>2, LatestStays
    <3>4. Failed(checks', q)
      BY <3>1, <3>3 DEF Failed
    <3>5. checks' \in Seq(CheckRow) /\ \A i \in 1..Len(checks') : checks'[i].checked_at <= today + 1
      BY <2>3 DEF SourceInv, SourceTypeOK, DatesOK
    <3>6. \E d \in Latest(checks') : Unreachable(d) \/ FormChanged(d)
      BY <1>1, <3>1, <3>4, <3>5, LatestOfEach
    <3>7. needs_review(rule, checks)'
      BY <3>6 DEF needs_review
    <3>8. QED
      BY <3>7
  <2>7. QED
    BY <1>1, <1>3, <2>4, <2>5, <2>6
<1>6. QED
  BY <1>2, <1>4, <1>5 DEF SourceNext

\* For any citations, checks and days: nothing hides a failing or an overdue source, and only time
\* within the cadence and a later check of every failing citation end a review
\* (freshness.py:67-77, 116, 165-172).
THEOREM FailuresStayVisible == SourceSpec => NothingHidesAFailure
<1> DEFINE score == freshness_score(rule, checks)
           late == today - rule.last_verified > _cadence(rule.confidence_tier)
           stays == needs_review(rule, checks) /\ ~needs_review(rule, checks)' =>
                      /\ Len(checks') = Len(checks) + 1
                      /\ today - rule.last_verified <= _cadence(rule.confidence_tier)
                      /\ \A r \in Failing(checks) : Supersedes(Last(checks'), r, checks)
<1>1. ASSUME SourceInv
      PROVE  /\ needs_review(rule, checks) => freshness_label(score) # "fresh"
             /\ late => freshness_label(score) = "stale"
             /\ sources_report(rule)["stale"] > 0 => needs_review(rule, checks)
  <2>1. /\ rule.last_verified = 0 /\ today \in Nat /\ checks \in Seq(CheckRow) /\ today + 1 \in Int
        /\ \A i \in 1..Len(checks) : checks[i].checked_at <= today + 1
    BY <1>1 DEF SourceInv, SourceTypeOK, DatesOK
  <2>2. PICK cadence, s, b, p : /\ cadence = _cadence(rule.confidence_tier) /\ s = score
                                /\ b = Base(rule.last_verified, cadence)
                                /\ p = _url_penalty(checks)
    OBVIOUS
  <2>3. /\ cadence \in {365, 180, 90} /\ s \in Nat /\ s <= b /\ (s = 0 \/ s <= b - p)
        /\ checks # <<>> => /\ _last_check_date(checks) \in Int
                            /\ s <= Base(_last_check_date(checks), cadence)
    BY <1>1, <2>2, ScoreIsBaseLessPenalty
  <2>4. b \in Nat /\ b <= 100 /\ (today - rule.last_verified > cadence => b = 0)
    <3>1. PICK d : d = rule.last_verified
      OBVIOUS
    <3>2. d \in Int /\ d <= today /\ today \in Nat /\ cadence \in {365, 180, 90}
      BY <2>1, <2>3, <3>1
    <3>3. /\ Base(d, cadence) \in Nat /\ Base(d, cadence) <= 100
          /\ today - d > cadence => Base(d, cadence) = 0
      BY <3>2, BaseFalls
    <3>4. QED
      BY <2>2, <3>1, <3>3
  <2>5. late => s = 0
    BY <2>2, <2>3, <2>4
  <2>6. needs_review(rule, checks) => s < 90
    <3>1. CASE checks # <<>> /\ today - _last_check_date(checks) > cadence
      <4>1. PICK d : d = _last_check_date(checks)
        OBVIOUS
      <4>2. d \in Int /\ today - d > cadence /\ today \in Nat /\ cadence \in {365, 180, 90}
        BY <2>1, <2>3, <3>1, <4>1
      <4>3. Base(d, cadence) = 0
        BY <4>2, BaseFalls
      <4>4. QED
        BY <2>3, <3>1, <4>1, <4>3
    <3>2. CASE \E c \in Latest(checks) : Unreachable(c) \/ FormChanged(c)
      <4>1. p \in Nat /\ p >= 20
        BY <2>1, <2>2, <3>2, LatestOfEach, PenaltyCounts
      <4>2. QED
        BY <2>3, <2>4, <4>1
    <3>3. QED
      BY <2>2, <2>3, <2>5, <3>1, <3>2 DEF needs_review
  <2>7. sources_report(rule)["stale"] > 0 => late
    <3> SUFFICES ASSUME sources_report(rule)["stale"] > 0 PROVE late
      OBVIOUS
    <3>1. PICK stale : stale = {c \in Reference : _health(rule, c) = "stale"}
      OBVIOUS
    <3>2. Cardinality(stale) > 0
      BY <3>1 DEF sources_report
    <3>3. stale # {}
      BY <3>2, FS_EmptySet
    <3>4. _days_since(rule) > 365
      BY <3>1, <3>3 DEF _health, _STALE_THRESHOLD_DAYS
    <3>5. PICK d : d = today - rule.last_verified
      OBVIOUS
    <3>6. d \in Int /\ _days_since(rule) = Max({0, d})
      BY <2>1, <3>5 DEF _days_since
    <3>7. Max({0, d}) = IF 0 >= d THEN 0 ELSE d
      BY <3>6, MaxOfTwo
    <3>8. d > 365
      BY <3>4, <3>6, <3>7
    <3>9. QED
      BY <2>2, <2>3, <3>5, <3>6, <3>8
  <2>8. QED
    BY <2>2, <2>3, <2>5, <2>6, <2>7 DEF freshness_label, needs_review
<1>2. ASSUME SourceInv, SourceInv', [SourceNext]_sourceVars PROVE [stays]_sourceVars
  BY <1>2, FlagStays DEF sourceVars
<1>3. QED
  BY SourceInitInv, SourceStep, <1>1, <1>2, PTL DEF SourceSpec, NothingHidesAFailure

-----------------------------------------------------------------------------
(* GeometryStores                                                          *)

StoresInv == StoresAgree /\ (broken => Parted)

\* What a call or a part of one has left of the two stores: m of the one in memory, r of the other.
Beside(m, r) ==
    /\ DOMAIN geoms \subseteq DOMAIN m.store
    /\ Stocked(m.store) /\ Stocked(r.store)
    /\ Overlong \cap DOMAIN r.store = {}
    /\ r.fails => Overlong \cap DOMAIN m.store # {}
    /\ Overlong \cap DOMAIN m.store = {} => m.store = r.store /\ m.raises = r.raises
    /\ {m.raises, r.raises, r.fails} \subseteq BOOLEAN

\* An addition that follows others, unless one of them was refused.
Then(backend, s, id, g, replace) ==
    IF s.raises THEN s ELSE Add(backend, s.store, id, g, replace)

\* What is added has an id and is not empty, and it makes the store longer.
LEMMA WithIsStocked ==
    ASSUME NEW store, Stocked(store), NEW id, id # "", NEW g \in Geometry,
           validate_geometry(g) # Rejected
    PROVE  LET more == With(store, id, validate_geometry(g))
           IN  Stocked(more) /\ DOMAIN more = DOMAIN store \cup {id}
<1>1. validate_geometry(g) # {}
  BY DEF validate_geometry
<1>2. QED
  BY <1>1 DEF Stocked, With

\* Both stores refuse an addition, or take it, or memory takes an id that is too long.
LEMMA AddsAgree ==
    ASSUME StoresInv, NEW m, NEW r, Beside(m, r), NEW id, NEW g \in Geometry, NEW replace \in BOOLEAN
    PROVE  Beside(Then("memory", m, id, g, replace), Then("postgis", r, id, g, replace))
<1> DEFINE cells == validate_geometry(g)
           n == Then("memory", m, id, g, replace)
           q == Then("postgis", r, id, g, replace)
           refuses == id = "" \/ cells = Rejected
           known == id \in DOMAIN m.store /\ ~replace
           held == id \in DOMAIN r.store /\ ~replace
           more == With(m.store, id, cells)
           longer == With(r.store, id, cells)
<1>1. /\ \A store : Accepted(store).store = store /\ ~Accepted(store).raises /\ ~Accepted(store).fails
      /\ \A store : Accepted(store).raises \in BOOLEAN /\ Accepted(store).fails \in BOOLEAN
      /\ \A store : Declined(store).store = store /\ Declined(store).raises = TRUE
      /\ \A store : Declined(store).fails = FALSE
      /\ FlushFailed.store = saved /\ FlushFailed.raises = TRUE /\ FlushFailed.fails = TRUE
  BY DEF Accepted, Declined, FlushFailed
<1>2. n = IF m.raises THEN m ELSE IF refuses \/ known THEN Declined(m.store) ELSE Accepted(more)
  BY DEF Then, Add, AddInMemory
<1>3. q = IF r.raises THEN r
          ELSE IF refuses \/ broken \/ held THEN Declined(r.store)
          ELSE IF id \in Overlong THEN FlushFailed
          ELSE Accepted(longer)
  BY DEF Then, Add, AddRow
<1>4. /\ Stocked(m.store) /\ Stocked(r.store) /\ Stocked(saved)
      /\ Overlong \cap DOMAIN r.store = {} /\ Overlong \cap DOMAIN saved = {}
      /\ {m.raises, r.raises, r.fails} \subseteq BOOLEAN
  BY DEF StoresInv, StoresAgree, Beside
<1>5. ~refuses => /\ Stocked(more) /\ DOMAIN more = DOMAIN m.store \cup {id}
                  /\ Stocked(longer) /\ DOMAIN longer = DOMAIN r.store \cup {id}
  BY <1>4, WithIsStocked
<1>6. Stocked(n.store) /\ (n.store = m.store \/ (~refuses /\ n.store = more))
  <2> HIDE DEF n, refuses, known, more
  <2>1. QED
    BY <1>1, <1>2, <1>4, <1>5
<1>7. DOMAIN m.store \subseteq DOMAIN n.store
  BY <1>5, <1>6
<1>8. Stocked(q.store) /\ Overlong \cap DOMAIN q.store = {}
  <2> HIDE DEF q, refuses, held, longer
  <2>1. QED
    BY <1>1, <1>3, <1>4, <1>5
<1>9. {n.raises, q.raises, q.fails} \subseteq BOOLEAN
  <2> HIDE DEF n, q, refuses, known, held, more, longer
  <2>1. QED
    BY <1>1, <1>2, <1>3, <1>4
<1>10. ASSUME Overlong \cap DOMAIN n.store = {}
       PROVE  n.store = q.store /\ n.raises = q.raises /\ ~q.fails
  <2>1. Overlong \cap DOMAIN m.store = {} /\ Overlong \cap DOMAIN geoms = {}
    BY <1>7, <1>10 DEF Beside
  <2>2. m.store = r.store /\ m.raises = r.raises /\ ~r.fails /\ ~broken
    BY <2>1 DEF Beside, StoresInv, Parted
  <2>3. known = held /\ more = longer
    BY <2>2
  <2>4. ~m.raises /\ ~refuses /\ ~known => id \notin Overlong
    <3> HIDE DEF n, refuses, known, more
    <3>1. ~m.raises /\ ~refuses /\ ~known => n.store = more /\ id \in DOMAIN more
      BY <1>1, <1>2, <1>5
    <3>2. QED
      BY <1>10, <3>1
  <2> HIDE DEF n, q, refuses, known, held, more, longer
  <2>5. CASE m.raises
    BY <1>2, <1>3, <2>2, <2>5
  <2>6. CASE ~m.raises /\ (refuses \/ known)
    BY <1>1, <1>2, <1>3, <2>2, <2>3, <2>6
  <2>7. CASE ~m.raises /\ ~(refuses \/ known)
    <3>1. n = Accepted(more) /\ q = Accepted(more)
      BY <1>2, <1>3, <2>2, <2>3, <2>4, <2>7
    <3>2. QED
      BY <1>1, <3>1
  <2>8. QED
    BY <2>5, <2>6, <2>7
<1>11. QED
  BY <1>6, <1>7, <1>8, <1>9, <1>10 DEF Beside

\* Two items of a list, one after the other.
Both(backend, store, a, b) ==
    Extension(backend, Extension(backend, Accepted(store), a), b)

\* A list of two is added one after the other.
LEMMA ExtendedByTwo ==
    ASSUME NEW backend, NEW store, NEW a, NEW b
    PROVE  Extended(backend, store, <<a, b>>) = Both(backend, store, a, b)
<1> DEFINE none == Accepted(store)
           one == Extension(backend, none, a)
           two == Extension(backend, one, b)
           items == <<a, b>>
           f == [n \in 0..2 |-> IF n = 0 THEN none ELSE IF n = 1 THEN one ELSE two]
<1>1. two = Both(backend, store, a, b)
  BY DEF Both
<1>2. Len(items) = 2 /\ items[1] = a /\ items[2] = b
  OBVIOUS
<1>3. f = [n \in 0..2 |-> IF n = 0 THEN none ELSE Extension(backend, f[n - 1], items[n])]
  <2>1. ASSUME NEW n \in 0..2
        PROVE  f[n] = IF n = 0 THEN none ELSE Extension(backend, f[n - 1], items[n])
    <3>1. n = 0 \/ n = 1 \/ n = 2
      OBVIOUS
    <3>2. f[0] = none /\ f[1] = one /\ f[2] = two
      <4> HIDE DEF none, one, two
      <4>1. QED
        OBVIOUS
    <3> HIDE DEF f, none, items
    <3>3. QED
      BY <1>2, <3>1, <3>2
  <2>2. DOMAIN f = 0..2 /\ f = [n \in 0..2 |-> f[n]]
    OBVIOUS
  <2> HIDE DEF f
  <2>3. QED
    BY <2>1, <2>2
<1>4. ASSUME NEW g, g = [n \in 0..2 |-> IF n = 0 THEN none ELSE Extension(backend, g[n - 1], items[n])]
      PROVE  g[2] = two
  <2> HIDE DEF none, items
  <2>1. g[0] = none
    BY <1>4
  <2>2. g[1] = Extension(backend, g[0], items[1])
    BY <1>4
  <2>3. g[2] = Extension(backend, g[1], items[2])
    BY <1>4
  <2>4. QED
    BY <1>2, <2>1, <2>2, <2>3
<1>5. Extended(backend, store, items) = two
  <2> DEFINE all == CHOOSE h : h = [n \in 0..Len(items) |->
                          IF n = 0 THEN none ELSE Extension(backend, h[n - 1], items[n])]
  <2>1. \E h : h = [n \in 0..Len(items) |->
                     IF n = 0 THEN none ELSE Extension(backend, h[n - 1], items[n])]
    <3> HIDE DEF f, none, items
    <3>1. QED
      BY <1>2, <1>3
  <2>2. all = [n \in 0..Len(items) |->
                 IF n = 0 THEN none ELSE Extension(backend, all[n - 1], items[n])]
    <3> HIDE DEF none, items
    <3>1. QED
      BY <2>1, Zenon
  <2>3. Extended(backend, store, items) = all[Len(items)]
    BY Zenon DEF Extended
  <2>4. all[2] = two
    <3> HIDE DEF all, none, items, two
    <3>1. QED
      BY <1>2, <1>3, <1>4, <2>2
  <2>5. QED
    BY <1>2, <2>3, <2>4
<1>6. QED
  BY <1>1, <1>5

\* Before a call the two stores are side by side.
LEMMA BesideAtFirst == StoresInv => Beside(Accepted(geoms), Accepted(rows))
BY DEF StoresInv, StoresAgree, Parted, Beside, Accepted

\* What a call leaves is what the stores hold after it.
LEMMA CallsKeep ==
    ASSUME StoresInv, NEW m, NEW r, Beside(m, r), Hold(m, r)
    PROVE  StoresInv'
<1>1. /\ geoms' = m.store /\ rows' = r.store /\ broken' = (broken \/ r.fails) /\ saved' = saved
      /\ raised' = (IF m.raises THEN {"memory"} ELSE {}) \cup (IF r.raises THEN {"postgis"} ELSE {})
  BY DEF Hold
<1>2. Parted => Parted'
  BY <1>1 DEF Parted, Beside
<1>3. ~Parted' => geoms' = rows' /\ raised' \in {{}, {"memory", "postgis"}}
  <2> SUFFICES ASSUME ~Parted' PROVE geoms' = rows' /\ raised' \in {{}, {"memory", "postgis"}}
    OBVIOUS
  <2>1. m.store = r.store /\ m.raises = r.raises
    BY <1>1 DEF Parted, Beside
  <2>2. QED
    BY <1>1, <2>1
<1>4. /\ Stocked(geoms') /\ Stocked(rows') /\ Stocked(saved')
      /\ Overlong \cap (DOMAIN rows' \cup DOMAIN saved') = {}
  BY <1>1 DEF Beside, StoresInv, StoresAgree
<1>5. broken' => Parted'
  BY <1>1, <1>2 DEF Beside, Parted, StoresInv
<1>6. QED
  BY <1>3, <1>4, <1>5 DEF StoresInv, StoresAgree, Stocked

\* Every step keeps the stores as they should be.
LEMMA StoresStep == StoresInv /\ [StoresNext]_storesVars => StoresInv'
<1> SUFFICES ASSUME StoresInv, [StoresNext]_storesVars
             PROVE  StoresInv'
  OBVIOUS
<1> DEFINE m == Accepted(geoms)
           r == Accepted(rows)
<1>1. Beside(m, r) /\ ~m.raises /\ ~r.raises /\ m.store = geoms /\ r.store = rows
  BY BesideAtFirst DEF Accepted
<1>2. ASSUME NEW id \in Id, NEW g \in Offers, NEW replace \in BOOLEAN, add(id, g, replace)
      PROVE  StoresInv'
  <2>1. /\ Then("memory", m, id, g, replace) = Add("memory", geoms, id, g, replace)
        /\ Then("postgis", r, id, g, replace) = Add("postgis", rows, id, g, replace)
    BY <1>1 DEF Then
  <2>2. Beside(Add("memory", geoms, id, g, replace), Add("postgis", rows, id, g, replace))
    <3>1. g \in Geometry
      BY OffersAssumption
    <3> HIDE DEF m, r
    <3>2. QED
      BY <1>1, <2>1, <3>1, AddsAgree
  <2>3. QED
    BY <1>2, <2>2, CallsKeep DEF add
<1>3. ASSUME NEW a, NEW b, a.geometry \in Offers, b.geometry \in Offers, extend(<<a, b>>)
      PROVE  StoresInv'
  <2>1. \A backend, s, item :
           Extension(backend, s, item) = Then(backend, s, item.id, item.geometry, FALSE)
    BY DEF Extension, Then
  <2>2. a.geometry \in Geometry /\ b.geometry \in Geometry /\ FALSE \in BOOLEAN
    BY <1>3, OffersAssumption
  <2>3. Beside(Extension("memory", m, a), Extension("postgis", r, a))
    <3> HIDE DEF m, r
    <3>1. QED
      BY <1>1, <2>1, <2>2, AddsAgree
  <2>4. Beside(Both("memory", geoms, a, b), Both("postgis", rows, a, b))
    BY <2>1, <2>2, <2>3, AddsAgree DEF Both
  <2>5. Hold(Both("memory", geoms, a, b), Both("postgis", rows, a, b))
    BY <1>3, ExtendedByTwo DEF extend
  <2>6. QED
    BY <2>4, <2>5, CallsKeep
<1>4. ASSUME CommitRows \/ RollBackRows \/ UNCHANGED storesVars
      PROVE  StoresInv'
  <2>1. geoms' = geoms /\ rows' = rows /\ raised' = raised /\ (saved' = saved \/ saved' = rows)
    BY <1>4 DEF CommitRows, RollBackRows, storesVars
  <2>2. broken' => broken
    BY <1>4 DEF CommitRows, RollBackRows, storesVars
  <2>3. Parted' = Parted
    BY <2>1 DEF Parted
  <2>4. Stocked(geoms') /\ Stocked(rows') /\ Stocked(saved')
    BY <2>1 DEF StoresInv, StoresAgree
  <2>5. Overlong \cap (DOMAIN rows' \cup DOMAIN saved') = {}
    BY <2>1 DEF StoresInv, StoresAgree
  <2>6. ~Parted' => geoms' = rows' /\ raised' \in {{}, {"memory", "postgis"}}
    BY <2>1, <2>3 DEF StoresInv, StoresAgree
  <2>7. QED
    BY <2>2, <2>3, <2>4, <2>5, <2>6 DEF StoresInv, StoresAgree, Stocked
<1>5. ASSUME StoresNext PROVE StoresInv'
  <2>1. ASSUME NEW i \in Id, NEW j \in Id, NEW g \in Offers, NEW h \in Offers,
               extend(<<[id |-> i, geometry |-> g], [id |-> j, geometry |-> h]>>)
        PROVE  StoresInv'
    BY <1>3, <2>1
  <2>2. QED
    BY <1>2, <1>4, <1>5, <2>1 DEF StoresNext
<1>6. QED
  BY <1>4, <1>5

\* For any ids and any map: the store in memory and the one in the database, which check in
\* another order, hold the same and raise together, whatever is added one by one or in twos, for
\* as long as no id is too long for the database; and neither ever holds what it should refuse,
\* through flushes that fail, rollbacks and commits (store.py:58, postgis.py:75).
THEOREM StoresStayTheSame == StoresSpec => []StoresAgree
<1>1. StoresInit => StoresInv
  BY DEF StoresInit, StoresInv, StoresAgree, Parted, Stocked
<1>2. StoresInv => StoresAgree
  BY DEF StoresInv
<1>3. QED
  BY StoresStep, <1>1, <1>2, PTL DEF StoresSpec

-----------------------------------------------------------------------------
(* Jurisdictions                                                           *)

ParentsOK ==
    /\ DOMAIN parent \subseteq Jurisdiction
    /\ parent = [k \in DOMAIN parent |-> parent[k]]
    /\ \A k \in DOMAIN parent : parent[k] \in Jurisdiction \cup {None}

\* The steps of a walk, as a function of their number.
IsWalk(f, start, n) == f = [i \in 0..n |-> IF i = 0 THEN start ELSE Follow(f[i - 1])]

\* A walk of any number of steps exists.
LEMMA WalkExists ==
    ASSUME NEW start, NEW n \in Nat
    PROVE  \E f : IsWalk(f, start, n)
<1> DEFINE none == {i \in Nat : ~ \E f : IsWalk(f, start, i)}
<1>1. SUFFICES ASSUME none # {} PROVE FALSE
  OBVIOUS
<1>2. PICK m \in none : \A i \in none : m <= i
  <2>1. none \in SUBSET Nat
    OBVIOUS
  <2> HIDE DEF none
  <2>2. QED
    BY <1>1, <2>1, MinIsElement
<1>3. m \in Nat /\ ~ \E f : IsWalk(f, start, m)
  OBVIOUS
<1>4. CASE m = 0
  <2> DEFINE f == [i \in 0..0 |-> start]
  <2>1. IsWalk(f, start, 0)
    BY DEF IsWalk
  <2>2. QED
    BY <1>3, <1>4, <2>1
<1>5. CASE m # 0
  <2>1. m - 1 \in Nat /\ m - 1 \notin none
    BY <1>2, <1>3, <1>5
  <2>2. PICK f : IsWalk(f, start, m - 1)
    BY <2>1
  <2> DEFINE g == [i \in 0..m |-> IF i = m THEN Follow(f[m - 1]) ELSE f[i]]
  <2>3. ASSUME NEW i \in 0..m PROVE g[i] = IF i = 0 THEN start ELSE Follow(g[i - 1])
    <3>1. CASE i = m
      <4>1. g[i - 1] = f[m - 1] /\ i # 0
        BY <1>3, <1>5, <3>1
      <4>2. QED
        BY <3>1, <4>1
    <3>2. CASE i # m /\ i # 0
      <4>1. i \in 0..(m - 1) /\ i - 1 \in 0..m /\ i - 1 # m
        BY <1>3, <3>2
      <4>2. g[i] = f[i] /\ g[i - 1] = f[i - 1]
        BY <3>2, <4>1
      <4>3. f[i] = Follow(f[i - 1])
        BY <2>2, <3>2, <4>1 DEF IsWalk
      <4> HIDE DEF g
      <4>4. QED
        BY <3>2, <4>2, <4>3
    <3>3. CASE i = 0
      <4>1. 0 \in 0..(m - 1) /\ 0 # m /\ 0 \in 0..m
        BY <1>3, <1>5
      <4>2. g[0] = f[0]
        BY <4>1
      <4>3. f[0] = start
        BY <2>2, <4>1 DEF IsWalk
      <4> HIDE DEF g
      <4>4. QED
        BY <3>3, <4>2, <4>3
    <3>4. QED
      BY <3>1, <3>2, <3>3
  <2>4. g = [i \in 0..m |-> g[i]]
    OBVIOUS
  <2>5. IsWalk(g, start, m)
    <3> HIDE DEF g
    <3>1. QED
      BY <2>3, <2>4 DEF IsWalk
  <2>6. QED
    BY <1>3, <2>5
<1>6. QED
  BY <1>4, <1>5

\* A walk that has gone m steps from j, over the records w[0], ..., w[m].
Walked(j, s, m, w) ==
    /\ w \in [0..m -> Jurisdiction] /\ w[0] = j
    /\ \A i, k \in 0..m : w[i] = w[k] => i = k
    /\ \A i \in 1..m : Known(w[i - 1]) /\ parent[w[i - 1]] = w[i]
    /\ s = [at |-> w[m], seen |-> {w[i] : i \in 0..m}, chain |-> s.chain]
    /\ s.chain \in Seq(Jurisdiction)
    /\ Len(s.chain) = IF Known(w[m]) THEN m ELSE m - 1
    /\ \A i \in 1..Len(s.chain) : s.chain[i] = w[i]

EndedAt(s) == Parents(s.at) \subseteq s.seen

\* Another step goes on to a record not seen before, or the walk has ended.
LEMMA FollowGoesOn ==
    ASSUME ParentsOK, NEW j, NEW s, NEW m \in Nat, NEW w, Walked(j, s, m, w)
    PROVE  IF EndedAt(s) THEN Follow(s) = s
           ELSE \E v : Walked(j, Follow(s), m + 1, v)
<1>1. /\ w \in [0..m -> Jurisdiction] /\ w[0] = j
      /\ \A i, k \in 0..m : w[i] = w[k] => i = k
      /\ \A i \in 1..m : Known(w[i - 1]) /\ parent[w[i - 1]] = w[i]
      /\ s.at = w[m] /\ s.seen = {w[i] : i \in 0..m}
      /\ s.chain \in Seq(Jurisdiction)
      /\ Len(s.chain) = IF Known(w[m]) THEN m ELSE m - 1
      /\ \A i \in 1..Len(s.chain) : s.chain[i] = w[i]
  BY DEF Walked
<1>2. CASE EndedAt(s)
  <2>1. Known(s.at) => parent[s.at] = None \/ parent[s.at] \in s.seen
    BY <1>2 DEF EndedAt, Parents
  <2>2. QED
    BY <1>2, <2>1 DEF Follow
<1>3. CASE ~ EndedAt(s)
  <2>1. PICK p : p \in Parents(s.at) /\ p \notin s.seen
    BY <1>3 DEF EndedAt
  <2>2. Known(w[m]) /\ parent[w[m]] = p /\ p # None /\ p \in Jurisdiction
    BY <1>1, <2>1 DEF Parents, ParentsOK, Known
  <2> DEFINE v == [i \in 0..(m + 1) |-> IF i = m + 1 THEN p ELSE w[i]]
             t == Follow(s)
             longer == IF Known(p) THEN Append(s.chain, p) ELSE s.chain
  <2>3. t = [at |-> p, seen |-> s.seen \cup {p}, chain |-> longer]
    BY <1>1, <2>1, <2>2 DEF Follow
  <2>4. /\ v \in [0..(m + 1) -> Jurisdiction] /\ v[m + 1] = p
        /\ \A i \in 0..m : v[i] = w[i] /\ v[i] # p
        /\ \A i \in 0..(m + 1) : i \in 0..m \/ i = m + 1
    BY <1>1, <2>1, <2>2
  <2> HIDE DEF v
  <2>5. v[0] = j
    BY <1>1, <2>4
  <2>6. \A i, k \in 0..(m + 1) : v[i] = v[k] => i = k
    BY <1>1, <2>4
  <2>7. ASSUME NEW i \in 1..(m + 1) PROVE Known(v[i - 1]) /\ parent[v[i - 1]] = v[i]
    <3>1. CASE i = m + 1
      BY <2>2, <2>4, <3>1
    <3>2. CASE i \in 1..m
      <4>1. i \in 0..m /\ i - 1 \in 0..m
        BY <3>2
      <4>2. QED
        BY <1>1, <2>4, <3>2, <4>1
    <3>3. QED
      BY <3>1, <3>2
  <2>8. s.seen \cup {p} = {v[i] : i \in 0..(m + 1)}
    BY <1>1, <2>4
  <2>9. /\ longer \in Seq(Jurisdiction)
        /\ Len(longer) = IF Known(p) THEN m + 1 ELSE m
        /\ \A i \in 1..Len(longer) : longer[i] = v[i]
    <3>1. Len(s.chain) = m /\ s.chain \in Seq(Jurisdiction) /\ \A i \in 1..m : s.chain[i] = w[i]
      BY <1>1, <2>2
    <3>2. \A i \in 1..m : i \in 0..m
      OBVIOUS
    <3>3. CASE ~ Known(p)
      BY <2>4, <3>1, <3>2, <3>3
    <3>4. CASE Known(p)
      <4>1. /\ longer \in Seq(Jurisdiction) /\ Len(longer) = m + 1 /\ longer[m + 1] = p
            /\ \A i \in 1..m : longer[i] = s.chain[i]
        BY <2>2, <3>1, <3>4
      <4> HIDE DEF longer
      <4>2. \A i \in 1..(m + 1) : i \in 1..m \/ i = m + 1
        OBVIOUS
      <4>3. QED
        BY <2>4, <3>1, <3>2, <3>4, <4>1, <4>2
    <3>5. QED
      BY <3>3, <3>4
  <2> HIDE DEF longer, t
  <2>10. Walked(j, t, m + 1, v)
    <3>1. t.chain = longer /\ t = [at |-> v[m + 1], seen |-> {v[i] : i \in 0..(m + 1)}, chain |-> t.chain]
      BY <2>3, <2>4, <2>8
    <3>2. Len(t.chain) = IF Known(v[m + 1]) THEN m + 1 ELSE (m + 1) - 1
      BY <2>4, <2>9, <3>1
    <3>3. t.chain \in Seq(Jurisdiction) /\ \A i \in 1..Len(t.chain) : t.chain[i] = v[i]
      BY <2>9, <3>1
    <3>4. v \in [0..(m + 1) -> Jurisdiction]
      BY <2>4
    <3>5. QED
      BY <2>5, <2>6, <2>7, <3>1, <3>2, <3>3, <3>4 DEF Walked
  <2>11. QED
    BY <1>3, <2>10 DEF t
<1>4. QED
  BY <1>2, <1>3

\* Where a walk starts from.
Outset(j) == [at |-> j, seen |-> {j}, chain |-> <<>>]

\* After n turns a walk has gone n steps, or has ended before.
LEMMA WalkGoesOn ==
    ASSUME ParentsOK, NEW j \in DOMAIN parent, NEW N \in Nat, NEW f, IsWalk(f, Outset(j), N)
    PROVE  \A n \in 0..N : \E m \in 0..n : \E w : Walked(j, f[n], m, w) /\ (m = n \/ EndedAt(f[n]))
<1> DEFINE fine(n) == \E m \in 0..n : \E w : Walked(j, f[n], m, w) /\ (m = n \/ EndedAt(f[n]))
           none == {n \in 0..N : ~ fine(n)}
<1>1. SUFFICES ASSUME none # {} PROVE FALSE
  OBVIOUS
<1>2. PICK n \in none : \A i \in none : n <= i
  <2>1. none \in SUBSET Nat
    OBVIOUS
  <2> HIDE DEF none
  <2>2. QED
    BY <1>1, <2>1, MinIsElement
<1>3. n \in 0..N /\ ~ fine(n)
  OBVIOUS
<1>4. CASE n = 0
  <2> DEFINE w == [i \in 0..0 |-> j]
  <2>1. f[n] = Outset(j)
    BY <1>3, <1>4 DEF IsWalk
  <2>2. Walked(j, f[n], 0, w)
    <3>1. j \in Jurisdiction /\ Known(j)
      BY DEF ParentsOK, Known
    <3>2. w \in [0..0 -> Jurisdiction] /\ w[0] = j
      BY <3>1
    <3>3. \A i \in 0..0 : i = 0
      OBVIOUS
    <3>4. {w[i] : i \in 0..0} = {j}
      BY <3>2, <3>3
    <3> HIDE DEF w
    <3>5. Outset(j).chain = <<>> /\ Outset(j) = [at |-> w[0], seen |-> {w[i] : i \in 0..0}, chain |-> <<>>]
      BY <3>2, <3>4 DEF Outset
    <3>6. QED
      BY <2>1, <3>1, <3>2, <3>3, <3>5 DEF Walked
  <2>3. QED
    BY <1>3, <1>4, <2>2
<1>5. CASE n # 0
  <2>1. n - 1 \in 0..N /\ n - 1 \notin none /\ n \in Nat /\ n - 1 \in Nat
    BY <1>2, <1>3, <1>5
  <2>2. PICK m \in 0..(n - 1) : \E w : Walked(j, f[n - 1], m, w) /\ (m = n - 1 \/ EndedAt(f[n - 1]))
    BY <2>1
  <2>3. PICK w : Walked(j, f[n - 1], m, w) /\ (m = n - 1 \/ EndedAt(f[n - 1]))
    BY <2>2
  <2>4. f[n] = Follow(f[n - 1])
    BY <1>3, <1>5 DEF IsWalk
  <2>5. IF EndedAt(f[n - 1]) THEN Follow(f[n - 1]) = f[n - 1]
        ELSE \E v : Walked(j, Follow(f[n - 1]), m + 1, v)
    <3>1. m \in Nat
      BY <2>1
    <3>2. QED
      BY <2>3, <3>1, FollowGoesOn
  <2>6. CASE EndedAt(f[n - 1])
    <3>1. m \in 0..n
      BY <2>1
    <3>2. QED
      BY <1>3, <2>3, <2>4, <2>5, <2>6, <3>1
  <2>7. CASE ~ EndedAt(f[n - 1])
    <3>1. m + 1 \in 0..n /\ m + 1 = n
      BY <2>1, <2>3, <2>7
    <3>2. QED
      BY <1>3, <2>4, <2>5, <2>7, <3>1
  <2>8. QED
    BY <2>6, <2>7
<1>6. QED
  BY <1>4, <1>5

\* A walk takes fewer steps than there are ids.
LEMMA WalkIsShort ==
    ASSUME NEW j, NEW s, NEW m \in Nat, NEW w, Walked(j, s, m, w)
    PROVE  m < Cardinality(Jurisdiction)
<1>1. w \in Injection(0..m, Jurisdiction)
  <2>1. w \in [0..m -> Jurisdiction] /\ \A i, k \in 0..m : w[i] = w[k] => i = k
    BY DEF Walked
  <2>2. QED
    BY <2>1 DEF Injection, IsInjective
<1>2. IsFiniteSet(0..m) /\ Cardinality(0..m) = m + 1
  <2>1. Cardinality(0..m) = m - 0 + 1
    BY FS_Interval
  <2>2. QED
    BY <2>1, FS_Interval
<1>3. IsFiniteSet(Jurisdiction) /\ Cardinality(Jurisdiction) \in Nat
  BY JurisdictionAssumption, FS_CardinalityType
<1>4. Cardinality(0..m) <= Cardinality(Jurisdiction)
  BY <1>1, <1>2, <1>3, FS_Injection DEF ExistsInjection
<1>5. QED
  BY <1>2, <1>3, <1>4

\* The smallest set closed under the parent links.
LEMMA AboveIsClosed ==
    ASSUME ParentsOK, NEW j
    PROVE  /\ Parents(j) \subseteq Above(j)
           /\ \A i \in Above(j) : Parents(i) \subseteq Above(j)
<1>1. \A i : Parents(i) \subseteq Jurisdiction
  BY DEF Parents, ParentsOK, Known
<1>2. QED
  BY <1>1 DEF Above

\* What is above a jurisdiction is the least set closed under parents.
LEMMA AboveIsSmallest ==
    ASSUME NEW j, NEW S \in SUBSET Jurisdiction,
           Parents(j) \subseteq S, \A i \in S : Parents(i) \subseteq S
    PROVE  Above(j) \subseteq S
BY DEF Above

\* What a walk meets later is above what it has met.
LEMMA LaterIsAbove ==
    ASSUME ParentsOK, NEW j, NEW s, NEW m \in Nat, NEW w, Walked(j, s, m, w), NEW i \in 0..m
    PROVE  \A k \in (i + 1)..m : w[k] \in Above(w[i])
<1> DEFINE none == {k \in (i + 1)..m : w[k] \notin Above(w[i])}
<1>1. SUFFICES ASSUME none # {} PROVE FALSE
  OBVIOUS
<1>2. PICK k \in none : \A l \in none : k <= l
  <2>1. none \in SUBSET Nat
    OBVIOUS
  <2> HIDE DEF none
  <2>2. QED
    BY <1>1, <2>1, MinIsElement
<1>3. k \in (i + 1)..m /\ w[k] \notin Above(w[i])
  OBVIOUS
<1>4. w[k] \in Parents(w[k - 1])
  <2>1. k \in 1..m /\ k \in 0..m
    BY <1>3
  <2>2. Known(w[k - 1]) /\ parent[w[k - 1]] = w[k] /\ w[k] \in Jurisdiction
    BY <2>1 DEF Walked
  <2>3. QED
    BY <2>2, JurisdictionAssumption DEF Parents
<1>5. CASE k = i + 1
  <2>1. k - 1 = i
    BY <1>5
  <2>2. QED
    BY <1>3, <1>4, <2>1, AboveIsClosed
<1>6. CASE k # i + 1
  <2>1. k - 1 \in (i + 1)..m /\ k - 1 \notin none
    BY <1>2, <1>3, <1>6
  <2>2. w[k - 1] \in Above(w[i])
    BY <2>1
  <2>3. QED
    BY <1>3, <1>4, <2>2, AboveIsClosed
<1>7. QED
  BY <1>5, <1>6

\* The answer when the walk has ended.
WalkAnswer(s) == IF Known(s.at) /\ parent[s.at] \in s.seen THEN CycleError ELSE s.chain

RightAnswer(j, chain) ==
    IF \E k \in Above(j) \cup {j} : k \in Above(k) THEN chain = CycleError
    ELSE /\ chain # CycleError
         /\ {chain[i] : i \in DOMAIN chain} = {k \in Above(j) : Known(k)}
         /\ \A i \in DOMAIN chain : chain[i] = parent[IF i = 1 THEN j ELSE chain[i - 1]]

\* A walk that comes back answers with the error, and there is a cycle above.
LEMMA CycleIsAnswered ==
    ASSUME ParentsOK, NEW j, NEW s, NEW m \in Nat, NEW w, Walked(j, s, m, w),
           Known(s.at), parent[s.at] \in s.seen
    PROVE  RightAnswer(j, WalkAnswer(s))
<1>1. s.at = w[m] /\ s.seen = {w[i] : i \in 0..m} /\ w[0] = j /\ \A i \in 0..m : w[i] \in Jurisdiction
  BY DEF Walked
<1>2. PICK i \in 0..m : parent[w[m]] = w[i]
  BY <1>1
<1>3. w[i] \in Parents(w[m])
  BY <1>1, <1>2, JurisdictionAssumption DEF Parents
<1>4. w[i] \in Above(w[i])
  <2>1. CASE i = m
    BY <1>3, <2>1, AboveIsClosed
  <2>2. CASE i # m
    <3>1. m \in (i + 1)..m
      BY <2>2
    <3>2. w[m] \in Above(w[i])
      BY <3>1, LaterIsAbove
    <3>3. QED
      BY <1>3, <3>2, AboveIsClosed
  <2>3. QED
    BY <2>1, <2>2
<1>5. w[i] \in Above(j) \cup {j}
  <2>1. CASE i = 0
    BY <1>1, <2>1
  <2>2. CASE i # 0
    <3>1. i \in (0 + 1)..m /\ 0 \in 0..m
      BY <2>2
    <3>2. w[i] \in Above(w[0])
      BY <3>1, LaterIsAbove
    <3>3. QED
      BY <1>1, <3>2
  <2>3. QED
    BY <2>1, <2>2
<1>6. QED
  BY <1>4, <1>5 DEF RightAnswer, WalkAnswer

Later(w, i, m) == {w[k] : k \in (i + 1)..m}

\* What is above a record of a walk that has ended at a root is what the walk met later.
LEMMA AboveIsLater ==
    ASSUME NEW j, NEW s, NEW m \in Nat, NEW w, NEW i \in 0..m,
           ParentsOK, Walked(j, s, m, w), Parents(s.at) = {}
    PROVE  Above(w[i]) = Later(w, i, m)
<1> DEFINE later == {w[k] : k \in (i + 1)..m}
<1>1. /\ w \in [0..m -> Jurisdiction] /\ s.at = w[m]
      /\ \A k \in 1..m : Known(w[k - 1]) /\ parent[w[k - 1]] = w[k]
  BY DEF Walked
<1>2. ASSUME NEW k \in 0..m PROVE Parents(w[k]) \subseteq {w[l] : l \in (k + 1)..m}
  <2>1. CASE k = m
    BY <1>1, <2>1
  <2>2. CASE k # m
    <3>1. k + 1 \in 1..m /\ (k + 1) - 1 = k /\ k + 1 \in (k + 1)..m
      BY <2>2
    <3>2. parent[w[k]] = w[k + 1]
      BY <1>1, <3>1
    <3>3. QED
      BY <3>1, <3>2 DEF Parents
  <2>3. QED
    BY <2>1, <2>2
<1>3. Above(w[i]) \subseteq later
  <2>1. later \in SUBSET Jurisdiction
    <3>1. \A k \in (i + 1)..m : k \in 0..m
      OBVIOUS
    <3>2. QED
      BY <1>1, <3>1
  <2>2. Parents(w[i]) \subseteq later
    BY <1>2
  <2>3. ASSUME NEW x \in later PROVE Parents(x) \subseteq later
    <3>1. PICK k \in (i + 1)..m : x = w[k]
      OBVIOUS
    <3>2. k \in 0..m /\ \A l \in (k + 1)..m : l \in (i + 1)..m
      BY <3>1
    <3>3. QED
      BY <1>2, <3>1, <3>2
  <2> HIDE DEF later
  <2>4. QED
    BY <2>1, <2>2, <2>3, AboveIsSmallest
<1>4. later \subseteq Above(w[i])
  BY LaterIsAbove
<1>5. QED
  BY <1>3, <1>4 DEF Later

\* One that ends at a root answers with the whole chain, and there is no cycle.
LEMMA RootIsAnswered ==
    ASSUME ParentsOK, NEW j \in DOMAIN parent, NEW s, NEW m \in Nat, NEW w, Walked(j, s, m, w),
           EndedAt(s), ~ (Known(s.at) /\ parent[s.at] \in s.seen)
    PROVE  RightAnswer(j, WalkAnswer(s))
<1> DEFINE c == s.chain
<1>1. /\ w \in [0..m -> Jurisdiction] /\ w[0] = j
      /\ \A i, k \in 0..m : w[i] = w[k] => i = k
      /\ \A i \in 1..m : Known(w[i - 1]) /\ parent[w[i - 1]] = w[i]
      /\ c \in Seq(Jurisdiction)
      /\ Len(c) = IF Known(w[m]) THEN m ELSE m - 1
      /\ \A i \in 1..Len(c) : c[i] = w[i]
  BY DEF Walked
<1>2. Parents(s.at) = {}
  BY DEF EndedAt, Parents
<1>3. ASSUME NEW i \in 0..m PROVE Above(w[i]) = Later(w, i, m)
  BY <1>2, AboveIsLater
<1>4. Above(j) = {w[k] : k \in 1..m}
  <2>1. 0 \in 0..m /\ 0 + 1 = 1
    OBVIOUS
  <2>2. QED
    BY <1>1, <1>3, <2>1 DEF Later
<1>5. \A x \in Above(j) \cup {j} : x \notin Above(x)
  <2> SUFFICES ASSUME NEW x \in Above(j) \cup {j}, x \in Above(x) PROVE FALSE
    OBVIOUS
  <2>1. PICK i \in 0..m : x = w[i]
    <3>1. 0 \in 0..m /\ \A k \in 1..m : k \in 0..m
      OBVIOUS
    <3>2. QED
      BY <1>1, <1>4, <3>1
  <2>2. PICK k \in (i + 1)..m : w[i] = w[k]
    BY <1>3, <2>1 DEF Later
  <2>3. k \in 0..m /\ k # i
    BY <2>2
  <2>4. QED
    BY <1>1, <2>2, <2>3
<1>6. WalkAnswer(s) = c /\ c # CycleError
  BY <1>1, JurisdictionAssumption DEF WalkAnswer
<1>7. DOMAIN c = 1..Len(c) /\ Len(c) \in Nat /\ Len(c) <= m /\ Len(c) >= m - 1
  BY <1>1
<1>8. {c[i] : i \in DOMAIN c} = {k \in Above(j) : Known(k)}
  <2>1. ASSUME NEW i \in DOMAIN c PROVE c[i] \in Above(j) /\ Known(c[i])
    <3>1. i \in 1..m /\ c[i] = w[i]
      BY <1>1, <1>7
    <3>2. CASE i = m
      <4>1. Len(c) # m - 1
        BY <1>7, <3>1, <3>2
      <4>2. QED
        BY <1>1, <1>4, <3>1, <3>2, <4>1
    <3>3. CASE i # m
      <4>1. i + 1 \in 1..m /\ (i + 1) - 1 = i
        BY <3>1, <3>3
      <4>2. QED
        BY <1>1, <1>4, <3>1, <4>1
    <3>4. QED
      BY <3>2, <3>3
  <2>2. ASSUME NEW k \in Above(j), Known(k) PROVE \E i \in DOMAIN c : c[i] = k
    <3>1. PICK i \in 1..m : k = w[i]
      BY <1>4
    <3>2. i \in 1..Len(c)
      BY <1>1, <1>7, <2>2, <3>1
    <3>3. QED
      BY <1>1, <1>7, <3>1, <3>2
  <2> HIDE DEF c
  <2>3. QED
    BY <2>1, <2>2
<1>9. ASSUME NEW i \in DOMAIN c PROVE c[i] = parent[IF i = 1 THEN j ELSE c[i - 1]]
  <2>1. i \in 1..m /\ i \in 1..Len(c) /\ c[i] = w[i] /\ parent[w[i - 1]] = w[i]
    BY <1>1, <1>7
  <2>2. CASE i = 1
    BY <1>1, <2>1, <2>2
  <2>3. CASE i # 1
    <3>1. i - 1 \in 1..Len(c)
      BY <1>7, <2>1, <2>3
    <3>2. c[i - 1] = w[i - 1]
      BY <1>1, <3>1
    <3>3. QED
      BY <2>1, <2>3, <3>2
  <2>4. QED
    BY <2>2, <2>3
<1>10. QED
  BY <1>5, <1>6, <1>8, <1>9 DEF RightAnswer

\* The walk that is taken, to the last turn.
LEMMA AncestorsAnswer ==
    ASSUME NEW j
    PROVE  \E f : IsWalk(f, Outset(j), Cardinality(Jurisdiction))
                  /\ ancestors(j) = WalkAnswer(f[Cardinality(Jurisdiction)])
<1> DEFINE N == Cardinality(Jurisdiction)
           all == CHOOSE h : h = [n \in 0..N |-> IF n = 0 THEN Outset(j) ELSE Follow(h[n - 1])]
<1>1. N \in Nat
  BY JurisdictionAssumption, FS_CardinalityType
<1>2. \E h : h = [n \in 0..N |-> IF n = 0 THEN Outset(j) ELSE Follow(h[n - 1])]
  <2> HIDE DEF N
  <2>1. QED
    BY <1>1, WalkExists DEF IsWalk
<1>3. all = [n \in 0..N |-> IF n = 0 THEN Outset(j) ELSE Follow(all[n - 1])]
  BY <1>2, Zenon
<1>4. ancestors(j) = WalkAnswer(all[N])
  BY Zenon DEF ancestors, WalkAnswer, Outset
<1>5. IsWalk(all, Outset(j), N)
  <2> HIDE DEF all, N
  <2>1. QED
    BY <1>3 DEF IsWalk
<1> HIDE DEF all
<1>6. QED
  BY <1>4, <1>5

\* Every change of a parent keeps them a function on jurisdictions.
LEMMA ParentsStep == ParentsOK /\ [JurisdictionsNext]_parent => ParentsOK'
<1> SUFFICES ASSUME ParentsOK, [JurisdictionsNext]_parent PROVE ParentsOK'
  OBVIOUS
<1>1. CASE UNCHANGED parent
  BY <1>1 DEF ParentsOK
<1>2. ASSUME NEW j \in Jurisdiction, NEW p \in Jurisdiction \cup {None}, add_record(j, p)
      PROVE  ParentsOK'
  BY <1>2 DEF add_record, ParentsOK
<1>3. ASSUME NEW j \in Jurisdiction, NEW p \in Jurisdiction \cup {None}, EditParent(j, p)
      PROVE  ParentsOK'
  BY <1>3 DEF EditParent, ParentsOK, Known
<1>4. QED
  BY <1>1, <1>2, <1>3 DEF JurisdictionsNext

\* For any finite set of ids, with foreign keys or without: the walk to the root raises exactly
\* when it would go around a cycle, and returns otherwise the known records above, each the
\* parent of the one before it (repository.py:146).
THEOREM AncestorsAreAbove == JurisdictionsSpec => []AncestorsFollowParents
<1>1. JurisdictionsInit => ParentsOK
  BY DEF JurisdictionsInit, ParentsOK
<1>2. ParentsOK => AncestorsFollowParents
  <2> SUFFICES ASSUME ParentsOK, NEW j \in DOMAIN parent PROVE RightAnswer(j, ancestors(j))
    BY Zenon DEF AncestorsFollowParents, RightAnswer
  <2>1. PICK N \in Nat : N = Cardinality(Jurisdiction)
    BY JurisdictionAssumption, FS_CardinalityType
  <2>2. PICK f : IsWalk(f, Outset(j), N) /\ ancestors(j) = WalkAnswer(f[N])
    BY <2>1, AncestorsAnswer
  <2>3. N \in 0..N
    OBVIOUS
  <2>4. PICK m \in 0..N : \E w : Walked(j, f[N], m, w) /\ (m = N \/ EndedAt(f[N]))
    BY <2>2, <2>3, WalkGoesOn
  <2>5. PICK w : Walked(j, f[N], m, w) /\ (m = N \/ EndedAt(f[N]))
    BY <2>4
  <2>6. m \in Nat /\ EndedAt(f[N])
    BY <2>1, <2>5, WalkIsShort
  <2>7. QED
    BY <2>2, <2>5, <2>6, CycleIsAnswered, RootIsAnswered
<1>3. QED
  BY <1>1, <1>2, ParentsStep, PTL DEF JurisdictionsSpec

-----------------------------------------------------------------------------
(* Entitlement.  The last event in the outbox says what Stripe has; once it *)
(* is handled the row says it, but for the period that a checkout leaves    *)
(* out.                                                                     *)

SubscriptionStatus == {"none", "active", "past_due", "canceled"}
StripeEvent == [type : {"checkout", "updated", "deleted"}, status : SubscriptionStatus, end : Int]

EntitlementTypeOK ==
    /\ now \in Int
    /\ subscription \in [Tenant -> [status : SubscriptionStatus, end : Int, reported : BOOLEAN]]
    /\ outbox \in [Tenant -> Seq(StripeEvent)]
    /\ billing \in [Tenant -> [plan : {"free", "pro"}, status : SubscriptionStatus, end : Int \cup {None}]]

\* An event that is the last word of Stripe on a subscription s.
Says(e, s) ==
    /\ e.status = s.status
    /\ IF s.reported THEN e.type # "checkout" /\ e.end = s.end
       ELSE e.type = "checkout" /\ e.status = "active"

\* A row that knows what the events said of a subscription s.
Shows(row, s) ==
    /\ row.status = s.status
    /\ s.reported => row.end = s.end

LastEvent(events) == events[Len(events)]

\* The last event, or the row when there is none, is up to date.
UpToDate ==
    \A t \in Tenant : subscription[t].status # "none" =>
        IF outbox[t] = <<>> THEN Shows(billing[t], subscription[t])
        ELSE Says(LastEvent(outbox[t]), subscription[t])

\* The plan is paid, or the checkout that makes it so comes next.
PlanIsPaid ==
    \A t \in Tenant : subscription[t].status # "none" =>
        \/ billing[t].plan = "pro"
        \/ outbox[t] # <<>> /\ Head(outbox[t]).type = "checkout"

\* Nothing is known of a tenant who never subscribed.
NothingBefore ==
    \A t \in Tenant : subscription[t].status = "none" =>
        outbox[t] = <<>> /\ billing[t] = NoRow

\* The gate answers from the row, at once.
DecidedByTheRow ==
    decision # None =>
        /\ decision.tenant \in Tenant
        /\ decision.granted <=> _check_entitlement(decision.tenant, {"starter", "pro"})

EntitlementInv == EntitlementTypeOK /\ UpToDate /\ PlanIsPaid /\ NothingBefore /\ DecidedByTheRow

\* Appending an event makes it the last, and the first of an empty outbox only.
LEMMA Appended ==
    ASSUME NEW events \in Seq(StripeEvent), NEW e \in StripeEvent
    PROVE  /\ Append(events, e) \in Seq(StripeEvent)
           /\ Append(events, e) # <<>>
           /\ LastEvent(Append(events, e)) = e
           /\ Head(Append(events, e)) = IF events = <<>> THEN e ELSE Head(events)
BY DEF LastEvent

\* Handling the first event leaves the last one, unless they are the same.
LEMMA Handled ==
    ASSUME NEW events \in Seq(StripeEvent), events # <<>>
    PROVE  /\ Head(events) \in StripeEvent
           /\ Tail(events) \in Seq(StripeEvent)
           /\ Tail(events) = <<>> => LastEvent(events) = Head(events)
           /\ Tail(events) # <<>> => LastEvent(Tail(events)) = LastEvent(events)
<1>1. Len(events) \in Nat /\ Len(events) >= 1
  OBVIOUS
<1>2. Head(events) \in StripeEvent /\ Tail(events) \in Seq(StripeEvent)
  OBVIOUS
<1>3. Len(Tail(events)) = Len(events) - 1
  BY <1>1
<1>4. \A k \in 1..(Len(events) - 1) : Tail(events)[k] = events[k + 1]
  BY <1>1
<1>5. Tail(events) = <<>> => Len(Tail(events)) = 0
  BY EmptySeq
<1>6. Tail(events) # <<>> => Len(Tail(events)) \in Nat \ {0}
  BY <1>2, EmptySeq
<1>7. QED
  BY <1>1, <1>2, <1>3, <1>4, <1>5, <1>6 DEF LastEvent

\* Nobody has subscribed.
LEMMA EntitlementInitInv == EntitlementInit => EntitlementInv
BY DEF EntitlementInit, EntitlementInv, EntitlementTypeOK, UpToDate, PlanIsPaid, NothingBefore, DecidedByTheRow,
       NoSubscription, NoRow, SubscriptionStatus

\* A change at Stripe is the last event, and a first subscription the first one.
LEMMA ChangeStep ==
    ASSUME EntitlementInv, NEW t \in Tenant,
           NEW s \in [status : SubscriptionStatus, end : Int, reported : BOOLEAN],
           NEW type \in {"checkout", "updated", "deleted"},
           s.status # "none",
           Says([type |-> type, status |-> s.status, end |-> s.end], s),
           subscription[t].status = "none" => type = "checkout",
           Becomes(t, s, type)
    PROVE  EntitlementInv'
<1> DEFINE e == [type |-> type, status |-> s.status, end |-> s.end]
<1>1. e \in StripeEvent
  BY DEF StripeEvent
<1>2. /\ subscription' = [subscription EXCEPT ![t] = s]
      /\ outbox' = [outbox EXCEPT ![t] = Append(@, e)]
      /\ billing' = billing /\ now' = now /\ decision' = None
  BY DEF Becomes
<1>3. /\ outbox[t] \in Seq(StripeEvent)
      /\ outbox'[t] = Append(outbox[t], e) /\ subscription'[t] = s
      /\ \A u \in Tenant \ {t} : outbox'[u] = outbox[u] /\ subscription'[u] = subscription[u]
  BY <1>2 DEF EntitlementInv, EntitlementTypeOK
<1> HIDE DEF e
<1>4. /\ outbox'[t] \in Seq(StripeEvent) /\ outbox'[t] # <<>>
      /\ LastEvent(outbox'[t]) = e
      /\ Head(outbox'[t]) = IF outbox[t] = <<>> THEN e ELSE Head(outbox[t])
  BY <1>1, <1>3, Appended
<1>5. EntitlementTypeOK'
  BY <1>2, <1>3, <1>4 DEF EntitlementInv, EntitlementTypeOK
<1>6. UpToDate'
  <2> SUFFICES ASSUME NEW u \in Tenant, subscription'[u].status # "none"
               PROVE  IF outbox'[u] = <<>> THEN Shows(billing'[u], subscription'[u])
                      ELSE Says(LastEvent(outbox'[u]), subscription'[u])
    BY DEF UpToDate, LastEvent
  <2>1. CASE u = t
    BY <2>1, <1>3, <1>4 DEF e
  <2>2. CASE u # t
    BY <2>2, <1>2, <1>3 DEF EntitlementInv, UpToDate
  <2>3. QED
    BY <2>1, <2>2
<1>7. PlanIsPaid'
  <2> SUFFICES ASSUME NEW u \in Tenant, subscription'[u].status # "none"
               PROVE  \/ billing'[u].plan = "pro"
                      \/ outbox'[u] # <<>> /\ Head(outbox'[u]).type = "checkout"
    BY DEF PlanIsPaid
  <2>1. CASE u = t /\ subscription[t].status = "none"
    <3>1. outbox[t] = <<>> /\ type = "checkout"
      BY <2>1 DEF EntitlementInv, NothingBefore
    <3>2. QED
      BY <3>1, <2>1, <1>4 DEF e
  <2>2. CASE u = t /\ subscription[t].status # "none"
    BY <2>2, <1>2, <1>4 DEF EntitlementInv, PlanIsPaid
  <2>3. CASE u # t
    BY <2>3, <1>2, <1>3 DEF EntitlementInv, PlanIsPaid
  <2>4. QED
    BY <2>1, <2>2, <2>3
<1>8. NothingBefore'
  BY <1>2, <1>3 DEF EntitlementInv, NothingBefore
<1>9. DecidedByTheRow'
  BY <1>2 DEF DecidedByTheRow
<1>10. QED
  BY <1>5, <1>6, <1>7, <1>8, <1>9 DEF EntitlementInv

\* The handled event was the last one, or the last one is still to come.
LEMMA HandleStep ==
    ASSUME EntitlementInv, NEW t \in Tenant, Handle(t)
    PROVE  EntitlementInv'
<1> DEFINE e == Head(outbox[t])
           row == RowAfterEvent(billing[t], e)
<1>1. /\ outbox[t] # <<>>
      /\ billing' = [billing EXCEPT ![t] = row]
      /\ outbox' = [outbox EXCEPT ![t] = Tail(@)]
      /\ subscription' = subscription /\ now' = now /\ decision' = None
  BY DEF Handle
<1>2. /\ outbox[t] \in Seq(StripeEvent)
      /\ outbox'[t] = Tail(outbox[t]) /\ billing'[t] = row
      /\ \A u \in Tenant \ {t} : outbox'[u] = outbox[u] /\ billing'[u] = billing[u]
  BY <1>1 DEF EntitlementInv, EntitlementTypeOK
<1>3. /\ e \in StripeEvent /\ Tail(outbox[t]) \in Seq(StripeEvent)
      /\ Tail(outbox[t]) = <<>> => LastEvent(outbox[t]) = e
      /\ Tail(outbox[t]) # <<>> => LastEvent(Tail(outbox[t])) = LastEvent(outbox[t])
  BY <1>1, <1>2, Handled
<1> HIDE DEF e
<1>4. /\ row \in [plan : {"free", "pro"}, status : SubscriptionStatus, end : Int \cup {None}]
      /\ row.plan = IF e.type = "checkout" THEN "pro" ELSE billing[t].plan
      /\ row.status = IF e.type = "checkout" THEN "active" ELSE e.status
      /\ e.type # "checkout" => row.end = e.end
  <2>1. billing[t] \in [plan : {"free", "pro"}, status : SubscriptionStatus, end : Int \cup {None}]
    BY DEF EntitlementInv, EntitlementTypeOK
  <2>2. QED
    BY <1>3, <2>1 DEF RowAfterEvent, StripeEvent, SubscriptionStatus
<1>5. subscription[t].status # "none"
  BY <1>1 DEF EntitlementInv, NothingBefore
<1> HIDE DEF row
<1>6. EntitlementTypeOK'
  BY <1>1, <1>2, <1>3, <1>4 DEF EntitlementInv, EntitlementTypeOK
<1>7. UpToDate'
  <2> SUFFICES ASSUME NEW u \in Tenant, subscription'[u].status # "none"
               PROVE  IF outbox'[u] = <<>> THEN Shows(billing'[u], subscription'[u])
                      ELSE Says(LastEvent(outbox'[u]), subscription'[u])
    BY DEF UpToDate, LastEvent
  <2>1. CASE u = t
    <3>1. Says(LastEvent(outbox[t]), subscription[t])
      BY <1>1, <1>5 DEF EntitlementInv, UpToDate
    <3>2. CASE Tail(outbox[t]) = <<>>
      <4>1. Shows(row, subscription[t])
        BY <3>1, <3>2, <1>3, <1>4 DEF Says, Shows
      <4>2. QED
        BY <4>1, <2>1, <3>2, <1>1, <1>2
    <3>3. CASE Tail(outbox[t]) # <<>>
      BY <3>1, <3>3, <2>1, <1>1, <1>2, <1>3
    <3>4. QED
      BY <3>2, <3>3
  <2>2. CASE u # t
    BY <2>2, <1>1, <1>2 DEF EntitlementInv, UpToDate
  <2>3. QED
    BY <2>1, <2>2
<1>8. PlanIsPaid'
  <2> SUFFICES ASSUME NEW u \in Tenant, subscription'[u].status # "none"
               PROVE  \/ billing'[u].plan = "pro"
                      \/ outbox'[u] # <<>> /\ Head(outbox'[u]).type = "checkout"
    BY DEF PlanIsPaid
  <2>1. CASE u = t
    <3>1. billing[t].plan = "pro" \/ e.type = "checkout"
      BY <1>5 DEF EntitlementInv, PlanIsPaid, e
    <3>2. QED
      BY <3>1, <2>1, <1>2, <1>4
  <2>2. CASE u # t
    BY <2>2, <1>1, <1>2 DEF EntitlementInv, PlanIsPaid
  <2>3. QED
    BY <2>1, <2>2
<1>9. NothingBefore'
  <2> SUFFICES ASSUME NEW u \in Tenant, subscription'[u].status = "none"
               PROVE  outbox'[u] = <<>> /\ billing'[u] = NoRow
    BY DEF NothingBefore, NoRow
  <2>1. u # t
    BY <1>1, <1>5
  <2>2. QED
    BY <2>1, <1>1, <1>2 DEF EntitlementInv, NothingBefore
<1>10. DecidedByTheRow'
  BY <1>1 DEF DecidedByTheRow
<1>11. QED
  BY <1>6, <1>7, <1>8, <1>9, <1>10 DEF EntitlementInv

\* The invariant is inductive: one case for each action.
LEMMA EntitlementStep == EntitlementInv /\ [EntitlementNext]_<<now, entitlementVars>> => EntitlementInv'
<1> SUFFICES ASSUME EntitlementInv, [EntitlementNext]_<<now, entitlementVars>> PROVE EntitlementInv'
  OBVIOUS
<1> USE PeriodAssumption, NoneIsNoTime
<1>1. ASSUME NEW t \in Tenant, Subscribe(t) PROVE EntitlementInv'
  <2> DEFINE s == [status |-> "active", end |-> now + Period, reported |-> FALSE]
  <2>1. Becomes(t, s, "checkout")
    BY <1>1 DEF Subscribe
  <2>2. s \in [status : SubscriptionStatus, end : Int, reported : BOOLEAN] /\ s.status # "none"
    BY DEF EntitlementInv, EntitlementTypeOK, SubscriptionStatus
  <2>3. Says([type |-> "checkout", status |-> s.status, end |-> s.end], s)
    BY DEF Says
  <2> HIDE DEF s
  <2>4. QED
    BY <2>1, <2>2, <2>3, ChangeStep
<1>2. ASSUME NEW t \in Tenant, Report(t) PROVE EntitlementInv'
  <2>1. PICK status \in {"active", "past_due"}, end \in {subscription[t].end, now + Period} :
          Becomes(t, [status |-> status, end |-> end, reported |-> TRUE], "updated")
    BY <1>2 DEF Report
  <2> DEFINE s == [status |-> status, end |-> end, reported |-> TRUE]
  <2>2. subscription[t].end \in Int /\ now + Period \in Int
    BY DEF EntitlementInv, EntitlementTypeOK
  <2>3. s \in [status : SubscriptionStatus, end : Int, reported : BOOLEAN] /\ s.status # "none"
    BY <2>2 DEF SubscriptionStatus
  <2>4. Says([type |-> "updated", status |-> s.status, end |-> s.end], s)
    BY DEF Says
  <2>5. subscription[t].status # "none"
    BY <1>2 DEF Report, Ended
  <2>6. Becomes(t, s, "updated")
    BY <2>1
  <2> HIDE DEF s
  <2>7. QED
    BY <2>3, <2>4, <2>5, <2>6, ChangeStep
<1>3. ASSUME NEW t \in Tenant, Cancel(t) PROVE EntitlementInv'
  <2> DEFINE s == [subscription[t] EXCEPT !.status = "canceled", !.reported = TRUE]
  <2>1. Becomes(t, s, "deleted") /\ subscription[t].status # "none"
    BY <1>3 DEF Cancel, Ended
  <2>2. subscription[t] \in [status : SubscriptionStatus, end : Int, reported : BOOLEAN]
    BY DEF EntitlementInv, EntitlementTypeOK
  <2>3. /\ s \in [status : SubscriptionStatus, end : Int, reported : BOOLEAN]
        /\ s.status = "canceled" /\ s.reported
    BY <2>2 DEF SubscriptionStatus
  <2> HIDE DEF s
  <2>4. Says([type |-> "deleted", status |-> s.status, end |-> s.end], s)
    BY <2>3 DEF Says
  <2>5. QED
    BY <2>1, <2>3, <2>4, ChangeStep
<1>4. ASSUME NEW t \in Tenant, Handle(t) PROVE EntitlementInv'
  BY <1>4, HandleStep
<1>5. ASSUME NEW t \in Tenant, Check(t) PROVE EntitlementInv'
  <2>1. /\ decision' = [tenant |-> t, granted |-> _check_entitlement(t, {"starter", "pro"})]
        /\ UNCHANGED <<now, subscription, outbox, billing, changes>>
    BY <1>5 DEF Check
  <2>2. EntitlementTypeOK' /\ UpToDate' /\ PlanIsPaid' /\ NothingBefore'
    BY <2>1 DEF EntitlementInv, EntitlementTypeOK, UpToDate, PlanIsPaid, NothingBefore, LastEvent
  <2>3. _check_entitlement(t, {"starter", "pro"})' <=> _check_entitlement(t, {"starter", "pro"})
    BY <2>1 DEF _check_entitlement, _is_active
  <2>4. DecidedByTheRow'
    BY <2>1, <2>3 DEF DecidedByTheRow
  <2>5. QED
    BY <2>2, <2>4 DEF EntitlementInv
<1>6. ASSUME Tick, decision' = None, UNCHANGED <<subscription, outbox, billing, changes>>
      PROVE  EntitlementInv'
  BY <1>6 DEF Tick, EntitlementInv, EntitlementTypeOK, UpToDate, PlanIsPaid, NothingBefore, DecidedByTheRow, LastEvent
<1>7. CASE UNCHANGED <<now, entitlementVars>>
  <2>1. UNCHANGED <<now, subscription, outbox, billing, decision>>
    BY <1>7 DEF entitlementVars
  <2>2. EntitlementTypeOK' /\ UpToDate' /\ PlanIsPaid' /\ NothingBefore'
    BY <2>1 DEF EntitlementInv, EntitlementTypeOK, UpToDate, PlanIsPaid, NothingBefore, LastEvent
  <2>3. DecidedByTheRow'
    BY <2>1 DEF EntitlementInv, DecidedByTheRow, _check_entitlement, _is_active
  <2>4. QED
    BY <2>2, <2>3 DEF EntitlementInv
<1>8. QED
  BY <1>1, <1>2, <1>3, <1>4, <1>5, <1>6, <1>7 DEF EntitlementNext

\* The gate's answer follows from what the row shows.
LEMMA RowEntitles == EntitlementInv => ExportsWereEntitled
<1> SUFFICES ASSUME EntitlementInv, decision # None
             PROVE  LET t == decision.tenant
                        live == subscription[t].status = "active" /\ now < subscription[t].end
                        handled == outbox[t] = <<>>
                    IN  /\ handled /\ subscription[t].reported => (decision.granted <=> live)
                        /\ handled /\ live /\ ~decision.granted =>
                             billing[t].status = "active" /\ billing[t].end # None
                               /\ billing[t].end <= now
  BY DEF ExportsWereEntitled
<1> DEFINE t == decision.tenant
<1>1. /\ t \in Tenant
      /\ decision.granted <=> (_is_active(billing[t]) /\ billing[t].plan \in {"starter", "pro"})
  BY DEF EntitlementInv, DecidedByTheRow, _check_entitlement
<1>2. /\ subscription[t] \in [status : SubscriptionStatus, end : Int, reported : BOOLEAN]
      /\ billing[t].end \in Int \cup {None} /\ now \in Int
  BY <1>1 DEF EntitlementInv, EntitlementTypeOK
<1> SUFFICES ASSUME outbox[t] = <<>>
             PROVE  LET live == subscription[t].status = "active" /\ now < subscription[t].end
                    IN  /\ subscription[t].reported => (decision.granted <=> live)
                        /\ live /\ ~decision.granted =>
                             billing[t].status = "active" /\ billing[t].end # None
                               /\ billing[t].end <= now
  OBVIOUS
<1>3. CASE subscription[t].status = "none"
  <2>1. billing[t] = NoRow
    BY <1>1, <1>3 DEF EntitlementInv, NothingBefore
  <2>2. ~decision.granted
    BY <2>1, <1>1 DEF NoRow, _is_active
  <2>3. QED
    BY <2>2, <1>3
<1>4. CASE subscription[t].status # "none"
  <2>1. Shows(billing[t], subscription[t]) /\ billing[t].plan = "pro"
    BY <1>1, <1>4 DEF EntitlementInv, UpToDate, PlanIsPaid
  <2>2. /\ billing[t].status = subscription[t].status
        /\ subscription[t].reported => billing[t].end = subscription[t].end
    BY <2>1 DEF Shows
  <2>3. decision.granted <=> billing[t].status = "active"
                             /\ (billing[t].end = None \/ now < billing[t].end)
    BY <2>1, <1>1 DEF _is_active
  <2> HIDE DEF t
  <2>4. subscription[t].reported => billing[t].end # None /\ billing[t].end \in Int
    BY <2>2, <1>2, NoneIsNoTime
  <2>5. QED
    BY <2>2, <2>3, <2>4, <1>2
<1>5. QED
  BY <1>3, <1>4

(* Whatever the tenants, the period and the changes: once the events are   *)
(* handled and one of them carried the period, the gate grants exactly     *)
(* what was paid for; before that it turns a live subscription away only   *)
(* for the period end of an earlier one (entitlements.py:98).              *)
THEOREM GateGrantsWhatWasPaid == EntitlementSpec => []ExportsWereEntitled
<1>1. EntitlementInit => EntitlementInv
  BY EntitlementInitInv
<1>2. EntitlementInv /\ [EntitlementNext]_<<now, entitlementVars>> => EntitlementInv'
  BY EntitlementStep
<1>3. EntitlementInv => ExportsWereEntitled
  BY RowEntitles
<1>4. QED
  BY <1>1, <1>2, <1>3, PTL DEF EntitlementSpec

-----------------------------------------------------------------------------
(* Footprints: what the code makes of a document, element by element.      *)

\* What each recursive function makes of an element, from what it makes of those in it.
MadeOfElement(what, e, f) ==
  IF what = "descendants"
  THEN <<e>> \o FlattenSeq([k \in DOMAIN e.kids |-> f[e.kids[k]]])
  ELSE IF what = "geometries"
  THEN _kml_element_to_geojson(e) \o
       IF e.tag = "Polygon" THEN <<>> ELSE FlattenSeq([k \in DOMAIN e.kids |-> f[e.kids[k]]])
  ELSE {[way |-> <<>>, element |-> e, within |-> {}]} \cup
       UNION {{[way |-> <<k, p.way>>, element |-> p.element, within |-> p.within \cup {e.tag}] :
                 p \in f[e.kids[k]]} : k \in DOMAIN e.kids}

\* An element, and what is in it.
LEMMA ElementType ==
  ASSUME NEW e \in Elements
  PROVE  /\ e.kids \in Seq(Elements) /\ e.tokens \in Seq(Nat) /\ Height(e) \in 0..MaxHeight
         /\ DOMAIN e.kids = 1..Len(e.kids) /\ Len(e.kids) \in Nat
         /\ \A k \in DOMAIN e.kids : e.kids[k] \in Elements /\ Height(e.kids[k]) < Height(e)
<1>1. e.kids \in Seq(Elements) /\ e.tokens \in Seq(Nat) /\ Height(e) \in 0..MaxHeight
  <2>1. /\ e.kids \in {x.kids : x \in Elements} /\ e.tokens \in {x.tokens : x \in Elements}
        /\ Height(e) \in {Height(x) : x \in Elements}
    OBVIOUS
  <2> QED BY <2>1, ElementsAssumption
<1>2. /\ DOMAIN e.kids = 1..Len(e.kids) /\ Len(e.kids) \in Nat
      /\ \A k \in DOMAIN e.kids : e.kids[k] \in Elements
  BY <1>1, LenProperties, ElementOfSeq
<1> QED BY <1>1, <1>2, ElementsAssumption

\* The elements nested at most h deep.
Low(h) == {e \in Elements : Height(e) <= h}

\* Each of these functions exists, since it reads lower elements only.
LEMMA TreeFunctionsExist ==
  ASSUME NEW what
  PROVE  \E f : f = [e \in Elements |-> MadeOfElement(what, e, f)]
<1> DEFINE F(f, h) == [e \in Low(h) |-> MadeOfElement(what, e, f)]
           none == {h \in 0..MaxHeight : ~ \E f : f = F(f, h)}
<1> HIDE DEF F
<1>1. none = {}
  <2> SUFFICES ASSUME none # {} PROVE FALSE
    OBVIOUS
  <2>1. PICK m \in none : \A i \in none : m <= i
    <3>1. none \in SUBSET Nat
      BY ElementsAssumption
    <3> HIDE DEF none
    <3> QED BY <3>1, LeastNatural
  <2>2. m \in 0..MaxHeight /\ ~ \E f : f = F(f, m)
    OBVIOUS
  <2>3. m # 0 => \E f : f = F(f, m - 1)
    <3>1. m # 0 => m - 1 \in 0..MaxHeight /\ m - 1 \notin none
      BY <2>1, <2>2, ElementsAssumption
    <3> QED BY <3>1
  <2> HIDE DEF none
  <2>4. PICK f : m # 0 => f = F(f, m - 1)
    BY <2>3
  <2> DEFINE g == F(f, m)
  <2>5. ASSUME NEW e \in Low(m), NEW k \in DOMAIN e.kids PROVE f[e.kids[k]] = g[e.kids[k]]
    <3>1. e \in Elements /\ Height(e) <= m
      BY DEF Low
    <3>2. /\ e.kids[k] \in Elements /\ Height(e.kids[k]) < Height(e)
          /\ Height(e) \in 0..MaxHeight /\ Height(e.kids[k]) \in 0..MaxHeight
      BY <3>1, ElementType
    <3>3. m # 0 /\ e.kids[k] \in Low(m - 1) /\ e.kids[k] \in Low(m)
      BY <2>2, <3>1, <3>2 DEF Low
    <3> QED BY <2>4, <3>3 DEF F
  <2>6. \A e \in Low(m) : MadeOfElement(what, e, f) = MadeOfElement(what, e, g)
    <3> HIDE DEF g
    <3> TAKE e \in Low(m)
    <3>1. [k \in DOMAIN e.kids |-> f[e.kids[k]]] = [k \in DOMAIN e.kids |-> g[e.kids[k]]]
      BY <2>5
    <3> DEFINE From(h, k) ==
          {[way |-> <<k, p.way>>, element |-> p.element, within |-> p.within \cup {e.tag}] :
             p \in h[e.kids[k]]}
    <3>2. \A k \in DOMAIN e.kids : From(f, k) = From(g, k)
      BY <2>5
    <3>3. UNION {From(f, k) : k \in DOMAIN e.kids} = UNION {From(g, k) : k \in DOMAIN e.kids}
      <4> HIDE DEF From
      <4> QED BY <3>2
    <3> QED BY <3>1, <3>3, Zenon DEF MadeOfElement
  <2>7. g = F(g, m)
    <3>1. \A e \in Low(m) : g[e] = MadeOfElement(what, e, g)
      BY <2>6 DEF F
    <3>2. g = [e \in Low(m) |-> g[e]]
      BY DEF F
    <3> HIDE DEF g
    <3> QED BY <3>1, <3>2 DEF F
  <2> QED BY <2>2, <2>7
<1>2. MaxHeight \in 0..MaxHeight /\ MaxHeight \notin none
  <2>1. MaxHeight \in Nat
    BY ElementsAssumption
  <2> HIDE DEF none
  <2> QED BY <1>1, <2>1
<1>3. Low(MaxHeight) = Elements
  BY ElementType, ElementsAssumption DEF Low
<1> QED BY <1>2, <1>3 DEF F

\* One element of the lists and of the set.
LEMMA TreeSteps ==
  ASSUME NEW e \in Elements
  PROVE  /\ Descendants[e] = <<e>> \o FlattenSeq([k \in DOMAIN e.kids |-> Descendants[e.kids[k]]])
         /\ _collect_kml_geometries[e] =
              _kml_element_to_geojson(e) \o
              IF e.tag = "Polygon" THEN <<>>
              ELSE FlattenSeq([k \in DOMAIN e.kids |-> _collect_kml_geometries[e.kids[k]]])
         /\ Places[e] =
              {[way |-> <<>>, element |-> e, within |-> {}]} \cup
              UNION {{[way |-> <<k, p.way>>, element |-> p.element, within |-> p.within \cup {e.tag}] :
                        p \in Places[e.kids[k]]} : k \in DOMAIN e.kids}
<1>1. Descendants = [n \in Elements |->
        <<n>> \o FlattenSeq([k \in DOMAIN n.kids |-> Descendants[n.kids[k]]])]
  <2>1. PICK f : f = [n \in Elements |-> MadeOfElement("descendants", n, f)]
    BY TreeFunctionsExist
  <2>2. f = [n \in Elements |-> <<n>> \o FlattenSeq([k \in DOMAIN n.kids |-> f[n.kids[k]]])]
    BY <2>1 DEF MadeOfElement
  <2> QED BY <2>2, Zenon DEF Descendants
<1>2. _collect_kml_geometries = [n \in Elements |->
        _kml_element_to_geojson(n) \o
        IF n.tag = "Polygon" THEN <<>>
        ELSE FlattenSeq([k \in DOMAIN n.kids |-> _collect_kml_geometries[n.kids[k]]])]
  <2>1. PICK f : f = [n \in Elements |-> MadeOfElement("geometries", n, f)]
    BY TreeFunctionsExist
  <2>2. f = [n \in Elements |->
               _kml_element_to_geojson(n) \o
               IF n.tag = "Polygon" THEN <<>>
               ELSE FlattenSeq([k \in DOMAIN n.kids |-> f[n.kids[k]]])]
    BY <2>1 DEF MadeOfElement
  <2> QED BY <2>2, Zenon DEF _collect_kml_geometries
<1>3. Places = [n \in Elements |->
        {[way |-> <<>>, element |-> n, within |-> {}]} \cup
        UNION {{[way |-> <<k, p.way>>, element |-> p.element, within |-> p.within \cup {n.tag}] :
                  p \in Places[n.kids[k]]} : k \in DOMAIN n.kids}]
  <2>1. PICK f : f = [n \in Elements |-> MadeOfElement("places", n, f)]
    BY TreeFunctionsExist
  <2>2. f = [n \in Elements |->
               {[way |-> <<>>, element |-> n, within |-> {}]} \cup
               UNION {{[way |-> <<k, p.way>>, element |-> p.element, within |-> p.within \cup {n.tag}] :
                         p \in f[n.kids[k]]} : k \in DOMAIN n.kids}]
    BY <2>1, Zenon DEF MadeOfElement
  <2> QED BY <2>2, Zenon DEF Places
<1> QED BY <1>1, <1>2, <1>3, Zenon

\* Where an element is that lies in the k-th of e's own.
From(e, k, p) == [way |-> <<k, p.way>>, element |-> p.element, within |-> p.within \cup {e.tag}]

Root(e) == [way |-> <<>>, element |-> e, within |-> {}]

\* A place in an element is the element's own or comes from one of those in it.
LEMMA PlacesOf ==
  ASSUME NEW e \in Elements
  PROVE  \A q : q \in Places[e] <=> \/ q = Root(e)
                                   \/ \E k \in DOMAIN e.kids : \E p \in Places[e.kids[k]] : q = From(e, k, p)
<1> DEFINE below == UNION {{From(e, k, p) : p \in Places[e.kids[k]]} : k \in DOMAIN e.kids}
<1>1. Places[e] = {Root(e)} \cup below
  BY TreeSteps DEF Root, From
<1>2. \A q : q \in below <=> \E k \in DOMAIN e.kids : \E p \in Places[e.kids[k]] : q = From(e, k, p)
  OBVIOUS
<1> HIDE DEF below
<1> QED BY <1>1, <1>2

\* What the code iterates over lies in the element.
LiesWithin(e) ==
  /\ Descendants[e] \in Seq(Elements)
  /\ \A d \in ToSet(Descendants[e]) : \E p \in Places[e] : p.element = d

\* All that is iterated over does.
LEMMA DescendantsAreWithin == \A e \in Elements : LiesWithin(e)
<1> DEFINE bad == {h \in 0..MaxHeight : \E e \in Elements : Height(e) = h /\ ~ LiesWithin(e)}
<1>1. SUFFICES ASSUME bad # {} PROVE FALSE
  BY ElementType
<1>2. PICK m \in bad : \A i \in bad : m <= i
  <2>1. bad \in SUBSET Nat
    BY ElementsAssumption
  <2> HIDE DEF bad
  <2> QED BY <1>1, <2>1, LeastNatural
<1>3. PICK e \in Elements : Height(e) = m /\ ~ LiesWithin(e)
  OBVIOUS
<1>4. /\ e.kids \in Seq(Elements) /\ DOMAIN e.kids = 1..Len(e.kids) /\ Len(e.kids) \in Nat
      /\ \A k \in DOMAIN e.kids : e.kids[k] \in Elements /\ Height(e.kids[k]) < Height(e)
  BY ElementType
<1>5. \A k \in DOMAIN e.kids : LiesWithin(e.kids[k])
  <2> TAKE k \in DOMAIN e.kids
  <2>1. Height(e.kids[k]) \in 0..MaxHeight /\ Height(e.kids[k]) < m /\ m \in 0..MaxHeight
    BY <1>3, <1>4, ElementType
  <2>2. Height(e.kids[k]) \notin bad
    BY <1>2, <2>1, ElementsAssumption
  <2> QED BY <1>4, <2>1, <2>2
<1> HIDE DEF bad
<1> DEFINE lists == [k \in DOMAIN e.kids |-> Descendants[e.kids[k]]]
<1>6. lists \in Seq(Seq(Elements)) /\ DOMAIN lists = DOMAIN e.kids
  BY <1>4, <1>5 DEF LiesWithin
<1>7. Descendants[e] = <<e>> \o FlattenSeq(lists)
  BY TreeSteps
<1>8. \A k \in DOMAIN e.kids : lists[k] = Descendants[e.kids[k]]
  OBVIOUS
<1> HIDE DEF lists
<1>9. /\ FlattenSeq(lists) \in Seq(Elements)
      /\ ToSet(FlattenSeq(lists)) = UNION {ToSet(lists[k]) : k \in DOMAIN lists}
  BY <1>6, FlattenLists
<1>10. <<e>> \in Seq(Elements) /\ ToSet(<<e>>) = {e}
  BY DEF ToSet
<1>11. /\ Descendants[e] \in Seq(Elements)
       /\ ToSet(Descendants[e]) = {e} \cup UNION {ToSet(lists[k]) : k \in DOMAIN lists}
  <2> DEFINE own == <<e>>
             rest == FlattenSeq(lists)
  <2>1. own \in Seq(Elements) /\ rest \in Seq(Elements)
    BY <1>9
  <2>2. Descendants[e] = own \o rest /\ ToSet(own) = {e}
    BY <1>7, <1>10
  <2>3. ToSet(rest) = UNION {ToSet(lists[k]) : k \in DOMAIN lists}
    BY <1>9
  <2> HIDE DEF own, rest
  <2>4. own \o rest \in Seq(Elements) /\ ToSet(own \o rest) = ToSet(own) \cup ToSet(rest)
    BY <2>1, ToSetOfConcat
  <2> QED BY <2>2, <2>3, <2>4
<1>12. ASSUME NEW d \in ToSet(Descendants[e]) PROVE \E p \in Places[e] : p.element = d
  <2>1. CASE d = e
    <3>1. Root(e) \in Places[e] /\ Root(e).element = e
      BY PlacesOf DEF Root
    <3> QED BY <2>1, <3>1
  <2>2. CASE d # e
    <3>1. PICK k \in DOMAIN e.kids : d \in ToSet(Descendants[e.kids[k]])
      BY <1>6, <1>8, <1>11, <2>2
    <3>2. PICK p \in Places[e.kids[k]] : p.element = d
      BY <1>5, <3>1 DEF LiesWithin
    <3>3. From(e, k, p) \in Places[e] /\ From(e, k, p).element = d
      BY <3>2, PlacesOf DEF From
    <3> QED BY <3>3
  <2> QED BY <2>1, <2>2
<1> QED BY <1>3, <1>11, <1>12 DEF LiesWithin

\* What is read of a text is what is readable in it.
LEMMA ReadingOfText ==
  ASSUME NEW text \in Seq(Nat)
  PROVE  _parse_coordinates(text) \in Seq(Nat) /\ IsReadingOf(_parse_coordinates(text), text)
<1> DEFINE readable == {i \in DOMAIN text : text[i] # Unreadable}
           points == _parse_coordinates(text)
<1>1. DOMAIN text = 1..Len(text) /\ Len(text) \in Nat /\ \A i \in DOMAIN text : text[i] \in Nat
  OBVIOUS
<1>2. readable \in SUBSET (1..Len(text))
  BY <1>1
<1>3. IsFiniteSet(readable) /\ readable \in SUBSET Int
  <2>1. IsFiniteSet(1..Len(text))
    BY <1>1, FS_Interval
  <2> HIDE DEF readable
  <2>2. IsFiniteSet(readable)
    BY <1>2, <2>1, FS_Subset
  <2> QED BY <1>2, <2>2
<1>4. points = Picked(text, readable)
  BY DEF _parse_coordinates
<1>5. PICK at : /\ IsListing(at, readable)
                /\ \A i, j \in DOMAIN at : i < j => at[i] < at[j]
                /\ Picked(text, readable) = [k \in DOMAIN at |-> text[at[k]]]
  <2> HIDE DEF readable
  <2> QED BY <1>3, PickedInOrder
<1> HIDE DEF points, readable
<1>6. /\ DOMAIN at = 1..Cardinality(readable) /\ at \in Bijection(1..Cardinality(readable), readable)
      /\ Cardinality(readable) \in Nat /\ \A k \in DOMAIN at : at[k] \in readable
  BY <1>5, ListingIsBijection DEF IsListing
<1>7. DOMAIN points = DOMAIN at /\ \A k \in DOMAIN at : points[k] = text[at[k]]
  BY <1>4, <1>5
<1>8. points \in Seq(Nat)
  <2>1. \A k \in 1..Cardinality(readable) : text[at[k]] \in Nat
    BY <1>1, <1>6 DEF readable
  <2>2. points = [k \in 1..Cardinality(readable) |-> text[at[k]]]
    BY <1>4, <1>5, <1>6
  <2> QED BY <1>6, <2>1, <2>2
<1>9. IsReadingOf(points, text)
  BY <1>5, <1>6, <1>7, Zenon DEF IsReadingOf, readable
<1> QED BY <1>8, <1>9 DEF points

\* The points of an element are those of a text somewhere in it.
LEMMA CoordinatesAreRead ==
  ASSUME NEW e \in Elements
  PROVE  /\ Coordinates(e) \in Seq(Nat)
         /\ Coordinates(e) # <<>> =>
              \E t \in Texts(e) : t \in Seq(Nat) /\ IsReadingOf(Coordinates(e), t)
<1> DEFINE all == Descendants[e]
           texts == {i \in DOMAIN all : all[i].tag = "coordinates" /\ all[i].tokens # <<>>}
           first == CHOOSE i \in texts : \A j \in texts : i <= j
<1>1. LiesWithin(e) /\ all \in Seq(Elements)
  BY DescendantsAreWithin DEF LiesWithin
<1>2. CASE texts = {}
  <2> DEFINE points == _parse_coordinates(<<>>)
  <2>1. Coordinates(e) = points
    BY <1>2 DEF Coordinates, _find_coordinates_text
  <2>2. points \in Seq(Nat) /\ IsReadingOf(points, <<>>)
    BY EmptySeq, ReadingOfText
  <2> HIDE DEF points
  <2>3. PICK at \in Bijection(DOMAIN points, {}) : TRUE
    <3>1. {i \in DOMAIN <<>> : <<>>[i] # Unreadable} = {}
      OBVIOUS
    <3> QED BY <2>2, <3>1 DEF IsReadingOf
  <2>4. DOMAIN points = {}
    BY <2>3 DEF Bijection, Injection, Surjection
  <2>5. points = <<>>
    BY <2>2, <2>4
  <2> QED BY <2>1, <2>2, <2>5
<1>3. CASE texts # {}
  <2>1. texts \in SUBSET Nat
    BY <1>1
  <2>2. \E i \in texts : \A j \in texts : i <= j
    <3> HIDE DEF texts
    <3> QED BY <1>3, <2>1, LeastNatural
  <2>3. first \in texts
    BY <2>2
  <2>4. Coordinates(e) = _parse_coordinates(all[first].tokens)
    BY <1>3 DEF Coordinates, _find_coordinates_text
  <2> HIDE DEF first
  <2>5. all[first] \in Elements /\ all[first].tag = "coordinates" /\ all[first] \in ToSet(all)
    BY <1>1, <2>3 DEF ToSet
  <2>6. all[first].tokens \in Seq(Nat)
    BY <2>5, ElementType
  <2>7. all[first].tokens \in Texts(e)
    <3>1. PICK p \in Places[e] : p.element = all[first]
      BY <1>1, <2>5 DEF LiesWithin
    <3> QED BY <2>5, <3>1 DEF Texts
  <2> QED BY <2>4, <2>6, <2>7, ReadingOfText
<1> QED BY <1>2, <1>3

\* A boundary with a point makes a ring, and no other does.
LEMMA RingOfBoundary ==
  ASSUME NEW b \in Elements
  PROVE  /\ _ring_coords(b) # <<>> <=> Coordinates(b) # <<>>
         /\ Coordinates(b) # <<>> => IsRingOf(_ring_coords(b), b)
<1> DEFINE points == Coordinates(b)
           ring == Append(points, Head(points))
<1>1. points \in Seq(Nat)
  BY CoordinatesAreRead
<1>2. CASE points = <<>>
  BY <1>2 DEF _ring_coords, Closed
<1>3. CASE points # <<>>
  <2>1. PICK t \in Texts(b) : t \in Seq(Nat) /\ IsReadingOf(points, t)
    BY <1>3, CoordinatesAreRead
  <2>2. CASE Head(points) = Last(points)
    <3>1. _ring_coords(b) = points
      BY <2>2 DEF _ring_coords, Closed
    <3> HIDE DEF points
    <3> QED BY <1>3, <2>1, <2>2, <3>1 DEF points, IsRingOf
  <2>3. CASE Head(points) # Last(points)
    <3>1. _ring_coords(b) = ring
      BY <1>3, <2>3 DEF _ring_coords, Closed
    <3> HIDE DEF points
    <3>2. Len(points) \in Nat /\ Len(points) # 0 /\ Head(points) \in Nat
      BY <1>1, <1>3, EmptySeq, HeadTailProperties
    <3>3. /\ ring \in Seq(Nat) /\ ring # <<>> /\ Len(ring) = Len(points) + 1
          /\ \A i \in 1..Len(points) : ring[i] = points[i]
          /\ ring[Len(points) + 1] = Head(points)
      BY <1>1, <3>2, AppendProperties
    <3>4. Head(ring) = Head(points)
      BY <1>1, <1>3, HeadTailAppend
    <3>5. Last(ring) = Head(points)
      BY <3>3 DEF Last
    <3> HIDE DEF ring
    <3>6. Front(ring) = points
      <4>1. Front(ring) = SubSeq(ring, 1, Len(points))
        BY <3>2, <3>3 DEF Front
      <4>2. \A i \in 1..Len(points) : ring[i] \in Nat
        BY <1>1, <3>2, <3>3
      <4>3. /\ SubSeq(ring, 1, Len(points)) \in Seq(Nat)
            /\ Len(SubSeq(ring, 1, Len(points))) = Len(points)
            /\ \A i \in 1..Len(points) : SubSeq(ring, 1, Len(points))[i] = ring[i]
        BY <3>2, <4>2
      <4> QED BY <1>1, <3>3, <4>1, <4>3, SeqEqual
    <3> QED BY <1>3, <2>1, <3>1, <3>3, <3>4, <3>5, <3>6 DEF IsRingOf, points
  <2> QED BY <2>2, <2>3
<1> QED BY <1>2, <1>3

\* The rings of a polygon are those of its readable boundaries, one for each.
LEMMA RingsOfPolygon ==
  ASSUME NEW e \in Elements
  PROVE  /\ \E source \in Bijection(DOMAIN _kml_polygon_to_geojson(e), ReadableBoundaries(e)) :
              \A i \in DOMAIN _kml_polygon_to_geojson(e) :
                IsRingOf(_kml_polygon_to_geojson(e)[i], e.kids[source[i]])
         /\ _kml_polygon_to_geojson(e) # <<>> <=> ReadableBoundaries(e) # {}
<1> DEFINE Tag(k) == e.kids[k].tag
           Before(j, k) == IF Tag(j) = Tag(k) THEN j < k ELSE Tag(j) = "outerBoundaryIs"
           S == {k \in BoundariesOf(e) : _ring_coords(e.kids[k]) # <<>>}
           R == {p \in S \X S : Before(p[1], p[2])}
           less(x) == {y \in S : Before(y, x)}
           order == InOrder(S, Before)
           rings == _kml_polygon_to_geojson(e)
<1>1. /\ DOMAIN e.kids = 1..Len(e.kids) /\ Len(e.kids) \in Nat
      /\ \A k \in DOMAIN e.kids : e.kids[k] \in Elements
  BY ElementType
<1>2. BoundariesOf(e) \subseteq DOMAIN e.kids
  BY DEF BoundariesOf
<1>3. S = ReadableBoundaries(e)
  BY <1>1, <1>2, RingOfBoundary DEF ReadableBoundaries
<1>4. S \in SUBSET (1..Len(e.kids))
  BY <1>1, <1>2
<1>5. IsFiniteSet(S)
  <2>1. IsFiniteSet(1..Len(e.kids))
    <3> DEFINE n == Len(e.kids)
    <3>1. n \in Int
      BY <1>1
    <3> HIDE DEF n
    <3>2. IsFiniteSet(1..n)
      BY <3>1, FS_Interval
    <3> QED BY <3>2 DEF n
  <2> HIDE DEF S
  <2> QED BY <1>4, <2>1, FS_Subset
<1>6. \A k \in S : Tag(k) \in {"innerBoundaryIs", "outerBoundaryIs"}
  BY DEF BoundariesOf
<1>7. Orders(R, S)
  <2> HIDE DEF S, Tag
  <2>1. S \subseteq Int
    BY <1>1, <1>4
  <2>2. \A x, y \in S : <<x, y>> \in R <=> Before(x, y)
    OBVIOUS
  <2> HIDE DEF R
  <2>3. \A x, y \in S : Before(x, y) => ~ Before(y, x)
    BY <1>6, <2>1
  <2>4. \A x, y \in S : x # y => Before(x, y) \/ Before(y, x)
    BY <1>6, <2>1
  <2>5. \A x, y, z \in S : Before(x, y) /\ Before(y, z) => Before(x, z)
    BY <1>6, <2>1
  <2> HIDE DEF Before
  <2> QED BY <2>2, <2>3, <2>4, <2>5 DEF Orders
<1>8. \A x \in S : less(x) = Below(R, S, x)
  BY DEF Below
<1>9. order = [k \in 1..Cardinality(S) |-> CHOOSE x \in S : Cardinality(less(x)) = k - 1]
  BY DEF InOrder
<1>10. rings = [i \in DOMAIN order |-> _ring_coords(e.kids[order[i]])]
  BY DEF _kml_polygon_to_geojson
<1> HIDE DEF S, R, less, order, rings
<1>11. ASSUME NEW k \in 1..Cardinality(S)
       PROVE  order[k] \in S /\ Cardinality(Below(R, S, order[k])) = k - 1
  <2>1. \E x \in S : Cardinality(less(x)) = k - 1
    <3>1. \E x \in S : Cardinality(Below(R, S, x)) = k - 1
      BY <1>5, <1>7, PlacesAreTaken
    <3> QED BY <1>8, <3>1
  <2>2. order[k] = CHOOSE x \in S : Cardinality(less(x)) = k - 1
    BY <1>9
  <2>3. order[k] \in S /\ Cardinality(less(order[k])) = k - 1
    BY <2>1, <2>2, Zenon
  <2> QED BY <1>8, <2>3
<1>12. order = [k \in 1..Cardinality(S) |-> order[k]]
  BY <1>9
<1>13. IsListing(order, S)
  BY <1>5, <1>7, <1>11, <1>12, ListInOrder
<1>14. /\ DOMAIN order = 1..Cardinality(S) /\ order \in Bijection(1..Cardinality(S), S)
       /\ Cardinality(S) \in Nat /\ \A k \in DOMAIN order : order[k] \in S
  BY <1>13, ListingIsBijection DEF IsListing
<1>15. DOMAIN rings = 1..Cardinality(S)
  BY <1>10, <1>14
<1>16. ASSUME NEW i \in DOMAIN rings PROVE IsRingOf(rings[i], e.kids[order[i]])
  <2>1. rings[i] = _ring_coords(e.kids[order[i]]) /\ order[i] \in S
    BY <1>10, <1>14, <1>15
  <2>2. e.kids[order[i]] \in Elements /\ Coordinates(e.kids[order[i]]) # <<>>
    BY <1>1, <1>2, <1>3, <2>1 DEF ReadableBoundaries
  <2> QED BY <2>1, <2>2, RingOfBoundary
<1>17. rings # <<>> <=> S # {}
  <2>1. S = {} <=> Cardinality(S) = 0
    BY <1>5, FS_EmptySet
  <2>2. rings = <<>> <=> DOMAIN rings = {}
    <3>1. rings = [i \in DOMAIN rings |-> rings[i]]
      BY <1>10
    <3> QED BY <3>1
  <2>3. DOMAIN rings = {} <=> Cardinality(S) = 0
    BY <1>14, <1>15
  <2> QED BY <2>1, <2>2, <2>3
<1>18. \E source \in Bijection(DOMAIN rings, S) :
         \A i \in DOMAIN rings : IsRingOf(rings[i], e.kids[source[i]])
  BY <1>14, <1>15, <1>16
<1> QED BY <1>3, <1>17, <1>18 DEF rings

\* The first of the points read is the first readable token.
LEMMA FirstPoint ==
  ASSUME NEW points \in Seq(Nat), points # <<>>, NEW t \in Seq(Nat), IsReadingOf(points, t)
  PROVE  \E i \in DOMAIN t : /\ t[i] # Unreadable /\ \A j \in 1..(i - 1) : t[j] = Unreadable
                             /\ Head(points) = t[i]
<1> DEFINE readable == {i \in DOMAIN t : t[i] # Unreadable}
<1>1. PICK at \in Bijection(DOMAIN points, readable) :
        /\ \A i \in DOMAIN points : points[i] = t[at[i]]
        /\ \A i, j \in DOMAIN points : i < j => at[i] < at[j]
  BY DEF IsReadingOf
<1>2. /\ at \in [DOMAIN points -> readable]
      /\ \A i \in readable : \E k \in DOMAIN points : at[k] = i
  <2> HIDE DEF readable
  <2> QED BY <1>1 DEF Bijection, Surjection
<1>3. DOMAIN points = 1..Len(points) /\ 1 \in DOMAIN points /\ Head(points) = points[1]
  <2>1. Len(points) \in Nat /\ Len(points) # 0
    BY EmptySeq
  <2> QED BY <2>1
<1>4. at[1] \in DOMAIN t /\ t[at[1]] # Unreadable /\ Head(points) = t[at[1]]
  BY <1>1, <1>2, <1>3
<1>5. ASSUME NEW j \in 1..(at[1] - 1), t[j] # Unreadable PROVE FALSE
  <2>1. DOMAIN t = 1..Len(t) /\ Len(t) \in Nat /\ at[1] \in 1..Len(t)
    BY <1>4
  <2>2. j \in readable /\ j < at[1]
    BY <1>5, <2>1
  <2>3. PICK k \in DOMAIN points : at[k] = j
    BY <1>2, <2>2
  <2>4. k # 1 => at[1] < at[k]
    <3>1. k \in 1..Len(points)
      BY <1>3
    <3>2. k # 1 => 1 < k
      BY <3>1
    <3> QED BY <1>1, <1>3, <3>2
  <2> QED BY <2>1, <2>2, <2>3, <2>4
<1> QED BY <1>4, <1>5

\* What can be made of one element.
Geometries == {_kml_element_to_geojson(e)[1] : e \in Elements}

\* A usable element makes a geometry that it draws, and no other makes one.
LEMMA OwnGeometry ==
  ASSUME NEW e \in Elements
  PROVE  /\ Usable(e) => \E g \in Geometries : _kml_element_to_geojson(e) = <<g>> /\ IsDrawnBy(g, e)
         /\ ~ Usable(e) => _kml_element_to_geojson(e) = <<>>
<1> DEFINE points == Coordinates(e)
           rings == _kml_polygon_to_geojson(e)
           own == _kml_element_to_geojson(e)
<1>1. ASSUME NEW g, own = <<g>> PROVE g \in Geometries
  <2>1. own[1] = g
    BY <1>1
  <2> QED BY <2>1 DEF Geometries
<1>2. points \in Seq(Nat)
  BY CoordinatesAreRead
<1>3. CASE e.tag = "Polygon"
  <2>1. Usable(e) <=> rings # <<>>
    BY <1>3, RingsOfPolygon DEF Usable
  <2>2. CASE rings = <<>>
    <3>1. own = <<>>
      BY <1>3, <2>2 DEF _kml_element_to_geojson
    <3> QED BY <2>1, <2>2, <3>1
  <2>3. CASE rings # <<>>
    <3> DEFINE g == [type |-> "Polygon", rings |-> rings]
    <3>1. own = <<g>>
      BY <1>3, <2>3 DEF _kml_element_to_geojson
    <3>2. g.rings = rings /\ g.type = "Polygon"
      OBVIOUS
    <3> HIDE DEF g
    <3>3. \E source \in Bijection(DOMAIN g.rings, ReadableBoundaries(e)) :
             \A i \in DOMAIN g.rings : IsRingOf(g.rings[i], e.kids[source[i]])
      BY <3>2, RingsOfPolygon
    <3>4. IsDrawnBy(g, e)
      BY <1>3, <3>2, <3>3 DEF IsDrawnBy
    <3> QED BY <1>1, <2>1, <2>3, <3>1, <3>4
  <2> QED BY <2>2, <2>3
<1>4. CASE e.tag = "Point"
  <2>1. Usable(e) <=> points # <<>>
    BY <1>4 DEF Usable
  <2>2. CASE points = <<>>
    <3>1. own = <<>>
      BY <1>4, <2>2 DEF _kml_element_to_geojson
    <3> QED BY <2>1, <2>2, <3>1
  <2>3. CASE points # <<>>
    <3> DEFINE g == [type |-> "Point", rings |-> <<<<Head(points)>>>>]
    <3>1. own = <<g>>
      BY <1>4, <2>3 DEF _kml_element_to_geojson
    <3>2. PICK t \in Texts(e) : t \in Seq(Nat) /\ IsReadingOf(points, t)
      BY <2>3, CoordinatesAreRead
    <3>3. PICK i \in DOMAIN t : /\ t[i] # Unreadable /\ \A j \in 1..(i - 1) : t[j] = Unreadable
                                /\ Head(points) = t[i]
      <4> HIDE DEF points
      <4> QED BY <1>2, <2>3, <3>2, FirstPoint
    <3>4. g.rings = <<<<t[i]>>>> /\ g.type = "Point"
      BY <3>3
    <3> HIDE DEF g
    <3>5. IsDrawnBy(g, e)
      BY <1>4, <3>2, <3>3, <3>4 DEF IsDrawnBy
    <3> QED BY <1>1, <2>1, <2>3, <3>1, <3>5
  <2> QED BY <2>2, <2>3
<1>5. CASE e.tag = "LineString"
  <2>1. Usable(e) <=> points # <<>>
    BY <1>5 DEF Usable
  <2>2. CASE points = <<>>
    <3>1. own = <<>>
      BY <1>5, <2>2 DEF _kml_element_to_geojson
    <3> QED BY <2>1, <2>2, <3>1
  <2>3. CASE points # <<>>
    <3> DEFINE g == [type |-> "LineString", rings |-> <<points>>]
    <3>1. own = <<g>>
      BY <1>5, <2>3 DEF _kml_element_to_geojson
    <3>2. PICK t \in Texts(e) : t \in Seq(Nat) /\ IsReadingOf(points, t)
      BY <2>3, CoordinatesAreRead
    <3>3. Len(g.rings) = 1 /\ g.rings[1] = points /\ g.type = "LineString"
      OBVIOUS
    <3> HIDE DEF g
    <3>4. IsDrawnBy(g, e)
      BY <1>5, <3>2, <3>3 DEF IsDrawnBy
    <3> QED BY <1>1, <2>1, <2>3, <3>1, <3>4
  <2> QED BY <2>2, <2>3
<1>6. CASE e.tag \notin {"Polygon", "Point", "LineString"}
  <2>1. ~ Usable(e) /\ own = <<>>
    BY <1>6 DEF Usable, _kml_element_to_geojson
  <2> QED BY <2>1
<1> QED BY <1>3, <1>4, <1>5, <1>6

\* Different places are reached on different ways.
WaysDiffer(e) == \A p, q \in Places[e] : p.way = q.way => p = q

\* That is so in every element.
LEMMA PlacesByWay == \A e \in Elements : WaysDiffer(e)
<1> DEFINE bad == {h \in 0..MaxHeight : \E e \in Elements : Height(e) = h /\ ~ WaysDiffer(e)}
<1>1. SUFFICES ASSUME bad # {} PROVE FALSE
  BY ElementType
<1>2. PICK m \in bad : \A i \in bad : m <= i
  <2>1. bad \in SUBSET Nat
    BY ElementsAssumption
  <2> HIDE DEF bad
  <2> QED BY <1>1, <2>1, LeastNatural
<1>3. PICK e \in Elements : Height(e) = m /\ ~ WaysDiffer(e)
  OBVIOUS
<1>4. \A k \in DOMAIN e.kids : WaysDiffer(e.kids[k])
  <2> TAKE k \in DOMAIN e.kids
  <2>1. /\ e.kids[k] \in Elements /\ Height(e.kids[k]) \in 0..MaxHeight
        /\ Height(e.kids[k]) < m /\ m \in 0..MaxHeight
    BY <1>3, ElementType
  <2>2. Height(e.kids[k]) \notin bad
    BY <1>2, <2>1, ElementsAssumption
  <2> QED BY <2>1, <2>2
<1> HIDE DEF bad
<1>5. ASSUME NEW p \in Places[e], NEW q \in Places[e], p.way = q.way PROVE p = q
  <2>1. CASE p = Root(e) \/ q = Root(e)
    <3>1. \A r \in Places[e] : r.way = <<>> => r = Root(e)
      BY PlacesOf DEF From
    <3>2. p.way = <<>> /\ q.way = <<>>
      BY <1>5, <2>1 DEF Root
    <3> QED BY <3>1, <3>2
  <2>2. CASE p # Root(e) /\ q # Root(e)
    <3>1. PICK k \in DOMAIN e.kids : \E r \in Places[e.kids[k]] : p = From(e, k, r)
      BY <2>2, PlacesOf
    <3>2. PICK r \in Places[e.kids[k]] : p = From(e, k, r)
      BY <3>1
    <3>3. PICK l \in DOMAIN e.kids : \E s \in Places[e.kids[l]] : q = From(e, l, s)
      BY <2>2, PlacesOf
    <3>4. PICK s \in Places[e.kids[l]] : q = From(e, l, s)
      BY <3>3
    <3>5. k = l /\ r.way = s.way
      BY <1>5, <3>2, <3>4 DEF From
    <3> QED BY <1>4, <3>2, <3>4, <3>5 DEF WaysDiffer
  <2> QED BY <2>1, <2>2
<1> QED BY <1>3, <1>5 DEF WaysDiffer

\* What is to be drawn of the k-th element of e.
DrawnIn(e, k) == {From(e, k, p) : p \in Drawn(e.kids[k])}

\* What is to be drawn of an element.
LEMMA DrawnOf ==
  ASSUME NEW e \in Elements
  PROVE  Drawn(e) = (IF Usable(e) THEN {Root(e)} ELSE {}) \cup
                    (IF e.tag = "Polygon" THEN {} ELSE UNION {DrawnIn(e, k) : k \in DOMAIN e.kids})
<1>1. \A k, p : "Polygon" \in From(e, k, p).within <=> "Polygon" \in p.within \/ e.tag = "Polygon"
  BY DEF From
<1>2. \A k, p : From(e, k, p).element = p.element
  BY DEF From
<1>3. Root(e).element = e /\ "Polygon" \notin Root(e).within
  BY DEF Root
<1>4. ASSUME NEW q
      PROVE  q \in Drawn(e) <=>
               \/ q = Root(e) /\ Usable(e)
               \/ e.tag # "Polygon" /\ \E k \in DOMAIN e.kids : q \in DrawnIn(e, k)
  <2>1. q \in Drawn(e) <=> q \in Places[e] /\ "Polygon" \notin q.within /\ Usable(q.element)
    BY DEF Drawn
  <2>2. \A k \in DOMAIN e.kids : q \in DrawnIn(e, k) <=>
          \E p \in Places[e.kids[k]] : "Polygon" \notin p.within /\ Usable(p.element) /\ q = From(e, k, p)
    BY DEF DrawnIn, Drawn
  <2>3. q \in Places[e] <=> \/ q = Root(e)
                           \/ \E k \in DOMAIN e.kids : \E p \in Places[e.kids[k]] : q = From(e, k, p)
    BY PlacesOf
  <2> QED BY <1>1, <1>2, <1>3, <2>1, <2>2, <2>3
<1> QED BY <1>4

\* The geometries of a list are what the places draw, one each.
DrawnFrom(list, places) ==
  \E source \in Bijection(DOMAIN list, places) :
    \A i \in DOMAIN list : IsDrawnBy(list[i], source[i].element)

\* What two lists draw of different places, both together do.
LEMMA DrawnTogether ==
  ASSUME NEW X, NEW s \in Seq(X), NEW t \in Seq(X), NEW S, NEW T, S \cap T = {},
         DrawnFrom(s, S), DrawnFrom(t, T)
  PROVE  s \o t \in Seq(X) /\ DrawnFrom(s \o t, S \cup T)
<1>1. PICK f \in Bijection(DOMAIN s, S) : \A i \in DOMAIN s : IsDrawnBy(s[i], f[i].element)
  BY DEF DrawnFrom
<1>2. PICK g \in Bijection(DOMAIN t, T) : \A i \in DOMAIN t : IsDrawnBy(t[i], g[i].element)
  BY DEF DrawnFrom
<1>3. /\ f \in [DOMAIN s -> S] /\ \A x \in S : \E i \in DOMAIN s : f[i] = x
      /\ \A i, j \in DOMAIN s : f[i] = f[j] => i = j
      /\ g \in [DOMAIN t -> T] /\ \A x \in T : \E i \in DOMAIN t : g[i] = x
      /\ \A i, j \in DOMAIN t : g[i] = g[j] => i = j
  BY <1>1, <1>2 DEF Bijection, Injection, Surjection, IsInjective
<1>4. /\ DOMAIN s = 1..Len(s) /\ DOMAIN t = 1..Len(t) /\ Len(s) \in Nat /\ Len(t) \in Nat
  BY LenProperties
<1>5. /\ s \o t \in Seq(X) /\ DOMAIN (s \o t) = 1..(Len(s) + Len(t))
      /\ \A i \in 1..(Len(s) + Len(t)) :
           (s \o t)[i] = IF i <= Len(s) THEN s[i] ELSE t[i - Len(s)]
  BY ConcatProperties, LenProperties
<1> DEFINE D == 1..(Len(s) + Len(t))
           h == [i \in D |-> IF i <= Len(s) THEN f[i] ELSE g[i - Len(s)]]
<1>6. \A i \in D : IF i <= Len(s) THEN i \in DOMAIN s ELSE i - Len(s) \in DOMAIN t
  BY <1>4
<1>7. \A i \in D : h[i] = IF i <= Len(s) THEN f[i] ELSE g[i - Len(s)]
  OBVIOUS
<1>8. h \in [D -> S \cup T]
  BY <1>3, <1>6
<1> HIDE DEF h
<1>9. \A i, j \in D : h[i] = h[j] => i = j
  <2> SUFFICES ASSUME NEW i \in D, NEW j \in D, h[i] = h[j] PROVE i = j
    OBVIOUS
  <2>1. i \in Int /\ j \in Int
    OBVIOUS
  <2>2. CASE i <= Len(s) /\ j <= Len(s)
    BY <1>3, <1>6, <1>7, <2>2
  <2>3. CASE ~ (i <= Len(s)) /\ ~ (j <= Len(s))
    <3>1. i - Len(s) = j - Len(s)
      BY <1>3, <1>6, <1>7, <2>3
    <3> QED BY <1>4, <2>1, <3>1
  <2>4. CASE i <= Len(s) /\ ~ (j <= Len(s))
    <3>1. h[i] \in S /\ h[j] \in T
      BY <1>3, <1>6, <1>7, <2>4
    <3> QED BY <3>1
  <2>5. CASE ~ (i <= Len(s)) /\ j <= Len(s)
    <3>1. h[i] \in T /\ h[j] \in S
      BY <1>3, <1>6, <1>7, <2>5
    <3> QED BY <3>1
  <2> QED BY <2>2, <2>3, <2>4, <2>5
<1>10. ASSUME NEW x \in S \cup T PROVE \E i \in D : h[i] = x
  <2>1. CASE x \in S
    <3>1. PICK i \in DOMAIN s : f[i] = x
      BY <1>3, <2>1
    <3>2. i \in D /\ i <= Len(s)
      BY <1>4
    <3> QED BY <1>7, <3>1, <3>2
  <2>2. CASE x \in T
    <3>1. PICK i \in DOMAIN t : g[i] = x
      BY <1>3, <2>2
    <3>2. i + Len(s) \in D /\ ~ (i + Len(s) <= Len(s)) /\ (i + Len(s)) - Len(s) = i
      BY <1>4
    <3>3. h[i + Len(s)] = g[i]
      BY <1>7, <3>2
    <3> QED BY <3>1, <3>2, <3>3
  <2> QED BY <2>1, <2>2
<1>11. h \in Bijection(D, S \cup T)
  <2> HIDE DEF D
  <2> QED BY <1>8, <1>9, <1>10 DEF Bijection, Injection, Surjection, IsInjective
<1>12. ASSUME NEW i \in D PROVE IsDrawnBy((s \o t)[i], h[i].element)
  <2>1. CASE i <= Len(s)
    BY <1>1, <1>5, <1>6, <1>7, <2>1
  <2>2. CASE ~ (i <= Len(s))
    BY <1>2, <1>5, <1>6, <1>7, <2>2
  <2> QED BY <2>1, <2>2
<1> HIDE DEF D
<1>13. DOMAIN (s \o t) = D
  BY <1>5 DEF D
<1> QED BY <1>5, <1>11, <1>12, <1>13 DEF DrawnFrom

\* What is drawn of an element is drawn of it where it lies.
LEMMA DrawnBelow ==
  ASSUME NEW e \in Elements, NEW k \in DOMAIN e.kids, NEW list,
         DrawnFrom(list, Drawn(e.kids[k]))
  PROVE  DrawnFrom(list, DrawnIn(e, k))
<1> DEFINE S == Drawn(e.kids[k])
<1>1. PICK f \in Bijection(DOMAIN list, S) : \A i \in DOMAIN list : IsDrawnBy(list[i], f[i].element)
  BY DEF DrawnFrom
<1>2. /\ f \in [DOMAIN list -> S] /\ \A x \in S : \E i \in DOMAIN list : f[i] = x
      /\ \A i, j \in DOMAIN list : f[i] = f[j] => i = j
  <2> HIDE DEF S
  <2> QED BY <1>1 DEF Bijection, Injection, Surjection, IsInjective
<1>3. \A p, q \in S : p.way = q.way => p = q
  <2>1. e.kids[k] \in Elements
    BY ElementType
  <2>2. WaysDiffer(e.kids[k])
    BY <2>1, PlacesByWay
  <2> QED BY <2>2 DEF WaysDiffer, Drawn
<1> HIDE DEF S
<1> DEFINE g == [i \in DOMAIN list |-> From(e, k, f[i])]
<1>4. \A i \in DOMAIN list : g[i] = From(e, k, f[i]) /\ f[i] \in S
  BY <1>2
<1>5. DrawnIn(e, k) = {From(e, k, p) : p \in S}
  BY DEF DrawnIn, S
<1>6. g \in [DOMAIN list -> DrawnIn(e, k)]
  BY <1>4, <1>5
<1> HIDE DEF g
<1>7. \A i, j \in DOMAIN list : g[i] = g[j] => i = j
  <2> SUFFICES ASSUME NEW i \in DOMAIN list, NEW j \in DOMAIN list, g[i] = g[j] PROVE i = j
    OBVIOUS
  <2>1. f[i].way = f[j].way
    <3>1. From(e, k, f[i]) = From(e, k, f[j])
      BY <1>4
    <3>2. \A p : From(e, k, p).way = <<k, p.way>>
      BY DEF From
    <3>3. <<k, f[i].way>> = <<k, f[j].way>>
      BY <3>1, <3>2
    <3> QED BY <3>3
  <2> QED BY <1>2, <1>3, <1>4, <2>1
<1>8. ASSUME NEW x \in DrawnIn(e, k) PROVE \E i \in DOMAIN list : g[i] = x
  <2>1. PICK p \in S : x = From(e, k, p)
    BY <1>5
  <2>2. PICK i \in DOMAIN list : f[i] = p
    BY <1>2
  <2> QED BY <1>4, <2>1, <2>2
<1>9. g \in Bijection(DOMAIN list, DrawnIn(e, k))
  BY <1>6, <1>7, <1>8 DEF Bijection, Injection, Surjection, IsInjective
<1>10. \A i \in DOMAIN list : IsDrawnBy(list[i], g[i].element)
  <2>1. \A p : From(e, k, p).element = p.element
    BY DEF From
  <2>2. \A i \in DOMAIN list : g[i].element = f[i].element
    BY <1>4, <2>1
  <2> QED BY <1>1, <2>2
<1> QED BY <1>9, <1>10 DEF DrawnFrom

\* An empty list draws nothing, a list of one what its place draws.
LEMMA DrawnAlone ==
  /\ DrawnFrom(<<>>, {})
  /\ \A g, p : IsDrawnBy(g, p.element) => DrawnFrom(<<g>>, {p})
<1>1. DrawnFrom(<<>>, {})
  <2> DEFINE f == [i \in {} |-> i]
  <2>1. f \in Bijection({}, {})
    BY DEF Bijection, Injection, Surjection, IsInjective
  <2>2. DOMAIN <<>> = {}
    OBVIOUS
  <2> HIDE DEF f
  <2> QED BY <2>1, <2>2 DEF DrawnFrom
<1>2. ASSUME NEW g, NEW p, IsDrawnBy(g, p.element) PROVE DrawnFrom(<<g>>, {p})
  <2> DEFINE f == [i \in {1} |-> p]
  <2>1. f \in Bijection({1}, {p}) /\ f[1] = p
    BY DEF Bijection, Injection, Surjection, IsInjective
  <2>2. DOMAIN <<g>> = {1} /\ <<g>>[1] = g
    OBVIOUS
  <2> HIDE DEF f
  <2> QED BY <1>2, <2>1, <2>2 DEF DrawnFrom
<1> QED BY <1>1, <1>2

\* The geometries of an element are what its places draw.
DrawnOnce(e) ==
  /\ _collect_kml_geometries[e] \in Seq(Geometries)
  /\ DrawnFrom(_collect_kml_geometries[e], Drawn(e))

\* Those of the elements in an element, one after the other.
LEMMA DrawnInOrder ==
  ASSUME NEW e \in Elements, \A k \in DOMAIN e.kids : DrawnOnce(e.kids[k])
  PROVE  LET lists == [k \in DOMAIN e.kids |-> _collect_kml_geometries[e.kids[k]]]
         IN  /\ FlattenSeq(lists) \in Seq(Geometries)
             /\ DrawnFrom(FlattenSeq(lists), UNION {DrawnIn(e, k) : k \in DOMAIN e.kids})
<1> DEFINE lists == [k \in DOMAIN e.kids |-> _collect_kml_geometries[e.kids[k]]]
           upto(n) == UNION {DrawnIn(e, k) : k \in 1..n}
<1>1. DOMAIN e.kids = 1..Len(e.kids) /\ Len(e.kids) \in Nat
  BY ElementType
<1>2. /\ lists = [k \in 1..Len(e.kids) |-> lists[k]] /\ Len(lists) = Len(e.kids)
      /\ \A k \in 1..Len(e.kids) : lists[k] = _collect_kml_geometries[e.kids[k]]
  BY <1>1
<1> HIDE DEF lists
<1>3. \A k \in 1..Len(e.kids) : lists[k] \in Seq(Geometries) /\ DrawnFrom(lists[k], DrawnIn(e, k))
  BY <1>1, <1>2, DrawnBelow DEF DrawnOnce
<1>4. CASE Len(e.kids) = 0
  <2>1. lists = <<>> /\ FlattenSeq(lists) = <<>>
    <3>1. lists = <<>>
      BY <1>2, <1>4
    <3> QED BY <3>1, <1>2, <1>4 DEF FlattenSeq
  <2>2. UNION {DrawnIn(e, k) : k \in DOMAIN e.kids} = {}
    BY <1>1, <1>4
  <2> QED BY <2>1, <2>2, DrawnAlone, EmptySeq DEF lists
<1>5. CASE Len(e.kids) # 0
  <2>1. PICK f : IsFlattened(f, lists) /\ FlattenSeq(lists) = f[Len(lists)]
    BY <1>1, <1>2, <1>5, FlattenSteps
  <2> DEFINE P(n) == f[n] \in Seq(Geometries) /\ DrawnFrom(f[n], upto(n))
             bad == {n \in 1..Len(e.kids) : ~ P(n)}
  <2>2. P(1)
    <3>1. upto(1) = DrawnIn(e, 1)
      OBVIOUS
    <3>2. f[1] = lists[1] /\ 1 \in 1..Len(e.kids)
      BY <1>1, <1>5, <2>1 DEF IsFlattened
    <3> QED BY <1>3, <3>1, <3>2
  <2>3. ASSUME NEW n \in 2..Len(e.kids), P(n - 1) PROVE P(n)
    <3>1. f[n] = f[n - 1] \o lists[n] /\ n \in 1..Len(e.kids)
      <4>1. n \in 1..Len(e.kids) /\ n \in 2..Len(lists)
        BY <1>1, <1>2
      <4>2. f[n] = f[n - 1] \o lists[n]
        BY <2>1, <4>1 DEF IsFlattened
      <4> QED BY <4>1, <4>2
    <3>2. upto(n) = upto(n - 1) \cup DrawnIn(e, n)
      <4>1. 1..n = 1..(n - 1) \cup {n}
        BY <3>1
      <4> QED BY <4>1
    <3>3. upto(n - 1) \cap DrawnIn(e, n) = {}
      <4>1. \A k \in 1..(n - 1) : k # n
        BY <3>1
      <4>2. \A k \in 1..(n - 1) : \A p, q : From(e, k, p) # From(e, n, q)
        BY <4>1 DEF From
      <4> QED BY <4>2 DEF DrawnIn
    <3> HIDE DEF upto
    <3>4. /\ f[n - 1] \in Seq(Geometries) /\ DrawnFrom(f[n - 1], upto(n - 1))
          /\ lists[n] \in Seq(Geometries) /\ DrawnFrom(lists[n], DrawnIn(e, n))
      BY <1>3, <2>3, <3>1
    <3>5. /\ f[n - 1] \o lists[n] \in Seq(Geometries)
          /\ DrawnFrom(f[n - 1] \o lists[n], upto(n - 1) \cup DrawnIn(e, n))
      BY <3>3, <3>4, DrawnTogether
    <3> QED BY <3>1, <3>2, <3>5
  <2> HIDE DEF P
  <2>4. \A n \in 1..Len(e.kids) : P(n)
    <3>1. SUFFICES ASSUME bad # {} PROVE FALSE
      OBVIOUS
    <3>2. PICK n \in bad : \A j \in bad : n <= j
      <4>1. bad \in SUBSET Nat
        OBVIOUS
      <4> HIDE DEF bad
      <4> QED BY <3>1, <4>1, LeastNatural
    <3>3. n # 1 => n \in 2..Len(e.kids) /\ n - 1 \in 1..Len(e.kids) /\ n - 1 \notin bad
      BY <1>1, <3>2
    <3> QED BY <2>2, <2>3, <3>2, <3>3
  <2>5. Len(e.kids) \in 1..Len(e.kids)
    BY <1>1, <1>5
  <2>6. P(Len(e.kids))
    BY <2>4, <2>5
  <2>7. upto(Len(e.kids)) = UNION {DrawnIn(e, k) : k \in DOMAIN e.kids}
    BY <1>1
  <2> HIDE DEF upto
  <2> QED BY <1>2, <2>1, <2>6, <2>7 DEF P, lists
<1> QED BY <1>1, <1>4, <1>5

\* Every element that is to be drawn is drawn once.
LEMMA ElementsAreDrawnOnce == \A e \in Elements : DrawnOnce(e)
<1> DEFINE bad == {h \in 0..MaxHeight : \E e \in Elements : Height(e) = h /\ ~ DrawnOnce(e)}
<1>1. SUFFICES ASSUME bad # {} PROVE FALSE
  BY ElementType
<1>2. PICK m \in bad : \A i \in bad : m <= i
  <2>1. bad \in SUBSET Nat
    BY ElementsAssumption
  <2> HIDE DEF bad
  <2> QED BY <1>1, <2>1, LeastNatural
<1>3. PICK e \in Elements : Height(e) = m /\ ~ DrawnOnce(e)
  OBVIOUS
<1>4. \A k \in DOMAIN e.kids : DrawnOnce(e.kids[k])
  <2> TAKE k \in DOMAIN e.kids
  <2>1. /\ e.kids[k] \in Elements /\ Height(e.kids[k]) \in 0..MaxHeight
        /\ Height(e.kids[k]) < m /\ m \in 0..MaxHeight
    BY <1>3, ElementType
  <2>2. Height(e.kids[k]) \notin bad
    BY <1>2, <2>1, ElementsAssumption
  <2> QED BY <2>1, <2>2
<1> HIDE DEF bad
<1> DEFINE own == _kml_element_to_geojson(e)
           rest == IF e.tag = "Polygon" THEN <<>>
                   ELSE FlattenSeq([k \in DOMAIN e.kids |-> _collect_kml_geometries[e.kids[k]]])
           mine == IF Usable(e) THEN {Root(e)} ELSE {}
           theirs == IF e.tag = "Polygon" THEN {} ELSE UNION {DrawnIn(e, k) : k \in DOMAIN e.kids}
<1>5. own \in Seq(Geometries) /\ DrawnFrom(own, mine)
  <2>1. CASE Usable(e)
    <3>1. PICK g \in Geometries : own = <<g>> /\ IsDrawnBy(g, e)
      BY <2>1, OwnGeometry
    <3>2. Root(e).element = e
      BY DEF Root
    <3>3. DrawnFrom(<<g>>, {Root(e)})
      BY <3>1, <3>2, DrawnAlone
    <3>4. <<g>> \in Seq(Geometries)
      OBVIOUS
    <3> QED BY <2>1, <3>1, <3>3, <3>4
  <2>2. CASE ~ Usable(e)
    <3>1. own = <<>>
      BY <2>2, OwnGeometry
    <3> QED BY <2>2, <3>1, DrawnAlone
  <2> QED BY <2>1, <2>2
<1>6. rest \in Seq(Geometries) /\ DrawnFrom(rest, theirs)
  <2>1. CASE e.tag = "Polygon"
    BY <2>1, DrawnAlone
  <2>2. CASE e.tag # "Polygon"
    BY <1>4, <2>2, DrawnInOrder
  <2> QED BY <2>1, <2>2
<1>7. mine \cap theirs = {}
  <2>1. \A k, p : Root(e) # From(e, k, p)
    <3>1. \A k, p : Root(e).way # From(e, k, p).way
      BY DEF Root, From
    <3> QED BY <3>1, Zenon
  <2> QED BY <2>1 DEF DrawnIn
<1>8. _collect_kml_geometries[e] = own \o rest
  BY TreeSteps
<1>9. Drawn(e) = mine \cup theirs
  BY DrawnOf
<1> HIDE DEF own, rest, mine, theirs
<1>10. own \o rest \in Seq(Geometries) /\ DrawnFrom(own \o rest, mine \cup theirs)
  BY <1>5, <1>6, <1>7, DrawnTogether
<1> QED BY <1>3, <1>8, <1>9, <1>10 DEF DrawnOnce

\* The document of an archive is one of its members.
LEMMA SelectedIsMember ==
  ASSUME NEW u \in Uploads, _select_kml_member(u.archive.members) # 0
  PROVE  _select_kml_member(u.archive.members) \in DOMAIN u.archive.members
<1> DEFINE members == u.archive.members
           kml == {m \in DOMAIN members : members[m].suffix = ".kml"}
           doc == {m \in kml : members[m].doc}
           Rank(m) == IF doc # {} THEN m ELSE members[m].name
           pool == IF doc # {} THEN doc ELSE kml
           ranks == {Rank(m) : m \in pool}
<1>1. \A m \in DOMAIN members : m \in Nat /\ members[m].name \in Nat
  BY UploadsAssumption DEF Range
<1>2. kml # {} /\ _select_kml_member(members) = CHOOSE m \in pool : \A n \in pool : Rank(m) <= Rank(n)
  BY DEF _select_kml_member
<1>3. pool # {} /\ pool \subseteq DOMAIN members
  BY <1>2
<1>4. \A m \in pool : Rank(m) \in Nat
  BY <1>1
<1> HIDE DEF pool, Rank, members
<1>5. ranks \in SUBSET Nat /\ ranks # {}
  BY <1>3, <1>4
<1>6. PICK r \in ranks : \A x \in ranks : r <= x
  <2> HIDE DEF ranks
  <2> QED BY <1>5, LeastNatural
<1>7. \E m \in pool : \A n \in pool : Rank(m) <= Rank(n)
  BY <1>6
<1>8. _select_kml_member(members) \in pool
  BY <1>2, <1>7, Zenon
<1> QED BY <1>3, <1>8 DEF members

\* The answer is none yet, or what the upload makes.
FootprintInv == upload \in Uploads /\ result \in {Error(0), Footprint(upload)}

\* A footprint made of a document has the document's geometries.
LEMMA GeometriesOfDocument ==
  ASSUME NEW u \in Uploads, Footprint(u).status = 200, u.ext \in {".kml", ".kmz"}
  PROVE  /\ DocumentOf(u) \in Elements
         /\ Footprint(u).geometries = _collect_kml_geometries[DocumentOf(u)]
<1> DEFINE text == IF u.ext = ".kml" THEN u.text
                   ELSE u.archive.members[_select_kml_member(u.archive.members)].text
           parsed == IF u.ext = ".kml" THEN [Error(200) EXCEPT !.geometries = parse_kml(u.text)]
                     ELSE parse_kmz(u.archive)
<1>1. Footprint(u) = normalize_footprint(parsed, u.repairs)
  BY DEF Footprint, Error
<1>2. \A s : Error(s).status = s
  BY DEF Error
<1>3. /\ parsed.status = 200 /\ parsed.geometries # <<>>
      /\ Footprint(u) = parsed
  <2> HIDE DEF parsed
  <2> QED BY <1>1, <1>2 DEF normalize_footprint
<1>4. parsed = [Error(200) EXCEPT !.geometries = parse_kml(text)]
  BY <1>2, <1>3 DEF parse_kmz
<1>5. Footprint(u).geometries = parse_kml(text) /\ parse_kml(text) # <<>>
  <2> HIDE DEF text, parsed
  <2> QED BY <1>3, <1>4 DEF Error
<1>6. parse_kml(text) = _collect_kml_geometries[text.root]
  <2> HIDE DEF text, parsed
  <2> QED BY <1>5 DEF parse_kml
<1>7. text.root = DocumentOf(u)
  BY DEF DocumentOf
<1>8. DocumentOf(u) \in Elements
  <2>1. DocumentsIn(u) \subseteq Elements
    BY UploadsAssumption
  <2>2. CASE u.ext = ".kml"
    BY <2>1, <2>2 DEF DocumentOf, DocumentsIn
  <2>3. CASE u.ext # ".kml"
    <3> DEFINE m == _select_kml_member(u.archive.members)
    <3>1. m \in DOMAIN u.archive.members
      <4>1. m # 0
        BY <1>2, <1>3, <2>3 DEF parse_kmz
      <4> QED BY <4>1, SelectedIsMember
    <3>2. u.archive.members[m] \in Range(u.archive.members)
      BY <3>1 DEF Range
    <3> HIDE DEF m
    <3> QED BY <2>1, <2>3, <3>2 DEF DocumentOf, DocumentsIn, m
  <2> QED BY <2>2, <2>3
<1> QED BY <1>5, <1>6, <1>7, <1>8

\* For documents of any shape, as deep as they may be, in an archive or not: a footprint has one
\* geometry for every element that can be drawn and lies in no polygon, with the points of a text
\* in it, in their order and in closed rings (ingest.py:228-312).
THEOREM FootprintsAreOfTheFile == FootprintsSpec => []FootprintsComeFromTheFile
<1>1. FootprintsInit => FootprintInv
  BY DEF FootprintsInit, FootprintInv
<1>2. FootprintInv /\ [FootprintsNext]_footprintVars => FootprintInv'
  BY DEF FootprintInv, FootprintsNext, UploadFootprint, footprintVars
<1>3. FootprintInv => FootprintsComeFromTheFile
  <2> SUFFICES ASSUME FootprintInv, result.status = 200, upload.ext \in {".kml", ".kmz"}
               PROVE  DrawnFrom(result.geometries, Drawn(DocumentOf(upload)))
    BY DEF FootprintsComeFromTheFile, DrawnFrom
  <2>1. upload \in Uploads /\ result = Footprint(upload)
    BY DEF FootprintInv, Error
  <2>2. /\ DocumentOf(upload) \in Elements
        /\ result.geometries = _collect_kml_geometries[DocumentOf(upload)]
    BY <2>1, GeometriesOfDocument
  <2> QED BY <2>2, ElementsAreDrawnOnce DEF DrawnOnce
<1> QED BY <1>1, <1>2, <1>3, PTL DEF FootprintsSpec
=============================================================================
