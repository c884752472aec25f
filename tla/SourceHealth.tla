----------------------------- MODULE SourceHealth ----------------------------
(***************************************************************************)
(* Verification of a rule's sources (ipermit_regulatory/sources.py,        *)
(* freshness.py and the citation report of                                 *)
(* services/api/ipermit_api/routers/sources.py): checks of the citations   *)
(* of one rule are recorded, now and for past days, and the score, the     *)
(* label and the review flag are computed from them on demand.             *)
(***************************************************************************)
EXTENDS Platform, Integers, Sequences, FiniteSets, FiniteSetsExt, SequencesExt

CONSTANTS
    Reference,      \* the rule's citations
    Linked,         \* those with a url
    Outcome,        \* what a check may find
    Days,           \* bound: the days on which something happens
    MaxChecks       \* bound: checks recorded

ASSUME SourceAssumption ==
    /\ IsFiniteSet(Reference)
    /\ Linked \subseteq Reference
    /\ Outcome \subseteq [url_reachable : BOOLEAN \cup {None}, form_changed : BOOLEAN \cup {None}]
    /\ Days \subseteq Nat
    /\ None \notin BOOLEAN

VARIABLES
    rule,           \* confidence_tier and last_verified
    today,
    checks          \* SourceCheck rows; the index is the id

sourceVars == <<rule, today, checks>>

CADENCE_DAYS == <<365, 180, 90>>

_DEFAULT_CADENCE == 90

_cadence(tier) == IF tier \in DOMAIN CADENCE_DAYS THEN CADENCE_DAYS[tier] ELSE _DEFAULT_CADENCE

SourceInit ==
    /\ rule \in [confidence_tier : 1..3, last_verified : {0}]
    /\ today = 0
    /\ checks = <<>>

-----------------------------------------------------------------------------
(* Queries over the checks                                                 *)

\* Faulty variant: the check recorded last is the latest.
LatestRecorded(cs, r) == Max({0} \cup {i \in DOMAIN cs : cs[i].reference = r})

\* latest_check, by date and then by id; 0 when there is none.
latest_check(cs, r) ==
    LET of == {i \in DOMAIN cs : cs[i].reference = r}
        days == {cs[i].checked_at : i \in of}
    IN Max({0} \cup {i \in of : cs[i].checked_at = Max(days)})

\* check_history: oldest first.
check_history(cs, r) ==
    LET of == {i \in DOMAIN cs : cs[i].reference = r}
        UpTo(i) == {j \in of : cs[j].checked_at < cs[i].checked_at
                                \/ (cs[j].checked_at = cs[i].checked_at /\ j <= i)}
    IN [k \in 1..Cardinality(of) |-> CHOOSE i \in of : Cardinality(UpTo(i)) = k]

is_currently_reachable(cs, r) ==
    IF latest_check(cs, r) = 0 THEN None ELSE cs[latest_check(cs, r)].url_reachable

-----------------------------------------------------------------------------
(* Freshness                                                               *)

Latest(cs) == {cs[latest_check(cs, r)] : r \in {c.reference : c \in Range(cs)}}

Unreachable(c) == c.url_reachable = FALSE

FormChanged(c) == c.form_changed = TRUE

\* _url_penalty; the latest check of every reference counts, failures add up.
_url_penalty(cs) ==
    LET checked == {r \in Reference : latest_check(cs, r) # 0}
        unreachable == {r \in checked : Unreachable(cs[latest_check(cs, r)])}
        changed == {r \in checked : FormChanged(cs[latest_check(cs, r)])}
    IN Min({30 * Cardinality(unreachable) + 20 * Cardinality(changed), 50})

_last_check_date(cs) == Max({c.checked_at : c \in Range(cs)})

\* int() of a quotient: towards zero, also for a date in the future.
Percent(days, cadence) ==
    IF days >= 0 THEN (100 * days) \div cadence ELSE -((-(100 * days)) \div cadence)

Base(date, cadence) == Max({0, 100 - Percent(today - date, cadence)})

freshness_score(r, cs) ==
    LET cadence == _cadence(r.confidence_tier)
        dates == {r.last_verified} \cup (IF cs = <<>> THEN {} ELSE {_last_check_date(cs)})
        base == Min({Base(d, cadence) : d \in dates})
    IN Max({0, base - _url_penalty(cs)})

freshness_label(score) ==
    IF score >= 90 THEN "fresh" ELSE IF score >= 50 THEN "aging" ELSE "stale"

needs_review(r, cs) ==
    \/ today - r.last_verified > _cadence(r.confidence_tier)
    \/ cs # <<>> /\ today - _last_check_date(cs) > _cadence(r.confidence_tier)
    \/ \E c \in Latest(cs) : Unreachable(c) \/ FormChanged(c)

-----------------------------------------------------------------------------
(* The citation report of the portal, from the rule alone                  *)

_STALE_THRESHOLD_DAYS == 365

_days_since(r) == Max({0, today - r.last_verified})

_health(r, reference) ==
    IF reference \notin Linked THEN "missing_url"
    ELSE IF _days_since(r) > _STALE_THRESHOLD_DAYS THEN "stale" ELSE "ok"

\* sources_report: the number of citations in each state.
sources_report(r) ==
    [h \in {"ok", "stale", "missing_url"} |-> Cardinality({c \in Reference : _health(r, c) = h})]

-----------------------------------------------------------------------------
\* record_check: of a day past, of today, or of a day still to come.
record_check(r, date, found) ==
    /\ Len(checks) < MaxChecks
    /\ checks' = Append(checks, [reference |-> r, checked_at |-> date,
                                url_reachable |-> found.url_reachable,
                                form_changed |-> found.form_changed])
    /\ UNCHANGED <<rule, today>>

DaysPass(day) ==
    /\ today < day
    /\ today' = day
    /\ UNCHANGED <<rule, checks>>

SourceNext ==
    \/ \E r \in Reference, date \in (today - 1)..(today + 1), found \in Outcome :
          record_check(r, date, found)
    \/ \E day \in Days : DaysPass(day)

SourceSpec == SourceInit /\ [][SourceNext]_sourceVars

-----------------------------------------------------------------------------
Supersedes(c, r, cs) ==
    c.reference = r /\ c.checked_at >= cs[latest_check(cs, r)].checked_at

Failing(cs) == {r \in Reference : is_currently_reachable(cs, r) = FALSE \/
                   (latest_check(cs, r) # 0 /\ FormChanged(cs[Last(check_history(cs, r))]))}

(* Hazard: checks of several citations are recorded out of order, days     *)
(* pass, and score, flag and report are computed apart (freshness.py:116,  *)
(* 67-77, 165-172).  A rule that needs review is never labelled fresh, one *)
(* past its cadence is stale, and one the portal's report calls stale      *)
(* needs review.  Once flagged it stays so: neither time nor a check takes *)
(* the flag away, unless the check supersedes the only failing one, or     *)
(* ends the wait for a check of a rule that is within its cadence.         *)
NothingHidesAFailure ==
    /\ [](needs_review(rule, checks) => freshness_label(freshness_score(rule, checks)) # "fresh")
    /\ [](today - rule.last_verified > _cadence(rule.confidence_tier)
             => freshness_label(freshness_score(rule, checks)) = "stale")
    /\ [](sources_report(rule)["stale"] > 0 => needs_review(rule, checks))
    /\ [][needs_review(rule, checks) /\ ~needs_review(rule, checks)' =>
             /\ Len(checks') = Len(checks) + 1
             /\ today - rule.last_verified <= _cadence(rule.confidence_tier)
             /\ \A r \in Failing(checks) : Supersedes(Last(checks'), r, checks)]_sourceVars
=============================================================================
