---------------------------- MODULE LoginLimiter -----------------------------
(***************************************************************************)
(* The login rate limit (services/api/ipermit_api/middleware.py).  Each    *)
(* process keeps the times at which an address tried to log in, and turns  *)
(* away an attempt that is one too many for the minute before it.  hit     *)
(* runs on the event loop without an await, so an attempt is one step; the *)
(* lists live in memory, so a restart forgets them.  A host or a path the  *)
(* limiter does not guard never reaches it and is left out.                *)
(***************************************************************************)
EXTENDS Clock, Sequences, FiniteSets

CONSTANTS
    Address,
    MaxPerMinute,     \* settings.auth_login_rate_per_minute
    Minute,           \* 60 s in units of the clock
    MaxAttempts,      \* bound: login attempts
    MaxRestarts       \* bound: processes that restart

ASSUME RateAssumption == MaxPerMinute \in Nat /\ Minute \in Nat

VARIABLES
    hits,       \* _hits of each process
    attempts,   \* what became of every attempt since the process started
    restarts

limiterVars == <<hits, attempts, restarts>>

Tried == UNION {{<<p, a, k>> : k \in DOMAIN attempts[p][a]} : p \in Process, a \in Address}

LimiterInit ==
    /\ now = 0
    /\ hits = [p \in Process |-> [a \in Address |-> <<>>]]
    /\ attempts = hits
    /\ restarts = 0

\* Faulty variant: the windows are fixed, as the class is named.
RecentInFixedWindow(s) == LET Kept(t) == t >= now - (now % Minute) IN SelectSeq(s, Kept)

\* The hits of the last minute: the list is in the order of time, so that the others come first.
Recent(s) == SubSeq(s, Cardinality({i \in DOMAIN s : s[i] < now - Minute}) + 1, Len(s))

\* hit and dispatch: the hit is counted whether or not the login goes ahead.
Attempt(p, a) ==
    LET kept == Append(Recent(hits[p][a]), now)
    IN  /\ Cardinality(Tried) < MaxAttempts
        /\ hits' = [hits EXCEPT ![p][a] = kept]
        /\ attempts' = [attempts EXCEPT ![p][a] =
                           Append(@, [at |-> now, admitted |-> Len(kept) <= MaxPerMinute])]
        /\ UNCHANGED <<now, restarts>>

\* A process starts afresh: install_middleware builds a new limiter.
RestartProcess(p) ==
    /\ restarts < MaxRestarts
    /\ restarts' = restarts + 1
    /\ hits' = [hits EXCEPT ![p] = [a \in Address |-> <<>>]]
    /\ attempts' = [attempts EXCEPT ![p] = [a \in Address |-> <<>>]]
    /\ UNCHANGED now

LimiterNext ==
    \/ \E p \in Process, a \in Address : Attempt(p, a)
    \/ \E p \in Process : RestartProcess(p)
    \/ Tick /\ UNCHANGED <<hits, attempts, restarts>>

LimiterSpec == LimiterInit /\ [][LimiterNext]_<<now, limiterVars>>

-----------------------------------------------------------------------------
(* Hazard: the list is pruned at every attempt, refused attempts stay in   *)
(* it, and the boundary belongs to the window (middleware.py:56-62).       *)
(* Judged by every attempt since the process started and not by the list:  *)
(* an attempt goes ahead exactly when at most MaxPerMinute attempts of its *)
(* address, itself and the refused ones included, fall in the closed       *)
(* minute up to it, so no minute admits more; whoever keeps trying stays   *)
(* out.                                                                    *)
AtMostMaxPerWindow ==
    \A p \in Process, a \in Address :
        LET s == attempts[p][a]
            Before(k) == {j \in 1..k : s[j].at >= s[k].at - Minute}
        IN \A k \in DOMAIN s :
            /\ s[k].admitted <=> Cardinality(Before(k)) <= MaxPerMinute
            /\ Cardinality({j \in Before(k) : s[j].admitted}) <= MaxPerMinute
=============================================================================
