---------------------------- MODULE RateLimiter -----------------------------
(***************************************************************************)
(* internal/cache/ratelimit.go for one key: a fixed-window counter in the  *)
(* shared cache, and in every replica the MemoryLimiter that stands in for *)
(* it when a command fails.                                                *)
(*                                                                         *)
(* Counts saturate at Limit + 1.  The cache key is gone when its TTL is 0; *)
(* a memWindow counts up to and including the instant `expires` and is -1  *)
(* after it.  An observer opens a window of its own at any moment and      *)
(* counts what is allowed during it, and how often a counter was lost.     *)
(***************************************************************************)
EXTENDS Integers, FiniteSets

CONSTANTS
    Limiters,   \* the FallbackLimiter of every replica
    Limit,      \* units per window
    Window,     \* its length, in time units
    MaxLosses   \* bound: evictions and restarts in one observed window

ASSUME LimitAssumption == Limit \in Nat \ {0} /\ Window \in Nat \ {0} /\ MaxLosses \in Nat
ASSUME LimitersAssumption == IsFiniteSet(Limiters)

VARIABLES
    cacheUp,    \* commands to the cache succeed (external)
    shared,     \* the cache's counter: [count, left]
    local,      \* local[r], the same for the replica's memWindow
    degraded,   \* FallbackLimiter.degraded
    seen        \* the observer: [left, grants, losses]

limiterVars == <<cacheUp, shared, local, degraded, seen>>

Counter == [count : 0..(Limit + 1), left : -1..Window]
Bump(n) == IF n > Limit THEN n ELSE n + 1

LimiterInit ==
    /\ cacheUp = TRUE
    /\ shared = [count |-> 0, left |-> 0]
    /\ local = [r \in Limiters |-> [count |-> 0, left |-> -1]]
    /\ degraded = [r \in Limiters |-> FALSE]
    /\ seen = [left |-> -1, grants |-> 0, losses |-> 0]

-----------------------------------------------------------------------------
\* Variant: EXPIRE without NX, so that every request moves the window's end.
ChargeSliding(c) == [count |-> Bump(c.count), left |-> Window]
\* INCR and EXPIRE NX in one MULTI/EXEC.
Charge(c) == [count |-> Bump(c.count), left |-> IF c.left > 0 THEN c.left ELSE Window]

\* MemoryLimiter.Allow, on a window that is made when there is none.
ChargeLocal(c) ==
    IF c.left < 0 THEN [count |-> 1, left |-> Window]
                  ELSE [count |-> Bump(c.count), left |-> c.left]

Observe(grants) ==
    seen' = IF seen.left >= 0 THEN [seen EXCEPT !.grants = @ + grants] ELSE seen

ObserveDecision(ok) == Observe(IF ok THEN 1 ELSE 0)

\* Variant: a working cache makes the replica drop its own window.
AllowCachedAfresh(r) ==
    /\ cacheUp
    /\ shared' = Charge(shared)
    /\ local' = [local EXCEPT ![r] = [count |-> 0, left |-> -1]]
    /\ degraded' = [degraded EXCEPT ![r] = FALSE]
    /\ ObserveDecision(shared'.count <= Limit)
    /\ UNCHANGED cacheUp
\* Allow, decided by the cache.
AllowCached(r) ==
    /\ cacheUp
    /\ shared' = Charge(shared)
    /\ degraded' = [degraded EXCEPT ![r] = FALSE]
    /\ ObserveDecision(shared'.count <= Limit)
    /\ UNCHANGED <<cacheUp, local>>

\* Allow, decided by the fallback after a command that failed, whether or not
\* the cache had carried it out.
AllowFallback(r) ==
    /\ \/ ~cacheUp /\ UNCHANGED shared
       \/ cacheUp /\ shared' = Charge(shared)
    /\ local' = [local EXCEPT ![r] = ChargeLocal(@)]
    /\ degraded' = [degraded EXCEPT ![r] = TRUE]
    /\ ObserveDecision(local'[r].count <= Limit)
    /\ UNCHANGED cacheUp

\* Allow for a request whose context has ended: before the command, or while
\* the command, carried out or not, is under way.
AllowEnded ==
    /\ shared' \in {shared, Charge(shared)}
    /\ ObserveDecision(FALSE)
    /\ UNCHANGED <<cacheUp, local, degraded>>

-----------------------------------------------------------------------------
Lose ==
    /\ seen.left >= 0 => seen.losses < MaxLosses
    /\ seen' = IF seen.left >= 0 THEN [seen EXCEPT !.losses = @ + 1] ELSE seen

\* The cache evicts the key, or is flushed.
Evict ==
    /\ shared.count > 0
    /\ shared' = [count |-> 0, left |-> 0]
    /\ Lose
    /\ UNCHANGED <<cacheUp, local, degraded>>

\* A replica restarts with a new FallbackLimiter.
RestartReplica(r) ==
    /\ local[r].left >= 0
    /\ local' = [local EXCEPT ![r] = [count |-> 0, left |-> -1]]
    /\ degraded' = [degraded EXCEPT ![r] = FALSE]
    /\ Lose
    /\ UNCHANGED <<cacheUp, shared>>

CacheFlips ==
    /\ cacheUp' = ~cacheUp
    /\ UNCHANGED <<shared, local, degraded, seen>>

\* A key without a TTL never expires.
Age(c) == CASE c.count > 0 /\ c.left > 1 -> [c EXCEPT !.left = @ - 1]
            [] c.count > 0 /\ c.left = 1 -> [count |-> 0, left |-> 0]
            [] OTHER                     -> c
AgeLocal(c) == CASE c.left > 0 -> [c EXCEPT !.left = @ - 1]
                 [] OTHER      -> [count |-> 0, left |-> -1]

LimiterTick ==
    /\ shared' = Age(shared)
    /\ local' = [r \in Limiters |-> AgeLocal(local[r])]
    /\ seen' = IF seen.left > 0 THEN [seen EXCEPT !.left = @ - 1]
               ELSE [left |-> -1, grants |-> 0, losses |-> 0]
    /\ UNCHANGED <<cacheUp, degraded>>

OpenObserver ==
    /\ seen.left < 0
    /\ seen' = [left |-> Window - 1, grants |-> 0, losses |-> 0]
    /\ UNCHANGED <<cacheUp, shared, local, degraded>>

LimiterNext ==
    \/ LimiterTick \/ OpenObserver \/ CacheFlips \/ Evict \/ AllowEnded
    \/ \E r \in Limiters : AllowCached(r) \/ AllowFallback(r) \/ RestartReplica(r)

LimiterSpec == LimiterInit /\ [][LimiterNext]_limiterVars

\* Time passes, and every replica keeps being asked by live requests.
LimiterFairness ==
    /\ WF_limiterVars(LimiterTick)
    /\ \A r \in Limiters : WF_limiterVars(AllowCached(r) \/ AllowFallback(r))

FairLimiterSpec == LimiterSpec /\ LimiterFairness

-----------------------------------------------------------------------------
\* Types; a counter in the cache always has a TTL.
LimiterTypeOK ==
    /\ cacheUp \in BOOLEAN
    /\ shared \in Counter /\ (shared.count > 0 => shared.left > 0)
    /\ local \in [Limiters -> Counter]
    /\ degraded \in [Limiters -> BOOLEAN]
    /\ seen \in [left : -1..(Window - 1), grants : Nat, losses : 0..MaxLosses]

\* However the cache comes and goes, a span of one window's length meets at
\* most two windows of every counter, the shared one and one per replica, the
\* older of which was opened by a unit spent before it; every counter lost on
\* the way opens one more.  That bounds what is allowed in the span.
SpanIsBounded ==
    seen.grants <= (2 * Limit - 1) * (1 + Cardinality(Limiters)) + Limit * seen.losses

\* "No path leaves a permanent lockout": however often the key is asked for,
\* by refused requests too, the shared window and every local one end and leave
\* room for a request.
NoLockout ==
    /\ []<>(Charge(shared).count <= Limit)
    /\ \A r \in Limiters : []<>(ChargeLocal(local[r]).count <= Limit)
=============================================================================
