------------------------------- MODULE MCApi --------------------------------
(***************************************************************************)
(* Small instances of ApiProcess, Authz, SearchService and RateLimiter,    *)
(* parts of the api process, for TLC.  They share no state, so a behaviour *)
(* is one of one of them, while the others rest.                           *)
(***************************************************************************)
EXTENDS ApiProcess, Authz, SearchService, RateLimiter

CONSTANTS
    Parts,      \* which of "process", "authz", "search" and "limiter" may run
    c1, c2, u, v, g1, g2, p1, r1, r2

VARIABLE part   \* the one that runs

TwoCallers == {c1, c2}
OneClient == {c1}

\* One viewer, who owns some of the resources.
OneUser == {u}
TwoOwners == {u, v}

TwoSearchers == {g1, g2}
OneProber == {p1}
\* Two readings within the window of each other, one outside it, and one that is
\* -2^63 away from 3: a difference that is its own negation.
SomeReadings == {-13, 3, 4, 6}

TwoLimiters == {r1, r2}

InProcess == part = "process"
InAuthz == part = "authz"
InSearch == part = "search"
InLimiter == part = "limiter"

PartsInit ==
    /\ ApiInit /\ Init /\ SearchInit /\ LimiterInit
    /\ part \in Parts
    /\ InProcess \/ dbUp
    /\ InAuthz \/ private
    /\ InSearch \/ (remoteUp /\ searchNow = 3 /\ searchKey = "key")
PartsNext ==
    /\ \/ InProcess /\ ApiNext /\ UNCHANGED <<authzVars, searchVars, limiterVars>>
       \/ InAuthz /\ Next /\ UNCHANGED <<apiVars, searchVars, limiterVars>>
       \/ InSearch /\ SearchNext /\ UNCHANGED <<apiVars, authzVars, limiterVars>>
       \/ InLimiter /\ LimiterNext /\ UNCHANGED <<apiVars, authzVars, searchVars>>
    /\ UNCHANGED part

\* ApiFairness and LimiterFairness, each when its part runs; the other two are
\* asked for safety only.
PartsSpec ==
    /\ PartsInit /\ [][PartsNext]_<<apiVars, authzVars, searchVars, limiterVars, part>>
    /\ WF_apiVars(InProcess /\ BootServes) /\ WF_apiVars(InProcess /\ BeginDrain)
    /\ WF_apiVars(InProcess /\ MetricsStopped)
    /\ WF_apiVars(InProcess /\ (ShutdownReturns \/ ShutdownTimesOut))
    /\ WF_apiVars(InProcess /\ Exit) /\ WF_apiVars(InProcess /\ Restart)
    /\ WF_apiVars(InProcess /\ QueryEnds) /\ WF_apiVars(InProcess /\ ApiTick)
    /\ \A c \in Callers : WF_apiVars(InProcess /\ computeReadiness(c))
    /\ WF_apiVars(InProcess /\ \E c \in Callers : handleReadyz(c))
    /\ WF_limiterVars(InLimiter /\ LimiterTick)
    /\ \A r \in Limiters : WF_limiterVars(InLimiter /\ (AllowCached(r) \/ AllowFallback(r)))

\* SearchFairness, for when only "search" runs.
RecoverySpec == PartsSpec /\ SearchFairness
=============================================================================
