----------------------------- MODULE ApiProcess -----------------------------
(***************************************************************************)
(* The life of an api process (cmd/api/main.go) around the readiness cache *)
(* of Readiness: boot, serving, the drain on SIGTERM, the two shutdowns    *)
(* under one grace period, the deferred closes and the exit code, and a    *)
(* container runtime that starts it again.                                 *)
(*                                                                         *)
(* The callers of /readyz are runs of `vizra healthcheck api`.  work is    *)
(* one request of another route, whose client may be slow and which may    *)
(* hold a connection of the pool.                                          *)
(***************************************************************************)
EXTENDS Readiness

CONSTANT Grace   \* VIZRA_SHUTDOWN_GRACE, in time units

ASSUME GraceAssumption == Grace \in Nat

VARIABLES
    stage,      \* how far run() is: boot, serving, metrics and shutdown (the two
                \* Shutdown calls), closing (the deferred calls), exited
    signalled,  \* SIGTERM: the context of signal.NotifyContext is done
    claimDegraded, \* Deps.OwnerClaimDegraded, fixed at boot
    grace,      \* what is left of shutdownCtx
    work,       \* "none", "busy", or "query" while it holds a connection
    exit,       \* the exit code that run() is about to give, or has given
    cut         \* history: the last exit cut a request off

processVars == <<stage, signalled, claimDegraded, grace, work, exit, cut>>
apiVars == <<vars, processVars>>

ApiInit ==
    /\ dbUp \in BOOLEAN
    /\ draining = FALSE /\ value = NoVerdict /\ taken = TTL /\ inFlight = Nobody
    /\ call = [c \in Callers |-> Done(FALSE, NoAnswer)]
    /\ stage = "boot" /\ signalled = FALSE /\ claimDegraded = FALSE
    /\ grace = Grace /\ work = "none" /\ exit = 0 /\ cut = FALSE

-----------------------------------------------------------------------------
Leave(code) == stage' = "closing" /\ exit' = code

\* The configuration, the pools, the cache URL or the embedded migrations are
\* refused: run() returns the error.
BootRefused ==
    /\ stage = "boot"
    /\ Leave(1)
    /\ UNCHANGED <<vars, signalled, claimDegraded, grace, work, cut>>

\* ownerclaim.Boot fails with the database or the signal, and is not fatal.
BootServes ==
    /\ stage = "boot"
    /\ stage' = "serving"
    /\ claimDegraded' \in IF dbUp /\ ~signalled THEN BOOLEAN ELSE {TRUE}
    /\ UNCHANGED <<vars, signalled, grace, work, exit, cut>>

\* ListenAndServe returns an error: no drain, no shutdown.
ListenerFails ==
    /\ stage = "serving"
    /\ Leave(1)
    /\ UNCHANGED <<vars, signalled, claimDegraded, grace, work, cut>>

Signal ==
    /\ stage # "exited" /\ ~signalled
    /\ signalled' = TRUE
    /\ UNCHANGED <<vars, stage, claimDegraded, grace, work, exit, cut>>

\* srv.Drain, and the metrics listener's Shutdown begins.
BeginDrain ==
    /\ stage = "serving" /\ signalled
    /\ Drain
    /\ stage' = "metrics"
    /\ UNCHANGED <<signalled, claimDegraded, grace, work, exit, cut>>

\* It ends, with its last scrape or with the grace period; its error is ignored.
\* The api's Shutdown closes the listener.
MetricsStopped ==
    /\ stage = "metrics"
    /\ stage' = "shutdown"
    /\ UNCHANGED <<vars, signalled, claimDegraded, grace, work, exit, cut>>

Active == work # "none" \/ \E c \in Callers : ~Idle(c)

\* Variant: the listener is closed and nobody waited for.
ShutdownReturnsAtOnce ==
    /\ stage = "shutdown"
    /\ Leave(0)
    /\ UNCHANGED <<vars, signalled, claimDegraded, grace, work, cut>>
\* Shutdown returns once no request is active ...
ShutdownReturns ==
    /\ stage = "shutdown" /\ ~Active
    /\ Leave(0)
    /\ UNCHANGED <<vars, signalled, claimDegraded, grace, work, cut>>

\* Variant: Shutdown without a deadline.
ShutdownTimesOutNever ==
    /\ stage = "shutdown" /\ ~Active
    /\ Leave(1)
    /\ UNCHANGED <<vars, signalled, claimDegraded, grace, work, cut>>
\* ... or with an error at the end of the grace period.
ShutdownTimesOut ==
    /\ stage = "shutdown" /\ grace = 0
    /\ Leave(1)
    /\ UNCHANGED <<vars, signalled, claimDegraded, grace, work, cut>>

\* The process is gone, and with it its memory and every request it was serving.
Vanish ==
    /\ stage' = "exited"
    /\ cut' = Active
    /\ work' = "none"
    /\ call' = [c \in Callers |-> IF Idle(c) THEN call[c] ELSE Done(call[c].gone, NoAnswer)]
    /\ inFlight' = Nobody /\ value' = NoVerdict /\ taken' = TTL /\ draining' = FALSE
    /\ signalled' = FALSE /\ claimDegraded' = FALSE /\ grace' = Grace
    /\ UNCHANGED dbUp

\* The deferred calls: pools.Close waits for the connections in use, not for the
\* requests behind them.
Exit ==
    /\ stage = "closing" /\ work # "query"
    /\ Vanish
    /\ UNCHANGED exit

\* The process is killed, or crashes.
Killed ==
    /\ stage # "exited"
    /\ Vanish
    /\ exit' = 137

\* The container runtime starts a new process.
Restart ==
    /\ stage = "exited"
    /\ stage' = "boot"
    /\ exit' = 0 /\ cut' = FALSE
    /\ UNCHANGED <<vars, signalled, claimDegraded, grace, work>>

-----------------------------------------------------------------------------
\* Requests.

Listening == stage \in {"serving", "metrics"}

ConnectionRefused(c) ==
    /\ ~Listening /\ Idle(c)
    /\ call' = [call EXCEPT ![c] = Done(FALSE, NoAnswer)]
    /\ UNCHANGED <<dbUp, draining, value, taken, inFlight, processVars>>

handleReadyz(c) ==
    /\ Listening
    /\ ArriveDraining(c) \/ ArriveFresh(c) \/ ArriveWaits(c) \/ ArriveLeads(c)
    /\ UNCHANGED processVars

\* A closed pool answers a ping with an error.
PingClosed(c) ==
    /\ stage = "closing" /\ call[c].phase = "ping"
    /\ call' = [call EXCEPT ![c].phase = "rest",
                            ![c].answer = [status |-> "unavailable", dbUp |-> dbUp]]
    /\ UNCHANGED <<dbUp, draining, value, taken, inFlight>>

computeReadiness(c) ==
    /\ \/ stage # "closing" /\ Ping(c)
       \/ PingClosed(c)
       \/ Rest(c) /\ (claimDegraded => call'[c].answer.status # "ok")
       \/ Store(c)
       \/ Wake(c)
    /\ UNCHANGED processVars

\* vizra healthcheck gives up at its own deadline.
ProbeTimesOut(c) == HangUp(c) /\ UNCHANGED processVars

WorkMoves(from, to) ==
    /\ work = from /\ work' = to
    /\ UNCHANGED <<vars, stage, signalled, claimDegraded, grace, exit, cut>>
WorkArrives == Listening /\ WorkMoves("none", "busy")
WorkQueries == stage # "closing" /\ WorkMoves("busy", "query")
QueryEnds == WorkMoves("query", "busy")
WorkEnds == WorkMoves("busy", "none")

DatabaseFlips == Database /\ UNCHANGED processVars

ApiTick ==
    /\ taken' = IF taken < TTL THEN taken + 1 ELSE taken
    /\ grace' = IF stage \in {"metrics", "shutdown"} /\ grace > 0 THEN grace - 1 ELSE grace
    /\ <<taken', grace'>> # <<taken, grace>>
    /\ UNCHANGED <<dbUp, draining, value, inFlight, call,
                   stage, signalled, claimDegraded, work, exit, cut>>

ApiNext ==
    \/ BootRefused \/ BootServes \/ ListenerFails \/ Signal \/ BeginDrain
    \/ MetricsStopped \/ ShutdownReturns \/ ShutdownTimesOut \/ Exit \/ Killed \/ Restart
    \/ WorkArrives \/ WorkQueries \/ QueryEnds \/ WorkEnds
    \/ DatabaseFlips \/ ApiTick
    \/ \E c \in Callers : \/ ConnectionRefused(c) \/ handleReadyz(c) \/ computeReadiness(c)
                          \/ ProbeTimesOut(c)

ApiSpec == ApiInit /\ [][ApiNext]_apiVars

\* run() goes on, time passes, computations are bounded by their context, a
\* statement under way ends, a dead process is started again and probes keep
\* coming.  A slow client need not let go of its request.
ApiFairness ==
    /\ WF_apiVars(BootServes) /\ WF_apiVars(BeginDrain) /\ WF_apiVars(MetricsStopped)
    /\ WF_apiVars(ShutdownReturns \/ ShutdownTimesOut)
    /\ WF_apiVars(Exit) /\ WF_apiVars(Restart) /\ WF_apiVars(QueryEnds) /\ WF_apiVars(ApiTick)
    /\ \A c \in Callers : WF_apiVars(computeReadiness(c))
    /\ WF_apiVars(\E c \in Callers : handleReadyz(c))

ApiFairSpec == ApiSpec /\ ApiFairness

-----------------------------------------------------------------------------
\* handleReadyz answers 503 for "unavailable" alone; Run of internal/healthcheck
\* takes any 2xx for ready, and everything else, silence included, for not ready.
ExitReady == 0
ExitNotReady == 1
ProbeExit(c) ==
    IF call[c].gone \/ call[c].answer.status \in {"unavailable", "draining", "none"}
    THEN ExitNotReady ELSE ExitReady

\* A healthcheck that reports ready was answered by a process that had found
\* its database up: no other component hides an unreachable PostgreSQL, and no
\* waiter of a shared computation is handed an empty verdict, which would be 200.
ReadyIsEarned ==
    \A c \in Callers : (Idle(c) /\ ProbeExit(c) = ExitReady) => call[c].answer.dbUp

\* The comment on /readyz: "Exactly one condition yields 503: PostgreSQL
\* unreachable (or draining)".  Of a process that serves, a caller that stays on
\* the line is only told "unavailable" after its database was asked and did not
\* answer.
OnlyTheDatabaseMakesIt503 ==
    \A c \in Callers :
        (stage = "serving" /\ Idle(c) /\ ~call[c].gone /\ call[c].answer.status = "unavailable")
            => ~call[c].answer.dbUp

\* Exit code 0 says that the shutdown finished within the grace period: no
\* request was cut off.
CleanExitCutsNobody == (stage = "exited" /\ exit = 0) => ~cut

\* SIGTERM ends the process, whatever a slow client holds on to.
SignalEndsTheProcess == signalled ~> stage = "exited"

\* Once the database stays up, and nobody hangs up on a computation any more,
\* a process that keeps serving stops saying otherwise.
RecoversWhileServing ==
    <>[](stage = "serving" /\ dbUp /\ \A c \in Callers : Computing(c) => ~call[c].gone)
       => <>[](value.status # "unavailable")
=============================================================================
