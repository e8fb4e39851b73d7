----------------------------- MODULE Readiness ------------------------------
(***************************************************************************)
(* /readyz of one api process (internal/httpapi/probes.go): a drain check, *)
(* then readinessCache.Get, a TTL cache whose refresh is shared by the     *)
(* callers that arrive while it runs.                                      *)
(*                                                                         *)
(* The caller that starts the refresh, the leader, runs computeReadiness   *)
(* under the context of its own request.  The other components (cache,     *)
(* search, worker queue, owner claim) only ever demote to "degraded" and   *)
(* are one nondeterministic bit.                                           *)
(***************************************************************************)
EXTENDS Naturals

CONSTANTS
    Callers,    \* concurrent /readyz requests; each is reused for ever
    Nobody,
    Clients,    \* Callers whose client may hang up before it is answered
    TTL         \* the cache's ttl, in time units

ASSUME TTLAssumption == TTL \in Nat \ {0}
ASSUME CallersAssumption == Clients \subseteq Callers /\ Nobody \notin Callers

VARIABLES
    dbUp,       \* PostgreSQL answers
    draining,   \* Server.draining
    value,      \* readinessCache.value
    taken,      \* age of readinessCache.taken, TTL when it is old or zero
    inFlight,   \* the caller behind readinessCache.inFlight
    call        \* the callers

vars == <<dbUp, draining, value, taken, inFlight, call>>

Statuses == {"ok", "degraded", "unavailable", "draining"}

\* A verdict, with what the database really was when it was asked.
Verdict == [status : Statuses, dbUp : BOOLEAN]
NoVerdict == [status |-> "zero", dbUp |-> FALSE]   \* readinessResponse{}
\* What a client sees of a connection that is refused or breaks.
NoAnswer == [status |-> "none", dbUp |-> FALSE]
DrainVerdict == [status |-> "draining", dbUp |-> dbUp]

Call == [ phase  : {"done", "ping", "rest", "store", "wait", "woken"},
          gone   : BOOLEAN,                    \* its context is cancelled
          answer : Verdict \union {NoVerdict, NoAnswer} ]

Done(gone, answer) == [phase |-> "done", gone |-> gone, answer |-> answer]
Begin(phase) == [phase |-> phase, gone |-> FALSE, answer |-> NoVerdict]

-----------------------------------------------------------------------------
Idle(c) == call[c].phase = "done"

\* handleReadyz of a draining process never reaches the cache.  It answers
\* "unavailable" too; the model gives that answer a name of its own.
ArriveDraining(c) ==
    /\ Idle(c) /\ draining
    /\ call' = [call EXCEPT ![c] = Done(FALSE, DrainVerdict)]
    /\ UNCHANGED <<dbUp, draining, value, taken, inFlight>>

\* Variant: whatever was computed once is served for ever.
FreshForever == value # NoVerdict
Fresh == taken < TTL

\* Get: a fresh value ...
ArriveFresh(c) ==
    /\ Idle(c) /\ ~draining /\ Fresh
    /\ call' = [call EXCEPT ![c] = Done(FALSE, value)]
    /\ UNCHANGED <<dbUp, draining, value, taken, inFlight>>

\* ... or the computation in flight ...
ArriveWaits(c) ==
    /\ Idle(c) /\ ~draining /\ ~Fresh /\ inFlight # Nobody
    /\ call' = [call EXCEPT ![c] = Begin("wait")]
    /\ UNCHANGED <<dbUp, draining, value, taken, inFlight>>

\* ... or a computation of its own.
ArriveLeads(c) ==
    /\ Idle(c) /\ ~draining /\ ~Fresh /\ inFlight = Nobody
    /\ call' = [call EXCEPT ![c] = Begin("ping")]
    /\ inFlight' = c
    /\ UNCHANGED <<dbUp, draining, value, taken>>

\* PingDatabase, under the leader's context: it fails as well when the leader's
\* client has hung up.
Ping(c) ==
    /\ call[c].phase = "ping"
    /\ LET status == IF dbUp /\ ~call[c].gone THEN "ok" ELSE "unavailable"
       IN  call' = [call EXCEPT ![c].phase = "rest",
                                ![c].answer = [status |-> status, dbUp |-> dbUp]]
    /\ UNCHANGED <<dbUp, draining, value, taken, inFlight>>

\* Variant: the last component to report a fault decides the status.
DemoteToLast(status, to) == to
\* demote: the worst verdict wins.
Demote(status, to) == IF status = "ok" THEN to ELSE status

\* The other components, each of which can at most degrade.
Rest(c) ==
    /\ call[c].phase = "rest"
    /\ \/ call' = [call EXCEPT ![c].phase = "store"]
       \/ call' = [call EXCEPT ![c].phase = "store",
                               ![c].answer.status = Demote(@, "degraded")]
    /\ UNCHANGED <<dbUp, draining, value, taken, inFlight>>

\* wg.Done: the waiters of the flight go on, and the leader is done.
Release(c) ==
    call' = [d \in Callers |->
               CASE d = c                  -> Done(call[d].gone, call[d].answer)
                 [] call[d].phase = "wait" -> [call[d] EXCEPT !.phase = "woken"]
                 [] OTHER                  -> call[d]]

\* Variant: a leader whose client has gone returns without cleaning up.
StoreUnlessGone(c) ==
    /\ call[c].phase = "store"
    /\ IF call[c].gone
         THEN /\ call' = [call EXCEPT ![c] = Done(@.gone, @.answer)]
              /\ UNCHANGED <<value, taken, inFlight>>
         ELSE /\ value' = call[c].answer /\ taken' = 0
              /\ inFlight' = Nobody
              /\ Release(c)
    /\ UNCHANGED <<dbUp, draining>>
\* The leader publishes its verdict and releases the others.
Store(c) ==
    /\ call[c].phase = "store"
    /\ value' = call[c].answer
    /\ taken' = 0
    /\ inFlight' = Nobody
    /\ Release(c)
    /\ UNCHANGED <<dbUp, draining>>

\* A released waiter reads whatever is the value by then.
Wake(c) ==
    /\ call[c].phase = "woken"
    /\ call' = [call EXCEPT ![c] = Done(@.gone, value)]
    /\ UNCHANGED <<dbUp, draining, value, taken, inFlight>>

\* The client of a request hangs up.
HangUp(c) ==
    /\ c \in Clients
    /\ ~Idle(c) /\ ~call[c].gone
    /\ call' = [call EXCEPT ![c].gone = TRUE]
    /\ UNCHANGED <<dbUp, draining, value, taken, inFlight>>

Drain ==
    /\ ~draining
    /\ draining' = TRUE
    /\ UNCHANGED <<dbUp, value, taken, inFlight, call>>

Database ==
    /\ dbUp' = ~dbUp
    /\ UNCHANGED <<draining, value, taken, inFlight, call>>

-----------------------------------------------------------------------------
Computing(c) == call[c].phase \in {"ping", "rest", "store"}

\* Types; the cache never holds the draining answer.
TypeOK ==
    /\ dbUp \in BOOLEAN /\ draining \in BOOLEAN
    /\ value \in Verdict \union {NoVerdict} /\ value.status # "draining"
    /\ taken \in 0..TTL
    /\ inFlight \in Callers \union {Nobody}
    /\ call \in [Callers -> Call]

\* "Single-flight": at most one caller computes, however many arrive while
\* the value is stale, and whoever waits waits for that one.
SingleFlight ==
    /\ \A c \in Callers : Computing(c) => inFlight = c
    /\ \A c \in Callers : call[c].phase = "wait" => \E d \in Callers : Computing(d)

\* No caller is handed the zero readinessResponse, which handleReadyz would
\* answer with 200: a released waiter always finds a computed value.
WaitersGetAVerdict ==
    (Fresh \/ \E c \in Callers : call[c].phase = "woken") => value # NoVerdict

\* Every caller is answered: none waits for a leader that never releases it.
EveryCallerIsAnswered == \A c \in Callers : ~Idle(c) ~> Idle(c)
=============================================================================
