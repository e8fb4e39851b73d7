----------------------------- MODULE ApiProofs ------------------------------
(***************************************************************************)
(* Proofs about ApiProcess and the readiness cache in it, for any number   *)
(* of concurrent probes, any TTL and any grace period; and the laws of the *)
(* evaluator in Authz, for every set of users and owners.                  *)
(***************************************************************************)
EXTENDS ApiProcess, Authz, TLAPS

-----------------------------------------------------------------------------
\* The API process.

\* A computed verdict: ready only with the database up.
Good(v) ==
    /\ v \in Verdict
    /\ v.status \in {"ok", "degraded", "unavailable"}
    /\ v.status # "unavailable" => v.dbUp

\* What a caller may have been answered.
Told(v) == v = NoAnswer \/ Good(v) \/ (v \in Verdict /\ v.status = "draining")

\* What holds of caller c, in state r, when f computes and v is the value.
Proper(c, r, f, v) ==
    /\ r \in Call
    /\ r.phase = "done" => Told(r.answer)
    /\ r.phase \in {"rest", "store"} => Good(r.answer)
    /\ r.phase \in {"ping", "rest", "store"} <=> f = c
    /\ r.phase = "wait" => f # Nobody
    /\ r.phase = "woken" => v # NoVerdict

RInv ==
    /\ dbUp \in BOOLEAN
    /\ taken \in 0..TTL
    /\ value = NoVerdict \/ Good(value)
    /\ taken < TTL => value # NoVerdict
    /\ inFlight \in Callers \union {Nobody}
    /\ call \in [Callers -> Call]
    /\ \A c \in Callers : Proper(c, call[c], inFlight, value)

LEMMA Answers ==
    /\ NoVerdict.status = "zero" /\ NoAnswer.status = "none"
    /\ \A v : Good(v) => v # NoVerdict
BY DEF NoVerdict, NoAnswer, Good

LEMMA DoneIsACall ==
    ASSUME NEW gone \in BOOLEAN, NEW v, Told(v)
    PROVE  /\ Done(gone, v) \in Call
           /\ Done(gone, v).phase = "done" /\ Done(gone, v).answer = v
BY Zenon DEF Done, Call, Told, Good

LEMMA BeginIsACall ==
    ASSUME NEW phase \in {"ping", "wait"}
    PROVE  Begin(phase) \in Call /\ Begin(phase).phase = phase
BY Zenon DEF Begin, Call

\* One caller's step, with the cache as it is.
LEMMA OneCaller ==
    ASSUME RInv, NEW c \in Callers, NEW r, call' = [call EXCEPT ![c] = r],
           UNCHANGED <<dbUp, value, taken, inFlight>>, Proper(c, r, inFlight, value)
    PROVE  RInv'
<1>1. call' \in [Callers -> Call]  BY Zenon DEF RInv, Proper
<1>2. ASSUME NEW d \in Callers PROVE Proper(d, call'[d], inFlight, value)
  <2>1. CASE d = c
    BY <2>1, Zenon DEF RInv
  <2>2. CASE d # c
    <3>1. call'[d] = call[d]  BY <2>2, Zenon DEF RInv
    <3>2. QED  BY <3>1, Zenon DEF RInv
  <2>3. QED  BY <2>1, <2>2, Zenon
<1>3. QED  BY <1>1, <1>2, Zenon DEF RInv

LEMMA ArriveStep ==
    ASSUME RInv, NEW c \in Callers,
           ArriveDraining(c) \/ ArriveFresh(c) \/ ArriveWaits(c) \/ ArriveLeads(c)
    PROVE  RInv'
<1>1. /\ call[c].phase = "done" /\ inFlight # c /\ FALSE \in BOOLEAN
      /\ Proper(c, call[c], inFlight, value)
  BY Zenon DEF RInv, Proper, ArriveDraining, ArriveFresh, ArriveWaits, ArriveLeads, Idle
<1>2. CASE ArriveDraining(c)
  <2>1. PICK r : r = Done(FALSE, DrainVerdict)  BY Zenon
  <2>2. Told(DrainVerdict)  BY Zenon DEF DrainVerdict, Told, Verdict, Statuses, RInv
  <2>3. Proper(c, r, inFlight, value)  BY <1>1, <2>1, <2>2, DoneIsACall, Zenon DEF Proper
  <2>4. QED  BY <1>2, <2>1, <2>3, OneCaller, Zenon DEF ArriveDraining
<1>3. CASE ArriveFresh(c)
  <2>1. PICK r : r = Done(FALSE, value)  BY Zenon
  <2>2. Told(value)  BY <1>3, Zenon DEF ArriveFresh, Fresh, RInv, Told
  <2>3. Proper(c, r, inFlight, value)  BY <1>1, <2>1, <2>2, DoneIsACall, Zenon DEF Proper
  <2>4. QED  BY <1>3, <2>1, <2>3, OneCaller, Zenon DEF ArriveFresh
<1>4. CASE ArriveWaits(c)
  <2>1. PICK r : r = Begin("wait")  BY Zenon
  <2>2. r \in Call /\ r.phase = "wait" /\ inFlight # Nobody  BY <1>4, <2>1, BeginIsACall, Zenon DEF ArriveWaits
  <2>3. Proper(c, r, inFlight, value)  BY <1>1, <2>2, Zenon DEF Proper
  <2>4. QED  BY <1>4, <2>1, <2>3, OneCaller, Zenon DEF ArriveWaits
<1>5. CASE ArriveLeads(c)
  <2>1. PICK r : r = Begin("ping")  BY Zenon
  <2>2. r \in Call /\ r.phase = "ping"  BY <2>1, BeginIsACall, Zenon
  <2>3. /\ inFlight = Nobody /\ inFlight' = c /\ call' = [call EXCEPT ![c] = r]
        /\ UNCHANGED <<dbUp, value, taken>>
    BY <1>5, <2>1, Zenon DEF ArriveLeads
  <2>4. c # Nobody  BY CallersAssumption
  <2>5. ASSUME NEW d \in Callers PROVE Proper(d, call'[d], c, value)
    <3>1. CASE d = c
      BY <2>2, <2>3, <3>1, Zenon DEF RInv, Proper
    <3>2. CASE d # c
      <4>1. call'[d] = call[d] /\ Proper(d, call[d], Nobody, value)  BY <2>3, <3>2, Zenon DEF RInv
      <4>2. d # Nobody  BY CallersAssumption
      <4>3. QED  BY <2>4, <3>2, <4>1, <4>2, Zenon DEF Proper
    <3>3. QED  BY <3>1, <3>2, Zenon
  <2>6. call' \in [Callers -> Call]  BY <2>2, <2>3, Zenon DEF RInv
  <2>7. QED  BY <2>3, <2>5, <2>6, Zenon DEF RInv
<1>6. QED  BY <1>2, <1>3, <1>4, <1>5, Zenon

LEMMA PingStep ==
    ASSUME RInv, NEW c \in Callers, Ping(c) \/ PingClosed(c)
    PROVE  RInv'
<1>1. /\ call[c].phase = "ping" /\ call[c] \in Call /\ inFlight = c /\ dbUp \in BOOLEAN
      /\ Proper(c, call[c], inFlight, value) /\ call \in [Callers -> Call]
  BY Zenon DEF Ping, PingClosed, RInv, Proper
<1>2. PICK v : v = IF Ping(c) THEN [status |-> IF dbUp /\ ~call[c].gone THEN "ok" ELSE "unavailable",
                                    dbUp |-> dbUp]
                   ELSE [status |-> "unavailable", dbUp |-> dbUp]
  BY Zenon
<1>3. Good(v)  BY <1>1, <1>2, Zenon DEF Good, Verdict, Statuses, Call
<1>4. PICK r : r = [call[c] EXCEPT !.phase = "rest", !.answer = v]  BY Zenon
<1>5. r \in Call /\ r.phase = "rest" /\ r.answer = v  BY <1>1, <1>3, <1>4, Zenon DEF Call, Good
<1>6. call' = [call EXCEPT ![c] = r]  BY <1>1, <1>2, <1>4, Zenon DEF Ping, PingClosed
<1>7. Proper(c, r, inFlight, value)  BY <1>1, <1>3, <1>5, Zenon DEF Proper
<1>8. UNCHANGED <<dbUp, value, taken, inFlight>>  BY Zenon DEF Ping, PingClosed
<1>9. QED  BY <1>6, <1>7, <1>8, OneCaller, Zenon

LEMMA RestStep ==
    ASSUME RInv, NEW c \in Callers, Rest(c)
    PROVE  RInv'
<1>1. /\ call[c].phase = "rest" /\ call[c] \in Call /\ inFlight = c /\ Good(call[c].answer)
      /\ call \in [Callers -> Call]
  BY Zenon DEF Rest, RInv, Proper
<1>2. PICK r : r \in { [call[c] EXCEPT !.phase = "store"],
                       [call[c] EXCEPT !.phase = "store",
                                       !.answer.status = Demote(@, "degraded")] }
               /\ call' = [call EXCEPT ![c] = r]
  BY <1>1, Zenon DEF Rest
<1>3. r \in Call /\ r.phase = "store" /\ Good(r.answer)
  <2>1. CASE r = [call[c] EXCEPT !.phase = "store"]
    BY <1>1, <2>1, Zenon DEF Call
  <2>2. CASE r = [call[c] EXCEPT !.phase = "store", !.answer.status = Demote(@, "degraded")]
    <3>1. PICK v : v = [call[c].answer EXCEPT !.status = Demote(@, "degraded")]  BY Zenon
    <3>2. Good(v)
      <4>1. CASE call[c].answer.status = "ok"
        <5>1. v = [call[c].answer EXCEPT !.status = "degraded"]  BY <3>1, <4>1, Zenon DEF Demote
        <5>2. QED  BY <1>1, <4>1, <5>1, Zenon DEF Good, Verdict, Statuses
      <4>2. CASE call[c].answer.status # "ok"
        <5>1. v = [call[c].answer EXCEPT !.status = call[c].answer.status]
          BY <3>1, <4>2, Zenon DEF Demote
        <5>2. v = call[c].answer  BY <1>1, <5>1, Zenon DEF Good, Verdict
        <5>3. QED  BY <1>1, <5>2, Zenon
      <4>3. QED  BY <4>1, <4>2, Zenon
    <3>3. r = [call[c] EXCEPT !.phase = "store", !.answer = v]  BY <1>1, <2>2, <3>1, Zenon DEF Call
    <3>4. r \in Call /\ r.phase = "store" /\ r.answer = v  BY <1>1, <3>2, <3>3, Zenon DEF Call, Good
    <3>5. QED  BY <3>2, <3>4, Zenon
  <2>3. QED  BY <1>2, <2>1, <2>2, Zenon
<1>4. Proper(c, r, inFlight, value)  BY <1>1, <1>3, Zenon DEF Proper
<1>5. UNCHANGED <<dbUp, value, taken, inFlight>>  BY Zenon DEF Rest
<1>6. QED  BY <1>2, <1>4, <1>5, OneCaller, Zenon

LEMMA StoreStep ==
    ASSUME RInv, NEW c \in Callers, Store(c)
    PROVE  RInv'
<1>1. /\ call[c].phase = "store" /\ call[c] \in Call /\ inFlight = c /\ Good(call[c].answer)
      /\ call \in [Callers -> Call] /\ call[c].gone \in BOOLEAN
  BY Zenon DEF Store, RInv, Proper, Call
<1>2. value' = call[c].answer /\ taken' = 0 /\ inFlight' = Nobody /\ dbUp' = dbUp
  BY Zenon DEF Store
<1>3. Good(value') /\ value' # NoVerdict  BY <1>1, <1>2, Answers, Zenon
<1>4. ASSUME NEW d \in Callers PROVE Proper(d, call'[d], inFlight', value')
  <2>1. d # Nobody /\ Proper(d, call[d], c, value) /\ call[d] \in Call
    BY <1>1, CallersAssumption DEF RInv
  <2>2. CASE d = c
    <3>1. call'[d] = Done(call[c].gone, call[c].answer)  BY <2>2, Zenon DEF Store, Release
    <3>2. Told(call[c].answer)  BY <1>1, Zenon DEF Told
    <3>3. /\ call'[d] \in Call /\ call'[d].phase = "done" /\ call'[d].answer = call[c].answer
      BY <1>1, <3>1, <3>2, DoneIsACall
    <3>4. QED  BY <1>2, <2>1, <3>2, <3>3, Zenon DEF Proper
  <2>3. CASE d # c /\ call[d].phase = "wait"
    <3>1. call'[d] = [call[d] EXCEPT !.phase = "woken"]  BY <2>3, Zenon DEF Store, Release
    <3>2. call'[d] \in Call /\ call'[d].phase = "woken"  BY <2>1, <3>1, Zenon DEF Call
    <3>3. QED  BY <1>2, <1>3, <2>1, <3>2, Zenon DEF Proper
  <2>4. CASE d # c /\ call[d].phase # "wait"
    <3>1. call'[d] = call[d]  BY <2>4, Zenon DEF Store, Release
    <3>2. QED  BY <1>2, <1>3, <2>1, <2>4, <3>1, Zenon DEF Proper
  <2>5. QED  BY <2>2, <2>3, <2>4, Zenon
<1>5. call' \in [Callers -> Call]
  <2>1. \A d \in Callers : call'[d] \in Call  BY <1>4, Zenon DEF Proper
  <2>2. DOMAIN call' = Callers /\ call' = [d \in Callers |-> call'[d]]  BY Zenon DEF Store, Release
  <2>3. QED  BY <2>1, <2>2, Zenon
<1>6. QED  BY <1>2, <1>3, <1>4, <1>5, TTLAssumption DEF RInv

LEMMA WakeStep ==
    ASSUME RInv, NEW c \in Callers, Wake(c)
    PROVE  RInv'
<1>1. /\ call[c].phase = "woken" /\ call[c].gone \in BOOLEAN /\ inFlight # c
      /\ Good(value) /\ call \in [Callers -> Call]
  BY Zenon DEF Wake, RInv, Proper, Call
<1>2. PICK r : r = Done(call[c].gone, value)  BY Zenon
<1>3. Told(value)  BY <1>1, Zenon DEF Told
<1>4. Proper(c, r, inFlight, value)  BY <1>1, <1>2, <1>3, DoneIsACall, Zenon DEF Proper
<1>5. call' = [call EXCEPT ![c] = r] /\ UNCHANGED <<dbUp, value, taken, inFlight>>
  BY <1>1, <1>2, Zenon DEF Wake
<1>6. QED  BY <1>4, <1>5, OneCaller, Zenon

LEMMA HangUpStep ==
    ASSUME RInv, NEW c \in Callers, HangUp(c)
    PROVE  RInv'
<1>1. /\ Proper(c, call[c], inFlight, value) /\ call[c] \in Call /\ call \in [Callers -> Call]
  BY Zenon DEF RInv
<1>2. PICK r : r = [call[c] EXCEPT !.gone = TRUE]  BY Zenon
<1>3. r \in Call /\ r.phase = call[c].phase /\ r.answer = call[c].answer  BY <1>1, <1>2, Zenon DEF Call
<1>4. Proper(c, r, inFlight, value)  BY <1>1, <1>3, Zenon DEF Proper
<1>5. call' = [call EXCEPT ![c] = r] /\ UNCHANGED <<dbUp, value, taken, inFlight>>
  BY <1>1, <1>2, Zenon DEF HangUp
<1>6. QED  BY <1>4, <1>5, OneCaller, Zenon

LEMMA RefusedStep ==
    ASSUME RInv, NEW c \in Callers, ConnectionRefused(c)
    PROVE  RInv'
<1>1. call[c].phase = "done" /\ inFlight # c
  BY Zenon DEF ConnectionRefused, Idle, RInv, Proper
<1>2. PICK r : r = Done(FALSE, NoAnswer)  BY Zenon
<1>3. Told(NoAnswer)  BY Zenon DEF Told
<1>4. Proper(c, r, inFlight, value)  BY <1>1, <1>2, <1>3, DoneIsACall, Zenon DEF Proper
<1>5. call' = [call EXCEPT ![c] = r] /\ UNCHANGED <<dbUp, value, taken, inFlight>>
  BY <1>2, Zenon DEF ConnectionRefused
<1>6. QED  BY <1>4, <1>5, OneCaller, Zenon

LEMMA VanishStep ==
    ASSUME RInv, Vanish
    PROVE  RInv'
<1>1. inFlight' = Nobody /\ value' = NoVerdict /\ taken' = TTL /\ dbUp' = dbUp
  BY Zenon DEF Vanish
<1>2. ASSUME NEW d \in Callers PROVE Proper(d, call'[d], Nobody, NoVerdict) /\ call'[d] \in Call
  <2>1. d # Nobody /\ Proper(d, call[d], inFlight, value) /\ call[d] \in Call
    BY CallersAssumption DEF RInv
  <2>2. CASE Idle(d)
    <3>1. call'[d] = call[d] /\ call[d].phase = "done"  BY <2>2, Zenon DEF Vanish, Idle
    <3>2. QED  BY <2>1, <3>1, Zenon DEF Proper
  <2>3. CASE ~Idle(d)
    <3>1. call'[d] = Done(call[d].gone, NoAnswer)  BY <2>3, Zenon DEF Vanish
    <3>2. Told(NoAnswer) /\ call[d].gone \in BOOLEAN  BY <2>1, Zenon DEF Told, Call
    <3>3. call'[d] \in Call /\ call'[d].phase = "done" /\ call'[d].answer = NoAnswer
      BY <3>1, <3>2, DoneIsACall
    <3>4. QED  BY <2>1, <3>2, <3>3, Zenon DEF Proper
  <2>4. QED  BY <2>2, <2>3, Zenon
<1>3. call' \in [Callers -> Call]
  <2>1. DOMAIN call' = Callers /\ call' = [d \in Callers |-> call'[d]]  BY Zenon DEF Vanish
  <2>2. QED  BY <1>2, <2>1, Zenon
<1>4. QED  BY <1>1, <1>2, <1>3, TTLAssumption DEF RInv

LEMMA RInvInit == ASSUME ApiInit PROVE RInv
<1>1. Told(NoAnswer) /\ FALSE \in BOOLEAN  BY Zenon DEF Told
<1>2. ASSUME NEW c \in Callers PROVE Proper(c, call[c], inFlight, value) /\ call[c] \in Call
  <2>1. call[c] = Done(FALSE, NoAnswer) /\ inFlight = Nobody /\ c # Nobody
    BY CallersAssumption DEF ApiInit
  <2>2. call[c] \in Call /\ call[c].phase = "done" /\ call[c].answer = NoAnswer
    BY <1>1, <2>1, DoneIsACall, Zenon
  <2>3. QED  BY <1>1, <2>1, <2>2, Zenon DEF Proper
<1>3. call \in [Callers -> Call]
  <2>1. DOMAIN call = Callers /\ call = [d \in Callers |-> call[d]]  BY Zenon DEF ApiInit
  <2>2. QED  BY <1>2, <2>1, Zenon
<1>4. dbUp \in BOOLEAN /\ value = NoVerdict /\ taken = TTL /\ inFlight = Nobody  BY Zenon DEF ApiInit
<1>5. TTL \in 0..TTL /\ ~(TTL < TTL)  BY TTLAssumption
<1>6. \A c \in Callers : Proper(c, call[c], inFlight, value)  BY <1>2
<1>7. QED  BY <1>3, <1>4, <1>5, <1>6, Zenon DEF RInv

\* Whoever leaves the cache, the callers and the database alone.
LEMMA Frame ==
    ASSUME RInv, UNCHANGED <<dbUp, value, taken, inFlight, call>>
    PROVE  RInv'
BY Zenon DEF RInv

LEMMA RInvStep == ASSUME RInv, [ApiNext]_apiVars PROVE RInv'
<1>1. CASE \/ BootRefused \/ BootServes \/ ListenerFails \/ Signal \/ MetricsStopped
           \/ ShutdownReturns \/ ShutdownTimesOut \/ Restart
  <2>1. UNCHANGED vars
    BY <1>1, Zenon DEF BootRefused, BootServes, ListenerFails, Signal, MetricsStopped,
                ShutdownReturns, ShutdownTimesOut, Restart
  <2>2. QED  BY <2>1, Frame, Zenon DEF vars
<1>2. CASE BeginDrain
  BY <1>2, Frame, Zenon DEF BeginDrain, Drain
<1>3. CASE WorkArrives \/ WorkQueries \/ QueryEnds \/ WorkEnds
  <2>1. UNCHANGED vars
    BY <1>3, Zenon DEF WorkArrives, WorkQueries, QueryEnds, WorkEnds, WorkMoves
  <2>2. QED  BY <2>1, Frame, Zenon DEF vars
<1>4. CASE Exit \/ Killed
  BY <1>4, VanishStep, Zenon DEF Exit, Killed
<1>5. CASE DatabaseFlips
  <2>1. dbUp' \in BOOLEAN /\ UNCHANGED <<value, taken, inFlight, call>>
    BY <1>5, Zenon DEF DatabaseFlips, Database
  <2>2. QED  BY <2>1, Zenon DEF RInv
<1>6. CASE ApiTick
  <2>1. UNCHANGED <<dbUp, value, inFlight, call>>  BY <1>6, Zenon DEF ApiTick
  <2>2. taken' \in 0..TTL /\ (taken' < TTL => taken < TTL)
    BY <1>6, TTLAssumption DEF ApiTick, RInv
  <2>3. QED  BY <2>1, <2>2, Zenon DEF RInv
<1>7. ASSUME NEW c \in Callers, ConnectionRefused(c) PROVE RInv'
  BY <1>7, RefusedStep, Zenon
<1>8. ASSUME NEW c \in Callers, handleReadyz(c) PROVE RInv'
  BY <1>8, ArriveStep, Zenon DEF handleReadyz
<1>9. ASSUME NEW c \in Callers, computeReadiness(c) PROVE RInv'
  BY <1>9, PingStep, RestStep, StoreStep, WakeStep, Zenon DEF computeReadiness
<1>10. ASSUME NEW c \in Callers, ProbeTimesOut(c) PROVE RInv'
  BY <1>10, HangUpStep, Zenon DEF ProbeTimesOut
<1>11. CASE UNCHANGED apiVars
  BY <1>11, Frame, Zenon DEF apiVars, vars
<1>12. QED
  BY <1>1, <1>2, <1>3, <1>4, <1>5, <1>6, <1>7, <1>8, <1>9, <1>10, <1>11, Zenon DEF ApiNext

\* RInv is an invariant of the process: the readiness cache has at most one
\* computation in flight, and every verdict in it has its cause.
THEOREM AlwaysRInv == ApiSpec => []RInv
BY RInvInit, RInvStep, PTL DEF ApiSpec

\* "Single-flight": at most one caller of readinessCache.Get computes, however
\* many arrive while the value is stale, and whoever waits waits for that one.
THEOREM ReadinessIsSingleFlight == ApiSpec => []SingleFlight
<1>1. ASSUME RInv PROVE SingleFlight
  <2>1. ASSUME NEW c \in Callers, Computing(c) PROVE inFlight = c
    BY <1>1, <2>1, Zenon DEF RInv, Proper, Computing
  <2>2. ASSUME NEW c \in Callers, call[c].phase = "wait" PROVE \E d \in Callers : Computing(d)
    <3>1. inFlight \in Callers  BY <1>1, <2>2, Zenon DEF RInv, Proper
    <3>2. Computing(inFlight)  BY <1>1, <3>1, Zenon DEF RInv, Proper, Computing
    <3>3. QED  BY <3>1, <3>2, Zenon
  <2>3. QED  BY <2>1, <2>2, Zenon DEF SingleFlight
<1>2. QED  BY <1>1, AlwaysRInv, PTL

\* A caller that readinessCache.Get lets in on a fresh value, or releases from
\* the shared computation, finds a computed value: nobody is handed the zero
\* readinessResponse, which handleReadyz would answer with 200.
THEOREM NobodyGetsTheZeroResponse == ApiSpec => []WaitersGetAVerdict
<1>1. ASSUME RInv PROVE WaitersGetAVerdict
  <2>1. ASSUME Fresh PROVE value # NoVerdict
    BY <1>1, <2>1, Zenon DEF RInv, Fresh
  <2>2. ASSUME NEW c \in Callers, call[c].phase = "woken" PROVE value # NoVerdict
    BY <1>1, <2>2, Zenon DEF RInv, Proper
  <2>3. QED  BY <2>1, <2>2, Zenon DEF WaitersGetAVerdict
<1>2. QED  BY <1>1, AlwaysRInv, PTL

\* A ready answer of handleReadyz comes from a process that had found its
\* database up: for any number of probes that share a computation, no other
\* component hides an unreachable PostgreSQL.
THEOREM ReadyIsAlwaysEarned == ApiSpec => []ReadyIsEarned
<1>1. ASSUME RInv PROVE ReadyIsEarned
  <2>1. SUFFICES ASSUME NEW c \in Callers, Idle(c), ProbeExit(c) = ExitReady
                 PROVE  call[c].answer.dbUp
    BY Zenon DEF ReadyIsEarned
  <2>2. Told(call[c].answer)  BY <1>1, <2>1, Zenon DEF RInv, Proper, Idle
  <2>3. CASE call[c].answer = NoAnswer
    BY <2>1, <2>3, Answers DEF ProbeExit, ExitReady, ExitNotReady
  <2>4. CASE Good(call[c].answer)
    BY <2>1, <2>4 DEF Good, ProbeExit, ExitReady, ExitNotReady
  <2>5. CASE call[c].answer.status = "draining"
    BY <2>1, <2>5 DEF ProbeExit, ExitReady, ExitNotReady
  <2>6. QED  BY <2>2, <2>3, <2>4, <2>5, Zenon DEF Told
<1>2. QED  BY <1>1, AlwaysRInv, PTL

-----------------------------------------------------------------------------
\* The exit code.

\* Between a Shutdown that returned nil and the end of the deferred calls no
\* request is active: none was when it returned, and the listener is closed.
Quiet == (stage = "closing" /\ exit = 0) => ~Active

CleanInv == Quiet /\ CleanExitCutsNobody

\* No step that stays in the deferred calls begins a request.
LEMMA NothingBegins ==
    ASSUME CleanInv, UNCHANGED <<stage, exit, cut>>,
           stage = "closing" => (~Active => ~Active')
    PROVE  CleanInv'
<1>1. CASE stage = "closing"  BY <1>1, Zenon DEF CleanInv, Quiet, CleanExitCutsNobody
<1>2. CASE stage # "closing"  BY <1>2, Zenon DEF CleanInv, Quiet, CleanExitCutsNobody
<1>3. QED  BY <1>1, <1>2, Zenon

LEMMA CleanStep == ASSUME RInv, CleanInv, [ApiNext]_apiVars PROVE CleanInv'
<1>1. CASE BootRefused \/ ListenerFails \/ ShutdownTimesOut
  <2>1. stage' = "closing" /\ exit' = 1
    BY <1>1, Zenon DEF BootRefused, ListenerFails, ShutdownTimesOut, Leave
  <2>2. QED  BY <2>1 DEF CleanInv, Quiet, CleanExitCutsNobody
<1>2. CASE ShutdownReturns
  <2>1. stage' = "closing" /\ ~Active /\ UNCHANGED <<work, call>>
    BY <1>2, Zenon DEF ShutdownReturns, Leave, vars
  <2>2. ~Active'  BY <2>1, Zenon DEF Active, Idle
  <2>3. QED  BY <2>1, <2>2, Zenon DEF CleanInv, Quiet, CleanExitCutsNobody
<1>3. CASE BootServes \/ BeginDrain \/ MetricsStopped \/ Restart
  <2>1. stage' \in {"serving", "metrics", "shutdown", "boot"}
    BY <1>3, Zenon DEF BootServes, BeginDrain, MetricsStopped, Restart
  <2>2. QED  BY <2>1, Zenon DEF CleanInv, Quiet, CleanExitCutsNobody
<1>4. CASE Exit
  <2>1. stage = "closing" /\ stage' = "exited" /\ exit' = exit /\ cut' = Active
    BY <1>4, Zenon DEF Exit, Vanish
  <2>2. exit = 0 => ~Active  BY <2>1, Zenon DEF CleanInv, Quiet
  <2>3. exit' = 0 => ~cut'  BY <2>1, <2>2, Zenon
  <2>4. QED  BY <2>1, <2>3, Zenon DEF CleanInv, Quiet, CleanExitCutsNobody
<1>5. CASE Killed
  <2>1. stage' = "exited" /\ exit' = 137  BY <1>5, Zenon DEF Killed, Vanish
  <2>2. QED  BY <2>1 DEF CleanInv, Quiet, CleanExitCutsNobody
<1>6. CASE Signal
  <2>1. UNCHANGED <<stage, exit, cut, work, call>>  BY <1>6, Zenon DEF Signal, vars
  <2>2. QED  BY <2>1, NothingBegins, Zenon DEF Active, Idle
<1>7. CASE WorkArrives \/ WorkQueries \/ QueryEnds \/ WorkEnds
  <2>1. UNCHANGED <<stage, exit, cut, call>>
    BY <1>7, Zenon DEF WorkArrives, WorkQueries, QueryEnds, WorkEnds, WorkMoves, vars
  <2>2. stage = "closing" => work # "none"
    BY <1>7, Zenon DEF WorkArrives, WorkQueries, QueryEnds, WorkEnds, WorkMoves, Listening
  <2>3. QED  BY <2>1, <2>2, NothingBegins, Zenon DEF Active
<1>8. CASE DatabaseFlips \/ ApiTick
  <2>1. UNCHANGED <<stage, exit, cut, work, call>>
    BY <1>8, Zenon DEF DatabaseFlips, Database, ApiTick, processVars
  <2>2. QED  BY <2>1, NothingBegins, Zenon DEF Active, Idle
<1>9. ASSUME NEW c \in Callers, ConnectionRefused(c) PROVE CleanInv'
  <2>1. /\ call' = [call EXCEPT ![c] = Done(FALSE, NoAnswer)]
        /\ UNCHANGED <<stage, exit, cut, work>>
    BY <1>9, Zenon DEF ConnectionRefused, processVars
  <2>2. \A d \in Callers : Idle(d) => Idle(d)'  BY <2>1, Zenon DEF RInv, Idle, Done
  <2>3. QED  BY <2>1, <2>2, NothingBegins, Zenon DEF Active
<1>10. ASSUME NEW c \in Callers, handleReadyz(c) PROVE CleanInv'
  <2>1. UNCHANGED <<stage, exit, cut>> /\ stage # "closing"
    BY <1>10, Zenon DEF handleReadyz, processVars, Listening
  <2>2. QED  BY <2>1, NothingBegins, Zenon
<1>11. ASSUME NEW c \in Callers, computeReadiness(c) \/ ProbeTimesOut(c) PROVE CleanInv'
  <2>1. UNCHANGED <<stage, exit, cut>>
    BY <1>11, Zenon DEF computeReadiness, ProbeTimesOut, processVars
  <2>2. Active
    BY <1>11, Zenon DEF computeReadiness, ProbeTimesOut, Ping, PingClosed, Rest, Store, Wake, HangUp,
                 Active, Idle
  <2>3. QED  BY <2>1, <2>2, NothingBegins, Zenon
<1>12. CASE UNCHANGED apiVars
  <2>1. UNCHANGED <<stage, exit, cut, work, call>>  BY <1>12, Zenon DEF apiVars, vars, processVars
  <2>2. QED  BY <2>1, NothingBegins, Zenon DEF Active, Idle
<1>13. QED
  BY <1>1, <1>2, <1>3, <1>4, <1>5, <1>6, <1>7, <1>8, <1>9, <1>10, <1>11, <1>12, Zenon DEF ApiNext

\* run() exits with 0 after a drain only when Shutdown saw every request to its
\* end: no request of any client was cut off, for every grace period.
THEOREM CleanExits == ApiSpec => []CleanExitCutsNobody
<1>1. ApiInit => CleanInv  BY Zenon DEF ApiInit, CleanInv, Quiet, CleanExitCutsNobody
<1>2. CleanInv => CleanExitCutsNobody  BY Zenon DEF CleanInv
<1>3. QED  BY <1>1, <1>2, CleanStep, AlwaysRInv, PTL DEF ApiSpec

-----------------------------------------------------------------------------
\* The evaluator.

\* What every reachable request looks like.
RequestOK == private \in BOOLEAN /\ subject \in Subjects

\* Callers only ever ask for well-formed subjects.
THEOREM AlwaysRequestOK == Spec => []RequestOK
<1>1. Init => RequestOK
  BY DEF Init, RequestOK, Subjects, Roles
<1>2. RequestOK /\ [Next]_authzVars => RequestOK'
  BY Zenon DEF RequestOK, Next, Ask, authzVars
<1>. QED  BY <1>1, <1>2, PTL DEF Spec

\* The order of the roles is transitive where staff begins.
LEMMA StaffIsUpwardClosed ==
    ASSUME NEW s \in Subjects, NEW t \in Subjects, Above(t, s), Staff(s)
    PROVE  Staff(t)
<1>1. s.role \in Roles /\ t.role \in Roles /\ s.staff \in BOOLEAN /\ t.staff \in BOOLEAN
  BY Zenon DEF Subjects
<1>2. \A role \in Roles : roleRank[role] \in Nat
  BY DEF Roles, roleRank
<1>3. t.staff
  BY <1>1, Zenon DEF Above, Staff
<1>4. roleRank[t.role] >= roleRank[s.role] /\ roleRank[s.role] >= roleRank["manager"]
  BY Zenon DEF Above, Staff, AtLeast
<1>5. roleRank[t.role] >= roleRank["manager"]
  BY <1>1, <1>2, <1>4 DEF Roles
<1>. QED  BY <1>3, <1>5, Zenon DEF Staff, AtLeast

\* Site export is by owner role, which is a staff role.
LEMMA ExportIsForOwnersAndStaff ==
    ASSUME NEW s \in Subjects, NEW r \in Resources, ExportAllows(s, r)
    PROVE  OwnerOrStaff(s, r)
<1>1. roleRank["owner"] >= roleRank["manager"]
  BY DEF roleRank
<1>. QED  BY <1>1, Zenon DEF ExportAllows, OwnerOrStaff, Staff, AtLeast

\* No surface shows what the item page would hide.
THEOREM ShownItemsAreReachable == Spec => []ShownIsReachable
<1>1. RequestOK => ShownIsReachable
  <2>. SUFFICES ASSUME RequestOK, NEW r \in Resources, ItemSurface,
                       Decide(private, subject, action, r)
                PROVE  Decide(private, subject, "item_page", r)
    BY Zenon DEF ShownIsReachable
  <2>1. ~(private /\ Anonymous(subject)) /\ r.visibility # "unset"
    BY Zenon DEF Decide
  <2>2. DirectAllows(subject, r)
    BY ExportIsForOwnersAndStaff, Zenon DEF RequestOK, Decide, ItemSurface, DirectAllows,
       DownloadAllows, ListingAllows, IPFSAllows, AggregateAllows, SearchAllows,
       CountAllows, OwnerOrStaff, Reachable
  <2>. QED  BY <2>1, <2>2, Zenon DEF Decide, Direct
<1>. QED  BY <1>1, AlwaysRequestOK, PTL

\* An item whose denial is a 404 is shown to strangers on no surface.
THEOREM HiddenItemsStayHidden == Spec => []HiddenFromStrangers
<1>1. RequestOK => HiddenFromStrangers
  <2>. SUFFICES ASSUME RequestOK, NEW r \in Resources, ItemSurface, HideExistence(r),
                       Decide(private, subject, action, r)
                PROVE  Owner(subject, r) \/ Staff(subject) \/ subject.hasGrant
    BY Zenon DEF HiddenFromStrangers
  <2>. QED
    BY ExportIsForOwnersAndStaff, Zenon DEF RequestOK, Decide, ItemSurface, HideExistence,
       DirectAllows, DownloadAllows, ListingAllows, IPFSAllows, AggregateAllows,
       SearchAllows, CountAllows, OwnerOrStaff, Reachable
<1>. QED  BY <1>1, AlwaysRequestOK, PTL

\* What a viewer is to a resource, a viewer with more is to it too.
LEMMA AboveKeepsStanding ==
    ASSUME NEW s \in Subjects, NEW t \in Subjects, Above(t, s), NEW r \in Resources
    PROVE  /\ Anonymous(t) => Anonymous(s)
           /\ Owner(s, r) => Owner(t, r)
           /\ OwnerOrStaff(s, r) => OwnerOrStaff(t, r)
           /\ ExportAllows(s, r) => ExportAllows(t, r)
<1>1. Anonymous(t) => Anonymous(s)
  BY Zenon DEF Above, Anonymous
<1>2. Owner(s, r) => Owner(t, r)
  BY Zenon DEF Above, Owner
<1>3. Staff(s) => Staff(t)
  BY StaffIsUpwardClosed, Zenon
<1>4. s.staff /\ s.role = "owner" => t.staff /\ t.role = "owner"
  <2>1. t.role \in Roles
    BY Zenon DEF Subjects
  <2>2. s.role = "owner" => roleRank[t.role] >= 5
    BY DEF Above, AtLeast, roleRank
  <2>3. s.role = "owner" => t.role = "owner"
    BY <2>1, <2>2 DEF Roles, roleRank
  <2>. QED  BY <2>3, Zenon DEF Above
<1>. QED  BY <1>1, <1>2, <1>3, <1>4, Zenon DEF OwnerOrStaff, ExportAllows

\* Signing in, a promotion, the audited context or a grant takes nothing away.
THEOREM PrivilegeIsMonotone == Spec => []PrivilegeOnlyAdds
<1>1. RequestOK => PrivilegeOnlyAdds
  <2>. SUFFICES ASSUME RequestOK, NEW t \in Subjects, Above(t, subject),
                       NEW r \in Resources, Decide(private, subject, action, r)
                PROVE  Decide(private, t, action, r)
    BY Zenon DEF PrivilegeOnlyAdds
  <2>. DEFINE s == subject
  <2>0. s \in Subjects
    BY Zenon DEF RequestOK
  <2>1. /\ Anonymous(t) => Anonymous(s)
        /\ Owner(s, r) => Owner(t, r)
        /\ OwnerOrStaff(s, r) => OwnerOrStaff(t, r)
        /\ ExportAllows(s, r) => ExportAllows(t, r)
    BY <2>0, AboveKeepsStanding, Zenon
  <2>2. Staff(s) => Staff(t)
    BY <2>0, StaffIsUpwardClosed, Zenon
  <2>3. /\ s.hasGrant => t.hasGrant
        /\ s.grantAllowsDownload => t.grantAllowsDownload
    BY Zenon DEF Above
  <2>4. DownloadAllows(s, r) => DownloadAllows(t, r)
    BY <2>1, <2>3 DEF DownloadAllows, DownloadSettingPermits
  <2>5. /\ DirectAllows(s, r) => DirectAllows(t, r)
        /\ CountAllows(s, r) => CountAllows(t, r)
        /\ AlbumAllows(s, r) => AlbumAllows(t, r)
        /\ AggregateAllows(s, r) => AggregateAllows(t, r)
        /\ SearchAllows(s, r) => SearchAllows(t, r)
        /\ ListingAllows(s, r) => ListingAllows(t, r)
        /\ IPFSAllows(s, r) => IPFSAllows(t, r)
    BY <2>1, <2>3, Zenon DEF DirectAllows, CountAllows, AlbumAllows, AggregateAllows,
       SearchAllows, ListingAllows, IPFSAllows
  <2>. QED  BY <2>1, <2>2, <2>4, <2>5, Zenon DEF Decide
<1>. QED  BY <1>1, AlwaysRequestOK, PTL

\* What is published to the world may be opened by everyone.
THEOREM PublicationsAreForEveryone == Spec => []PublishedIsForEveryone
<1>1. PublishedIsForEveryone
  <2>. SUFFICES ASSUME NEW r \in Resources, NEW t \in Subjects,
                       action \in Listing \union ListingIPFS,
                       Decide(private, subject, action, r), private => ~Anonymous(t)
                PROVE  Decide(private, t, "item_page", r)
    BY Zenon DEF PublishedIsForEveryone
  <2>1. r.visibility = "public"
    BY Zenon DEF Decide, Listing, ListingIPFS, Direct, Download, ListingAllows, IPFSAllows
  <2>. QED  BY <2>1, Zenon DEF Decide, Direct, DirectAllows, Reachable
<1>. QED  BY <1>1, PTL

\* A narrower setting keeps every viewer's standing and reaches no further.
LEMMA NarrowerReachesLess ==
    ASSUME NEW r \in Resources, NEW q \in Narrowings(r)
    PROVE  /\ q.owner = r.owner /\ q.ownLibrary = r.ownLibrary
           /\ q.ownerAllowsIPFS => r.ownerAllowsIPFS
           /\ q.visibility # "unset" => r.visibility # "unset"
           /\ q.visibility = "public" => r.visibility = "public"
           /\ Reachable(q) => Reachable(r)
           /\ q.albumPrivacy # "unset" => r.albumPrivacy # "unset"
           /\ q.albumPrivacy = "public" => r.albumPrivacy = "public"
           /\ q.download \in {"", "all"} => r.download \in {"", "all"}
           /\ q.download = "members" => r.download \in {"", "all", "members"}
<1>1. /\ r.visibility \in Visibilities /\ r.albumPrivacy \in AlbumPrivacies
      /\ r.download \in DownloadSettings
  BY Zenon DEF Resources
<1>2. CASE \E v \in NarrowerVisibility(r.visibility) : q = [r EXCEPT !.visibility = v]
  BY <1>1, <1>2 DEF NarrowerVisibility, Resources, Reachable, Visibilities
<1>3. CASE \E p \in NarrowerAlbum(r.albumPrivacy) : q = [r EXCEPT !.albumPrivacy = p]
  BY <1>1, <1>3 DEF NarrowerAlbum, Resources, Reachable
<1>4. CASE \E d \in NarrowerDownload(r.download) : q = [r EXCEPT !.download = d]
  BY <1>1, <1>4 DEF NarrowerDownload, Resources, Reachable
<1>5. CASE q = [r EXCEPT !.ownerAllowsIPFS = FALSE]
  BY <1>5 DEF Resources, Reachable
<1>. QED  BY <1>2, <1>3, <1>4, <1>5, Zenon DEF Narrowings

\* An owner who narrows a setting opens the item to nobody.
THEOREM NarrowingIsMonotone == Spec => []NarrowingOnlyRemoves
<1>1. NarrowingOnlyRemoves
  <2>. SUFFICES ASSUME NEW r \in Resources, NEW q \in Narrowings(r),
                       Decide(private, subject, action, q)
                PROVE  Decide(private, subject, action, r)
    BY Zenon DEF NarrowingOnlyRemoves
  <2>. DEFINE s == subject
  <2>1. /\ q.ownerAllowsIPFS => r.ownerAllowsIPFS
        /\ q.visibility # "unset" => r.visibility # "unset"
        /\ q.visibility = "public" => r.visibility = "public"
        /\ Reachable(q) => Reachable(r)
    BY NarrowerReachesLess
  <2>2. /\ Owner(s, q) <=> Owner(s, r)
        /\ OwnerOrStaff(s, q) <=> OwnerOrStaff(s, r)
        /\ ExportAllows(s, q) <=> ExportAllows(s, r)
        /\ q.ownLibrary = r.ownLibrary
    BY NarrowerReachesLess DEF Owner, OwnerOrStaff, ExportAllows
  <2>3. DownloadSettingPermits(s, q) => DownloadSettingPermits(s, r)
    <3>1. /\ q.download \in {"", "all"} => r.download \in {"", "all"}
          /\ q.download = "members" => r.download \in {"", "all", "members"}
      BY NarrowerReachesLess
    <3>2. QED BY <2>2, <3>1 DEF DownloadSettingPermits
  <2>4. AlbumAllows(s, q) => AlbumAllows(s, r)
    BY <2>2, NarrowerReachesLess DEF AlbumAllows
  <2>5. /\ DirectAllows(s, q) => DirectAllows(s, r)
        /\ CountAllows(s, q) => CountAllows(s, r)
        /\ AggregateAllows(s, q) => AggregateAllows(s, r)
        /\ SearchAllows(s, q) => SearchAllows(s, r)
        /\ ListingAllows(s, q) => ListingAllows(s, r)
        /\ IPFSAllows(s, q) => IPFSAllows(s, r)
    BY <2>1, <2>2, Zenon DEF DirectAllows, CountAllows, AggregateAllows, SearchAllows, ListingAllows,
       IPFSAllows
  <2>6. DownloadAllows(s, q) => DownloadAllows(s, r)
    BY <2>1, <2>2, <2>3, Zenon DEF DownloadAllows
  <2>. QED  BY <2>1, <2>2, <2>4, <2>5, <2>6, Zenon DEF Decide
<1>. QED  BY <1>1, PTL
=============================================================================
