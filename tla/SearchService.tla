--------------------------- MODULE SearchService ----------------------------
(***************************************************************************)
(* internal/search with a remote configured: Service in front of           *)
(* RemoteClient, whose two atomic flags everUsed and faulted are all that  *)
(* readiness knows of vizra-search.  Calls and probes overlap, and each    *)
(* load and store of a flag is a step of its own.  Calls are signed; the   *)
(* service holds them to Verify of RequestSigning, by its own clock and    *)
(* key, on a line that may delay or rewrite them.                          *)
(***************************************************************************)
EXTENDS RequestSigning

CONSTANTS
    Searchers,  \* goroutines that search, suggest or publish
    Probers,    \* goroutines that ask for Health
    Readings    \* what a clock may say, in unix seconds

ASSUME ReadingsAssumption == Readings \subseteq int64

ASSUME RolesAssumption == Searchers \intersect Probers = {}

VARIABLES
    remoteUp,   \* vizra-search answers (external)
    everUsed, faulted,
    act,        \* what each goroutine is doing
    answer,     \* what each prober was last told
    last,       \* history: the outcome that came in last, and what Service made of it
    mixed,      \* history: the request that began last was not alone
    searchNow,  \* vizra-search's clock (external)
    searchKey,  \* "key" when it was given core's SEARCH_HMAC_KEY; never changes
    heard       \* history: all requests accepted so far were fresh and as sent

searchVars == <<remoteUp, everUsed, faulted, act, answer, last, mixed, searchNow, searchKey, heard>>
service == <<searchNow, searchKey, heard>>

Goroutines == Searchers \union Probers
\* Which of the three a call serves matters to Service alone, once it is answered.
Ops == {"search", "suggest", "publish"}

\* What a request to the remote comes to: an answer, the answer that there is
\* no index, the 401 of a signature that does not verify, another response that
\* is not a 200 (or not readable), or no response.
Outcomes == {"ok", "not_indexed", "rejected", "bad", "refused"}
Fault(outcome) == outcome \in {"rejected", "bad", "refused"}

Act == [ phase : {"idle", "calling", "answered", "reading", "pinging", "pinged", "stored"},
         outcome : Outcomes \union {"none"},
         stamp : int64 ]    \* the timestamp of the request that is out, else 0
AtRest == [phase |-> "idle", outcome |-> "none", stamp |-> 0]
Goto(g, phase, outcome) ==
    act' = [act EXCEPT ![g] = [phase |-> phase, outcome |-> outcome, stamp |-> 0]]

SearchInit ==
    /\ remoteUp \in BOOLEAN
    /\ everUsed = FALSE /\ faulted = FALSE
    /\ act = [g \in Goroutines |-> AtRest]
    /\ answer = [g \in Probers |-> "none"]
    /\ last = [outcome |-> "none", served |-> "none"] /\ mixed = FALSE
    /\ searchNow \in Readings
    /\ searchKey \in {"key", "another"}
    /\ heard = TRUE

-----------------------------------------------------------------------------
\* A request of g is out, or its outcome is not in the flags yet.
Asking(g) == act[g].phase \in {"calling", "answered", "pinging", "pinged", "stored"}
Alone(g) == \A h \in Goroutines \ {g} : ~Asking(h)

\* A request fails when the remote is down, and also when the caller's context
\* ends before the answer.
Possible(outcome) == Fault(outcome) \/ remoteUp

\* call(): everUsed is stored, the request is signed by core's clock and sent.
CallBegin(g, now) ==
    /\ act[g].phase = "idle"
    /\ everUsed' = TRUE
    /\ act' = [act EXCEPT ![g] = [phase |-> "calling", outcome |-> "none", stamp |-> now]]
    /\ mixed' = ~Alone(g)
    /\ UNCHANGED <<remoteUp, faulted, answer, last, service>>

Request(g) == SignRequest("key", "path", "body", act[g].stamp)

\* Two clock readings as far apart as they may be, in whole numbers.
Close(s, t) == s - t <= MaxClockSkew /\ t - s <= MaxClockSkew

\* The service takes the request m that arrived, and answers it.
Accepts(g, m) ==
    /\ Verify(searchKey, m, searchNow)
    /\ heard' = (heard /\ Close(act[g].stamp, searchNow) /\ m = Request(g))

\* A rewritten request that is refused counts as a fault of the line, "bad".
CallAnswered(g, outcome) ==
    /\ act[g].phase = "calling"
    /\ Possible(outcome)
    /\ \/ /\ outcome \in {"ok", "not_indexed"}
          /\ \E m \in {Request(g)} \union Rewritten(Request(g)) : Accepts(g, m)
       \/ /\ outcome = "rejected" /\ remoteUp
          /\ ~Verify(searchKey, Request(g), searchNow)
          /\ UNCHANGED heard
       \/ /\ outcome \in {"bad", "refused"}
          /\ UNCHANGED heard
    /\ Goto(g, "answered", outcome)
    /\ last' = [outcome |-> outcome, served |-> "none"]
    /\ UNCHANGED <<remoteUp, everUsed, faulted, answer, mixed, searchNow, searchKey>>

\* What Service makes of the outcome.
Served(op, outcome) ==
    CASE op = "publish" -> IF Fault(outcome) THEN "error" ELSE "remote"
      [] outcome = "ok" -> "remote"
      [] OTHER          -> "sql"

\* Variant: only transport errors count as faults.
CallReturnsLenient(g, op) ==
    /\ act[g].phase = "answered"
    /\ faulted' = (act[g].outcome = "refused")
    /\ last' = [last EXCEPT !.served = Served(op, act[g].outcome)]
    /\ Goto(g, "idle", "none")
    /\ UNCHANGED <<remoteUp, everUsed, answer, mixed, service>>
\* The deferred store of call(), and Service's answer.
CallReturns(g, op) ==
    /\ act[g].phase = "answered"
    /\ faulted' = Fault(act[g].outcome)
    /\ last' = [last EXCEPT !.served = Served(op, act[g].outcome)]
    /\ Goto(g, "idle", "none")
    /\ UNCHANGED <<remoteUp, everUsed, answer, mixed, service>>

-----------------------------------------------------------------------------
\* Probe loads everUsed ...
ProbeBegin(g) ==
    /\ act[g].phase = "idle"
    /\ Goto(g, IF everUsed THEN "reading" ELSE "pinging", "none")
    /\ mixed' = IF everUsed THEN mixed ELSE ~Alone(g)
    /\ UNCHANGED <<remoteUp, everUsed, faulted, answer, last, service>>

\* ... and then faulted, ...
ProbeReads(g) ==
    /\ act[g].phase = "reading"
    /\ answer' = [answer EXCEPT ![g] = IF faulted THEN "degraded" ELSE "ok"]
    /\ Goto(g, "idle", "none")
    /\ UNCHANGED <<remoteUp, everUsed, faulted, last, mixed, service>>

\* ... or pings, when nothing was ever asked of the remote.
PingAnswered(g, outcome) ==
    /\ act[g].phase = "pinging"
    /\ outcome \notin {"not_indexed", "rejected"} /\ Possible(outcome)
    /\ Goto(g, "pinged", outcome)
    /\ last' = [outcome |-> outcome, served |-> "none"]
    /\ UNCHANGED <<remoteUp, everUsed, faulted, answer, mixed, service>>

\* A transport error stores faulted first, a response everUsed.
PingStores(g) ==
    /\ act[g].phase = "pinged"
    /\ IF act[g].outcome = "refused"
         THEN faulted' = TRUE /\ UNCHANGED everUsed
         ELSE everUsed' = TRUE /\ UNCHANGED faulted
    /\ Goto(g, "stored", act[g].outcome)
    /\ UNCHANGED <<remoteUp, answer, last, mixed, service>>

\* And then the other flag.
PingReturns(g) ==
    /\ act[g].phase = "stored"
    /\ IF act[g].outcome = "refused"
         THEN everUsed' = TRUE /\ UNCHANGED faulted
         ELSE faulted' = Fault(act[g].outcome) /\ UNCHANGED everUsed
    /\ answer' = [answer EXCEPT ![g] = IF Fault(act[g].outcome) THEN "degraded" ELSE "ok"]
    /\ Goto(g, "idle", "none")
    /\ UNCHANGED <<remoteUp, last, mixed, service>>

Remote ==
    /\ remoteUp' = ~remoteUp
    /\ UNCHANGED <<everUsed, faulted, act, answer, last, mixed, service>>

\* Its clock moves on, or is set.
SearchClock ==
    /\ searchNow' \in Readings
    /\ UNCHANGED <<remoteUp, everUsed, faulted, act, answer, last, mixed, searchKey, heard>>

SearchNext ==
    \/ Remote \/ SearchClock
    \/ \E g \in Searchers : \/ \E now \in Readings : CallBegin(g, now)
                            \/ \E outcome \in Outcomes : CallAnswered(g, outcome)
                            \/ \E op \in Ops : CallReturns(g, op)
    \/ \E g \in Probers : \/ ProbeBegin(g) \/ ProbeReads(g)
                          \/ \E outcome \in Outcomes : PingAnswered(g, outcome)
                          \/ PingStores(g) \/ PingReturns(g)

SearchSpec == SearchInit /\ [][SearchNext]_searchVars

\* Goroutines run, requests end (http.Client.Timeout), and readiness is polled.
\* Nothing makes anybody search.
SearchFairness ==
    /\ \A g \in Searchers :
          /\ WF_searchVars(\E outcome \in Outcomes : CallAnswered(g, outcome))
          /\ WF_searchVars(\E op \in Ops : CallReturns(g, op))
    /\ \A g \in Probers :
          /\ WF_searchVars(ProbeBegin(g)) /\ WF_searchVars(ProbeReads(g))
          /\ WF_searchVars(\E outcome \in Outcomes : PingAnswered(g, outcome))
          /\ WF_searchVars(PingStores(g)) /\ WF_searchVars(PingReturns(g))

FairSearchSpec == SearchSpec /\ SearchFairness

-----------------------------------------------------------------------------
\* Types.
SearchTypeOK ==
    /\ remoteUp \in BOOLEAN /\ everUsed \in BOOLEAN /\ faulted \in BOOLEAN
    /\ act \in [Goroutines -> Act]
    /\ answer \in [Probers -> {"none", "ok", "degraded"}]
    /\ last \in [ outcome : Outcomes \union {"none"}, served : {"none", "remote", "sql", "error"} ]
    /\ mixed \in BOOLEAN
    /\ searchNow \in Readings /\ searchKey \in {"key", "another"} /\ heard \in BOOLEAN

\* Prober g is told the health of search.
Told(g) == act[g].phase \in {"reading", "stored"} /\ act'[g] = AtRest

\* "Never a silent fallback": a probe that is answered while no other request is
\* out is told that search is degraded exactly when the request that was answered
\* last came to a fault - which a call() that SQL stands in for is, unless the
\* service had no index - and is told nothing before there was one.  Unless that
\* request overlapped another: then the flags keep what was stored last.
FaultsAreVisible ==
    [][\A g \in Probers : (Told(g) /\ Alone(g) /\ ~mixed) =>
          /\ last.outcome # "none"
          /\ answer'[g] = IF Fault(last.outcome) THEN "degraded" ELSE "ok"
          /\ last.served = "sql" => answer'[g] = "degraded" \/ last.outcome = "not_indexed"
      ]_searchVars

\* The window closes, on every clock: what the service accepts is what core
\* sent, under one key, and the two clock readings are no further apart than
\* MaxClockSkew - in whole numbers, not in int64.
AcceptedIsFreshAndIntact == heard

\* And the window is open: a request that reaches a service with the right key,
\* unchanged, within MaxClockSkew of two usable clocks, is never refused for its
\* signature.
HonestIsNotRejected ==
    [][\A g \in Searchers :
          (/\ act[g].phase = "calling" /\ searchKey = "key"
           /\ {act[g].stamp, searchNow} \subseteq MinTimestamp..MaxTimestamp
           /\ Close(act[g].stamp, searchNow)) => act'[g].outcome # "rejected"
      ]_searchVars

\* The comment of RemoteClient: "a service that recovers reports ok again without
\* a restart": once vizra-search stays up and no request fails any more, the
\* probes settle on ok.
RecoversWithoutARestart ==
    <>[](remoteUp /\ \A g \in Goroutines : ~Fault(act[g].outcome))
       => \A g \in Probers : <>[](answer[g] = "ok")
=============================================================================
