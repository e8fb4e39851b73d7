------------------------- MODULE SearchServiceProofs ------------------------
(***************************************************************************)
(* Proofs about RequestSigning and SearchService, for any searchers and    *)
(* probers, every clock reading in int64 and every window.                 *)
(***************************************************************************)
EXTENDS SearchService, TLAPS

-----------------------------------------------------------------------------
\* The window.

\* The subtraction that WithinWindow makes cannot wrap, and neither can the
\* negation: both operands have been checked against the range.  What it lets
\* through is within MaxClockSkew in whole numbers, whatever the clock says.
LEMMA WindowCloses ==
    ASSUME NEW s \in Int, NEW t \in Int, WithinWindow(s, t)
    PROVE  Close(s, t)
<1>1. /\ Int64Limit \in Nat /\ MinTimestamp \in Nat /\ MaxTimestamp \in Nat /\ MaxClockSkew \in Nat
      /\ 0 < MinTimestamp /\ MaxTimestamp < Int64Limit
  BY TimestampAssumption
<1>2. /\ MinTimestamp <= s /\ s <= MaxTimestamp /\ MinTimestamp <= t /\ t <= MaxTimestamp
  BY DEF WithinWindow
<1>3. Wrap(t - s) = t - s /\ Wrap(-(t - s)) = -(t - s)
  BY <1>1, <1>2 DEF Wrap
<1>4. QED  BY <1>1, <1>2, <1>3 DEF WithinWindow, Close

\* And nothing else is kept out: two usable clocks that agree within the skew
\* are let through.
LEMMA WindowIsOpen ==
    ASSUME NEW s \in MinTimestamp..MaxTimestamp, NEW t \in MinTimestamp..MaxTimestamp, Close(s, t)
    PROVE  WithinWindow(s, t)
<1>1. /\ Int64Limit \in Nat /\ MinTimestamp \in Nat /\ MaxTimestamp \in Nat /\ MaxClockSkew \in Nat
      /\ 0 < MinTimestamp /\ MaxTimestamp < Int64Limit
  BY TimestampAssumption
<1>2. Wrap(t - s) = t - s /\ Wrap(-(t - s)) = -(t - s)
  BY <1>1 DEF Wrap
<1>3. QED  BY <1>1, <1>2 DEF WithinWindow, Close

-----------------------------------------------------------------------------
\* Requests.

\* The service refuses every request that is not the one that was signed.
LEMMA RewrittenIsRefused ==
    ASSUME NEW key, NEW s \in Int, NEW t \in Int,
           NEW m \in Rewritten(SignRequest("key", "path", "body", s)), Verify(key, m, t)
    PROVE  FALSE
<1> DEFINE r == SignRequest("key", "path", "body", s)
<1>1. CASE m = [r EXCEPT !.method = "post"]
  BY <1>1 DEF Verify, ValidateMethod, SignRequest
<1>2. CASE m = [r EXCEPT !.path = "another"]
  BY <1>2 DEF Verify, Sign, SignRequest
<1>3. CASE m = [r EXCEPT !.copies = 0] \/ m = [r EXCEPT !.copies = 2]
  <2>1. r.copies = 1 /\ DOMAIN r = {"method", "path", "ts", "nonce", "body", "copies", "sig"}
    BY DEF SignRequest
  <2>2. m.copies # 1  BY <1>3, <2>1
  <2>3. QED  BY <2>2 DEF Verify
<1>4. CASE m = [r EXCEPT !.nonce = "upper hex"]
  BY <1>4 DEF Verify, ValidateNonce, SignRequest
<1>5. CASE m = [r EXCEPT !.body = "another"]
  BY <1>5 DEF Verify, Sign, SignRequest
<1>6. CASE m = [r EXCEPT !.ts.bare = FALSE]
  BY <1>6 DEF Verify, ValidateTimestamp, SignRequest, FormatInt
<1>7. QED  BY <1>1, <1>2, <1>3, <1>4, <1>5, <1>6 DEF Rewritten

\* A request that is accepted as it was sent was signed within the window.
LEMMA AcceptedIsClose ==
    ASSUME NEW key, NEW s \in Int, NEW t \in Int,
           Verify(key, SignRequest("key", "path", "body", s), t)
    PROVE  Close(s, t)
<1>1. WithinWindow(s, t)  BY DEF Verify, SignRequest, FormatInt
<1>2. QED  BY <1>1, WindowCloses

-----------------------------------------------------------------------------
\* Invariants.

LEMMA TypeInit == ASSUME SearchInit PROVE SearchTypeOK
<1>1. 0 \in int64
  BY TimestampAssumption DEF int64
<1>2. AtRest \in Act  BY <1>1 DEF AtRest, Act
<1>3. QED  BY <1>2, Zenon DEF SearchInit, SearchTypeOK, Outcomes

\* What a goroutine goes on with.
LEMMA GotoType ==
    ASSUME SearchTypeOK, NEW g \in Goroutines,
           NEW phase \in {"idle", "calling", "answered", "reading", "pinging", "pinged", "stored"},
           NEW outcome \in Outcomes \union {"none"}, Goto(g, phase, outcome)
    PROVE  act' \in [Goroutines -> Act]
<1>1. 0 \in int64
  BY TimestampAssumption DEF int64
<1>2. [phase |-> phase, outcome |-> outcome, stamp |-> 0] \in Act  BY <1>1 DEF Act
<1>3. QED  BY <1>2 DEF Goto, SearchTypeOK

LEMMA TypeStep == ASSUME SearchTypeOK, [SearchNext]_searchVars PROVE SearchTypeOK'
<1> DEFINE Outcome0 == Outcomes \union {"none"}
<1>0. Searchers \subseteq Goroutines /\ Probers \subseteq Goroutines  BY DEF Goroutines
<1>1. ASSUME NEW g \in Searchers, NEW now \in Readings, CallBegin(g, now) PROVE SearchTypeOK'
  <2>1. [phase |-> "calling", outcome |-> "none", stamp |-> now] \in Act
    BY ReadingsAssumption DEF Act
  <2>2. mixed' \in BOOLEAN  BY <1>1, Zenon DEF CallBegin, Alone
  <2>3. QED  BY <1>0, <1>1, <2>1, <2>2 DEF CallBegin, SearchTypeOK, service
<1>2. ASSUME NEW g \in Searchers, NEW outcome \in Outcomes, CallAnswered(g, outcome) PROVE SearchTypeOK'
  <2>1. heard' \in BOOLEAN  BY <1>2, Zenon DEF CallAnswered, Accepts, SearchTypeOK
  <2>2. act' \in [Goroutines -> Act]  BY <1>0, <1>2, GotoType DEF CallAnswered
  <2>3. last' \in [outcome : Outcome0, served : {"none", "remote", "sql", "error"}]
    BY <1>2 DEF CallAnswered
  <2>4. QED  BY <1>2, <2>1, <2>2, <2>3 DEF CallAnswered, SearchTypeOK
<1>3. ASSUME NEW g \in Searchers, NEW op \in Ops, CallReturns(g, op) PROVE SearchTypeOK'
  <2>1. act[g].outcome \in Outcome0  BY <1>0 DEF SearchTypeOK, Act
  <2>2. Served(op, act[g].outcome) \in {"remote", "sql", "error"}  BY DEF Served
  <2>3. act' \in [Goroutines -> Act]  BY <1>0, <1>3, GotoType DEF CallReturns
  <2>4. QED  BY <1>3, <2>1, <2>2, <2>3 DEF CallReturns, SearchTypeOK, service, Fault
<1>4. ASSUME NEW g \in Probers, ProbeBegin(g) PROVE SearchTypeOK'
  <2>1. act' \in [Goroutines -> Act]  BY <1>0, <1>4, GotoType DEF ProbeBegin
  <2>2. mixed' \in BOOLEAN  BY <1>4, Zenon DEF ProbeBegin, Alone, SearchTypeOK
  <2>3. QED  BY <1>4, <2>1, <2>2 DEF ProbeBegin, SearchTypeOK, service
<1>5. ASSUME NEW g \in Probers, NEW outcome \in Outcomes, PingAnswered(g, outcome) PROVE SearchTypeOK'
  <2>1. act' \in [Goroutines -> Act]  BY <1>0, <1>5, GotoType DEF PingAnswered
  <2>2. last' \in [outcome : Outcome0, served : {"none", "remote", "sql", "error"}]
    BY <1>5 DEF PingAnswered
  <2>3. QED  BY <1>5, <2>1, <2>2 DEF PingAnswered, SearchTypeOK, service
<1>6. ASSUME NEW g \in Probers, ProbeReads(g) PROVE SearchTypeOK'
  <2>1. act' \in [Goroutines -> Act]  BY <1>0, <1>6, GotoType DEF ProbeReads
  <2>2. QED  BY <1>6, <2>1 DEF ProbeReads, SearchTypeOK, service
<1>7. ASSUME NEW g \in Probers, PingStores(g) \/ PingReturns(g) PROVE SearchTypeOK'
  <2>1. act[g].outcome \in Outcome0  BY <1>0 DEF SearchTypeOK, Act
  <2>2. act' \in [Goroutines -> Act]
    BY <1>0, <1>7, <2>1, GotoType DEF PingStores, PingReturns
  <2>3. CASE PingStores(g)
    BY <2>2, <2>3, Zenon DEF PingStores, SearchTypeOK, service
  <2>4. CASE PingReturns(g)
    <3>1. Fault(act[g].outcome) \in BOOLEAN  BY DEF Fault
    <3>2. faulted' \in BOOLEAN /\ everUsed' \in BOOLEAN  BY <2>4, <3>1, Zenon DEF PingReturns, SearchTypeOK
    <3>3. answer' \in [Probers -> {"none", "ok", "degraded"}]  BY <2>4 DEF PingReturns, SearchTypeOK
    <3>4. QED  BY <2>2, <2>4, <3>2, <3>3 DEF PingReturns, SearchTypeOK, service
  <2>5. QED  BY <1>7, <2>3, <2>4
<1>8. CASE Remote \/ SearchClock \/ UNCHANGED searchVars
  BY <1>8, Zenon DEF Remote, SearchClock, searchVars, SearchTypeOK, service
<1>9. QED  BY <1>1, <1>2, <1>3, <1>4, <1>6, <1>7, <1>8, <1>5 DEF SearchNext

\* Nothing else than a fresh request, as it was sent, is ever accepted.
LEMMA HeardStep == ASSUME SearchTypeOK, heard, [SearchNext]_searchVars PROVE heard'
<1>1. ASSUME NEW g \in Searchers, NEW outcome \in Outcomes, CallAnswered(g, outcome) PROVE heard'
  <2>1. act[g].stamp \in Int /\ searchNow \in Int
    BY TimestampAssumption, ReadingsAssumption DEF SearchTypeOK, Act, int64, Goroutines
  <2>2. ASSUME NEW m \in {Request(g)} \union Rewritten(Request(g)), Accepts(g, m) PROVE heard'
    <3>1. m = Request(g)
      BY <2>1, <2>2, RewrittenIsRefused DEF Accepts, Request
    <3>2. Close(act[g].stamp, searchNow)
      BY <2>1, <2>2, <3>1, AcceptedIsClose DEF Accepts, Request
    <3>3. QED  BY <2>2, <3>1, <3>2, Zenon DEF Accepts
  <2>3. QED  BY <1>1, <2>2, Zenon DEF CallAnswered
<1>2. ASSUME ~\E g \in Searchers, outcome \in Outcomes : CallAnswered(g, outcome) PROVE heard' = heard
  BY <1>2, Zenon DEF SearchNext, searchVars, service, Remote, SearchClock, CallBegin, CallReturns,
              ProbeBegin, ProbeReads, PingAnswered, PingStores, PingReturns
<1>3. QED  BY <1>1, <1>2, Zenon

\* AcceptedIsFreshAndIntact holds of Verify for every clock reading of both
\* sides: the range check before the subtraction leaves no difference that wraps.
THEOREM ServiceAcceptsFreshRequests == SearchSpec => []AcceptedIsFreshAndIntact
<1>1. SearchInit => SearchTypeOK /\ heard  BY TypeInit, Zenon DEF SearchInit
<1>2. (SearchTypeOK /\ heard) /\ [SearchNext]_searchVars => (SearchTypeOK /\ heard)'  BY TypeStep, HeardStep
<1>3. SearchTypeOK /\ heard => AcceptedIsFreshAndIntact  BY DEF AcceptedIsFreshAndIntact
<1>4. QED  BY <1>1, <1>2, <1>3, PTL DEF SearchSpec

\* While a call is out it has no outcome.
Unanswered == \A g \in Goroutines : act[g].phase = "calling" => act[g].outcome = "none"

\* The goroutine that moves, and what becomes of it.
LEMMA OneMoves ==
    ASSUME SearchTypeOK, [SearchNext]_searchVars, act' # act
    PROVE  \E g \in Goroutines, a \in Act :
              /\ act' = [act EXCEPT ![g] = a]
              /\ a.phase = "calling" => a.outcome = "none"
              /\ g \in Searchers =>
                    a.outcome = "none" \/ \E outcome \in Outcomes : CallAnswered(g, outcome) /\ a.outcome = outcome
<1> DEFINE Moves(g, a) ==
      /\ act' = [act EXCEPT ![g] = a]
      /\ a.phase = "calling" => a.outcome = "none"
      /\ g \in Searchers =>
            a.outcome = "none" \/ \E outcome \in Outcomes : CallAnswered(g, outcome) /\ a.outcome = outcome
    Does(phase, outcome) == [phase |-> phase, outcome |-> outcome, stamp |-> 0]
<1>0. /\ Searchers \subseteq Goroutines /\ Probers \subseteq Goroutines
      /\ act \in [Goroutines -> Act] /\ 0 \in int64
  BY TimestampAssumption DEF Goroutines, SearchTypeOK, int64
<1>1. ASSUME NEW g \in Searchers, NEW now \in Readings, CallBegin(g, now)
      PROVE  \E a \in Act : Moves(g, a)
  <2>1. PICK a \in Act : a = [phase |-> "calling", outcome |-> "none", stamp |-> now]
    BY ReadingsAssumption, Zenon DEF Act
  <2>2. Moves(g, a)  BY <1>1, <2>1 DEF CallBegin
  <2>3. QED  BY <2>2, Zenon
<1>2. ASSUME NEW g \in Searchers, NEW outcome \in Outcomes, CallAnswered(g, outcome)
      PROVE  \E a \in Act : Moves(g, a)
  <2>1. PICK a \in Act : a = Does("answered", outcome)  BY <1>0, Zenon DEF Act
  <2>2. a.phase = "answered" /\ a.outcome = outcome  BY <2>1
  <2>3. act' = [act EXCEPT ![g] = a]  BY <1>2, <2>1 DEF CallAnswered, Goto
  <2>4. QED  BY <1>2, <2>2, <2>3, Zenon
<1>3. ASSUME NEW g \in Searchers, NEW op \in Ops, CallReturns(g, op)
      PROVE  \E a \in Act : Moves(g, a)
  <2>1. PICK a \in Act : a = Does("idle", "none")  BY <1>0, Zenon DEF Act
  <2>2. Moves(g, a)  BY <1>3, <2>1 DEF CallReturns, Goto
  <2>3. QED  BY <2>2, Zenon
<1>4. ASSUME NEW g \in Probers, NEW phase \in {"idle", "reading", "pinging", "pinged", "stored"},
             NEW outcome \in Outcomes \union {"none"}, Goto(g, phase, outcome)
      PROVE  \E a \in Act : Moves(g, a)
  <2>1. PICK a \in Act : a = Does(phase, outcome)  BY <1>0, Zenon DEF Act
  <2>2. a.phase # "calling" /\ g \notin Searchers  BY <2>1, RolesAssumption
  <2>3. act' = [act EXCEPT ![g] = a]  BY <1>4, <2>1 DEF Goto
  <2>4. QED  BY <2>2, <2>3, Zenon
<1>5. ASSUME NEW g \in Probers,
             \/ ProbeBegin(g) \/ ProbeReads(g) \/ PingStores(g) \/ PingReturns(g)
             \/ \E outcome \in Outcomes : PingAnswered(g, outcome)
      PROVE  \E phase \in {"idle", "reading", "pinging", "pinged", "stored"},
                outcome \in Outcomes \union {"none"} : Goto(g, phase, outcome)
  <2>1. act[g].outcome \in Outcomes \union {"none"}  BY <1>0 DEF Act
  <2>2. QED  BY <1>5, <2>1 DEF ProbeBegin, ProbeReads, PingStores, PingReturns, PingAnswered
<1>6. ~(Remote \/ SearchClock \/ UNCHANGED searchVars)
  BY Zenon DEF Remote, SearchClock, searchVars
<1> HIDE DEF Moves
<1>7. \E g \in Goroutines : \E a \in Act : Moves(g, a)
  BY <1>0, <1>1, <1>2, <1>3, <1>4, <1>5, <1>6, Zenon DEF SearchNext
<1>8. QED  BY <1>7, Zenon DEF Moves

LEMMA UnansweredStep == ASSUME SearchTypeOK, Unanswered, [SearchNext]_searchVars PROVE Unanswered'
<1>1. CASE act' = act  BY <1>1, Zenon DEF Unanswered
<1>2. CASE act' # act
  <2>1. PICK g \in Goroutines, a \in Act :
           act' = [act EXCEPT ![g] = a] /\ (a.phase = "calling" => a.outcome = "none")
    BY <1>2, OneMoves, Zenon
  <2>2. act \in [Goroutines -> Act]  BY Zenon DEF SearchTypeOK
  <2>3. QED  BY <2>1, <2>2 DEF Unanswered
<1>3. QED  BY <1>1, <1>2

\* HonestIsNotRejected: for every clock reading of both sides, an honest request
\* within the window is not refused for its signature.
THEOREM HonestRequestsAreNotRejected == SearchSpec => HonestIsNotRejected
<1>1. SearchInit => SearchTypeOK /\ Unanswered
  <2> SUFFICES ASSUME SearchInit PROVE Unanswered  BY TypeInit
  <2>1. \A g \in Goroutines : act[g].outcome = "none"  BY DEF SearchInit, AtRest
  <2>2. QED  BY <2>1, Zenon DEF Unanswered
<1>2. (SearchTypeOK /\ Unanswered) /\ [SearchNext]_searchVars => (SearchTypeOK /\ Unanswered)'
  BY TypeStep, UnansweredStep
<1> DEFINE Honest(g) ==
      /\ act[g].phase = "calling" /\ searchKey = "key"
      /\ {act[g].stamp, searchNow} \subseteq MinTimestamp..MaxTimestamp
      /\ Close(act[g].stamp, searchNow)
<1>3. ASSUME NEW g \in Searchers, Honest(g) PROVE Verify(searchKey, Request(g), searchNow)
  <2>1. PICK s \in MinTimestamp..MaxTimestamp : s = act[g].stamp  BY <1>3
  <2>2. WithinWindow(s, searchNow)  BY <1>3, <2>1, WindowIsOpen
  <2>3. s > 0 /\ MinTimestamp <= s /\ s <= MaxTimestamp  BY TimestampAssumption
  <2>4. Verify("key", SignRequest("key", "path", "body", s), searchNow)
    BY <2>2, <2>3, Zenon
    DEF Verify, SignRequest, FormatInt, ValidateMethod, ValidateNonce, ValidateTimestamp
  <2>5. QED  BY <1>3, <2>1, <2>4, Zenon DEF Request
<1>4. ASSUME SearchTypeOK, Unanswered, [SearchNext]_searchVars, NEW g \in Searchers, Honest(g)
      PROVE  act'[g].outcome # "rejected"
  <2>1. act \in [Goroutines -> Act] /\ g \in Goroutines  BY <1>4, Zenon DEF SearchTypeOK, Goroutines
  <2>2. act[g].outcome = "none"  BY <1>4, <2>1, Zenon DEF Unanswered
  <2>3. CASE act' = act  BY <2>2, <2>3
  <2>4. CASE act' # act
    <3>1. PICK h \in Goroutines, a \in Act :
            /\ act' = [act EXCEPT ![h] = a]
            /\ h \in Searchers =>
                  a.outcome = "none" \/ \E outcome \in Outcomes : CallAnswered(h, outcome) /\ a.outcome = outcome
      BY <1>4, <2>4, OneMoves, Zenon
    <3>2. CASE h # g  BY <2>1, <2>2, <3>1, <3>2
    <3>3. CASE h = g
      <4>1. act'[g] = a  BY <2>1, <3>1, <3>3
      <4>2. ~CallAnswered(g, "rejected")  BY <1>3, <1>4 DEF CallAnswered
      <4>3. a.outcome # "rejected"  BY <1>4, <3>1, <3>3, <4>2
      <4>4. QED  BY <4>1, <4>3, Zenon
    <3>4. QED  BY <3>2, <3>3
  <2>5. QED  BY <2>3, <2>4
<1>5. (SearchTypeOK /\ Unanswered) /\ [SearchNext]_searchVars =>
         [\A g \in Searchers : Honest(g) => act'[g].outcome # "rejected"]_searchVars
  BY <1>4, Zenon
<1>6. QED  BY <1>1, <1>2, <1>5, PTL DEF SearchSpec, HonestIsNotRejected

-----------------------------------------------------------------------------
\* The flags.

\* The outcome of g is known, and not, or not wholly, in the flags.
Known(g) == act[g].phase \in {"answered", "pinged", "stored"}

\* The flags say what the request that was answered last came to.
Settled ==
    /\ everUsed <=> last.outcome # "none"
    /\ last.outcome # "none" => faulted = Fault(last.outcome)
    /\ last.served = "sql" => Fault(last.outcome) \/ last.outcome = "not_indexed"

\* What holds of g however requests overlap, and what holds of it alone.
Shared(g) ==
    /\ Known(g) => act[g].outcome \in Outcomes
    /\ act[g].phase \in {"reading", "calling", "answered"} => everUsed
Own(g) ==
    /\ Known(g) => last.outcome = act[g].outcome /\ last.served = "none"
    /\ act[g].phase = "stored" => IF act[g].outcome = "refused" THEN faulted ELSE everUsed

\* Unless the last request overlapped another, at most one is under way; what
\* it has stored is its own, and when there is none the flags are settled.
FlagsInv ==
    /\ \A g \in Goroutines : Shared(g)
    /\ ~mixed =>
          /\ \A g \in Goroutines : Own(g) /\ (Asking(g) => Alone(g))
          /\ (\A g \in Goroutines : ~Asking(g)) => Settled

\* A request that begins, goes on or ends: nobody else is asking, unless the
\* requests are mixed.
LEMMA AskerStep ==
    ASSUME SearchTypeOK, FlagsInv, NEW g \in Goroutines, NEW a, act' = [act EXCEPT ![g] = a],
           everUsed => everUsed', ~mixed' => Alone(g), Shared(g)',
           ~mixed' => Own(g)' /\ (~Asking(g)' => Settled')
    PROVE  FlagsInv'
<1>1. act \in [Goroutines -> Act]  BY DEF SearchTypeOK
<1>2. \A h \in Goroutines \ {g} : act'[h] = act[h]  BY <1>1
<1>3. \A h \in Goroutines : Shared(h)'  BY <1>2, Zenon DEF FlagsInv, Shared, Known
<1>4. ASSUME ~mixed', NEW h \in Goroutines \ {g} PROVE ~Asking(h)' /\ Own(h)'
  <2>1. act'[h].phase \notin {"calling", "answered", "pinging", "pinged", "stored"}
    BY <1>2, <1>4, Zenon DEF Alone, Asking
  <2>2. QED  BY <2>1 DEF Asking, Own, Known
<1>5. ASSUME ~mixed' PROVE \A h \in Goroutines : Own(h)' /\ (Asking(h)' => Alone(h)')
  BY <1>4, <1>5, Zenon DEF Alone
<1>6. ASSUME ~mixed', \A h \in Goroutines : ~Asking(h)' PROVE Settled'
  BY <1>6, Zenon
<1>7. QED  BY <1>3, <1>5, <1>6, Zenon DEF FlagsInv

\* A probe that reads the flags leaves them alone.
LEMMA ReaderStep ==
    ASSUME SearchTypeOK, FlagsInv, NEW g \in Goroutines, NEW a, act' = [act EXCEPT ![g] = a],
           ~Asking(g), a.phase \in {"idle", "reading"}, a.phase = "reading" => everUsed,
           UNCHANGED <<everUsed, faulted, last, mixed>>
    PROVE  FlagsInv'
<1>1. act \in [Goroutines -> Act] /\ act'[g] = a  BY DEF SearchTypeOK
<1>2. \A h \in Goroutines \ {g} : act'[h] = act[h]  BY <1>1
<1>3. ~Asking(g)' /\ ~Known(g)' /\ Shared(g)' /\ Own(g)'
  BY <1>1 DEF Asking, Shared, Own, Known
<1>4. \A h \in Goroutines \ {g} : (Asking(h)' <=> Asking(h)) /\ (Known(h)' <=> Known(h))
  BY <1>2, Zenon DEF Asking, Known
<1>5. \A h \in Goroutines \ {g} : (Shared(h)' <=> Shared(h)) /\ (Own(h)' <=> Own(h))
  BY <1>2, <1>4, Zenon DEF Shared, Own
<1>6. \A h \in Goroutines : Alone(h) => Alone(h)'  BY <1>3, <1>4, Zenon DEF Alone
<1>7. \A h \in Goroutines : Asking(h)' => Asking(h)  BY <1>3, <1>4, Zenon
<1>8. Settled => Settled'  BY Zenon DEF Settled
<1>9. ASSUME \A h \in Goroutines : ~Asking(h)' PROVE \A h \in Goroutines : ~Asking(h)
  BY <1>4, <1>9, Zenon
<1>10. \A h \in Goroutines : Shared(h)'  BY <1>3, <1>5, Zenon DEF FlagsInv
<1>11. ~mixed' => \A h \in Goroutines : Own(h)' /\ (Asking(h)' => Alone(h)')
  BY <1>3, <1>5, <1>6, <1>7, Zenon DEF FlagsInv
<1>12. QED  BY <1>8, <1>9, <1>10, <1>11, Zenon DEF FlagsInv

LEMMA FlagsStep == ASSUME SearchTypeOK, FlagsInv, [SearchNext]_searchVars PROVE FlagsInv'
<1>0. /\ Searchers \subseteq Goroutines /\ Probers \subseteq Goroutines
      /\ act \in [Goroutines -> Act] /\ everUsed \in BOOLEAN
      /\ AtRest.phase = "idle" /\ "none" \notin Outcomes
  BY DEF Goroutines, SearchTypeOK, AtRest, Outcomes
<1> DEFINE Does(phase, outcome) == [phase |-> phase, outcome |-> outcome, stamp |-> 0]
<1>1. ASSUME NEW g \in Searchers, NEW now \in Readings, CallBegin(g, now) PROVE FlagsInv'
  <2> DEFINE a == [phase |-> "calling", outcome |-> "none", stamp |-> now]
  <2>1. act' = [act EXCEPT ![g] = a] /\ everUsed' = TRUE /\ mixed' = ~Alone(g)
    BY <1>1 DEF CallBegin
  <2>2. act'[g].phase = "calling"  BY <1>0, <2>1
  <2>3. Asking(g)' /\ ~Known(g)' /\ Shared(g)' /\ Own(g)'
    BY <2>1, <2>2 DEF Asking, Known, Shared, Own
  <2>4. QED  BY <1>0, <2>1, <2>3, AskerStep, Zenon
<1>2. ASSUME NEW g \in Searchers, NEW outcome \in Outcomes, CallAnswered(g, outcome) PROVE FlagsInv'
  <2>1. /\ act' = [act EXCEPT ![g] = Does("answered", outcome)] /\ act[g].phase = "calling"
        /\ UNCHANGED <<everUsed, mixed>> /\ last'.outcome = outcome /\ last'.served = "none"
    BY <1>2 DEF CallAnswered, Goto
  <2>2. act'[g].phase = "answered" /\ act'[g].outcome = outcome  BY <1>0, <2>1
  <2>3. Asking(g) /\ Asking(g)' /\ Known(g)'  BY <2>1, <2>2 DEF Asking, Known
  <2>4. everUsed /\ (~mixed => Alone(g))  BY <1>0, <2>1, <2>3 DEF FlagsInv, Shared
  <2>5. Shared(g)' /\ Own(g)'  BY <2>1, <2>2, <2>3, <2>4 DEF Shared, Own
  <2>6. QED  BY <1>0, <2>1, <2>3, <2>4, <2>5, AskerStep, Zenon
<1>3. ASSUME NEW g \in Searchers, NEW op \in Ops, CallReturns(g, op) PROVE FlagsInv'
  <2>1. act' = [act EXCEPT ![g] = AtRest] /\ act[g].phase = "answered" /\ UNCHANGED <<everUsed, mixed>>
    BY <1>3 DEF CallReturns, Goto, AtRest
  <2>2. Asking(g) /\ Known(g)  BY <2>1 DEF Asking, Known
  <2>3. /\ everUsed /\ act[g].outcome \in Outcomes
        /\ ~mixed => Alone(g) /\ last.outcome = act[g].outcome
    BY <1>0, <2>1, <2>2 DEF FlagsInv, Shared, Own
  <2>4. act'[g].phase = "idle"  BY <1>0, <2>1
  <2>5. Shared(g)' /\ Own(g)'  BY <2>4 DEF Shared, Own, Known
  <2>6. /\ last'.outcome = last.outcome /\ last'.served = Served(op, act[g].outcome)
        /\ faulted' = Fault(act[g].outcome)
    BY <1>3 DEF CallReturns, SearchTypeOK
  <2>7. last'.served = "sql" => Fault(act[g].outcome) \/ act[g].outcome = "not_indexed"
    BY <2>3, <2>6 DEF Served, Fault, Outcomes
  <2>8. ~mixed => Settled'
    BY <1>0, <2>1, <2>3, <2>6, <2>7, Zenon DEF Settled
  <2>9. QED  BY <1>0, <2>1, <2>3, <2>5, <2>8, AskerStep, Zenon
<1>4. ASSUME NEW g \in Probers, ProbeBegin(g) PROVE FlagsInv'
  <2>1. CASE everUsed
    <3>1. /\ act' = [act EXCEPT ![g] = Does("reading", "none")] /\ act[g].phase = "idle"
          /\ UNCHANGED <<everUsed, faulted, last, mixed>>
      BY <1>4, <2>1 DEF ProbeBegin, Goto
    <3>2. ~Asking(g) /\ Does("reading", "none").phase = "reading"  BY <3>1 DEF Asking
    <3> HIDE DEF Does
    <3>3. QED  BY <1>0, <2>1, <3>1, <3>2, ReaderStep, Zenon
  <2>2. CASE ~everUsed
    <3>1. /\ act' = [act EXCEPT ![g] = Does("pinging", "none")]
          /\ UNCHANGED everUsed /\ mixed' = ~Alone(g)
      BY <1>4, <2>2 DEF ProbeBegin, Goto
    <3>2. act'[g].phase = "pinging"  BY <1>0, <3>1
    <3>3. Asking(g)' /\ Shared(g)' /\ Own(g)'  BY <3>2 DEF Asking, Known, Shared, Own
    <3>4. QED  BY <1>0, <3>1, <3>3, AskerStep, Zenon
  <2>3. QED  BY <2>1, <2>2
<1>5. ASSUME NEW g \in Probers, ProbeReads(g) PROVE FlagsInv'
  <2>1. /\ act' = [act EXCEPT ![g] = AtRest] /\ act[g].phase = "reading"
        /\ UNCHANGED <<everUsed, faulted, last, mixed>>
    BY <1>5 DEF ProbeReads, Goto, AtRest
  <2>2. ~Asking(g)  BY <2>1 DEF Asking
  <2>3. QED  BY <1>0, <2>1, <2>2, ReaderStep, Zenon
<1>6. ASSUME NEW g \in Probers, NEW outcome \in Outcomes, PingAnswered(g, outcome) PROVE FlagsInv'
  <2>1. /\ act' = [act EXCEPT ![g] = Does("pinged", outcome)] /\ act[g].phase = "pinging"
        /\ UNCHANGED <<everUsed, mixed>> /\ last'.outcome = outcome /\ last'.served = "none"
    BY <1>6 DEF PingAnswered, Goto
  <2>2. act'[g].phase = "pinged" /\ act'[g].outcome = outcome  BY <1>0, <2>1
  <2>3. Asking(g) /\ Asking(g)' /\ Known(g)'  BY <2>1, <2>2 DEF Asking, Known
  <2>4. ~mixed => Alone(g)  BY <1>0, <2>3, Zenon DEF FlagsInv
  <2>5. Shared(g)' /\ Own(g)'  BY <2>1, <2>2, <2>3 DEF Shared, Own
  <2>6. QED  BY <1>0, <2>1, <2>3, <2>4, <2>5, AskerStep, Zenon
<1>7. ASSUME NEW g \in Probers, PingStores(g) PROVE FlagsInv'
  <2>1. /\ act' = [act EXCEPT ![g] = Does("stored", act[g].outcome)] /\ act[g].phase = "pinged"
        /\ UNCHANGED <<last, mixed>>
        /\ IF act[g].outcome = "refused" THEN faulted' = TRUE /\ UNCHANGED everUsed ELSE everUsed' = TRUE
    BY <1>7 DEF PingStores, Goto
  <2>2. act'[g].phase = "stored" /\ act'[g].outcome = act[g].outcome  BY <1>0, <2>1
  <2>3. Asking(g) /\ Asking(g)' /\ Known(g) /\ Known(g)'  BY <2>1, <2>2 DEF Asking, Known
  <2>4. /\ act[g].outcome \in Outcomes
        /\ ~mixed => Alone(g) /\ last.outcome = act[g].outcome /\ last.served = "none"
    BY <1>0, <2>3, Zenon DEF FlagsInv, Shared, Own
  <2>5. Shared(g)' /\ (~mixed => Own(g)')  BY <2>1, <2>2, <2>3, <2>4 DEF Shared, Own
  <2>6. everUsed => everUsed'  BY <2>1, Zenon
  <2>7. QED  BY <1>0, <2>1, <2>3, <2>4, <2>5, <2>6, AskerStep, Zenon
<1>8. ASSUME NEW g \in Probers, PingReturns(g) PROVE FlagsInv'
  <2>1. /\ act' = [act EXCEPT ![g] = AtRest] /\ act[g].phase = "stored" /\ UNCHANGED <<last, mixed>>
        /\ IF act[g].outcome = "refused"
             THEN everUsed' = TRUE /\ UNCHANGED faulted
             ELSE faulted' = Fault(act[g].outcome) /\ UNCHANGED everUsed
    BY <1>8 DEF PingReturns, Goto, AtRest
  <2>2. Asking(g) /\ Known(g)  BY <2>1 DEF Asking, Known
  <2>3. /\ act[g].outcome \in Outcomes
        /\ ~mixed => /\ Alone(g) /\ last.outcome = act[g].outcome /\ last.served = "none"
                     /\ IF act[g].outcome = "refused" THEN faulted ELSE everUsed
    BY <1>0, <2>1, <2>2, Zenon DEF FlagsInv, Shared, Own
  <2>4. act'[g].phase = "idle"  BY <1>0, <2>1
  <2>5. Shared(g)' /\ Own(g)'  BY <2>4 DEF Shared, Own, Known
  <2>6. everUsed => everUsed'  BY <2>1, Zenon
  <2>7. Fault("refused") = TRUE /\ faulted \in BOOLEAN /\ "none" # "sql"  BY DEF Fault, SearchTypeOK
  <2>8. ~mixed => Settled'
    <3> SUFFICES ASSUME ~mixed PROVE Settled'  OBVIOUS
    <3>1. everUsed' = TRUE /\ last'.outcome # "none"  BY <1>0, <2>1, <2>3, Zenon
    <3>2. faulted' = Fault(last'.outcome)  BY <2>1, <2>3, <2>7, Zenon
    <3>3. last'.served # "sql"  BY <2>1, <2>3, <2>7, Zenon
    <3>4. QED  BY <3>1, <3>2, <3>3, Zenon DEF Settled
  <2>9. QED  BY <1>0, <2>1, <2>3, <2>5, <2>6, <2>8, AskerStep, Zenon
<1>9. CASE Remote \/ SearchClock \/ UNCHANGED searchVars
  <2>1. UNCHANGED <<act, everUsed, faulted, last, mixed>>
    BY <1>9, Zenon DEF Remote, SearchClock, searchVars
  <2>2. \A g : (Asking(g)' <=> Asking(g)) /\ (Known(g)' <=> Known(g))
    BY <2>1, Zenon DEF Asking, Known
  <2>3. \A g : (Shared(g)' <=> Shared(g)) /\ (Own(g)' <=> Own(g)) /\ (Alone(g)' <=> Alone(g))
    BY <2>1, <2>2, Zenon DEF Shared, Own, Alone
  <2>4. Settled' <=> Settled  BY <2>1, Zenon DEF Settled
  <2>5. QED  BY <2>1, <2>2, <2>3, <2>4, Zenon DEF FlagsInv
<1>10. QED
  BY <1>1, <1>2, <1>3, <1>4, <1>5, <1>6, <1>7, <1>8, <1>9 DEF SearchNext

\* FaultsAreVisible, for any number of searchers and probers.
THEOREM FaultsAreAlwaysVisible == SearchSpec => FaultsAreVisible
<1>1. SearchInit => SearchTypeOK /\ FlagsInv
  <2> SUFFICES ASSUME SearchInit PROVE FlagsInv  BY TypeInit
  <2>1. last.outcome = "none" /\ last.served = "none" /\ everUsed = FALSE  BY DEF SearchInit
  <2>2. \A g \in Goroutines : act[g].phase = "idle"  BY DEF SearchInit, AtRest
  <2>3. \A g \in Goroutines : ~Asking(g) /\ Shared(g) /\ Own(g)
    BY <2>2 DEF Asking, Known, Shared, Own
  <2>4. Settled  BY <2>1 DEF Settled
  <2>5. QED  BY <2>3, <2>4, Zenon DEF FlagsInv
<1>2. (SearchTypeOK /\ FlagsInv) /\ [SearchNext]_searchVars => (SearchTypeOK /\ FlagsInv)'
  BY TypeStep, FlagsStep
<1> DEFINE Seen(g) ==
      /\ last.outcome # "none"
      /\ answer'[g] = IF Fault(last.outcome) THEN "degraded" ELSE "ok"
      /\ last.served = "sql" => answer'[g] = "degraded" \/ last.outcome = "not_indexed"
<1>3. ASSUME SearchTypeOK, FlagsInv, [SearchNext]_searchVars, NEW g \in Probers,
             Told(g), Alone(g), ~mixed
      PROVE  Seen(g)
  <2>1. /\ g \in Goroutines /\ act \in [Goroutines -> Act]
        /\ answer \in [Probers -> {"none", "ok", "degraded"}] /\ faulted \in BOOLEAN
    BY <1>3, Zenon DEF Goroutines, SearchTypeOK
  <2>2. CASE ProbeReads(g)
    <3>1. act[g].phase = "reading" /\ answer'[g] = IF faulted THEN "degraded" ELSE "ok"
      BY <2>1, <2>2 DEF ProbeReads
    <3>2. ~Asking(g)  BY <3>1 DEF Asking
    <3>3. \A h \in Goroutines : ~Asking(h)  BY <1>3, <3>2, Zenon DEF Alone
    <3>4. everUsed  BY <1>3, <2>1, <3>1 DEF FlagsInv, Shared
    <3>5. Settled  BY <1>3, <3>3, Zenon DEF FlagsInv
    <3>6. QED  BY <3>1, <3>4, <3>5, Zenon DEF Settled
  <2>3. CASE PingReturns(g)
    <3>1. act[g].phase = "stored" /\ answer'[g] = IF Fault(act[g].outcome) THEN "degraded" ELSE "ok"
      BY <2>1, <2>3 DEF PingReturns
    <3>2. Known(g)  BY <3>1 DEF Known
    <3>3. act[g].outcome \in Outcomes /\ last.outcome = act[g].outcome /\ last.served = "none"
      BY <1>3, <2>1, <3>2, Zenon DEF FlagsInv, Shared, Own
    <3>4. last.outcome # "none" /\ last.served # "sql"  BY <3>3 DEF Outcomes
    <3>5. QED  BY <3>1, <3>3, <3>4, Zenon
  <2>4. act[g].phase \in {"reading", "stored"} /\ act'[g].phase = "idle"
    BY <1>3 DEF Told, AtRest
  <2>5. act'[g] # act[g]  BY <2>4
  <2>6. ASSUME NEW h \in Goroutines, NEW a, act' = [act EXCEPT ![h] = a] PROVE h = g
    BY <2>1, <2>5, <2>6
  <2>7. ASSUME NEW h \in Searchers, \/ \E now \in Readings : CallBegin(h, now)
                                    \/ \E outcome \in Outcomes : CallAnswered(h, outcome)
                                    \/ \E op \in Ops : CallReturns(h, op)
        PROVE  FALSE
    <3>1. h \in Goroutines  BY DEF Goroutines
    <3>2. act[h].phase \notin {"reading", "stored"}
      BY <2>7 DEF CallBegin, CallAnswered, CallReturns
    <3>3. h = g  BY <2>6, <2>7, <3>1, Zenon DEF CallBegin, CallAnswered, CallReturns, Goto
    <3>4. QED  BY <2>4, <3>2, <3>3
  <2>8. ASSUME NEW h \in Probers, \/ ProbeBegin(h) \/ PingStores(h)
                                  \/ \E outcome \in Outcomes : PingAnswered(h, outcome)
        PROVE  FALSE
    <3>1. h \in Goroutines  BY DEF Goroutines
    <3>2. act[h].phase \notin {"reading", "stored"}
      BY <2>8 DEF ProbeBegin, PingStores, PingAnswered
    <3>3. h = g  BY <2>6, <2>8, <3>1, Zenon DEF ProbeBegin, PingStores, PingAnswered, Goto
    <3>4. QED  BY <2>4, <3>2, <3>3
  <2>9. ASSUME NEW h \in Probers, ProbeReads(h) \/ PingReturns(h) PROVE h = g
    <3>1. h \in Goroutines  BY DEF Goroutines
    <3>2. QED  BY <2>6, <2>9, <3>1, Zenon DEF ProbeReads, PingReturns, Goto
  <2>10. ~(Remote \/ SearchClock \/ UNCHANGED searchVars)
    BY <2>5 DEF Remote, SearchClock, searchVars
  <2> HIDE DEF Seen
  <2>11. QED
    BY <1>3, <2>2, <2>3, <2>7, <2>8, <2>9, <2>10, Zenon DEF SearchNext
<1>4. (SearchTypeOK /\ FlagsInv) /\ [SearchNext]_searchVars =>
         [\A g \in Probers : (Told(g) /\ Alone(g) /\ ~mixed) => Seen(g)]_searchVars
  BY <1>3, Zenon
<1>5. QED  BY <1>1, <1>2, <1>4, PTL DEF SearchSpec, FaultsAreVisible
=============================================================================
