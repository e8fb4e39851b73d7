--------------------------- MODULE ReplicaProofs ----------------------------
(***************************************************************************)
(* Proofs about what the replicas of the API share: SetupGate, for any     *)
(* replicas, any number of overlapping requests and any lifetime of a      *)
(* cached false; and RateLimiter, for any replicas, limit, window and      *)
(* number of losses.                                                       *)
(***************************************************************************)
EXTENDS SetupGate, RateLimiter, FiniteSetTheorems, TLAPS

-----------------------------------------------------------------------------
\* The claimed bit.

\* What holds of request r.  A bit that it has read, or been told, is true only
\* of a claimed instance; one that goes on to answer with it has it in its
\* replica's cache already; and one that came after its replica said "claimed"
\* was answered by the cache.
Sound(r) ==
    /\ r.saw => claimed
    /\ r.phase = "committed" => claimed
    /\ r.phase = "answer" /\ r.saw => cacheTrue[r.replica]
    /\ r.answer = "claimed" => claimed
    /\ r.late => /\ r.answer # "unclaimed"
                 /\ r.phase = "done" \/ (r.phase = "answer" /\ r.saw)

\* What holds of replica r.
Told(r) ==
    /\ cacheTrue[r] => claimed
    /\ r \in saidTrue => cacheTrue[r]

GInv ==
    /\ TypeOK
    /\ \A q \in Requests : Sound(req[q])
    /\ \A r \in Replicas : Told(r)

LEMMA OlderAge ==
    /\ \A a \in Ages : Older(a) \in Ages
    /\ 0 \in Ages
BY TTLAssumption DEF Older, Ages

LEMMA DoneType ==
    ASSUME NEW r \in Replicas, NEW late \in BOOLEAN,
           NEW answer \in {"none", "claimed", "unclaimed", "unavailable"}
    PROVE  Done(r, late, answer) \in Request
BY OlderAge, Zenon DEF Done, Request

\* A step that changes one request and only adds to what is known of the
\* instance and of the caches keeps the others sound.
LEMMA OthersStaySound ==
    ASSUME GInv, NEW q \in Requests, NEW n \in Request, req' = [req EXCEPT ![q] = n],
           claimed' \in BOOLEAN, claimed => claimed',
           cacheTrue' \in [Replicas -> BOOLEAN],
           \A r \in Replicas : cacheTrue[r] => cacheTrue'[r],
           Sound(n)'
    PROVE  req' \in [Requests -> Request] /\ \A p \in Requests : Sound(req[p])'
<1>1. req' \in [Requests -> Request]  BY Zenon DEF GInv, TypeOK
<1>2. ASSUME NEW p \in Requests PROVE Sound(req[p])'
  <2>1. CASE p = q
    <3>1. req'[p] = n  BY <2>1, Zenon DEF GInv, TypeOK
    <3>2. QED  BY <3>1, Zenon DEF Sound
  <2>2. CASE p # q
    <3>1. req'[p] = req[p] /\ Sound(req[p]) /\ req[p] \in Request  BY <2>2, Zenon DEF GInv, TypeOK
    <3>2. req[p].replica \in Replicas  BY <3>1, Zenon DEF Request
    <3>3. QED  BY <3>1, <3>2, Zenon DEF Sound
  <2>3. QED  BY <2>1, <2>2, Zenon
<1>3. QED  BY <1>1, <1>2, Zenon

\* claimedCache.set, given a bit that is true only of a claimed instance.
LEMMA SetKeeps ==
    ASSUME GInv, NEW r \in Replicas, NEW bit \in BOOLEAN, NEW age \in Ages,
           Set(r, bit, age), bit => claimed', claimed => claimed'
    PROVE  /\ cacheTrue' \in [Replicas -> BOOLEAN]
           /\ stamp' \in [Replicas -> Ages]
           /\ \A p \in Replicas : /\ cacheTrue[p] => cacheTrue'[p]
                                  /\ cacheTrue'[p] => claimed'
           /\ bit => cacheTrue'[r]
<1>1. cacheTrue' = [cacheTrue EXCEPT ![r] = cacheTrue[r] \/ bit]  BY Zenon DEF Set
<1>2. cacheTrue' \in [Replicas -> BOOLEAN]  BY <1>1, Zenon DEF GInv, TypeOK
<1>3. \A p \in Replicas : cacheTrue'[p] = IF p = r THEN cacheTrue[r] \/ bit ELSE cacheTrue[p]
  BY <1>1, Zenon DEF GInv, TypeOK
<1>4. \A p \in Replicas : cacheTrue[p] => claimed  BY Zenon DEF GInv, Told
<1>5. stamp' \in [Replicas -> Ages]  BY Zenon DEF Set, GInv, TypeOK
<1>6. QED  BY <1>2, <1>3, <1>4, <1>5, Zenon

\* One request's step: it is sound afterwards, the caches are, and a replica
\* that says "claimed" has it cached.
LEMMA OneRequest ==
    ASSUME GInv, NEW q \in Requests, NEW n \in Request, req' = [req EXCEPT ![q] = n],
           claimed' \in BOOLEAN, claimed => claimed',
           cacheTrue' \in [Replicas -> BOOLEAN],
           stamp' \in [Replicas -> Ages],
           \A r \in Replicas : /\ cacheTrue[r] => cacheTrue'[r]
                               /\ cacheTrue'[r] => claimed',
           NEW said, saidTrue' = saidTrue \union said, said \subseteq Replicas,
           \A r \in said : cacheTrue'[r],
           Sound(n)'
    PROVE  GInv'
<1>1. req' \in [Requests -> Request] /\ \A p \in Requests : Sound(req[p])'
  BY OthersStaySound, Zenon
<1>2. saidTrue' \subseteq Replicas  BY Zenon DEF GInv, TypeOK
<1>3. ASSUME NEW r \in Replicas PROVE Told(r)'
  <2>1. r \in saidTrue' => cacheTrue'[r]  BY Zenon DEF GInv, Told
  <2>2. QED  BY <2>1, Zenon DEF Told
<1>4. TypeOK'  BY <1>1, <1>2, Zenon DEF TypeOK
<1>5. QED  BY <1>1, <1>3, <1>4, Zenon DEF GInv

\* The same for a request that leaves the instance and the caches alone.
LEMMA OneReader ==
    ASSUME GInv, NEW q \in Requests, NEW n \in Request, req' = [req EXCEPT ![q] = n],
           UNCHANGED <<claimed, cache>>,
           NEW said, saidTrue' = saidTrue \union said, said \subseteq Replicas,
           \A r \in said : cacheTrue[r],
           Sound(n)
    PROVE  GInv'
<1>1. Sound(n)'  BY Zenon DEF Sound, cache
<1>2. /\ claimed' = claimed /\ cacheTrue' = cacheTrue /\ stamp' = stamp
  BY Zenon DEF cache
<1>3. claimed' \in BOOLEAN /\ (claimed => claimed')  BY <1>2 DEF GInv, TypeOK
<1>4. /\ cacheTrue' \in [Replicas -> BOOLEAN]
      /\ stamp' \in [Replicas -> Ages]
  BY <1>2, Zenon DEF GInv, TypeOK
<1>5. \A r \in Replicas : /\ cacheTrue[r] => cacheTrue'[r]
                          /\ cacheTrue'[r] => claimed'
  BY <1>2 DEF GInv, Told
<1>6. \A r \in said : cacheTrue'[r]  BY <1>2, Zenon
<1>7. QED  BY <1>1, <1>3, <1>4, <1>5, <1>6, OneRequest, Zenon

LEMMA OneSilentReader ==
    ASSUME GInv, NEW q \in Requests, NEW n \in Request, req' = [req EXCEPT ![q] = n],
           UNCHANGED <<claimed, cache>>, UNCHANGED saidTrue, Sound(n)
    PROVE  GInv'
<1>1. PICK said : said = {}  BY Zenon
<1>2. saidTrue' = saidTrue \union said /\ said \subseteq Replicas  BY <1>1, Zenon
<1>3. \A r \in said : cacheTrue[r]  BY <1>1, Zenon
<1>4. QED  BY <1>2, <1>3, OneReader, Zenon

LEMMA ArriveStep ==
    ASSUME GInv, NEW q \in Requests, NEW kind \in Kinds, NEW r \in Replicas, Arrive(q, kind, r)
    PROVE  GInv'
<1>1. PICK late \in BOOLEAN : late <=> r \in saidTrue
  <2>1. TRUE \in BOOLEAN /\ FALSE \in BOOLEAN  BY Zenon
  <2>2. CASE r \in saidTrue
    BY <2>1, <2>2, Zenon
  <2>3. CASE r \notin saidTrue
    BY <2>1, <2>3, Zenon
  <2>4. QED  BY <2>2, <2>3, Zenon
<1>2. late => cacheTrue[r]  BY <1>1, Zenon DEF GInv, Told
<1>3. cacheTrue[r] \in BOOLEAN /\ (cacheTrue[r] => claimed)
  BY Zenon DEF GInv, Told, TypeOK
<1>4. PICK phase : phase = IF Fresh(r) THEN "answer" ELSE "look"  BY Zenon
<1>5. phase \in {"answer", "look"} /\ (cacheTrue[r] => phase = "answer")  BY <1>4, Zenon DEF Fresh
<1>6. PICK n : n = [ phase |-> phase, kind |-> kind, replica |-> r, saw |-> cacheTrue[r],
                     nowAge |-> 0, late |-> late, answer |-> "none" ]
  BY Zenon
<1>7. n \in Request  BY <1>2, <1>3, <1>5, <1>6, OlderAge, Zenon DEF Request
<1>8. req' = [req EXCEPT ![q] = n]  BY <1>1, <1>4, <1>6, Zenon DEF Arrive
<1>9. Sound(n)  BY <1>2, <1>3, <1>5, <1>6, Zenon DEF Sound
<1>10. UNCHANGED saidTrue /\ UNCHANGED <<claimed, cache>>  BY Zenon DEF Arrive
<1>11. QED  BY <1>7, <1>8, <1>9, <1>10, OneSilentReader, Zenon

LEMMA LookupStep ==
    ASSUME GInv, NEW q \in Requests, Lookup(q)
    PROVE  GInv'
<1>1. req[q] \in Request /\ Sound(req[q]) /\ req[q].phase = "look"  BY Zenon DEF GInv, TypeOK, Lookup
<1>2. ~req[q].late /\ (req[q].answer = "claimed" => claimed)  BY <1>1, Zenon DEF Sound
<1>3. PICK n : n = [req[q] EXCEPT !.phase = "store", !.saw = claimed]  BY Zenon
<1>4. claimed \in BOOLEAN  BY Zenon DEF GInv, TypeOK
<1>5. n \in Request  BY <1>1, <1>3, <1>4, OlderAge, Zenon DEF Request
<1>6. /\ n.phase = "store" /\ n.saw = claimed
      /\ n.late = req[q].late /\ n.answer = req[q].answer
  BY <1>1, <1>3 DEF Request, Ages
<1>7. Sound(n)  BY <1>2, <1>6 DEF Sound
<1>8. req' = [req EXCEPT ![q] = n]  BY <1>3, Zenon DEF Lookup
<1>9. UNCHANGED saidTrue /\ UNCHANGED <<claimed, cache>>  BY Zenon DEF Lookup
<1>10. QED  BY <1>5, <1>7, <1>8, <1>9, OneSilentReader, Zenon

\* A finished request is sound whatever it was told, unless that was "claimed"
\* of an unclaimed instance, or "unclaimed" to a late one.
LEMMA DoneIsSound ==
    ASSUME NEW r \in Replicas, NEW late \in BOOLEAN, NEW answer,
           answer = "claimed" => claimed, late => answer # "unclaimed"
    PROVE  Sound(Done(r, late, answer))
BY Zenon DEF Sound, Done

LEMMA UnavailableStep ==
    ASSUME GInv, NEW q \in Requests, Unavailable(q), UNCHANGED <<claimed, cache>>
    PROVE  GInv'
<1>1. req[q].replica \in Replicas /\ req[q].late \in BOOLEAN  BY Zenon DEF GInv, TypeOK, Request
<1>2. PICK n : n = Done(req[q].replica, req[q].late, "unavailable")  BY Zenon
<1>3. n \in Request /\ Sound(n)  BY <1>1, <1>2, DoneType, DoneIsSound, Zenon
<1>4. req' = [req EXCEPT ![q] = n] /\ UNCHANGED saidTrue  BY <1>2, Zenon DEF Unavailable
<1>5. QED  BY <1>3, <1>4, OneSilentReader, Zenon

LEMMA StoreStep ==
    ASSUME GInv, NEW q \in Requests, Store(q)
    PROVE  GInv'
<1>1. req[q] \in Request /\ Sound(req[q]) /\ req[q].phase = "store"  BY Zenon DEF GInv, TypeOK, Store
<1>2. /\ req[q].replica \in Replicas /\ req[q].saw \in BOOLEAN /\ ~req[q].late
      /\ req[q].nowAge \in Ages
      /\ req[q].saw => claimed
      /\ req[q].answer = "claimed" => claimed
  BY <1>1, Zenon DEF Sound, Request
<1>3. claimed' = claimed /\ claimed \in BOOLEAN /\ UNCHANGED saidTrue  BY Zenon DEF Store, GInv, TypeOK
<1>4. Set(req[q].replica, req[q].saw, req[q].nowAge)  BY Zenon DEF Store
<1>5. /\ cacheTrue' \in [Replicas -> BOOLEAN]
      /\ stamp' \in [Replicas -> Ages]
      /\ \A p \in Replicas : /\ cacheTrue[p] => cacheTrue'[p]
                             /\ cacheTrue'[p] => claimed'
      /\ req[q].saw => cacheTrue'[req[q].replica]
  BY <1>2, <1>3, <1>4, SetKeeps, Zenon
<1>6. PICK n : n = [req[q] EXCEPT !.phase = "answer"]  BY Zenon
<1>7. /\ n \in Request /\ n.phase = "answer" /\ n.saw = req[q].saw /\ n.late = req[q].late
      /\ n.answer = req[q].answer /\ n.replica = req[q].replica
  BY <1>1, <1>6, Zenon DEF Request
<1>8. Sound(n)'  BY <1>2, <1>3, <1>5, <1>7, Zenon DEF Sound
<1>9. req' = [req EXCEPT ![q] = n]  BY <1>6, Zenon DEF Store
<1>10. PICK said : said = {}  BY Zenon
<1>11. saidTrue' = saidTrue \union said /\ said \subseteq Replicas /\ \A r \in said : cacheTrue'[r]
  BY <1>3, <1>10, Zenon
<1>12. claimed' \in BOOLEAN /\ (claimed => claimed')  BY <1>3, Zenon
<1>13. QED  BY <1>5, <1>7, <1>8, <1>9, <1>11, <1>12, OneRequest, Zenon

\* A request is told a bit that is true only of a claimed instance that its
\* replica has cached by then, and false only if it is not late.
LEMMA SayStep ==
    ASSUME GInv, NEW q \in Requests, NEW bit \in BOOLEAN, Say(q, bit),
           claimed' \in BOOLEAN, claimed => claimed', bit => claimed',
           cacheTrue' \in [Replicas -> BOOLEAN],
           stamp' \in [Replicas -> Ages],
           \A r \in Replicas : /\ cacheTrue[r] => cacheTrue'[r]
                               /\ cacheTrue'[r] => claimed',
           bit => cacheTrue'[req[q].replica],
           ~bit => ~req[q].late
    PROVE  GInv'
<1>1. req[q].replica \in Replicas /\ req[q].late \in BOOLEAN  BY Zenon DEF GInv, TypeOK, Request
<1>2. PICK answer : answer = IF bit THEN "claimed" ELSE "unclaimed"  BY Zenon
<1>3. PICK n : n = Done(req[q].replica, req[q].late, answer)  BY Zenon
<1>4. n \in Request  BY <1>1, <1>2, <1>3, DoneType, Zenon
<1>5. Sound(n)'  BY <1>1, <1>2, <1>3, Zenon DEF Sound, Done
<1>6. req' = [req EXCEPT ![q] = n]  BY <1>2, <1>3, Zenon DEF Say
<1>7. PICK said : said = IF bit THEN {req[q].replica} ELSE {}  BY Zenon
<1>8. saidTrue' = saidTrue \union said /\ said \subseteq Replicas /\ \A r \in said : cacheTrue'[r]
  BY <1>1, <1>7, Zenon DEF Say
<1>9. QED  BY <1>4, <1>5, <1>6, <1>8, OneRequest, Zenon

\* The cache says nothing new.
LEMMA SayOnly ==
    ASSUME GInv, NEW q \in Requests, NEW bit \in BOOLEAN, Say(q, bit), UNCHANGED <<claimed, cache>>,
           bit => cacheTrue[req[q].replica], ~bit => ~req[q].late
    PROVE  GInv'
<1>1. /\ claimed' = claimed /\ cacheTrue' = cacheTrue /\ stamp' = stamp
  BY Zenon DEF cache
<1>2. req[q].replica \in Replicas  BY Zenon DEF GInv, TypeOK, Request
<1>3. /\ claimed' \in BOOLEAN /\ (claimed => claimed')
      /\ cacheTrue' \in [Replicas -> BOOLEAN]
      /\ stamp' \in [Replicas -> Ages]
  BY <1>1 DEF GInv, TypeOK
<1>4. \A r \in Replicas : /\ cacheTrue[r] => cacheTrue'[r]
                          /\ cacheTrue'[r] => claimed'
  BY <1>1 DEF GInv, Told
<1>5. bit => cacheTrue'[req[q].replica]  BY <1>1, Zenon
<1>6. bit => claimed'  BY <1>2, <1>4, <1>5, Zenon
<1>7. QED  BY <1>3, <1>4, <1>5, <1>6, SayStep, Zenon

\* The cache is told as well.
LEMMA SetAndSay ==
    ASSUME GInv, NEW q \in Requests, NEW bit \in BOOLEAN, Set(req[q].replica, bit, 0), Say(q, bit),
           claimed' = claimed, bit => claimed, ~bit => ~req[q].late
    PROVE  GInv'
<1>1. req[q].replica \in Replicas /\ 0 \in Ages  BY OlderAge DEF GInv, TypeOK, Request
<1>2. claimed' \in BOOLEAN /\ (claimed => claimed') /\ (bit => claimed')  BY Zenon DEF GInv, TypeOK
<1>3. /\ cacheTrue' \in [Replicas -> BOOLEAN]
      /\ stamp' \in [Replicas -> Ages]
      /\ \A p \in Replicas : /\ cacheTrue[p] => cacheTrue'[p]
                             /\ cacheTrue'[p] => claimed'
      /\ bit => cacheTrue'[req[q].replica]
  BY <1>1, <1>2, SetKeeps, Zenon
<1>4. QED  BY <1>2, <1>3, SayStep, Zenon

LEMMA AnswerStep ==
    ASSUME GInv, NEW q \in Requests, AnswerGuarded(q) \/ AnswerStatus(q) \/ AnswerOwner(q)
    PROVE  GInv'
<1>1. req[q] \in Request /\ Sound(req[q]) /\ req[q].phase = "answer"
  BY Zenon DEF GInv, TypeOK, AnswerGuarded, AnswerStatus, AnswerOwner
<1>2. /\ req[q].saw \in BOOLEAN /\ (req[q].saw => claimed)
      /\ req[q].saw => cacheTrue[req[q].replica]
      /\ ~req[q].saw => ~req[q].late
  BY <1>1, Zenon DEF Sound, Request
<1>3. CASE AnswerGuarded(q)
  BY <1>2, <1>3, SayOnly, Zenon DEF AnswerGuarded
<1>4. CASE AnswerStatus(q)
  BY <1>2, <1>4, SetAndSay, Zenon DEF AnswerStatus
<1>5. CASE AnswerOwner(q)
  <2>1. UNCHANGED <<claimed, cache>>  BY <1>5, Zenon DEF AnswerOwner
  <2>2. CASE req[q].saw /\ Say(q, TRUE)
    BY <1>2, <2>1, <2>2, SayOnly, Zenon
  <2>3. CASE /\ ~req[q].saw
             /\ req' = [req EXCEPT ![q].phase = "claim", ![q].nowAge = 0]
             /\ UNCHANGED saidTrue
    <3>1. PICK n : n = [req[q] EXCEPT !.phase = "claim", !.nowAge = 0]  BY Zenon
    <3>2. n \in Request /\ n.phase = "claim" /\ n.saw = req[q].saw /\ n.late = req[q].late
            /\ n.answer = req[q].answer
      BY <1>1, <3>1, OlderAge, Zenon DEF Request
    <3>3. Sound(n)  BY <1>1, <1>2, <2>3, <3>2, Zenon DEF Sound
    <3>4. req' = [req EXCEPT ![q] = n]  BY <2>3, <3>1, Zenon
    <3>5. QED  BY <2>1, <2>3, <3>2, <3>3, <3>4, OneSilentReader, Zenon
  <2>4. QED  BY <1>5, <2>2, <2>3, Zenon DEF AnswerOwner
<1>6. QED  BY <1>3, <1>4, <1>5, Zenon

LEMMA ClaimStep ==
    ASSUME GInv, NEW q \in Requests,
           ClaimCommits(q) \/ ClaimDecided(q) \/ ClaimRefused(q) \/ ClaimFails(q)
    PROVE  GInv'
<1>1. /\ req[q] \in Request /\ Sound(req[q]) /\ req[q].phase \in {"claim", "committed"}
      /\ claimed \in BOOLEAN
  BY Zenon DEF GInv, TypeOK, ClaimCommits, ClaimDecided, ClaimRefused, ClaimFails
<1>2. ~req[q].late /\ (req[q].phase = "committed" => claimed)  BY <1>1, Zenon DEF Sound
<1>3. CASE ClaimCommits(q)
  <2>1. claimed' = TRUE /\ UNCHANGED cache /\ UNCHANGED saidTrue  BY <1>3, Zenon DEF ClaimCommits
  <2>2. PICK n : n = [req[q] EXCEPT !.phase = "committed"]  BY Zenon
  <2>3. n \in Request /\ n.phase = "committed" /\ n.late = req[q].late  BY <1>1, <2>2, Zenon DEF Request
  <2>4. Sound(n)'  BY <1>2, <2>1, <2>3, Zenon DEF Sound
  <2>5. req' = [req EXCEPT ![q] = n]  BY <1>3, <2>2, Zenon DEF ClaimCommits
  <2>6. PICK said : said = {}  BY Zenon
  <2>7. saidTrue' = saidTrue \union said /\ said \subseteq Replicas /\ \A r \in said : cacheTrue'[r]
    BY <2>1, <2>6, Zenon
  <2>8. /\ cacheTrue' \in [Replicas -> BOOLEAN]
        /\ stamp' \in [Replicas -> Ages]
    BY <2>1, Zenon DEF cache, GInv, TypeOK
  <2>9. \A r \in Replicas : /\ cacheTrue[r] => cacheTrue'[r]
                            /\ cacheTrue'[r] => claimed'
    BY <2>1, Zenon DEF cache, GInv, Told
  <2>10. claimed' \in BOOLEAN /\ (claimed => claimed')  BY <2>1, Zenon
  <2>11. QED  BY <2>3, <2>4, <2>5, <2>7, <2>8, <2>9, <2>10, OneRequest, Zenon
<1>4. CASE ClaimDecided(q)
  <2>1. claimed  BY <1>2, <1>4, Zenon DEF ClaimDecided
  <2>2. QED  BY <1>2, <1>4, <2>1, SetAndSay, Zenon DEF ClaimDecided
<1>5. CASE ClaimRefused(q)
  BY <1>2, <1>5, SayOnly, Zenon DEF ClaimRefused
<1>6. CASE ClaimFails(q)
  BY <1>6, UnavailableStep, Zenon DEF ClaimFails
<1>7. QED  BY <1>3, <1>4, <1>5, <1>6, Zenon

LEMMA TickStep == ASSUME GInv, Tick PROVE GInv'
<1>1. claimed' = claimed /\ cacheTrue' = cacheTrue /\ saidTrue' = saidTrue  BY Zenon DEF Tick
<1>2. stamp' \in [Replicas -> Ages]
  BY OlderAge, Zenon DEF Tick, GInv, TypeOK
<1>3. \A r \in Replicas : Told(r)'  BY <1>1, Zenon DEF Told, GInv
<1>4. ASSUME NEW q \in Requests PROVE req'[q] \in Request /\ Sound(req[q])'
  <2>1. req[q] \in Request /\ Sound(req[q])  BY Zenon DEF GInv, TypeOK
  <2>2. CASE req[q].phase \in {"look", "store", "answer"}
    <3>1. PICK n : n = [req[q] EXCEPT !.nowAge = Older(req[q].nowAge)]  BY Zenon
    <3>2. req'[q] = n  BY <2>2, <3>1, Zenon DEF Tick
    <3>3. req[q].nowAge \in Ages  BY <2>1, Zenon DEF Request
    <3>4. /\ n \in Request /\ n.phase = req[q].phase /\ n.saw = req[q].saw
          /\ n.replica = req[q].replica /\ n.late = req[q].late /\ n.answer = req[q].answer
      BY <2>1, <3>1, <3>3, OlderAge, Zenon DEF Request
    <3>5. QED  BY <1>1, <2>1, <3>2, <3>4, Zenon DEF Sound
  <2>3. CASE req[q].phase \notin {"look", "store", "answer"}
    <3>1. req'[q] = req[q]  BY <2>3, Zenon DEF Tick
    <3>2. QED  BY <1>1, <2>1, <3>1 DEF Sound
  <2>4. QED  BY <2>2, <2>3, Zenon
<1>5. req' \in [Requests -> Request]  BY <1>4, Zenon DEF Tick
<1>6. QED  BY <1>1, <1>2, <1>3, <1>4, <1>5, Zenon DEF GInv, TypeOK

LEMMA Inductive == ASSUME GInv, [Next]_vars PROVE GInv'
<1>1. CASE UNCHANGED vars
  BY <1>1, Zenon DEF vars, GInv, TypeOK, Sound, Told
<1>2. ASSUME NEW q \in Requests, LookupFails(q) PROVE GInv'
  BY <1>2, UnavailableStep, Zenon DEF LookupFails
<1>3. QED
  BY <1>1, <1>2, TickStep, ArriveStep, LookupStep, StoreStep, AnswerStep, ClaimStep, Zenon DEF Next

LEMMA Initially == ASSUME Init PROVE GInv
<1>1. TTL \in Ages  BY TTLAssumption DEF Ages
<1>2. ASSUME NEW q \in Requests PROVE req[q] \in Request /\ Sound(req[q])
  <2>1. PICK r \in Replicas : req[q] = Done(r, FALSE, "none")  BY Zenon DEF Init
  <2>2. FALSE \in BOOLEAN  BY Zenon
  <2>3. req[q] \in Request  BY <2>1, <2>2, DoneType, Zenon
  <2>4. Sound(req[q])  BY <2>1 DEF Sound, Done
  <2>5. QED  BY <2>3, <2>4, Zenon
<1>3. req \in [Requests -> Request]
  BY <1>2, Zenon DEF Init
<1>4. ASSUME NEW r \in Replicas PROVE Told(r)
  <2>1. ~cacheTrue[r] /\ r \notin saidTrue  BY Zenon DEF Init
  <2>2. QED  BY <2>1, Zenon DEF Told
<1>5. QED  BY <1>1, <1>2, <1>3, <1>4, Zenon DEF GInv, TypeOK, Init

-----------------------------------------------------------------------------
\* CacheIsTruthful: no replica of an unclaimed instance has cached that it is
\* claimed, or has told a request so, whichever lookups and claims overlap.
THEOREM CachesAreTruthful == Spec => []CacheIsTruthful
<1>1. GInv => CacheIsTruthful
  BY Zenon DEF GInv, Told, Sound, CacheIsTruthful
<1>2. QED  BY <1>1, Inductive, Initially, PTL DEF Spec

\* NoReturnToUnclaimed: the claimed bit is monotonic as seen through any one
\* replica, whichever lookups overlap there.
THEOREM ClaimedForEver == Spec => []NoReturnToUnclaimed
<1>1. GInv => NoReturnToUnclaimed
  BY Zenon DEF GInv, Sound, NoReturnToUnclaimed
<1>2. QED  BY <1>1, Inductive, Initially, PTL DEF Spec

-----------------------------------------------------------------------------
\* The counters.

\* The most that a counter can have allowed in the span that the observer has
\* span units of time left to watch.  A window that outlives the span may have
\* been opened in it, after an older one; any other was opened before the span,
\* by a unit that was spent before it; when there is no window, one that was
\* opened before may have come to its end.
Paid(c) == IF c.count > Limit THEN Limit ELSE c.count
May(c, span) ==
    IF c.count = 0 THEN Limit - 1
    ELSE (IF c.left > span THEN Limit ELSE 0) + Paid(c) - 1

\* The sum of May over the replicas, as the size of a set.
Units == Limiters \X (1..(2 * Limit - 1))
Allowances(l, span) == {u \in Units : u[2] <= May(l[u[1]], span)}

\* A counter has a window exactly while it counts something.
CacheCounter == {c \in Counter : IF c.count = 0 THEN c.left = 0 ELSE c.left > 0}
LocalCounter == {c \in Counter : c.left >= 0 <=> c.count > 0}

SpanInv ==
    /\ shared \in CacheCounter
    /\ local \in [Limiters -> LocalCounter]
    /\ seen \in [left : -1..(Window - 1), grants : Nat, losses : 0..MaxLosses]
    /\ seen.left < 0 => seen.grants = 0 /\ seen.losses = 0
    /\ seen.left >= 0 =>
          seen.grants <= May(shared, seen.left) + Cardinality(Allowances(local, seen.left))
                           + Limit * seen.losses

-----------------------------------------------------------------------------
LEMMA LimitFacts ==
    /\ Limit \in Nat /\ Limit >= 1 /\ Window \in Nat /\ Window >= 1 /\ MaxLosses \in Nat
    /\ 2 * Limit - 1 \in Nat
BY LimitAssumption

\* In a window's time a counter allows one less than twice its limit.
LEMMA MayBounds ==
    ASSUME NEW c \in Counter, NEW span \in Int
    PROVE  May(c, span) \in 0..(2 * Limit - 1)
<1>1. c.count \in 0..(Limit + 1)  BY Zenon DEF Counter
<1>2. QED  BY <1>1, LimitFacts DEF May, Paid

\* A charge never lowers what a counter may have allowed, and one that is let
\* through raises it by one.
LEMMA ChargeMay ==
    ASSUME NEW c \in CacheCounter, NEW span \in Int, span < Window
    PROVE  /\ Charge(c) \in CacheCounter
           /\ May(Charge(c), span) >= May(c, span)
           /\ Charge(c).count <= Limit => May(Charge(c), span) = May(c, span) + 1
<1>1. /\ c.count \in 0..(Limit + 1) /\ c.left \in -1..Window
      /\ IF c.count = 0 THEN c.left = 0 ELSE c.left > 0
  BY Zenon DEF CacheCounter, Counter
<1>2. /\ Charge(c).count = IF c.count > Limit THEN c.count ELSE c.count + 1
      /\ Charge(c).left = IF c.left > 0 THEN c.left ELSE Window
      /\ Charge(c) \in Counter
  BY <1>1, LimitFacts DEF Charge, Bump, Counter
<1>3. QED  BY <1>1, <1>2, LimitFacts DEF CacheCounter, May, Paid

LEMMA ChargeLocalMay ==
    ASSUME NEW c \in LocalCounter, NEW span \in Int, span < Window
    PROVE  /\ ChargeLocal(c) \in LocalCounter
           /\ May(ChargeLocal(c), span) >= May(c, span)
           /\ ChargeLocal(c).count <= Limit => May(ChargeLocal(c), span) = May(c, span) + 1
<1>1. c.count \in 0..(Limit + 1) /\ c.left \in -1..Window /\ (c.left >= 0 <=> c.count > 0)
  BY Zenon DEF LocalCounter, Counter
<1>2. /\ ChargeLocal(c).count = IF c.left < 0 THEN 1
                                ELSE IF c.count > Limit THEN c.count ELSE c.count + 1
      /\ ChargeLocal(c).left = IF c.left < 0 THEN Window ELSE c.left
      /\ ChargeLocal(c) \in Counter
  BY <1>1, LimitFacts DEF ChargeLocal, Bump, Counter
<1>3. QED  BY <1>1, <1>2, LimitFacts DEF LocalCounter, May, Paid

\* Time takes as much from the windows as from the span.  A window that ends
\* within the span did not outlive it, so it was opened before.
LEMMA AgeMay ==
    ASSUME NEW c \in CacheCounter
    PROVE  /\ Age(c) \in CacheCounter
           /\ \A span \in Nat \ {0} : May(Age(c), span - 1) >= May(c, span)
<1>1. /\ c \in Counter /\ c.count \in 0..(Limit + 1) /\ c.left \in -1..Window
      /\ IF c.count = 0 THEN c.left = 0 ELSE c.left > 0
  BY Zenon DEF CacheCounter, Counter
<1>2. CASE c.count > 0 /\ c.left > 1
  <2>0. [c EXCEPT !.left = @ - 1] = [count |-> c.count, left |-> c.left - 1]
    BY <1>1 DEF Counter
  <2>1. Age(c) = [count |-> c.count, left |-> c.left - 1]  BY <1>2, <2>0 DEF Age
  <2>2. Age(c).count = c.count /\ Age(c).left = c.left - 1 /\ Age(c) \in Counter
    BY <1>1, <1>2, <2>1, LimitFacts DEF Counter
  <2>3. QED  BY <1>1, <1>2, <2>2, LimitFacts DEF CacheCounter, May, Paid
<1>3. CASE c.count > 0 /\ c.left = 1
  <2>1. Age(c) = [count |-> 0, left |-> 0]  BY <1>3 DEF Age
  <2>2. QED  BY <1>1, <1>3, <2>1, LimitFacts DEF CacheCounter, Counter, May, Paid
<1>4. CASE c.count = 0
  <2>1. Age(c) = c  BY <1>4 DEF Age
  <2>2. QED  BY <1>1, <1>4, <2>1, LimitFacts DEF May
<1>5. QED  BY <1>1, <1>2, <1>3, <1>4

LEMMA AgeLocalMay ==
    ASSUME NEW c \in LocalCounter
    PROVE  /\ AgeLocal(c) \in LocalCounter
           /\ \A span \in Nat \ {0} : May(AgeLocal(c), span - 1) >= May(c, span)
<1>1. c \in Counter /\ c.count \in 0..(Limit + 1) /\ c.left \in -1..Window /\ (c.left >= 0 <=> c.count > 0)
  BY Zenon DEF LocalCounter, Counter
<1>2. CASE c.left > 0
  <2>0. [c EXCEPT !.left = @ - 1] = [count |-> c.count, left |-> c.left - 1]
    BY <1>1 DEF Counter
  <2>1. AgeLocal(c) = [count |-> c.count, left |-> c.left - 1]  BY <1>2, <2>0, Zenon DEF AgeLocal
  <2>2. AgeLocal(c).count = c.count /\ AgeLocal(c).left = c.left - 1 /\ AgeLocal(c) \in Counter
    BY <1>1, <1>2, <2>1, LimitFacts DEF Counter
  <2>3. QED  BY <1>1, <1>2, <2>2, LimitFacts DEF LocalCounter, May, Paid
<1>3. CASE ~(c.left > 0)
  <2>1. AgeLocal(c) = [count |-> 0, left |-> -1]  BY <1>3, Zenon DEF AgeLocal
  <2>2. QED  BY <1>1, <1>3, <2>1, LimitFacts DEF LocalCounter, Counter, May, Paid
<1>4. QED  BY <1>2, <1>3, Zenon

-----------------------------------------------------------------------------
LEMMA UnitsFinite ==
    /\ IsFiniteSet(Units)
    /\ Cardinality(Units) = Cardinality(Limiters) * (2 * Limit - 1)
<1>1. IsFiniteSet(1..(2 * Limit - 1)) /\ Cardinality(1..(2 * Limit - 1)) = 2 * Limit - 1
  BY LimitFacts, FS_Interval
<1>2. QED  BY <1>1, LimitersAssumption, FS_Product, Zenon DEF Units

LEMMA AllowancesFinite ==
    ASSUME NEW l, NEW span
    PROVE  /\ IsFiniteSet(Allowances(l, span))
           /\ Cardinality(Allowances(l, span)) \in Nat
           /\ Cardinality(Allowances(l, span)) <= Cardinality(Units)
<1>1. Allowances(l, span) \in SUBSET Units  BY Zenon DEF Allowances
<1>2. QED  BY <1>1, UnitsFinite, FS_Subset, FS_CardinalityType, Zenon

\* The sum is monotone ...
LEMMA AllowancesKept ==
    ASSUME NEW l, NEW m, NEW a, NEW b,
           \A r \in Limiters : /\ May(l[r], a) \in Int /\ May(m[r], b) \in Int
                               /\ May(l[r], a) <= May(m[r], b)
    PROVE  Cardinality(Allowances(l, a)) <= Cardinality(Allowances(m, b))
<1>1. Allowances(l, a) \in SUBSET Allowances(m, b)  BY LimitFacts DEF Allowances, Units
<1>2. QED  BY <1>1, AllowancesFinite, FS_Subset, Zenon

\* ... grows by one where one counter allows one more ...
LEMMA AllowancesGained ==
    ASSUME NEW l, NEW m, NEW a, NEW b, NEW q \in Limiters,
           \A r \in Limiters : /\ May(l[r], a) \in 0..(2 * Limit - 1) /\ May(m[r], b) \in 0..(2 * Limit - 1)
                               /\ May(l[r], a) <= May(m[r], b),
           May(m[q], b) = May(l[q], a) + 1
    PROVE  Cardinality(Allowances(l, a)) + 1 <= Cardinality(Allowances(m, b))
<1> DEFINE u == <<q, May(m[q], b)>>
<1>1. u \in Units /\ u[1] = q /\ u[2] = May(m[q], b)  BY LimitFacts DEF Units
<1>2. u \in Allowances(m, b) /\ u \notin Allowances(l, a)  BY <1>1, LimitFacts DEF Allowances
<1>3. Allowances(l, a) \subseteq Allowances(m, b)  BY LimitFacts DEF Allowances, Units
<1>4. Allowances(l, a) \union {u} \in SUBSET Allowances(m, b)  BY <1>2, <1>3, Zenon
<1>5. Cardinality(Allowances(l, a) \union {u}) = Cardinality(Allowances(l, a)) + 1
  BY <1>2, AllowancesFinite, FS_AddElement, Zenon
<1>6. QED  BY <1>4, <1>5, AllowancesFinite, FS_Subset

\* ... and falls by no more than the limit where a replica starts again.
LEMMA AllowancesLost ==
    ASSUME NEW l, NEW m, NEW a, NEW q \in Limiters,
           \A r \in Limiters : r # q => m[r] = l[r],
           May(l[q], a) \in 0..(2 * Limit - 1), May(m[q], a) = Limit - 1
    PROVE  Cardinality(Allowances(l, a)) <= Cardinality(Allowances(m, a)) + Limit
<1> DEFINE lost == {q} \X (Limit..(2 * Limit - 1))
<1>1. IsFiniteSet(lost) /\ Cardinality(lost) = Limit
  <2>1. PICK T : T = Limit..(2 * Limit - 1)  BY Zenon
  <2>2. IsFiniteSet(T) /\ Cardinality(T) = Limit  BY <2>1, LimitFacts, FS_Interval
  <2>3. PICK S : S = {q}  BY Zenon
  <2>4. IsFiniteSet(S) /\ Cardinality(S) = 1  BY <2>3, FS_Singleton, Zenon
  <2>5. IsFiniteSet(S \X T) /\ Cardinality(S \X T) = Cardinality(S) * Cardinality(T)
    BY <2>2, <2>4, FS_Product, Zenon
  <2>6. lost = S \X T  BY <2>1, <2>3, Zenon
  <2> HIDE DEF lost
  <2>7. QED  BY <2>2, <2>4, <2>5, <2>6, LimitFacts
<1>2. Allowances(l, a) \in SUBSET (Allowances(m, a) \union lost)
  BY LimitFacts DEF Allowances, Units
<1> HIDE DEF lost
<1>3. /\ IsFiniteSet(Allowances(m, a) \union lost)
      /\ Cardinality(Allowances(m, a) \union lost)
           = Cardinality(Allowances(m, a)) + Limit - Cardinality(Allowances(m, a) \cap lost)
  BY <1>1, AllowancesFinite, FS_Union, Zenon
<1>4. Cardinality(Allowances(m, a) \cap lost) \in Nat
  BY <1>1, AllowancesFinite, FS_Intersection, FS_CardinalityType, Zenon
<1>5. QED  BY <1>2, <1>3, <1>4, LimitFacts, AllowancesFinite, FS_Subset
-----------------------------------------------------------------------------
\* One decision: what the counters may have allowed grows by what is granted.
LEMMA Decided ==
    ASSUME SpanInv, NEW g \in {0, 1}, Observe(g),
           shared' \in CacheCounter, local' \in [Limiters -> LocalCounter],
           May(shared', seen.left) + Cardinality(Allowances(local', seen.left))
             >= May(shared, seen.left) + Cardinality(Allowances(local, seen.left)) + g
    PROVE  SpanInv'
<1>1. /\ seen \in [left : -1..(Window - 1), grants : Nat, losses : 0..MaxLosses]
      /\ seen.left \in Int /\ seen.grants \in Nat /\ seen.losses \in Nat
  BY LimitFacts DEF SpanInv
<1>2. CASE seen.left >= 0
  <2>1. seen' = [left |-> seen.left, grants |-> seen.grants + g, losses |-> seen.losses]
    BY <1>1, <1>2, Zenon DEF Observe
  <2>2. /\ seen' \in [left : -1..(Window - 1), grants : Nat, losses : 0..MaxLosses]
        /\ seen'.left = seen.left /\ seen'.grants = seen.grants + g /\ seen'.losses = seen.losses
    BY <1>1, <2>1
  <2>3. /\ May(shared, seen.left) \in Int /\ May(shared', seen.left) \in Int
        /\ Cardinality(Allowances(local, seen.left)) \in Int
        /\ Cardinality(Allowances(local', seen.left)) \in Int
        /\ Limit * seen.losses \in Int
    BY <1>1, MayBounds, AllowancesFinite, LimitFacts DEF SpanInv, CacheCounter
  <2>4. seen.grants <= May(shared, seen.left) + Cardinality(Allowances(local, seen.left))
                         + Limit * seen.losses
    BY <1>2, Zenon DEF SpanInv
  <2>5. seen'.grants <= May(shared', seen.left) + Cardinality(Allowances(local', seen.left))
                          + Limit * seen.losses
    BY <1>1, <2>2, <2>3, <2>4
  <2>6. QED  BY <1>2, <2>2, <2>5 DEF SpanInv
<1>3. CASE ~(seen.left >= 0)
  <2>1. seen' = seen  BY <1>3, Zenon DEF Observe
  <2>2. QED  BY <1>1, <1>3, <2>1, Zenon DEF SpanInv
<1>4. QED  BY <1>2, <1>3, Zenon

\* What a counter in the cache may have allowed, whether or not it was charged.
LEMMA SharedCharged ==
    ASSUME SpanInv, shared' \in {shared, Charge(shared)}
    PROVE  /\ shared' \in CacheCounter
           /\ May(shared', seen.left) \in Int /\ May(shared, seen.left) \in Int
           /\ May(shared', seen.left) >= May(shared, seen.left)
<1>1. shared \in CacheCounter /\ seen.left \in Int /\ seen.left < Window  BY LimitFacts DEF SpanInv
<1>2. May(shared, seen.left) \in Int  BY <1>1, MayBounds, LimitFacts DEF CacheCounter
<1>3. CASE shared' = shared
  BY <1>1, <1>2, <1>3
<1>4. CASE shared' = Charge(shared)
  <2>1. shared' \in CacheCounter /\ May(shared', seen.left) >= May(shared, seen.left)
    BY <1>1, <1>4, ChargeMay, Zenon
  <2>2. May(shared', seen.left) \in Int  BY <1>1, <2>1, MayBounds, LimitFacts DEF CacheCounter
  <2>3. QED  BY <1>2, <2>1, <2>2, Zenon
<1>5. QED  BY <1>3, <1>4, Zenon

LEMMA CachedStep ==
    ASSUME SpanInv, NEW r \in Limiters, AllowCached(r)
    PROVE  SpanInv'
<1>1. /\ shared' = Charge(shared) /\ local' = local
      /\ Observe(IF shared'.count <= Limit THEN 1 ELSE 0)
  BY Zenon DEF AllowCached, ObserveDecision
<1>2. PICK g \in {0, 1} : g = IF shared'.count <= Limit THEN 1 ELSE 0  BY Zenon
<1>3. /\ shared' \in CacheCounter
      /\ May(shared', seen.left) \in Int /\ May(shared, seen.left) \in Int
      /\ May(shared', seen.left) >= May(shared, seen.left)
  BY <1>1, SharedCharged, Zenon
<1>4. shared'.count <= Limit => May(shared', seen.left) = May(shared, seen.left) + 1
  BY <1>1, ChargeMay, LimitFacts DEF SpanInv
<1>5. May(shared', seen.left) >= May(shared, seen.left) + g  BY <1>2, <1>3, <1>4
<1>6. Cardinality(Allowances(local, seen.left)) \in Int  BY AllowancesFinite
<1>7. May(shared', seen.left) + Cardinality(Allowances(local', seen.left))
        >= May(shared, seen.left) + Cardinality(Allowances(local, seen.left)) + g
  BY <1>1, <1>2, <1>3, <1>5, <1>6
<1>8. Observe(g) /\ local' \in [Limiters -> LocalCounter]  BY <1>1, <1>2, Zenon DEF SpanInv
<1>9. QED  BY <1>3, <1>7, <1>8, Decided, Zenon

LEMMA FallbackStep ==
    ASSUME SpanInv, NEW r \in Limiters, AllowFallback(r)
    PROVE  SpanInv'
<1>1. /\ shared' \in {shared, Charge(shared)}
      /\ local' = [local EXCEPT ![r] = ChargeLocal(@)]
      /\ Observe(IF local'[r].count <= Limit THEN 1 ELSE 0)
  BY Zenon DEF AllowFallback, ObserveDecision
<1>2. PICK g \in {0, 1} : g = IF local'[r].count <= Limit THEN 1 ELSE 0  BY Zenon
<1>3. /\ shared' \in CacheCounter
      /\ May(shared', seen.left) \in Int /\ May(shared, seen.left) \in Int
      /\ May(shared', seen.left) >= May(shared, seen.left)
  BY <1>1, SharedCharged, Zenon
<1>4. /\ local \in [Limiters -> LocalCounter] /\ seen.left \in Int /\ seen.left < Window
  BY LimitFacts DEF SpanInv
<1>5. /\ ChargeLocal(local[r]) \in LocalCounter
      /\ May(ChargeLocal(local[r]), seen.left) >= May(local[r], seen.left)
      /\ ChargeLocal(local[r]).count <= Limit =>
            May(ChargeLocal(local[r]), seen.left) = May(local[r], seen.left) + 1
  BY <1>4, ChargeLocalMay, Zenon
<1>6. /\ local' \in [Limiters -> LocalCounter] /\ local'[r] = ChargeLocal(local[r])
      /\ \A q \in Limiters : q # r => local'[q] = local[q]
  BY <1>1, <1>4, <1>5, Zenon
<1>7. \A q \in Limiters : /\ May(local[q], seen.left) \in 0..(2 * Limit - 1)
                          /\ May(local'[q], seen.left) \in 0..(2 * Limit - 1)
  BY <1>4, <1>6, MayBounds, Zenon DEF LocalCounter
<1>8. \A q \in Limiters : May(local[q], seen.left) <= May(local'[q], seen.left)
  BY <1>5, <1>6, <1>7, LimitFacts
<1>9. /\ Cardinality(Allowances(local, seen.left)) \in Int
      /\ Cardinality(Allowances(local', seen.left)) \in Int
  BY AllowancesFinite
<1>10. Cardinality(Allowances(local', seen.left)) >= Cardinality(Allowances(local, seen.left)) + g
  <2>1. CASE local'[r].count <= Limit
    <3>1. May(local'[r], seen.left) = May(local[r], seen.left) + 1  BY <1>5, <1>6, <2>1, Zenon
    <3>2. Cardinality(Allowances(local, seen.left)) + 1 <= Cardinality(Allowances(local', seen.left))
      BY <1>7, <1>8, <3>1, AllowancesGained, Zenon
    <3>3. QED  BY <1>2, <1>9, <2>1, <3>2, Zenon
  <2>2. CASE ~(local'[r].count <= Limit)
    <3>1. Cardinality(Allowances(local, seen.left)) <= Cardinality(Allowances(local', seen.left))
      BY <1>7, <1>8, LimitFacts, AllowancesKept
    <3>2. QED  BY <1>2, <1>9, <2>2, <3>1
  <2>3. QED  BY <2>1, <2>2, Zenon
<1>11. May(shared', seen.left) + Cardinality(Allowances(local', seen.left))
         >= May(shared, seen.left) + Cardinality(Allowances(local, seen.left)) + g
  BY <1>2, <1>3, <1>9, <1>10
<1>12. Observe(g)  BY <1>1, <1>2, Zenon
<1>13. QED  BY <1>3, <1>6, <1>11, <1>12, Decided, Zenon

LEMMA EndedStep ==
    ASSUME SpanInv, AllowEnded
    PROVE  SpanInv'
<1>1. shared' \in {shared, Charge(shared)} /\ local' = local /\ Observe(0)
  BY Zenon DEF AllowEnded, ObserveDecision
<1>2. /\ shared' \in CacheCounter
      /\ May(shared', seen.left) \in Int /\ May(shared, seen.left) \in Int
      /\ May(shared', seen.left) >= May(shared, seen.left)
  BY <1>1, SharedCharged, Zenon
<1>3. Cardinality(Allowances(local, seen.left)) \in Int  BY AllowancesFinite
<1>4. May(shared', seen.left) + Cardinality(Allowances(local', seen.left))
        >= May(shared, seen.left) + Cardinality(Allowances(local, seen.left)) + 0
  BY <1>1, <1>2, <1>3
<1>5. local' \in [Limiters -> LocalCounter]  BY <1>1, Zenon DEF SpanInv
<1>6. QED  BY <1>1, <1>2, <1>4, <1>5, Decided, Zenon

\* A counter that is lost takes at most Limit with it: what it had beyond the
\* window that may have ended.
LEMMA Lost ==
    ASSUME SpanInv, Lose,
           shared' \in CacheCounter, local' \in [Limiters -> LocalCounter],
           May(shared', seen.left) + Cardinality(Allowances(local', seen.left)) + Limit
             >= May(shared, seen.left) + Cardinality(Allowances(local, seen.left))
    PROVE  SpanInv'
<1>1. /\ seen \in [left : -1..(Window - 1), grants : Nat, losses : 0..MaxLosses]
      /\ seen.left \in Int /\ seen.grants \in Nat /\ seen.losses \in Nat
  BY LimitFacts DEF SpanInv
<1>2. CASE seen.left >= 0
  <2>1. /\ seen' = [left |-> seen.left, grants |-> seen.grants, losses |-> seen.losses + 1]
        /\ seen.losses < MaxLosses
    BY <1>1, <1>2, Zenon DEF Lose
  <2>2. /\ seen' \in [left : -1..(Window - 1), grants : Nat, losses : 0..MaxLosses]
        /\ seen'.left = seen.left /\ seen'.grants = seen.grants /\ seen'.losses = seen.losses + 1
    BY <1>1, <2>1, LimitFacts
  <2>3. /\ May(shared, seen.left) \in Int /\ May(shared', seen.left) \in Int
        /\ Cardinality(Allowances(local, seen.left)) \in Int
        /\ Cardinality(Allowances(local', seen.left)) \in Int
    BY <1>1, MayBounds, AllowancesFinite, LimitFacts DEF SpanInv, CacheCounter
  <2>4. seen.grants <= May(shared, seen.left) + Cardinality(Allowances(local, seen.left))
                         + Limit * seen.losses
    BY <1>2, Zenon DEF SpanInv
  <2>5. /\ Limit * seen'.losses = Limit * seen.losses + Limit
        /\ Limit * seen.losses \in Int /\ Limit * seen'.losses \in Int /\ Limit \in Int
    BY <1>1, <2>2, LimitFacts
  <2>6. seen'.grants <= May(shared', seen.left) + Cardinality(Allowances(local', seen.left))
                          + Limit * seen'.losses
    BY <1>1, <2>2, <2>3, <2>4, <2>5
  <2>7. QED  BY <1>2, <2>2, <2>6 DEF SpanInv
<1>3. CASE ~(seen.left >= 0)
  <2>1. seen' = seen  BY <1>3, Zenon DEF Lose
  <2>2. QED  BY <1>1, <1>3, <2>1, Zenon DEF SpanInv
<1>4. QED  BY <1>2, <1>3, Zenon

LEMMA EvictStep ==
    ASSUME SpanInv, Evict
    PROVE  SpanInv'
<1>1. Lose /\ shared' = [count |-> 0, left |-> 0] /\ local' = local  BY Zenon DEF Evict
<1>2. shared' \in CacheCounter /\ local' \in [Limiters -> LocalCounter]
  BY <1>1, LimitFacts DEF SpanInv, CacheCounter, Counter
<1>3. May(shared', seen.left) = Limit - 1  BY <1>1, Zenon DEF May
<1>4. May(shared, seen.left) \in 0..(2 * Limit - 1)
  BY MayBounds, LimitFacts DEF SpanInv, CacheCounter
<1>5. Cardinality(Allowances(local, seen.left)) \in Int  BY AllowancesFinite
<1>6. May(shared', seen.left) + Cardinality(Allowances(local', seen.left)) + Limit
        >= May(shared, seen.left) + Cardinality(Allowances(local, seen.left))
  BY <1>1, <1>3, <1>4, <1>5, LimitFacts
<1>7. QED  BY <1>1, <1>2, <1>6, Lost, Zenon

LEMMA RestartStep ==
    ASSUME SpanInv, NEW r \in Limiters, RestartReplica(r)
    PROVE  SpanInv'
<1>1. /\ Lose /\ shared' = shared
      /\ local' = [local EXCEPT ![r] = [count |-> 0, left |-> -1]]
  BY Zenon DEF RestartReplica
<1>2. [count |-> 0, left |-> -1] \in LocalCounter  BY LimitFacts DEF LocalCounter, Counter
<1>3. /\ local \in [Limiters -> LocalCounter] /\ shared \in CacheCounter /\ seen.left \in Int
  BY LimitFacts DEF SpanInv
<1>4. /\ local' \in [Limiters -> LocalCounter] /\ local'[r] = [count |-> 0, left |-> -1]
      /\ \A q \in Limiters : q # r => local'[q] = local[q]
  BY <1>1, <1>2, <1>3, Zenon
<1>5. May(local'[r], seen.left) = Limit - 1  BY <1>4 DEF May
<1>6. May(local[r], seen.left) \in 0..(2 * Limit - 1)  BY <1>3, MayBounds, Zenon DEF LocalCounter
<1>7. Cardinality(Allowances(local, seen.left)) <= Cardinality(Allowances(local', seen.left)) + Limit
  BY <1>4, <1>5, <1>6, AllowancesLost, Zenon
<1>8. /\ Cardinality(Allowances(local, seen.left)) \in Int
      /\ Cardinality(Allowances(local', seen.left)) \in Int
      /\ May(shared, seen.left) \in Int
  BY <1>3, AllowancesFinite, MayBounds, LimitFacts DEF CacheCounter
<1>9. May(shared', seen.left) + Cardinality(Allowances(local', seen.left)) + Limit
        >= May(shared, seen.left) + Cardinality(Allowances(local, seen.left))
  BY <1>1, <1>7, <1>8, LimitFacts
<1>10. QED  BY <1>1, <1>3, <1>4, <1>9, Lost, Zenon

LEMMA LimiterTickStep ==
    ASSUME SpanInv, LimiterTick
    PROVE  SpanInv'
<1>1. /\ shared' = Age(shared) /\ local' = [r \in Limiters |-> AgeLocal(local[r])]
      /\ seen' = IF seen.left > 0 THEN [seen EXCEPT !.left = @ - 1]
                  ELSE [left |-> -1, grants |-> 0, losses |-> 0]
  BY Zenon DEF LimiterTick
<1>2. /\ seen \in [left : -1..(Window - 1), grants : Nat, losses : 0..MaxLosses]
      /\ seen.left \in Int /\ seen.grants \in Nat /\ seen.losses \in Nat
      /\ shared \in CacheCounter /\ local \in [Limiters -> LocalCounter]
  BY LimitFacts DEF SpanInv
<1>3. shared' \in CacheCounter /\ local' \in [Limiters -> LocalCounter]
  BY <1>1, <1>2, AgeMay, AgeLocalMay, Zenon
<1>4. CASE seen.left > 0
  <2>1. seen' = [left |-> seen.left - 1, grants |-> seen.grants, losses |-> seen.losses]
    BY <1>1, <1>2, <1>4, Zenon
  <2>2. /\ seen' \in [left : -1..(Window - 1), grants : Nat, losses : 0..MaxLosses]
        /\ seen'.left = seen.left - 1 /\ seen'.grants = seen.grants /\ seen'.losses = seen.losses
    BY <1>2, <1>4, <2>1, LimitFacts
  <2>3. /\ May(shared', seen.left - 1) >= May(shared, seen.left)
        /\ \A r \in Limiters : May(local'[r], seen.left - 1) >= May(local[r], seen.left)
    BY <1>1, <1>2, <1>4, AgeMay, AgeLocalMay
  <2>4. /\ May(shared, seen.left) \in Int /\ May(shared', seen.left - 1) \in Int
        /\ \A r \in Limiters : May(local'[r], seen.left - 1) \in Int /\ May(local[r], seen.left) \in Int
    BY <1>2, <1>3, MayBounds, LimitFacts DEF CacheCounter, LocalCounter
  <2>5. Cardinality(Allowances(local, seen.left)) <= Cardinality(Allowances(local', seen.left - 1))
    BY <2>3, <2>4, AllowancesKept, Zenon
  <2>6. /\ Cardinality(Allowances(local, seen.left)) \in Int
        /\ Cardinality(Allowances(local', seen.left - 1)) \in Int
        /\ Limit * seen.losses \in Int
    BY <1>2, AllowancesFinite, LimitFacts
  <2>7. seen.grants <= May(shared, seen.left) + Cardinality(Allowances(local, seen.left))
                         + Limit * seen.losses
    BY <1>4 DEF SpanInv
  <2>8. seen'.grants <= May(shared', seen'.left) + Cardinality(Allowances(local', seen'.left))
                         + Limit * seen'.losses
    BY <1>2, <2>2, <2>3, <2>4, <2>5, <2>6, <2>7
  <2>9. ~(seen'.left < 0)  BY <1>2, <1>4, <2>2
  <2>10. QED  BY <1>3, <2>2, <2>8, <2>9, Zenon DEF SpanInv
<1>5. CASE ~(seen.left > 0)
  <2>1. seen' = [left |-> -1, grants |-> 0, losses |-> 0]  BY <1>1, <1>5, Zenon
  <2>2. QED  BY <1>3, <2>1, LimitFacts DEF SpanInv
<1>6. QED  BY <1>4, <1>5, Zenon

LEMMA SpanInvStep == SpanInv /\ [LimiterNext]_limiterVars => SpanInv'
<1> SUFFICES ASSUME SpanInv, [LimiterNext]_limiterVars PROVE SpanInv'  BY Zenon
<1>1. CASE LimiterTick  BY <1>1, LimiterTickStep, Zenon
<1>2. CASE OpenObserver
  <2>1. /\ shared' = shared /\ local' = local
        /\ seen' = [left |-> Window - 1, grants |-> 0, losses |-> 0]
    BY <1>2, Zenon DEF OpenObserver
  <2>2. /\ May(shared, Window - 1) \in 0..(2 * Limit - 1)
        /\ Cardinality(Allowances(local, Window - 1)) \in Nat
        /\ Limit * 0 = 0
    BY MayBounds, AllowancesFinite, LimitFacts DEF SpanInv, CacheCounter
  <2>3. 0 <= May(shared, Window - 1) + Cardinality(Allowances(local, Window - 1)) + Limit * 0
    BY <2>2, LimitFacts
  <2>4. /\ seen' \in [left : -1..(Window - 1), grants : Nat, losses : 0..MaxLosses]
        /\ seen'.left = Window - 1 /\ seen'.grants = 0 /\ seen'.losses = 0
    BY <2>1, LimitFacts
  <2>5. QED  BY <2>1, <2>3, <2>4, Zenon DEF SpanInv
<1>3. CASE CacheFlips  BY <1>3, Zenon DEF CacheFlips, SpanInv
<1>4. CASE Evict  BY <1>4, EvictStep, Zenon
<1>5. ASSUME NEW r \in Limiters,
             AllowCached(r) \/ AllowFallback(r) \/ RestartReplica(r)
      PROVE  SpanInv'
  BY <1>5, CachedStep, FallbackStep, RestartStep, Zenon
<1>6. CASE AllowEnded  BY <1>6, EndedStep, Zenon
<1>7. CASE UNCHANGED limiterVars  BY <1>7, Zenon DEF limiterVars, SpanInv
<1>8. QED  BY <1>1, <1>2, <1>3, <1>4, <1>5, <1>6, <1>7, Zenon DEF LimiterNext

\* What one key is allowed in a span of one window's length is bounded: two
\* windows less one unit of the cache's counter and of every replica's, and
\* Limit for every counter that was lost, for any number of replicas, any
\* limit and any window, however the cache comes and goes (FallbackLimiter.Allow).
THEOREM SpanBounded == LimiterSpec => []SpanIsBounded
<1>1. LimiterInit => SpanInv
  BY LimitFacts DEF LimiterInit, SpanInv, CacheCounter, LocalCounter, Counter
<1>2. SpanInv => SpanIsBounded
  <2> SUFFICES ASSUME SpanInv PROVE SpanIsBounded  BY Zenon
  <2>1. PICK n : n = Cardinality(Limiters)  BY Zenon
  <2>2. n \in Nat  BY <2>1, LimitersAssumption, FS_CardinalityType
  <2>3. /\ seen.left \in Int /\ seen.grants \in Nat /\ seen.losses \in Nat
        /\ shared \in Counter
    BY LimitFacts DEF SpanInv, CacheCounter
  <2>4. PICK a : a = May(shared, seen.left)  BY Zenon
  <2>5. PICK b : b = Cardinality(Allowances(local, seen.left))  BY Zenon
  <2>6. a \in 0..(2 * Limit - 1)  BY <2>3, <2>4, MayBounds, Zenon
  <2>7. b \in Nat /\ b <= n * (2 * Limit - 1)  BY <2>1, <2>5, AllowancesFinite, UnitsFinite, Zenon
  <2>8. PICK m \in Nat : m = 2 * Limit - 1  BY LimitFacts, Zenon
  <2>9. m * (1 + n) = m + n * m /\ n * m \in Nat  BY <2>2, <2>8
  <2>10. PICK k \in Nat : k = Limit * seen.losses  BY <2>3, LimitFacts
  <2>11. seen.grants <= m * (1 + n) + k
    <3>1. CASE seen.left >= 0
      <4>1. seen.grants <= a + b + k  BY <2>4, <2>5, <2>10, <3>1, Zenon DEF SpanInv
      <4>2. QED  BY <2>3, <2>6, <2>7, <2>8, <2>9, <2>10, <4>1
    <3>2. CASE ~(seen.left >= 0)
      <4>1. seen.grants = 0  BY <2>3, <3>2 DEF SpanInv
      <4>2. QED  BY <2>8, <2>9, <2>10, <4>1
    <3>3. QED  BY <3>1, <3>2, Zenon
  <2>12. QED  BY <2>1, <2>8, <2>10, <2>11, Zenon DEF SpanIsBounded
<1>3. QED  BY <1>1, <1>2, SpanInvStep, PTL DEF LimiterSpec
=============================================================================
