----------------------------- MODULE SetupGate ------------------------------
(***************************************************************************)
(* The setup gate of internal/httpapi/setup.go: every api replica keeps a  *)
(* claimedCache, and requests read it, look the claimed bit up in the      *)
(* database when it is not fresh, and write it back.  A request is several *)
(* steps, so requests on one replica overlap.                              *)
(*                                                                         *)
(* Ages count time units and saturate at TTL: stamp[r] is the age of the   *)
(* time that the cache keeps for its last negative answer.                 *)
(***************************************************************************)
EXTENDS Naturals

CONSTANTS
    Replicas,
    Requests,   \* concurrent requests; each is reused for ever
    Kinds,      \* subset of {"guarded", "status", "owner"}
    TTL         \* claimedNegativeTTL, in time units

ASSUME TTLAssumption == TTL \in Nat \ {0}
ASSUME KindsAssumption == Kinds \subseteq {"guarded", "status", "owner"}

VARIABLES
    claimed,    \* EXISTS (SELECT 1 FROM users), committed
    cacheTrue,  \* claimedCache.claimed
    stamp,      \* age of claimedCache.mu, TTL when it is old or zero
    saidTrue,   \* replicas that have answered some request with "claimed"
    req         \* the requests

vars == <<claimed, cacheTrue, stamp, saidTrue, req>>

Ages == 0..TTL

Request == [ phase   : {"done", "look", "store", "answer", "claim", "committed"},
             kind    : Kinds \union {"none"},
             replica : Replicas,
             saw     : BOOLEAN,      \* the bit this request has read
             nowAge  : Ages,         \* age of the `now` it captured
             late    : BOOLEAN,      \* it began after its replica said "claimed"
             answer  : {"none", "claimed", "unclaimed", "unavailable"} ]

\* A request slot between two requests keeps only what it was last told.
Done(r, late, answer) ==
    [ phase |-> "done", kind |-> "none", replica |-> r, saw |-> FALSE,
      nowAge |-> 0, late |-> late, answer |-> answer ]

Init ==
    /\ claimed = FALSE
    /\ cacheTrue = [r \in Replicas |-> FALSE]
    /\ stamp = [r \in Replicas |-> TTL]
    /\ saidTrue = {}
    /\ req \in [Requests -> {Done(r, FALSE, "none") : r \in Replicas}]

-----------------------------------------------------------------------------
\* Variant: a cached false does not go stale.
FreshForever(r) == TRUE
\* claimedCache.get: (claimed, fresh).
Fresh(r) == cacheTrue[r] \/ stamp[r] < TTL

\* Variant: a cache that keeps whatever the last lookup said.
SetLast(r, bit, age) ==
    /\ cacheTrue' = [cacheTrue EXCEPT ![r] = bit]
    /\ stamp' = IF bit THEN stamp ELSE [stamp EXCEPT ![r] = age]
\* claimedCache.set, with the age of the `now` that it is given.
Set(r, bit, age) ==
    /\ cacheTrue' = [cacheTrue EXCEPT ![r] = @ \/ bit]
    /\ stamp' = IF bit THEN stamp ELSE [stamp EXCEPT ![r] = age]

cache == <<cacheTrue, stamp>>

\* instanceClaimed, up to the cache: an answer, or a lookup to make.
Arrive(q, kind, r) ==
    /\ req[q].phase = "done"
    /\ req' = [req EXCEPT ![q] =
          [ phase   |-> IF Fresh(r) THEN "answer" ELSE "look",
            kind    |-> kind, replica |-> r, saw |-> cacheTrue[r],
            nowAge  |-> 0, late |-> r \in saidTrue, answer |-> "none" ]]
    /\ UNCHANGED <<claimed, cache, saidTrue>>

\* lookupClaimed reads the committed bit.
Lookup(q) ==
    /\ req[q].phase = "look"
    /\ req' = [req EXCEPT ![q].phase = "store", ![q].saw = claimed]
    /\ UNCHANGED <<claimed, cache, saidTrue>>

Unavailable(q) ==
    /\ req' = [req EXCEPT ![q] = Done(@.replica, @.late, "unavailable")]
    /\ UNCHANGED saidTrue

\* A failed lookup is a 503 and leaves the cache alone.
LookupFails(q) ==
    /\ req[q].phase = "look"
    /\ Unavailable(q)
    /\ UNCHANGED <<claimed, cache>>

\* instanceClaimed stores what it read under the time it captured before.
Store(q) ==
    /\ req[q].phase = "store"
    /\ Set(req[q].replica, req[q].saw, req[q].nowAge)
    /\ req' = [req EXCEPT ![q].phase = "answer"]
    /\ UNCHANGED <<claimed, saidTrue>>

Say(q, bit) ==
    /\ req' = [req EXCEPT ![q] =
          Done(@.replica, @.late, IF bit THEN "claimed" ELSE "unclaimed")]
    /\ saidTrue' = IF bit THEN saidTrue \union {req[q].replica} ELSE saidTrue

\* The guard lets the request through or refuses it with 403.
AnswerGuarded(q) ==
    /\ req[q].phase = "answer" /\ req[q].kind = "guarded"
    /\ Say(q, req[q].saw)
    /\ UNCHANGED <<claimed, cache>>

\* handleClaimStatus stores the bit once more under the present time, also when
\* it comes from the cache.
AnswerStatus(q) ==
    /\ req[q].phase = "answer" /\ req[q].kind = "status"
    /\ Set(req[q].replica, req[q].saw, 0)
    /\ Say(q, req[q].saw)
    /\ UNCHANGED claimed

\* handleClaimOwner answers 409 at once, or goes on to ownerclaim.Claim.
AnswerOwner(q) ==
    /\ req[q].phase = "answer" /\ req[q].kind = "owner"
    /\ \/ /\ req[q].saw
          /\ Say(q, TRUE)
       \/ /\ ~req[q].saw
          /\ req' = [req EXCEPT ![q].phase = "claim", ![q].nowAge = 0]
          /\ UNCHANGED saidTrue
    /\ UNCHANGED <<claimed, cache>>

\* ownerclaim.Claim commits the owner.
ClaimCommits(q) ==
    /\ req[q].phase = "claim" /\ ~claimed
    /\ claimed' = TRUE
    /\ req' = [req EXCEPT ![q].phase = "committed"]
    /\ UNCHANGED <<cache, saidTrue>>

\* The handler learns that there is an owner, its own (201) or another's
\* (409), and caches the bit.
ClaimDecided(q) ==
    /\ req[q].phase = "committed" \/ (req[q].phase = "claim" /\ claimed)
    /\ Set(req[q].replica, TRUE, 0)
    /\ Say(q, TRUE)
    /\ UNCHANGED claimed

\* The token is refused on an unclaimed instance.
ClaimRefused(q) ==
    /\ req[q].phase = "claim" /\ ~claimed
    /\ Say(q, FALSE)
    /\ UNCHANGED <<claimed, cache>>

\* Variant: every failure of Claim is taken for "already claimed".
ClaimFailsAsClaimed(q) ==
    /\ req[q].phase \in {"claim", "committed"}
    /\ Set(req[q].replica, TRUE, 0)
    /\ Unavailable(q)
    /\ UNCHANGED claimed
\* Claim fails (busy, unavailable), or the request is refused before it for its
\* body or origin, or the commit goes through and the answer to it is lost:
\* nothing is cached.
ClaimFails(q) ==
    /\ req[q].phase \in {"claim", "committed"}
    /\ Unavailable(q)
    /\ UNCHANGED <<claimed, cache>>

Older(age) == IF age < TTL THEN age + 1 ELSE TTL

Tick ==
    /\ stamp' = [r \in Replicas |-> Older(stamp[r])]
    /\ req' = [q \in Requests |-> IF req[q].phase \in {"look", "store", "answer"}
          THEN [req[q] EXCEPT !.nowAge = Older(@)]
          ELSE req[q]]
    /\ UNCHANGED <<claimed, cacheTrue, saidTrue>>

Next ==
    \/ Tick
    \/ \E q \in Requests :
          \/ \E kind \in Kinds, r \in Replicas : Arrive(q, kind, r)
          \/ Lookup(q) \/ LookupFails(q) \/ Store(q)
          \/ AnswerGuarded(q) \/ AnswerStatus(q) \/ AnswerOwner(q)
          \/ ClaimCommits(q) \/ ClaimDecided(q) \/ ClaimRefused(q) \/ ClaimFails(q)

Spec == Init /\ [][Next]_vars

\* Time passes, a request that has begun goes on, guarded requests keep
\* arriving at every replica, and lookups do not fail for ever.
GateFairness ==
    /\ WF_vars(Tick)
    /\ \A r \in Replicas : SF_vars(\E q \in Requests : Arrive(q, "guarded", r))
    /\ \A q \in Requests :
          /\ SF_vars(Lookup(q)) /\ WF_vars(Store(q))
          /\ WF_vars(AnswerGuarded(q) \/ AnswerStatus(q) \/ AnswerOwner(q))
          /\ WF_vars(ClaimDecided(q) \/ ClaimRefused(q) \/ ClaimFails(q))

FairSpec == Spec /\ GateFairness

-----------------------------------------------------------------------------
\* Types.
TypeOK ==
    /\ claimed \in BOOLEAN
    /\ cacheTrue \in [Replicas -> BOOLEAN]
    /\ stamp \in [Replicas -> Ages]
    /\ saidTrue \subseteq Replicas
    /\ req \in [Requests -> Request]

\* A cached true is never wrong, whatever lookups, claims and failures of claims
\* overlap, and no request is let through or answered 409 before the instance
\* has an owner.
CacheIsTruthful ==
    /\ \A r \in Replicas : cacheTrue[r] => claimed
    /\ \A q \in Requests : req[q].answer = "claimed" => claimed

\* "The bit is monotonic": on one replica, a request that begins after some
\* request was answered "claimed" is never answered "unclaimed", however late
\* a slow lookup of an earlier request writes its false back.
NoReturnToUnclaimed ==
    \A q \in Requests : ~(req[q].late /\ req[q].answer = "unclaimed")

\* Once there is an owner every replica finds out, provided that status requests
\* do not go on for ever: a false that is not renewed goes stale, and the next
\* guarded request looks the bit up.
GuardOpens ==
    \A r \in Replicas :
        <>[](\A q \in Requests : req[q].kind # "status") => (claimed ~> cacheTrue[r])

\* The comment of claimedCache: a false "is cached only briefly", and "a stale
\* false merely delays the guard opening": once there is an owner, every replica
\* finds out, whatever requests it is sent meanwhile.
StaleFalseOnlyDelays ==
    \A r \in Replicas : claimed ~> cacheTrue[r]
=============================================================================
