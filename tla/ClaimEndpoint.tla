--------------------------- MODULE ClaimEndpoint ----------------------------
(***************************************************************************)
(* The two setup routes of one api process, as requests meet their limits: *)
(* handleClaimStatus and handleClaimOwner, the budgets of                  *)
(* setup_limits.go, the derivation slots of internal/credential and the    *)
(* audit rows a refusal leaves.  The statements of ownerclaim.Claim are in *)
(* OwnerClaim, the claimed cache is in SetupGate and what the limiter does *)
(* without its cache is in RateLimiter: here Claim's token check and its   *)
(* redeem are one step each, the claimed bit may be read stale, and the    *)
(* cache answers.                                                          *)
(***************************************************************************)
EXTENDS Naturals, FiniteSets

CONSTANTS
    Requests,       \* concurrent requests; each is reused for ever
    Casts,          \* which calls the request slots may make together
    Origins,        \* network prefixes a request can come from
    Nowhere,        \* clientIPPrefix is nil
    OwnerCeiling,   \* claimOwnerCeiling
    StatusCeiling,  \* claimStatusCeiling
    PerOrigin,      \* claimFailuresPerOrigin
    Global,         \* claimFailuresGlobal
    Window,         \* claimRateWindow, in time units
    Slots           \* DefaultConcurrency of the hasher

ASSUME BudgetsAssumption ==
    {OwnerCeiling, StatusCeiling, PerOrigin, Global, Window, Slots} \subseteq Nat \ {0}

ASSUME RequestsAssumption == IsFiniteSet(Requests)

\* Every limiter key has a prefix of its own.
ASSUME OriginsAssumption ==
    /\ Origins \intersect {"ceiling.claim", "ceiling.status", "all", "audited"} = {}
    /\ Nowhere \notin Origins

\* A token "lapses" when it expires or is superseded during the hash.
Call == [ kind : {"status"}, token : {"none"}, from : {Nowhere} ]
        \union [ kind : {"owner"}, token : {"right", "lapses", "wrong"},
                 from : Origins \union {Nowhere} ]
ASSUME CastsAssumption == Casts \subseteq [Requests -> SUBSET Call]

VARIABLES
    cast,       \* the calls that each slot makes; never changes
    claimed,    \* EXISTS (SELECT 1 FROM users), committed
    buckets,    \* the limiter's counters, [count, left] by key
    sem,        \* derivation slots taken
    req,        \* the requests
    posts,      \* history: POSTs since the window of their ceiling began
    seen        \* an observer of one window's length: [left, rows]

vars == <<cast, claimed, buckets, sem, req, posts, seen>>

Keys == {"ceiling.claim", "ceiling.status", "all", "audited"} \union Origins
Limit(k) == CASE k = "ceiling.claim"  -> OwnerCeiling
              [] k = "ceiling.status" -> StatusCeiling
              [] k = "all"            -> Global
              [] k = "audited"        -> 1
              [] k \in Origins        -> PerOrigin

\* A request slot between two requests keeps only the token told 429, if any.
Done(token, status) ==
    [phase |-> "done", refused |-> IF status = 429 THEN token ELSE "none"]

Init ==
    /\ cast \in Casts
    /\ claimed = FALSE
    /\ buckets = [k \in Keys |-> [count |-> 0, left |-> 0]]
    /\ sem = 0
    /\ req = [q \in Requests |-> Done("none", 0)]
    /\ posts = 0
    /\ seen \in {[left |-> l, rows |-> 0] : l \in {0, Window}}

-----------------------------------------------------------------------------
In(q, phase) == req[q].phase = phase
Goto(q, phase) == req' = [req EXCEPT ![q].phase = phase]
Answer(q, status) == req' = [req EXCEPT ![q] = Done(@.call.token, status)]

Bump(n, limit) == IF n > limit THEN n ELSE n + 1
Charge(k, c) == [ count |-> Bump(c.count, Limit(k)),
                  left  |-> IF c.left > 0 THEN c.left ELSE Window ]
ChargeAll(ks) == [k \in Keys |-> IF k \in ks THEN Charge(k, buckets[k]) ELSE buckets[k]]
\* Limiter.Allow for a request whose context lives.
Allow(k, ok) ==
    /\ buckets' = ChargeAll({k})
    /\ ok = (buckets'[k].count <= Limit(k))

\* Variant: both routes count in one bucket.
CeilingShared(kind) == "ceiling.claim"
Ceiling(kind) == IF kind = "owner" THEN "ceiling.claim" ELSE "ceiling.status"

\* A request arrives and allowSetupRequest charges its route's ceiling; late
\* says that there was an owner by then.
Arrive(q, call) ==
    /\ In(q, "done") /\ call \in cast[q]
    /\ \E ok \in BOOLEAN :
          /\ Allow(Ceiling(call.kind), ok)
          /\ req' = [req EXCEPT ![q] =
                IF ok THEN [ phase |-> "look", call |-> call, limited |-> FALSE,
                             late |-> claimed ]
                      ELSE Done(call.token, 429)]
    /\ posts' = IF call.kind = "owner" THEN Bump(posts, OwnerCeiling) ELSE posts
    /\ UNCHANGED <<cast, claimed, sem, seen>>

\* instanceClaimed, from a cache whose false may be stale or from the database.
\* Past it a POST is refused for its media type, body or origin, or goes on.
InstanceClaimed(q) ==
    /\ In(q, "look")
    /\ \E saw \in {claimed, FALSE} :
          \/ /\ req[q].call.kind = "status"
             /\ Answer(q, 200)
          \/ /\ req[q].call.kind = "owner" /\ saw
             /\ Answer(q, 409)
          \/ /\ req[q].call.kind = "owner" /\ ~saw
             /\ Goto(q, "examine") \/ Answer(q, 400)
    /\ UNCHANGED <<cast, claimed, buckets, sem, posts, seen>>

\* The database fails the request, or its context has ended: 503.
Unavailable(q) ==
    /\ req[q].phase \in {"look", "examine", "redeem"}
    /\ Answer(q, 503)
    /\ UNCHANGED <<cast, claimed, buckets, sem, posts, seen>>

-----------------------------------------------------------------------------
\* ownerclaim.Claim, and mapClaimError on what it returns.

\* Variant: the token is examined on the strength of the claimed check before.
ExamineTokenTrusting(q) ==
    /\ In(q, "examine")
    /\ Goto(q, IF ~claimed /\ req[q].call.token # "wrong" THEN "hash" ELSE "failure")
    /\ UNCHANGED <<cast, claimed, buckets, sem, posts, seen>>
\* The claimed check, examineToken and, for a token that is not accepted,
\* classifyRefusal.
ExamineToken(q) ==
    /\ In(q, "examine")
    /\ \/ /\ claimed
          /\ Answer(q, 409)
       \/ /\ ~claimed
          /\ Goto(q, IF req[q].call.token # "wrong" THEN "hash" ELSE "failure")
    /\ UNCHANGED <<cast, claimed, buckets, sem, posts, seen>>

\* Hash: a slot, or ErrBusy when the context ends first.
HashBegins(q) ==
    /\ In(q, "hash") /\ sem < Slots
    /\ sem' = sem + 1
    /\ Goto(q, "deriving")
    /\ UNCHANGED <<cast, claimed, buckets, posts, seen>>

HashBusy(q) ==
    /\ In(q, "hash")
    /\ Answer(q, 503)
    /\ UNCHANGED <<cast, claimed, buckets, sem, posts, seen>>

\* Variant: the slot is not given back.
HashEndsHolding(q) ==
    /\ In(q, "deriving")
    /\ UNCHANGED sem
    /\ Goto(q, "redeem")
    /\ UNCHANGED <<cast, claimed, buckets, posts, seen>>
\* The derivation is not interrupted; the slot is given back in any case.
HashEnds(q) ==
    /\ In(q, "deriving")
    /\ sem' = sem - 1
    /\ Goto(q, "redeem")
    /\ UNCHANGED <<cast, claimed, buckets, posts, seen>>

\* The redeem, and classifyRefusal on its empty result: there is an owner, or the
\* token is not accepted any more.
Redeem(q) ==
    /\ In(q, "redeem")
    /\ \/ /\ claimed \/ req[q].call.token = "right"
          /\ Answer(q, IF claimed THEN 409 ELSE 201)
          /\ claimed' = TRUE
       \/ /\ ~claimed /\ req[q].call.token = "lapses"
          /\ Goto(q, "failure")
          /\ UNCHANGED claimed
    /\ UNCHANGED <<cast, buckets, sem, posts, seen>>

-----------------------------------------------------------------------------
\* refuseToken.

\* claimLimiterKeys.
FailureKeys(q) == {"all"} \union ({req[q].call.from} \intersect Origins)

\* consumeClaimFailure: both budgets are charged, and either one limits.
ConsumeClaimFailure(q) ==
    /\ In(q, "failure")
    /\ buckets' = ChargeAll(FailureKeys(q))
    /\ LET limited == \E k \in FailureKeys(q) : buckets'[k].count > Limit(k)
       IN  req' = [req EXCEPT ![q].limited = limited,
                              ![q].phase = IF limited THEN "transition" ELSE "record"]
    /\ UNCHANGED <<cast, claimed, sem, posts, seen>>

\* Variant: every limited refusal is recorded.
ClaimLimitTransitionAlways(q) ==
    /\ In(q, "transition")
    /\ Goto(q, "record")
    /\ UNCHANGED <<cast, claimed, buckets, sem, posts, seen>>
\* claimLimitTransition, on a budget of one per window.
ClaimLimitTransition(q) ==
    /\ In(q, "transition")
    /\ \E ok \in BOOLEAN :
          /\ Allow("audited", ok)
          /\ IF ok THEN Goto(q, "record") ELSE Answer(q, 429)
    /\ UNCHANGED <<cast, claimed, sem, posts, seen>>

\* recordClaimRefusal or recordClaimRateLimited; a row that cannot be written is
\* dropped.
RecordRefusal(q) ==
    /\ In(q, "record")
    /\ \/ seen' = IF seen.left > 0 THEN [seen EXCEPT !.rows = @ + 1] ELSE seen
       \/ UNCHANGED seen
    /\ Answer(q, IF req[q].limited THEN 429 ELSE 403)
    /\ UNCHANGED <<cast, claimed, buckets, sem, posts>>

-----------------------------------------------------------------------------
\* The keys a refusal has yet to ask for.
Ahead(q) == CASE In(q, "failure")    -> FailureKeys(q) \union {"audited"}
              [] In(q, "transition") -> {"audited"}
              [] OTHER               -> {}

\* The context ends under a refusal on its way through the limiter, which then
\* allows it nothing more, whether or not its commands are carried out; no row is
\* written, and the 429 reaches nobody.
Abandon(q) ==
    /\ Ahead(q) # {}
    /\ \E ks \in SUBSET Ahead(q) : buckets' = ChargeAll(ks)
    /\ Answer(q, 0)
    /\ UNCHANGED <<cast, claimed, sem, posts, seen>>

Age(c) == IF c.left > 1 THEN [c EXCEPT !.left = @ - 1] ELSE [count |-> 0, left |-> 0]

\* The observer begins to look at the start of a time unit.
Tick ==
    /\ buckets' = [k \in Keys |-> Age(buckets[k])]
    /\ posts' = IF buckets["ceiling.claim"].left > 1 THEN posts ELSE 0
    /\ seen' \in IF seen.left > 1 THEN {[seen EXCEPT !.left = @ - 1]}
                 ELSE {[left |-> l, rows |-> 0] : l \in {0, Window}}
    /\ UNCHANGED <<cast, claimed, sem, req>>

Proceed(q) ==
    \/ InstanceClaimed(q) \/ ExamineToken(q) \/ HashBegins(q) \/ HashEnds(q) \/ Redeem(q)
    \/ ConsumeClaimFailure(q) \/ ClaimLimitTransition(q) \/ RecordRefusal(q)

Next ==
    \/ Tick
    \/ \E q \in Requests : \/ \E call \in Call : Arrive(q, call)
                           \/ Proceed(q) \/ Unavailable(q) \/ HashBusy(q) \/ Abandon(q)

Spec == Init /\ [][Next]_vars

\* A handler runs on, without counting on its context to end, and a channel
\* serves its senders in turn, so that a derivation slot that keeps coming free
\* comes to each of those who wait.
FairSpec == Spec /\ \A q \in Requests : WF_vars(Proceed(q)) /\ SF_vars(HashBegins(q))

-----------------------------------------------------------------------------
\* "A request carrying the correct token is never answered 429 by this
\* limiter" of failures, and "a claim-status flood cannot spend" the ceiling of
\* the POST: such a request is answered 429 only after OwnerCeiling other POSTs
\* in the same window.
RightTokenIsNotStarved ==
    [][ \A q \in Requests :
          (req'[q] # req[q] /\ req'[q] = Done("right", 429)) => posts' > OwnerCeiling ]_vars

\* Refusals do not fill a table nothing can delete: a span of one window's length
\* meets two windows of the failure budget and two of the transition's, and the
\* rows written in it are theirs, with one for every request that was past its
\* budget when the span began.
AuditIsBounded == seen.rows <= 2 * Global + 2 + Cardinality(Requests)

\* "A claimed instance answers 409 and writes nothing whatever the request
\* carries": a request that arrives once there is an owner costs no derivation,
\* no failure budget and no audit row, even if a stale cache lets it past the
\* first check.
ClaimedIsInert ==
    \A q \in Requests :
        ~In(q, "done") /\ req[q].late => req[q].phase \in {"look", "examine"}

\* Every request is answered, those that wait for a derivation slot included.
EveryRequestIsAnswered == \A q \in Requests : ~In(q, "done") ~> In(q, "done")
=============================================================================
