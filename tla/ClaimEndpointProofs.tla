------------------------ MODULE ClaimEndpointProofs -------------------------
(***************************************************************************)
(* Proofs about ClaimEndpoint, for any number of concurrent requests and   *)
(* origins, and any budgets, window and number of derivation slots.        *)
(***************************************************************************)
EXTENDS ClaimEndpoint, FiniteSetTheorems, TLAPS

Phases == {"look", "examine", "hash", "deriving", "redeem", "failure", "transition", "record"}
Closed == [phase : {"done"}, refused : {"right", "lapses", "wrong", "none"}]
Open == [phase : Phases, call : Call, limited : BOOLEAN, late : BOOLEAN]

\* What holds of one request r when c says whether there is an owner: one that
\* came late is not past Claim's own check, and no right token is on its way
\* through the failure budgets.
Proper(r, c) ==
    \/ r \in Closed
    \/ /\ r \in Open
       /\ r.late => c /\ r.phase \in {"look", "examine"}
       /\ r.phase \in {"failure", "transition", "record"} => r.call.token # "right"

\* The window of posts is the window of its ceiling.
RInv ==
    /\ claimed \in BOOLEAN
    /\ req \in [Requests -> Closed \union Open]
    /\ \A q \in Requests : Proper(req[q], claimed)
    /\ buckets \in [Keys -> [count : Nat, left : Nat]]
    /\ posts = buckets["ceiling.claim"].count

LEMMA Budgets ==
    {OwnerCeiling, StatusCeiling, PerOrigin, Global, Window, Slots} \subseteq Nat
BY BudgetsAssumption

LEMMA CallTokens ==
    ASSUME NEW call \in Call
    PROVE  /\ call.token \in {"right", "lapses", "wrong", "none"}
           /\ call.kind = "owner" \/ call.token # "right"
BY Zenon DEF Call

\* A step that leaves the counters of posts alone and gives one request r keeps
\* RInv if r is proper.
LEMMA OneRequest ==
    ASSUME RInv, NEW q \in Requests, NEW r, req' = [req EXCEPT ![q] = r],
           claimed' \in BOOLEAN, claimed => claimed', Proper(r, claimed'),
           buckets' \in [Keys -> [count : Nat, left : Nat]],
           posts' = buckets'["ceiling.claim"].count
    PROVE  RInv'
<1>1. r \in Closed \union Open  BY Zenon DEF Proper
<1>2. req' \in [Requests -> Closed \union Open]  BY <1>1, Zenon DEF RInv
<1>3. \A p \in Requests : Proper(req'[p], claimed')
  <2> SUFFICES ASSUME NEW p \in Requests PROVE Proper(req'[p], claimed')  BY Zenon
  <2>1. CASE p = q
    BY <2>1, Zenon DEF RInv
  <2>2. CASE p # q
    <3>1. req'[p] = req[p] /\ Proper(req[p], claimed)  BY <2>2, Zenon DEF RInv
    <3>2. QED  BY <3>1, Zenon DEF Proper
  <2>3. QED  BY <2>1, <2>2, Zenon
<1>4. QED  BY <1>2, <1>3, Zenon DEF RInv

\* Charging keys other than the ceiling of the POST.
LEMMA ChargeType ==
    ASSUME RInv, NEW ks, buckets' = ChargeAll(ks)
    PROVE  /\ buckets' \in [Keys -> [count : Nat, left : Nat]]
           /\ "ceiling.claim" \notin ks => buckets'["ceiling.claim"] = buckets["ceiling.claim"]
<1>1. \A k \in Keys : Charge(k, buckets[k]) \in [count : Nat, left : Nat]
  <2> SUFFICES ASSUME NEW k \in Keys PROVE Charge(k, buckets[k]) \in [count : Nat, left : Nat]
    BY Zenon
  <2>1. buckets[k].count \in Nat /\ buckets[k].left \in Nat  BY Zenon DEF RInv
  <2>2. Bump(buckets[k].count, Limit(k)) \in Nat  BY <2>1 DEF Bump
  <2>3. QED  BY <2>1, <2>2, Budgets, Zenon DEF Charge
<1>2. "ceiling.claim" \in Keys  BY Zenon DEF Keys
<1>3. QED  BY <1>1, <1>2, Zenon DEF ChargeAll, RInv

-----------------------------------------------------------------------------
\* The step, action by action.  An answer, or a move to another phase, is one
\* request's.

LEMMA Answered ==
    ASSUME RInv, NEW q \in Requests, req[q].phase # "done", NEW status, Answer(q, status),
           claimed' \in BOOLEAN, claimed => claimed',
           buckets' \in [Keys -> [count : Nat, left : Nat]],
           posts' = buckets'["ceiling.claim"].count
    PROVE  RInv'
<1>1. req[q] \in Open  BY Zenon DEF RInv, Closed
<1>2. req[q].call \in Call  BY <1>1, Zenon DEF Open
<1>3. Done(req[q].call.token, status) \in Closed  BY <1>2, CallTokens DEF Done, Closed
<1>4. req' = [req EXCEPT ![q] = Done(req[q].call.token, status)]  BY Zenon DEF Answer
<1>5. QED  BY <1>3, <1>4, OneRequest, Zenon DEF Proper

LEMMA Moved ==
    ASSUME RInv, NEW q \in Requests, req[q].phase # "done", NEW phase \in Phases, Goto(q, phase),
           UNCHANGED <<claimed, buckets, posts>>,
           req[q].late => phase \in {"look", "examine"},
           phase \in {"failure", "transition", "record"} => req[q].call.token # "right"
    PROVE  RInv'
<1>1. req[q] \in Open /\ Proper(req[q], claimed)  BY Zenon DEF RInv, Closed
<1>2. PICK r : r = [req[q] EXCEPT !.phase = phase]  BY Zenon
<1>3. r \in Open /\ r.late = req[q].late /\ r.call = req[q].call /\ r.phase = phase
  BY <1>1, <1>2, Zenon DEF Open
<1>4. Proper(r, claimed)  BY <1>1, <1>3, Zenon DEF Proper, Closed
<1>5. req' = [req EXCEPT ![q] = r]  BY <1>2, Zenon DEF Goto
<1>6. claimed' \in BOOLEAN /\ (claimed => claimed') /\ Proper(r, claimed')  BY <1>4, Zenon DEF RInv
<1>7. /\ buckets' \in [Keys -> [count : Nat, left : Nat]]
      /\ posts' = buckets'["ceiling.claim"].count
  BY Zenon DEF RInv
<1>8. QED  BY <1>5, <1>6, <1>7, OneRequest, Zenon

LEMMA ArriveStep ==
    ASSUME RInv, NEW q \in Requests, NEW call \in Call, Arrive(q, call)
    PROVE  RInv'
<1>1. PICK ok \in BOOLEAN :
        /\ Allow(Ceiling(call.kind), ok)
        /\ req' = [req EXCEPT ![q] =
                IF ok THEN [ phase |-> "look", call |-> call, limited |-> FALSE, late |-> claimed ]
                      ELSE Done(call.token, 429)]
  BY Zenon DEF Arrive
<1>2. buckets' = ChargeAll({Ceiling(call.kind)})  BY <1>1, Zenon DEF Allow
<1>3. buckets' \in [Keys -> [count : Nat, left : Nat]]  BY <1>2, ChargeType, Zenon
<1>4. posts' = buckets'["ceiling.claim"].count
  <2>1. CASE call.kind = "owner"
    <3>1. buckets'["ceiling.claim"] = Charge("ceiling.claim", buckets["ceiling.claim"])
      BY <1>2, <2>1, Zenon DEF Ceiling, ChargeAll, Keys
    <3>2. posts' = Bump(posts, OwnerCeiling)  BY <2>1, Zenon DEF Arrive
    <3>3. Limit("ceiling.claim") = OwnerCeiling  BY OriginsAssumption DEF Limit
    <3>4. QED  BY <3>1, <3>2, <3>3 DEF Charge, RInv
  <2>2. CASE call.kind # "owner"
    <3>1. "ceiling.claim" \notin {Ceiling(call.kind)}  BY <2>2, Zenon DEF Ceiling
    <3>2. posts' = posts  BY <2>2, Zenon DEF Arrive
    <3>3. QED  BY <1>2, <3>1, <3>2, ChargeType, Zenon DEF RInv
  <2>3. QED  BY <2>1, <2>2, Zenon
<1>5. claimed' = claimed /\ claimed \in BOOLEAN  BY Zenon DEF Arrive, RInv
<1>6. CASE ok
  <2>1. PICK r : r = [phase |-> "look", call |-> call, limited |-> FALSE, late |-> claimed]  BY Zenon
  <2>2. r \in Open /\ r.phase = "look" /\ r.late = claimed  BY <1>5, <2>1, Zenon DEF Open, Phases
  <2>3. Proper(r, claimed)  BY <2>2, Zenon DEF Proper
  <2>4. req' = [req EXCEPT ![q] = r]  BY <1>1, <1>6, <2>1, Zenon
  <2>5. QED  BY <1>3, <1>4, <1>5, <2>3, <2>4, OneRequest, Zenon
<1>7. CASE ~ok
  <2>1. Done(call.token, 429) \in Closed  BY CallTokens, Zenon DEF Done, Closed
  <2>2. req' = [req EXCEPT ![q] = Done(call.token, 429)]  BY <1>1, <1>7, Zenon
  <2>3. QED  BY <1>3, <1>4, <1>5, <2>1, <2>2, OneRequest, ZenonT(20) DEF Proper
<1>8. QED  BY <1>6, <1>7, Zenon

LEMMA ConsumeStep ==
    ASSUME RInv, NEW q \in Requests, ConsumeClaimFailure(q)
    PROVE  RInv'
<1>1. req[q] \in Open /\ Proper(req[q], claimed) /\ req[q].phase = "failure"
  BY Zenon DEF RInv, Closed, ConsumeClaimFailure, In
<1>2. buckets' = ChargeAll(FailureKeys(q)) /\ UNCHANGED <<claimed, posts>>
  BY Zenon DEF ConsumeClaimFailure
<1>3. "ceiling.claim" \notin FailureKeys(q)
  BY OriginsAssumption DEF FailureKeys
<1>4. PICK limited \in BOOLEAN :
        req' = [req EXCEPT ![q].limited = limited,
                           ![q].phase = IF limited THEN "transition" ELSE "record"]
  BY Zenon DEF ConsumeClaimFailure
<1>5. PICK r : r = [req[q] EXCEPT !.limited = limited,
                                  !.phase = IF limited THEN "transition" ELSE "record"]
  BY Zenon
<1>6. r \in Open /\ r.late = req[q].late /\ r.call = req[q].call /\ r.phase \in {"transition", "record"}
  BY <1>1, <1>5, Zenon DEF Open, Phases
<1>7. Proper(r, claimed)  BY <1>1, <1>6, Zenon DEF Proper, Closed
<1>8. req' = [req EXCEPT ![q] = r]  BY <1>1, <1>4, <1>5, Zenon DEF RInv
<1>9. /\ buckets' \in [Keys -> [count : Nat, left : Nat]]
      /\ posts' = buckets'["ceiling.claim"].count
  BY <1>2, <1>3, ChargeType, Zenon DEF RInv
<1>10. claimed' \in BOOLEAN /\ (claimed => claimed') /\ Proper(r, claimed')  BY <1>2, <1>7, Zenon DEF RInv
<1>11. QED  BY <1>8, <1>9, <1>10, OneRequest, Zenon

LEMMA TransitionStep ==
    ASSUME RInv, NEW q \in Requests, ClaimLimitTransition(q)
    PROVE  RInv'
<1>1. req[q] \in Open /\ Proper(req[q], claimed) /\ req[q].phase = "transition"
  BY Zenon DEF RInv, Closed, ClaimLimitTransition, In
<1>2. buckets' = ChargeAll({"audited"}) /\ UNCHANGED <<claimed, posts>>
  BY Zenon DEF ClaimLimitTransition, Allow
<1>3. /\ buckets' \in [Keys -> [count : Nat, left : Nat]]
      /\ posts' = buckets'["ceiling.claim"].count
  BY <1>2, ChargeType DEF RInv
<1>4. claimed' \in BOOLEAN /\ (claimed => claimed')  BY <1>2, Zenon DEF RInv
<1>5. CASE Answer(q, 429)
  BY <1>1, <1>3, <1>4, <1>5, Answered
<1>6. CASE Goto(q, "record")
  <2>1. PICK r : r = [req[q] EXCEPT !.phase = "record"]  BY Zenon
  <2>2. r \in Open /\ r.late = req[q].late /\ r.call = req[q].call /\ r.phase = "record"
    BY <1>1, <2>1, Zenon DEF Open, Phases
  <2>3. Proper(r, claimed')  BY <1>1, <1>2, <2>2, Zenon DEF Proper, Closed
  <2>4. req' = [req EXCEPT ![q] = r]  BY <1>6, <2>1, Zenon DEF Goto
  <2>5. QED  BY <1>3, <1>4, <2>3, <2>4, OneRequest, Zenon
<1>7. QED  BY <1>5, <1>6, Zenon DEF ClaimLimitTransition

LEMMA AbandonStep ==
    ASSUME RInv, NEW q \in Requests, Abandon(q)
    PROVE  RInv'
<1>1. req[q].phase # "done"  BY Zenon DEF Abandon, Ahead, In
<1>2. PICK ks \in SUBSET Ahead(q) : buckets' = ChargeAll(ks)  BY Zenon DEF Abandon
<1>3. "ceiling.claim" \notin ks  BY OriginsAssumption DEF Ahead, FailureKeys
<1>4. /\ buckets' \in [Keys -> [count : Nat, left : Nat]]
      /\ posts' = buckets'["ceiling.claim"].count
  BY <1>2, <1>3, ChargeType, Zenon DEF RInv, Abandon
<1>5. claimed' \in BOOLEAN /\ (claimed => claimed') /\ Answer(q, 0)  BY Zenon DEF RInv, Abandon
<1>6. QED  BY <1>1, <1>4, <1>5, Answered, Zenon

LEMMA TickStep == ASSUME RInv, Tick PROVE RInv'
<1>1. \A k \in Keys : Age(buckets[k]) \in [count : Nat, left : Nat]
  <2> SUFFICES ASSUME NEW k \in Keys PROVE Age(buckets[k]) \in [count : Nat, left : Nat]  BY Zenon
  <2>1. buckets[k] \in [count : Nat, left : Nat]  BY Zenon DEF RInv
  <2>2. QED  BY <2>1 DEF Age
<1>2. buckets' \in [Keys -> [count : Nat, left : Nat]]  BY <1>1, Zenon DEF Tick
<1>3. posts' = buckets'["ceiling.claim"].count
  <2>1. "ceiling.claim" \in Keys  BY Zenon DEF Keys
  <2>2. buckets["ceiling.claim"] \in [count : Nat, left : Nat]  BY <2>1, Zenon DEF RInv
  <2>3. buckets'["ceiling.claim"] = Age(buckets["ceiling.claim"])  BY <2>1, Zenon DEF Tick
  <2>4. QED  BY <2>2, <2>3 DEF Tick, Age, RInv
<1>4. QED  BY <1>2, <1>3, Zenon DEF Tick, RInv

LEMMA RequestStep ==
    ASSUME RInv, NEW q \in Requests, Proceed(q) \/ Unavailable(q) \/ HashBusy(q)
    PROVE  RInv'
<1> DEFINE Calm == UNCHANGED <<claimed, buckets, posts>>
<1>0. ASSUME Calm
      PROVE  /\ claimed' \in BOOLEAN /\ (claimed => claimed')
             /\ buckets' \in [Keys -> [count : Nat, left : Nat]]
             /\ posts' = buckets'["ceiling.claim"].count
  BY <1>0, Zenon DEF RInv
<1>1. ASSUME NEW status, req[q].phase # "done", Answer(q, status), Calm PROVE RInv'
  BY <1>0, <1>1, Answered, Zenon
<1>2. ASSUME req[q].phase \in Phases PROVE req[q] \in Open /\ Proper(req[q], claimed)
  BY <1>2, Zenon DEF RInv, Closed, Phases
<1>3. CASE InstanceClaimed(q)
  <2>1. req[q].phase = "look" /\ Calm  BY <1>3, Zenon DEF InstanceClaimed, In
  <2>2. CASE Goto(q, "examine")
    BY <2>1, <2>2, Moved, Zenon DEF Phases
  <2>3. CASE \E status \in {200, 400, 409} : Answer(q, status)
    BY <1>1, <2>1, <2>3
  <2>4. QED  BY <1>3, <2>2, <2>3 DEF InstanceClaimed
<1>4. CASE ExamineToken(q)
  <2>1. req[q].phase = "examine" /\ Calm  BY <1>4, Zenon DEF ExamineToken, In
  <2>2. CASE claimed
    BY <1>1, <1>4, <2>1, <2>2 DEF ExamineToken
  <2>3. CASE ~claimed
    <3>1. ~req[q].late  BY <1>2, <2>1, <2>3, Zenon DEF Proper, Closed, Phases
    <3>2. PICK phase \in {"hash", "failure"} :
             Goto(q, phase) /\ (phase = "failure" => req[q].call.token # "right")
      BY <1>4, <2>3 DEF ExamineToken
    <3>3. QED  BY <2>1, <3>1, <3>2, Moved, Zenon DEF Phases
  <2>4. QED  BY <2>2, <2>3, Zenon
<1>5. CASE HashBegins(q) \/ HashEnds(q)
  <2>1. req[q].phase \in {"hash", "deriving"} /\ Calm  BY <1>5, Zenon DEF HashBegins, HashEnds, In
  <2>2. ~req[q].late  BY <1>2, <2>1, Zenon DEF Proper, Closed, Phases
  <2>3. PICK phase \in {"deriving", "redeem"} : Goto(q, phase)  BY <1>5, Zenon DEF HashBegins, HashEnds
  <2>4. QED  BY <2>1, <2>2, <2>3, Moved, Zenon DEF Phases
<1>6. CASE Redeem(q)
  <2>1. req[q].phase = "redeem" /\ UNCHANGED <<buckets, posts>>
    BY <1>6, Zenon DEF Redeem, In
  <2>2. ASSUME NEW status, Answer(q, status), claimed' = TRUE PROVE RInv'
    BY <2>1, <2>2, Answered, Zenon DEF RInv
  <2>3. ASSUME Goto(q, "failure"), UNCHANGED claimed, req[q].call.token = "lapses" PROVE RInv'
    <3>1. ~req[q].late  BY <1>2, <2>1, Zenon DEF Proper, Closed, Phases
    <3>2. req[q].call.token # "right" /\ Calm  BY <2>1, <2>3
    <3>3. QED  BY <2>1, <2>3, <3>1, <3>2, Moved, Zenon DEF Phases
  <2>4. QED  BY <1>6, <2>2, <2>3, Zenon DEF Redeem
<1>7. CASE RecordRefusal(q)
  <2>1. req[q].phase # "done" /\ Calm  BY <1>7, Zenon DEF RecordRefusal, In
  <2>2. PICK status : Answer(q, status)  BY <1>7 DEF RecordRefusal
  <2>3. QED  BY <1>1, <2>1, <2>2, Zenon
<1>8. CASE Unavailable(q) \/ HashBusy(q)
  BY <1>1, <1>8 DEF Unavailable, HashBusy, In
<1>9. QED
  BY <1>3, <1>4, <1>5, <1>6, <1>7, <1>8, ConsumeStep, TransitionStep, Zenon DEF Proceed

LEMMA Inductive == ASSUME RInv, [Next]_vars PROVE RInv'
<1>1. CASE UNCHANGED vars
  BY <1>1, Zenon DEF vars, RInv
<1>2. QED  BY <1>1, ArriveStep, RequestStep, AbandonStep, TickStep, Zenon DEF Next

LEMMA Initially == ASSUME Init PROVE RInv
<1>1. Done("none", 0) \in Closed  BY Zenon DEF Done, Closed
<1>2. "ceiling.claim" \in Keys  BY Zenon DEF Keys
<1>3. QED  BY <1>1, <1>2, Zenon DEF Init, RInv, Proper

-----------------------------------------------------------------------------
\* ClaimedIsInert: a request that comes once there is an owner goes no further
\* than the check that Claim makes itself, whatever the cache told it before.
THEOREM ClaimedInstanceIsInert == Spec => []ClaimedIsInert
<1>1. RInv => ClaimedIsInert
  BY Zenon DEF RInv, ClaimedIsInert, Proper, Closed, Open, In
<1>2. QED  BY <1>1, Inductive, Initially, PTL DEF Spec

\* What a step may do to request q when posts is over its ceiling or not.
Starved(q) == (req'[q] # req[q] /\ req'[q] = Done("right", 429)) => posts' > OwnerCeiling

\* The ceiling of the POST is the one a right token meets.
LEMMA ArriveStarves ==
    ASSUME RInv, NEW q \in Requests, NEW call \in Call, Arrive(q, call),
           req'[q] = Done("right", 429)
    PROVE  posts' > OwnerCeiling
<1>1. PICK ok \in BOOLEAN :
        /\ Allow(Ceiling(call.kind), ok)
        /\ req' = [req EXCEPT ![q] =
                IF ok THEN [ phase |-> "look", call |-> call, limited |-> FALSE, late |-> claimed ]
                      ELSE Done(call.token, 429)]
  BY Zenon DEF Arrive
<1>2. ~ok
  <2> SUFFICES ASSUME ok PROVE FALSE  BY Zenon
  <2>1. req'[q].phase = "look"  BY <1>1, Zenon DEF RInv
  <2>2. QED  BY <2>1 DEF Done
<1>3. req'[q] = Done(call.token, 429)  BY <1>1, <1>2 DEF RInv
<1>4. call.token = "right"  BY <1>3 DEF Done
<1>5. call.kind = "owner"  BY <1>4, CallTokens, Zenon
<1>6. ~(buckets'["ceiling.claim"].count <= Limit("ceiling.claim"))
  BY <1>1, <1>2, <1>5, Zenon DEF Allow, Ceiling
<1>7. Limit("ceiling.claim") = OwnerCeiling  BY OriginsAssumption DEF Limit
<1>8. RInv'  BY ArriveStep, Zenon
<1>9. posts' = buckets'["ceiling.claim"].count /\ posts' \in Nat  BY <1>8, Zenon DEF RInv, Keys
<1>10. QED  BY <1>6, <1>7, <1>9, Budgets

\* Past the ceiling no request with a right token is answered 429.
LEMMA NobodyElseStarves ==
    ASSUME RInv, NEW q \in Requests, Proceed(q) \/ Unavailable(q) \/ HashBusy(q) \/ Abandon(q)
    PROVE  req'[q] # Done("right", 429)
<1> SUFFICES ASSUME req'[q] = Done("right", 429) PROVE FALSE  BY Zenon
<1>0. req'[q].phase = "done" /\ req'[q].refused = "right"  BY DEF Done
<1>1. ASSUME NEW status, Answer(q, status), status # 429 PROVE FALSE
  <2>1. req'[q] = Done(req[q].call.token, status)  BY <1>1, Zenon DEF Answer, RInv
  <2>2. QED  BY <1>0, <1>1, <2>1 DEF Done
<1>2. ASSUME NEW phase \in Phases, Goto(q, phase), req[q].phase \in Phases PROVE FALSE
  <2>1. req[q] \in Open  BY <1>2 DEF RInv, Closed, Phases
  <2>2. req'[q] = [req[q] EXCEPT !.phase = phase]  BY <1>2 DEF Goto, RInv
  <2>3. req'[q].phase = phase  BY <2>1, <2>2, Zenon DEF Open
  <2>4. QED  BY <1>0, <1>2, <2>3, Zenon DEF Phases
<1>3. ASSUME NEW status, Answer(q, status), req[q].phase \in {"failure", "transition", "record"}
      PROVE  FALSE
  <2>1. req'[q] = Done(req[q].call.token, status)  BY <1>3, Zenon DEF Answer, RInv
  <2>2. req[q].call.token # "right"  BY <1>3 DEF RInv, Proper, Closed
  <2>3. QED  BY <1>0, <2>1, <2>2 DEF Done
<1>4. CASE InstanceClaimed(q) \/ ExamineToken(q)
  BY <1>1, <1>2, <1>4 DEF InstanceClaimed, ExamineToken, In, Phases
<1>5. CASE HashBegins(q) \/ HashEnds(q)
  BY <1>2, <1>5, Zenon DEF HashBegins, HashEnds, In, Phases
<1>6. CASE Redeem(q) \/ Unavailable(q) \/ HashBusy(q) \/ Abandon(q)
  BY <1>1, <1>2, <1>6 DEF Redeem, Unavailable, HashBusy, Abandon, In, Phases
<1>7. CASE ConsumeClaimFailure(q)
  <2>1. req[q] \in Open  BY <1>7, Zenon DEF RInv, Closed, ConsumeClaimFailure, In
  <2>2. PICK limited \in BOOLEAN :
          req' = [req EXCEPT ![q].limited = limited,
                             ![q].phase = IF limited THEN "transition" ELSE "record"]
    BY <1>7, Zenon DEF ConsumeClaimFailure
  <2>3. req'[q] = [req[q] EXCEPT !.limited = limited,
                                 !.phase = IF limited THEN "transition" ELSE "record"]
    BY <2>2 DEF RInv
  <2>4. req'[q].phase \in {"transition", "record"}  BY <2>1, <2>3, Zenon DEF Open
  <2>5. QED  BY <1>0, <2>4, Zenon
<1>8. CASE ClaimLimitTransition(q) \/ RecordRefusal(q)
  BY <1>2, <1>3, <1>8 DEF ClaimLimitTransition, RecordRefusal, In, Phases
<1>9. QED  BY <1>4, <1>5, <1>6, <1>7, <1>8, Zenon DEF Proceed

LEMMA StarvedStep == ASSUME RInv, Next PROVE \A q \in Requests : Starved(q)
<1> SUFFICES ASSUME NEW q \in Requests, req'[q] # req[q], req'[q] = Done("right", 429)
             PROVE  posts' > OwnerCeiling
  BY Zenon DEF Starved
<1>1. CASE Tick
  BY <1>1, Zenon DEF Tick
<1>2. ASSUME NEW p \in Requests, p # q,
             (\E call \in Call : Arrive(p, call)) \/ Proceed(p) \/ Unavailable(p)
                \/ HashBusy(p) \/ Abandon(p)
      PROVE  FALSE
  <2>1. \E r : req' = [req EXCEPT ![p] = r]
    <3>1. ASSUME NEW status, Answer(p, status) PROVE \E r : req' = [req EXCEPT ![p] = r]
      BY <3>1, Zenon DEF Answer
    <3>2. ASSUME NEW phase, Goto(p, phase) PROVE \E r : req' = [req EXCEPT ![p] = r]
      BY <3>2, Zenon DEF Goto
    <3>3. CASE \E call \in Call : Arrive(p, call)
      BY <3>3, Zenon DEF Arrive
    <3>4. CASE ConsumeClaimFailure(p)
      <4>1. PICK limited, phase : req' = [req EXCEPT ![p].limited = limited, ![p].phase = phase]
        BY <3>4, Zenon DEF ConsumeClaimFailure
      <4>2. req' = [req EXCEPT ![p] = [req[p] EXCEPT !.limited = limited, !.phase = phase]]
        BY <4>1, Zenon DEF RInv
      <4>3. QED  BY <4>2, Zenon
    <3>5. CASE InstanceClaimed(p) \/ ExamineToken(p) \/ HashBegins(p) \/ HashEnds(p) \/ Redeem(p)
      BY <3>1, <3>2, <3>5 DEF InstanceClaimed, ExamineToken, HashBegins, HashEnds, Redeem
    <3>6. CASE ClaimLimitTransition(p) \/ RecordRefusal(p) \/ Unavailable(p) \/ HashBusy(p) \/ Abandon(p)
      BY <3>1, <3>2, <3>6 DEF ClaimLimitTransition, RecordRefusal, Unavailable, HashBusy, Abandon
    <3>7. QED  BY <1>2, <3>3, <3>4, <3>5, <3>6, Zenon DEF Proceed
  <2>2. QED  BY <1>2, <2>1, Zenon DEF RInv
<1>3. QED  BY <1>1, <1>2, ArriveStarves, NobodyElseStarves DEF Next

\* RightTokenIsNotStarved: neither the failure budgets nor the claim-status
\* route can keep the holder of the right token from redeeming it.
THEOREM RightTokenIsServed == Spec => RightTokenIsNotStarved
<1>1. RInv /\ [Next]_vars => [\A q \in Requests : Starved(q)]_vars
  BY StarvedStep, Zenon
<1>2. QED
  BY <1>1, Inductive, Initially, PTL DEF Spec, RightTokenIsNotStarved, Starved

-----------------------------------------------------------------------------
\* The audit rows.  The most that a budget can have let through in the span that
\* the observer has span units of time left to watch: a window that lasts at
\* least as long as the span may have been opened in it, after an older one; any
\* other was opened before; and when there is none, one may have ended.
Spent(k, c) == IF c.count > Limit(k) THEN Limit(k) ELSE c.count
May(k, c, span) ==
    IF c.count = 0 THEN Limit(k)
    ELSE (IF c.left >= span THEN Limit(k) ELSE 0) + Spent(k, c)

\* The refusals that are to leave a row.
Recording == {q \in Requests : req[q].phase = "record"}

\* Every row that is written or on its way was let through by the failure budget
\* or by the transition's, or was on its way when the span began.
AuditInv ==
    /\ RInv
    /\ \A k \in Keys : buckets[k].count = 0 <=> buckets[k].left = 0
    /\ seen \in [left : 0..Window, rows : Nat]
    /\ seen.left = 0 => seen.rows = 0
    /\ seen.left > 0 =>
          seen.rows + Cardinality(Recording)
            <= Cardinality(Requests) + May("all", buckets["all"], seen.left)
                 + May("audited", buckets["audited"], seen.left)

LEMMA AuditLimits ==
    /\ "all" \in Keys /\ "audited" \in Keys
    /\ Limit("all") = Global /\ Limit("audited") = 1 /\ Global \in Nat
    /\ "all" \notin Origins /\ "audited" \notin Origins
BY Budgets, OriginsAssumption DEF Keys, Limit

\* A counter allows at most twice its limit in a window's time, in one window
\* and the next.
LEMMA MayBounds ==
    ASSUME NEW k, Limit(k) \in Nat, NEW c \in [count : Nat, left : Nat], NEW span \in Nat
    PROVE  May(k, c, span) \in Nat /\ May(k, c, span) <= 2 * Limit(k)
<1>1. c.count \in Nat /\ c.left \in Nat  BY Zenon
<1>2. QED  BY <1>1 DEF May, Spent

\* A charge never lowers what a budget may have let through, and one that is let
\* through raises it by one.
LEMMA ChargeMay ==
    ASSUME NEW k, Limit(k) \in Nat, NEW c \in [count : Nat, left : Nat],
           c.count = 0 <=> c.left = 0, NEW span \in Nat, span <= Window
    PROVE  /\ Charge(k, c).count = 0 <=> Charge(k, c).left = 0
           /\ May(k, Charge(k, c), span) >= May(k, c, span)
           /\ Charge(k, c).count <= Limit(k) => May(k, Charge(k, c), span) = May(k, c, span) + 1
<1>1. c.count \in Nat /\ c.left \in Nat /\ Window \in Nat /\ Window > 0  BY BudgetsAssumption
<1>2. /\ Charge(k, c).count = IF c.count > Limit(k) THEN c.count ELSE c.count + 1
      /\ Charge(k, c).left = IF c.left > 0 THEN c.left ELSE Window
  BY Zenon DEF Charge, Bump
<1>3. QED  BY <1>1, <1>2 DEF May, Spent

\* Time takes as much from the windows as from the span.
LEMMA AgeMay ==
    ASSUME NEW k, Limit(k) \in Nat, NEW c \in [count : Nat, left : Nat],
           c.count = 0 <=> c.left = 0
    PROVE  /\ Age(c).count = 0 <=> Age(c).left = 0
           /\ \A span \in Nat : span > 1 => May(k, Age(c), span - 1) >= May(k, c, span)
<1>1. c.count \in Nat /\ c.left \in Nat  BY Zenon
<1>2. CASE c.left > 1
  <2>1. [c EXCEPT !.left = @ - 1] = [count |-> c.count, left |-> c.left - 1]  OBVIOUS
  <2>2. Age(c).count = c.count /\ Age(c).left = c.left - 1  BY <1>2, <2>1, Zenon DEF Age
  <2>3. QED  BY <1>1, <1>2, <2>2 DEF May, Spent
<1>3. CASE ~(c.left > 1)
  <2>1. Age(c).count = 0 /\ Age(c).left = 0  BY <1>3, Zenon DEF Age
  <2>2. QED  BY <1>1, <1>3, <2>1 DEF May, Spent
<1>4. QED  BY <1>2, <1>3, Zenon

LEMMA RecordingFinite ==
    /\ IsFiniteSet(Recording) /\ Cardinality(Recording) \in Nat
    /\ Cardinality(Recording) <= Cardinality(Requests) /\ Cardinality(Requests) \in Nat
<1>1. Recording \in SUBSET Requests  BY Zenon DEF Recording
<1>2. QED  BY <1>1, RequestsAssumption, FS_Subset, FS_CardinalityType

\* One request's step adds at most that request to those that are to leave a row.
LEMMA RecordingGrows ==
    ASSUME RInv, NEW q \in Requests, NEW r, req' = [req EXCEPT ![q] = r]
    PROVE  /\ IsFiniteSet(Recording') /\ Cardinality(Recording') \in Nat
           /\ Cardinality(Recording') <= Cardinality(Recording) + 1
           /\ r.phase # "record" => Cardinality(Recording') <= Cardinality(Recording)
           /\ r.phase # "record" /\ req[q].phase = "record" =>
                 Cardinality(Recording') = Cardinality(Recording) - 1
<1>1. req'[q] = r /\ \A p \in Requests : p # q => req'[p] = req[p]  BY Zenon DEF RInv
<1>2. IsFiniteSet(Recording') /\ Cardinality(Recording') \in Nat
  <2>1. Recording' \in SUBSET Requests  BY Zenon DEF Recording
  <2>2. QED  BY <2>1, RequestsAssumption, FS_Subset, FS_CardinalityType
<1>3. Cardinality(Recording \union {q}) <= Cardinality(Recording) + 1 /\ IsFiniteSet(Recording \union {q})
  BY RecordingFinite, FS_AddElement
<1>4. Recording' \in SUBSET (Recording \union {q})  BY <1>1, Zenon DEF Recording
<1>5. Cardinality(Recording') <= Cardinality(Recording \union {q})  BY <1>3, <1>4, FS_Subset, Zenon
<1>6. Cardinality(Recording \union {q}) \in Nat  BY <1>3, FS_CardinalityType, Zenon
<1>7. r.phase # "record" => Cardinality(Recording') <= Cardinality(Recording)
  <2>1. r.phase # "record" => Recording' \in SUBSET Recording  BY <1>1, Zenon DEF Recording
  <2>2. QED  BY <2>1, RecordingFinite, FS_Subset, Zenon
<1>8. r.phase # "record" /\ req[q].phase = "record" =>
        Cardinality(Recording') = Cardinality(Recording) - 1
  <2>1. r.phase # "record" /\ req[q].phase = "record" =>
          q \in Recording /\ Recording' = Recording \ {q}
    BY <1>1, Zenon DEF Recording
  <2>2. q \in Recording => Cardinality(Recording \ {q}) = Cardinality(Recording) - 1
    BY RecordingFinite, FS_RemoveElement, Zenon
  <2>3. QED  BY <2>1, <2>2, Zenon
<1>9. QED  BY <1>2, <1>3, <1>5, <1>6, <1>7, <1>8, RecordingFinite

\* A step that lets through as much as it adds keeps the balance.
LEMMA Balance ==
    ASSUME AuditInv, RInv', seen' = seen, NEW g \in {0, 1},
           \A k \in Keys : buckets'[k].count = 0 <=> buckets'[k].left = 0,
           Cardinality(Recording') \in Nat, Cardinality(Recording') <= Cardinality(Recording) + g,
           May("all", buckets'["all"], seen.left) + May("audited", buckets'["audited"], seen.left)
             >= May("all", buckets["all"], seen.left) + May("audited", buckets["audited"], seen.left) + g
    PROVE  AuditInv'
<1>1. seen.left \in Nat /\ seen.rows \in Nat  BY Budgets DEF AuditInv
<1>2. \A k \in {"all", "audited"} :
        /\ Limit(k) \in Nat
        /\ buckets[k] \in [count : Nat, left : Nat] /\ buckets'[k] \in [count : Nat, left : Nat]
  BY AuditLimits DEF AuditInv, RInv
<1>3. \A k \in {"all", "audited"} :
        May(k, buckets[k], seen.left) \in Nat /\ May(k, buckets'[k], seen.left) \in Nat
  BY <1>1, <1>2, MayBounds, Zenon
<1>4. seen.left > 0 =>
        seen.rows + Cardinality(Recording')
          <= Cardinality(Requests) + May("all", buckets'["all"], seen.left)
               + May("audited", buckets'["audited"], seen.left)
  BY <1>1, <1>3, RecordingFinite DEF AuditInv
<1>5. QED  BY <1>4, Zenon DEF AuditInv

\* The same for a step that charges some keys, of which g says whether one of the
\* two budgets let it through.
LEMMA ChargeBalance ==
    ASSUME AuditInv, RInv', seen' = seen, NEW ks, buckets' = ChargeAll(ks), NEW g \in {0, 1},
           Cardinality(Recording') \in Nat, Cardinality(Recording') <= Cardinality(Recording) + g,
           g = 1 => \E k \in ks \intersect {"all", "audited"} : buckets'[k].count <= Limit(k)
    PROVE  AuditInv'
<1>1. seen.left \in Nat /\ seen.left <= Window  BY Budgets DEF AuditInv
<1>2. /\ buckets \in [Keys -> [count : Nat, left : Nat]]
      /\ \A k \in Keys : buckets[k].count = 0 <=> buckets[k].left = 0
  BY Zenon DEF AuditInv, RInv
<1>3. \A k \in Keys : Limit(k) \in Nat  BY Budgets, Zenon DEF Keys, Limit
<1>4. \A k \in Keys : buckets'[k] = IF k \in ks THEN Charge(k, buckets[k]) ELSE buckets[k]
  BY Zenon DEF ChargeAll
<1>5. \A k \in Keys : May(k, buckets[k], seen.left) \in Int
  BY <1>1, <1>2, <1>3, MayBounds
<1>6. \A k \in Keys :
        /\ buckets'[k].count = 0 <=> buckets'[k].left = 0
        /\ May(k, buckets'[k], seen.left) >= May(k, buckets[k], seen.left)
        /\ k \in ks /\ buckets'[k].count <= Limit(k) =>
              May(k, buckets'[k], seen.left) = May(k, buckets[k], seen.left) + 1
  <2> SUFFICES ASSUME NEW k \in Keys
               PROVE  /\ buckets'[k].count = 0 <=> buckets'[k].left = 0
                      /\ May(k, buckets'[k], seen.left) >= May(k, buckets[k], seen.left)
                      /\ k \in ks /\ buckets'[k].count <= Limit(k) =>
                            May(k, buckets'[k], seen.left) = May(k, buckets[k], seen.left) + 1
    BY Zenon
  <2>1. CASE k \in ks
    BY <1>1, <1>2, <1>3, <1>4, <2>1, ChargeMay
  <2>2. CASE k \notin ks
    <3>1. buckets'[k] = buckets[k]  BY <1>4, <2>2, Zenon
    <3>2. QED  BY <1>2, <1>5, <2>2, <3>1
  <2>3. QED  BY <2>1, <2>2, Zenon
<1>7. \A k \in Keys : May(k, buckets'[k], seen.left) \in Int
  <2>1. \A k \in Keys : buckets'[k] \in [count : Nat, left : Nat]  BY Zenon DEF RInv
  <2>2. QED  BY <1>1, <1>3, <2>1, MayBounds
<1>8. May("all", buckets'["all"], seen.left) + May("audited", buckets'["audited"], seen.left)
        >= May("all", buckets["all"], seen.left) + May("audited", buckets["audited"], seen.left) + g
  <2>1. \A k \in {"all", "audited"} :
          /\ May(k, buckets'[k], seen.left) \in Int /\ May(k, buckets[k], seen.left) \in Int
          /\ May(k, buckets'[k], seen.left) >= May(k, buckets[k], seen.left)
    BY <1>5, <1>6, <1>7, AuditLimits, Zenon
  <2>2. g = 1 => \E k \in {"all", "audited"} :
                    May(k, buckets'[k], seen.left) = May(k, buckets[k], seen.left) + 1
    BY <1>6, AuditLimits, Zenon
  <2>3. CASE g = 0
    BY <2>1, <2>3
  <2>4. CASE g = 1
    BY <2>1, <2>2, <2>4
  <2>5. QED  BY <2>3, <2>4, Zenon
<1>9. QED  BY <1>6, <1>8, Balance, Zenon

-----------------------------------------------------------------------------
\* The step, action by action.

\* Most steps are an answer, or a move to a phase other than the row's, and leave
\* the observer alone.
LEMMA Quiet ==
    ASSUME AuditInv, RInv', NEW q \in Requests, NEW r, req' = [req EXCEPT ![q] = r],
           r.phase # "record", seen' = seen,
           buckets' = buckets \/ \E ks : buckets' = ChargeAll(ks)
    PROVE  AuditInv'
<1>1. RInv  BY Zenon DEF AuditInv
<1>2. Cardinality(Recording') \in Nat /\ Cardinality(Recording') <= Cardinality(Recording) + 0
  <2>1. Cardinality(Recording') \in Nat /\ Cardinality(Recording') <= Cardinality(Recording)
    BY <1>1, RecordingGrows, Zenon
  <2>2. QED  BY <2>1, RecordingFinite
<1>3. PICK ks : buckets' = ChargeAll(ks)
  <2>1. buckets = ChargeAll({})  BY <1>1, Zenon DEF ChargeAll, RInv
  <2>2. QED  BY <2>1, Zenon
<1>4. QED  BY <1>2, <1>3, ChargeBalance

LEMMA QuietAnswer ==
    ASSUME AuditInv, RInv', NEW q \in Requests, NEW status, Answer(q, status), seen' = seen,
           buckets' = buckets \/ \E ks : buckets' = ChargeAll(ks)
    PROVE  AuditInv'
<1>1. PICK r : r = Done(req[q].call.token, status)  BY Zenon
<1>2. r.phase # "record"  BY <1>1, Zenon DEF Done
<1>3. req' = [req EXCEPT ![q] = r]  BY <1>1, Zenon DEF Answer
<1>4. QED  BY <1>2, <1>3, Quiet, Zenon

LEMMA QuietMove ==
    ASSUME AuditInv, RInv', NEW q \in Requests, NEW phase, Goto(q, phase), phase # "record",
           req[q].phase \in Phases, UNCHANGED <<seen, buckets>>
    PROVE  AuditInv'
<1>1. req[q] \in Open  BY Zenon DEF AuditInv, RInv, Closed, Phases
<1>2. PICK r : r = [req[q] EXCEPT !.phase = phase]  BY Zenon
<1>3. r.phase # "record"  BY <1>1, <1>2, Zenon DEF Open
<1>4. req' = [req EXCEPT ![q] = r]  BY <1>2, Zenon DEF Goto
<1>5. QED  BY <1>3, <1>4, Quiet, Zenon

LEMMA AuditArrive ==
    ASSUME AuditInv, RInv', NEW q \in Requests, NEW call \in Call, Arrive(q, call)
    PROVE  AuditInv'
<1>1. PICK ok \in BOOLEAN :
        /\ Allow(Ceiling(call.kind), ok)
        /\ req' = [req EXCEPT ![q] =
                IF ok THEN [ phase |-> "look", call |-> call, limited |-> FALSE, late |-> claimed ]
                      ELSE Done(call.token, 429)]
  BY Zenon DEF Arrive
<1>2. PICK r : r = IF ok THEN [ phase |-> "look", call |-> call, limited |-> FALSE, late |-> claimed ]
                         ELSE Done(call.token, 429)
  BY Zenon
<1>3. r.phase # "record"  BY <1>2, Zenon DEF Done
<1>4. seen' = seen /\ buckets' = ChargeAll({Ceiling(call.kind)})  BY <1>1, Zenon DEF Arrive, Allow
<1>5. QED  BY <1>1, <1>2, <1>3, <1>4, Quiet, Zenon

\* A refusal that is let through is paid for by the global counter, whatever its
\* origin's allows.
LEMMA AuditConsume ==
    ASSUME AuditInv, RInv', NEW q \in Requests, ConsumeClaimFailure(q)
    PROVE  AuditInv'
<1>1. req[q] \in Open /\ RInv
  BY Zenon DEF AuditInv, RInv, Closed, ConsumeClaimFailure, In
<1>2. PICK ks : ks = FailureKeys(q)  BY Zenon
<1>3. buckets' = ChargeAll(ks) /\ seen' = seen /\ "all" \in ks
  BY <1>2, Zenon DEF ConsumeClaimFailure, FailureKeys
<1>4. PICK limited \in BOOLEAN :
        /\ limited = \E k \in ks : buckets'[k].count > Limit(k)
        /\ req' = [req EXCEPT ![q].limited = limited,
                              ![q].phase = IF limited THEN "transition" ELSE "record"]
  BY <1>2, Zenon DEF ConsumeClaimFailure
<1>5. PICK r : r = [req[q] EXCEPT !.limited = limited,
                                  !.phase = IF limited THEN "transition" ELSE "record"]
  BY Zenon
<1>6. r.phase = IF limited THEN "transition" ELSE "record"  BY <1>1, <1>5, Zenon DEF Open
<1>7. req' = [req EXCEPT ![q] = r]  BY <1>1, <1>4, <1>5, Zenon DEF RInv
<1>8. CASE limited
  BY <1>3, <1>6, <1>7, <1>8, Quiet, Zenon
<1>9. CASE ~limited
  <2>1. ~(buckets'["all"].count > Limit("all"))  BY <1>3, <1>4, <1>9, Zenon
  <2>2. buckets'["all"].count <= Limit("all")
    <3>1. buckets'["all"].count \in Nat  BY AuditLimits, Zenon DEF RInv
    <3>2. QED  BY <2>1, <3>1, AuditLimits
  <2>3. Cardinality(Recording') \in Nat /\ Cardinality(Recording') <= Cardinality(Recording) + 1
    BY <1>1, <1>7, RecordingGrows, Zenon
  <2>4. QED  BY <1>3, <2>2, <2>3, ChargeBalance, Zenon
<1>10. QED  BY <1>8, <1>9, Zenon

\* The one audit row of a window past the limit is paid for by its own counter.
LEMMA AuditTransition ==
    ASSUME AuditInv, RInv', NEW q \in Requests, ClaimLimitTransition(q)
    PROVE  AuditInv'
<1>1. PICK ok \in BOOLEAN :
        /\ buckets' = ChargeAll({"audited"}) /\ ok = (buckets'["audited"].count <= Limit("audited"))
        /\ IF ok THEN Goto(q, "record") ELSE Answer(q, 429)
  BY Zenon DEF ClaimLimitTransition, Allow
<1>2. seen' = seen /\ RInv  BY Zenon DEF ClaimLimitTransition, AuditInv
<1>3. CASE ok
  <2>1. PICK r : req' = [req EXCEPT ![q] = r]  BY <1>1, <1>3, Zenon DEF Goto
  <2>2. Cardinality(Recording') \in Nat /\ Cardinality(Recording') <= Cardinality(Recording) + 1
    BY <1>2, <2>1, RecordingGrows, Zenon
  <2>3. QED  BY <1>1, <1>2, <1>3, <2>2, ChargeBalance, Zenon
<1>4. CASE ~ok
  BY <1>1, <1>2, <1>4, QuietAnswer, Zenon
<1>5. QED  BY <1>3, <1>4, Zenon

\* The row is written by a request that was recording.
LEMMA AuditRecord ==
    ASSUME AuditInv, RInv', NEW q \in Requests, RecordRefusal(q)
    PROVE  AuditInv'
<1>1. PICK status : Answer(q, status)  BY Zenon DEF RecordRefusal
<1>2. buckets' = buckets /\ RInv /\ req[q].phase = "record"  BY Zenon DEF RecordRefusal, AuditInv, In
<1>3. CASE seen' = seen
  BY <1>1, <1>2, <1>3, QuietAnswer, Zenon
<1>4. CASE seen' # seen
  <2>1. seen.left > 0 /\ seen' = [seen EXCEPT !.rows = @ + 1]  BY <1>4, Zenon DEF RecordRefusal
  <2>2. seen \in [left : 0..Window, rows : Nat]  BY Zenon DEF AuditInv
  <2>3. /\ seen' \in [left : 0..Window, rows : Nat]
        /\ seen'.left = seen.left /\ seen'.rows = seen.rows + 1
    BY <2>1, <2>2
  <2>4. PICK r : r = Done(req[q].call.token, status)  BY Zenon
  <2>5. r.phase # "record" /\ req' = [req EXCEPT ![q] = r]  BY <1>1, <2>4, Zenon DEF Done, Answer
  <2>6. Cardinality(Recording') = Cardinality(Recording) - 1  BY <1>2, <2>5, RecordingGrows, Zenon
  <2>7. seen'.rows + Cardinality(Recording') = seen.rows + Cardinality(Recording)
    BY <2>2, <2>3, <2>6, RecordingFinite
  <2>8. seen.rows + Cardinality(Recording)
          <= Cardinality(Requests) + May("all", buckets["all"], seen.left)
               + May("audited", buckets["audited"], seen.left)
    BY <2>1, Zenon DEF AuditInv
  <2>9. QED  BY <1>2, <2>1, <2>3, <2>7, <2>8 DEF AuditInv
<1>5. QED  BY <1>3, <1>4, Zenon

\* As time passes the span shortens and the windows with it.
LEMMA AuditTick ==
    ASSUME AuditInv, RInv', Tick
    PROVE  AuditInv'
<1>1. /\ buckets' = [k \in Keys |-> Age(buckets[k])] /\ req' = req
      /\ seen' \in IF seen.left > 1 THEN {[seen EXCEPT !.left = @ - 1]}
                     ELSE {[left |-> l, rows |-> 0] : l \in {0, Window}}
  BY Zenon DEF Tick
<1>2. /\ buckets \in [Keys -> [count : Nat, left : Nat]]
      /\ \A k \in Keys : buckets[k].count = 0 <=> buckets[k].left = 0
      /\ seen \in [left : 0..Window, rows : Nat] /\ Window \in Nat
      /\ seen.left \in Nat /\ seen.rows \in Nat
  BY Budgets DEF AuditInv, RInv
<1>3. \A k \in Keys : Limit(k) \in Nat  BY Budgets, Zenon DEF Keys, Limit
<1>4. \A k \in Keys : buckets'[k].count = 0 <=> buckets'[k].left = 0
  BY <1>1, <1>2, <1>3, AgeMay, Zenon
<1>5. \A k \in {"all", "audited"} :
        /\ Limit(k) \in Nat /\ buckets'[k] = Age(buckets[k])
        /\ buckets[k] \in [count : Nat, left : Nat] /\ buckets'[k] \in [count : Nat, left : Nat]
        /\ buckets[k].count = 0 <=> buckets[k].left = 0
  BY <1>1, <1>2, <1>3, AuditLimits, Zenon DEF RInv
<1>6. Recording' = Recording  BY <1>1, Zenon DEF Recording
<1>7. CASE seen.left > 1
  <2>1. seen' = [left |-> seen.left - 1, rows |-> seen.rows]  BY <1>1, <1>2, <1>7, Zenon
  <2>2. /\ seen' \in [left : 0..Window, rows : Nat]
        /\ seen'.left = seen.left - 1 /\ seen'.rows = seen.rows
    BY <1>2, <1>7, <2>1
  <2>3. \A k \in {"all", "audited"} :
          May(k, buckets'[k], seen.left - 1) >= May(k, buckets[k], seen.left)
    BY <1>2, <1>5, <1>7, AgeMay, Zenon
  <2>4. \A k \in {"all", "audited"} :
          May(k, buckets'[k], seen.left - 1) \in Nat /\ May(k, buckets[k], seen.left) \in Nat
    <3>1. seen.left - 1 \in Nat  BY <1>2, <1>7
    <3>2. QED  BY <1>2, <1>5, <3>1, MayBounds, Zenon
  <2>5. seen.rows + Cardinality(Recording)
          <= Cardinality(Requests) + May("all", buckets["all"], seen.left)
               + May("audited", buckets["audited"], seen.left)
    BY <1>2, <1>7 DEF AuditInv
  <2>6. seen'.rows + Cardinality(Recording')
          <= Cardinality(Requests) + May("all", buckets'["all"], seen'.left)
               + May("audited", buckets'["audited"], seen'.left)
    BY <1>2, <1>6, <2>2, <2>3, <2>4, <2>5, RecordingFinite
  <2>7. seen'.left # 0  BY <1>2, <1>7, <2>2
  <2>8. QED  BY <1>4, <2>2, <2>6, <2>7, Zenon DEF AuditInv
<1>8. CASE ~(seen.left > 1)
  <2>1. PICK l \in {0, Window} : seen' = [left |-> l, rows |-> 0]  BY <1>1, <1>8, Zenon
  <2>2. seen' \in [left : 0..Window, rows : Nat] /\ seen'.rows = 0 /\ seen'.left \in Nat
    BY <1>2, <2>1
  <2>3. \A k \in {"all", "audited"} : May(k, buckets'[k], seen'.left) \in Nat
    BY <1>5, <2>2, MayBounds, Zenon
  <2>4. seen'.rows + Cardinality(Recording')
          <= Cardinality(Requests) + May("all", buckets'["all"], seen'.left)
               + May("audited", buckets'["audited"], seen'.left)
    BY <1>6, <2>2, <2>3, RecordingFinite
  <2>5. QED  BY <1>4, <2>2, <2>4, Zenon DEF AuditInv
<1>9. QED  BY <1>7, <1>8, Zenon

LEMMA AuditRequest ==
    ASSUME AuditInv, RInv', NEW q \in Requests,
           Proceed(q) \/ Unavailable(q) \/ HashBusy(q) \/ Abandon(q)
    PROVE  AuditInv'
<1>1. CASE InstanceClaimed(q)
  <2>1. req[q].phase \in Phases /\ UNCHANGED <<seen, buckets>>
    BY <1>1, Zenon DEF InstanceClaimed, In, Phases
  <2>2. CASE Goto(q, "examine")  BY <2>1, <2>2, QuietMove, Zenon
  <2>3. CASE \E status \in {200, 400, 409} : Answer(q, status)  BY <2>1, <2>3, QuietAnswer
  <2>4. QED  BY <1>1, <2>2, <2>3 DEF InstanceClaimed
<1>2. CASE ExamineToken(q)
  <2>1. req[q].phase \in Phases /\ UNCHANGED <<seen, buckets>>
    BY <1>2, Zenon DEF ExamineToken, In, Phases
  <2>2. Answer(q, 409) \/ \E phase \in {"hash", "failure"} : Goto(q, phase)
    BY <1>2, Zenon DEF ExamineToken
  <2>3. QED  BY <2>1, <2>2, QuietMove, QuietAnswer, Zenon
<1>3. CASE HashBegins(q) \/ HashEnds(q)
  <2>1. req[q].phase \in Phases /\ UNCHANGED <<seen, buckets>>
    BY <1>3, Zenon DEF HashBegins, HashEnds, In, Phases
  <2>2. PICK phase \in {"deriving", "redeem"} : Goto(q, phase)  BY <1>3, Zenon DEF HashBegins, HashEnds
  <2>3. QED  BY <2>1, <2>2, QuietMove, Zenon
<1>4. CASE Redeem(q) \/ Unavailable(q) \/ HashBusy(q)
  <2>1. /\ req[q].phase \in Phases /\ UNCHANGED <<seen, buckets>>
        /\ Goto(q, "failure") \/ \E status : Answer(q, status)
    BY <1>4 DEF Redeem, Unavailable, HashBusy, In, Phases
  <2>2. QED  BY <2>1, QuietMove, QuietAnswer, Zenon
<1>5. CASE Abandon(q)
  <2>1. Answer(q, 0) /\ seen' = seen /\ \E ks : buckets' = ChargeAll(ks)  BY <1>5, Zenon DEF Abandon
  <2>2. QED  BY <2>1, QuietAnswer, Zenon
<1>6. QED
  BY <1>1, <1>2, <1>3, <1>4, <1>5, AuditConsume, AuditTransition, AuditRecord, Zenon DEF Proceed

LEMMA AuditInductive == ASSUME AuditInv, [Next]_vars PROVE AuditInv'
<1>1. RInv'  BY Inductive, Zenon DEF AuditInv
<1>2. CASE UNCHANGED vars
  BY <1>2, Zenon DEF vars, AuditInv, RInv, Recording
<1>3. QED  BY <1>1, <1>2, AuditTick, AuditArrive, AuditRequest, Zenon DEF Next

\* AuditIsBounded: in any span of one window's length, refusals leave no more
\* rows than two windows of the failure budget and of the transition's let
\* through, and one for every request that was past them when the span began.
THEOREM AuditBounded == Spec => []AuditIsBounded
<1>1. Init => AuditInv
  <2> SUFFICES ASSUME Init PROVE AuditInv  BY Zenon
  <2>1. RInv  BY Initially, Zenon
  <2>2. Window \in Nat  BY Budgets, Zenon
  <2>3. PICK l \in {0, Window} : seen = [left |-> l, rows |-> 0]  BY Zenon DEF Init
  <2>4. seen \in [left : 0..Window, rows : Nat] /\ seen.rows = 0 /\ seen.left \in Nat
    BY <2>2, <2>3
  <2>5. \A k \in Keys : buckets[k].count = 0 /\ buckets[k].left = 0  BY Zenon DEF Init
  <2>6. \A k \in {"all", "audited"} : May(k, buckets[k], seen.left) \in Nat
    <3>1. \A k \in {"all", "audited"} : Limit(k) \in Nat /\ buckets[k] \in [count : Nat, left : Nat]
      BY <2>1, AuditLimits DEF RInv
    <3>2. QED  BY <2>4, <3>1, MayBounds, Zenon
  <2>7. seen.rows + Cardinality(Recording)
          <= Cardinality(Requests) + May("all", buckets["all"], seen.left)
               + May("audited", buckets["audited"], seen.left)
    BY <2>4, <2>6, RecordingFinite
  <2>8. QED  BY <2>1, <2>4, <2>5, <2>7, Zenon DEF AuditInv
<1>2. AuditInv => AuditIsBounded
  <2> SUFFICES ASSUME AuditInv PROVE AuditIsBounded  BY Zenon
  <2>1. seen.left \in Nat /\ seen.rows \in Nat  BY Budgets DEF AuditInv
  <2>2. PICK a : a = May("all", buckets["all"], seen.left)  BY Zenon
  <2>3. PICK b : b = May("audited", buckets["audited"], seen.left)  BY Zenon
  <2>4. buckets["all"] \in [count : Nat, left : Nat] /\ buckets["audited"] \in [count : Nat, left : Nat]
    BY AuditLimits, Zenon DEF AuditInv, RInv
  <2>5. a \in Nat /\ a <= 2 * Global /\ b \in Nat /\ b <= 2
    BY <2>1, <2>2, <2>3, <2>4, AuditLimits, MayBounds
  <2>6. seen.left > 0 => seen.rows + Cardinality(Recording) <= Cardinality(Requests) + a + b
    BY <2>2, <2>3, Zenon DEF AuditInv
  <2>7. seen.left = 0 => seen.rows = 0  BY Zenon DEF AuditInv
  <2>8. QED  BY <2>1, <2>5, <2>6, <2>7, RecordingFinite, AuditLimits DEF AuditIsBounded
<1>3. QED  BY <1>1, <1>2, AuditInductive, PTL DEF Spec
=============================================================================
