----------------------------- MODULE OwnerClaim -----------------------------
(***************************************************************************)
(* Claiming a fresh instance: internal/ownerclaim with the statements of   *)
(* store/queries/owner_claim.sql.  Claim requests, `vizra claim-token`     *)
(* and boots of api replicas run concurrently against one database under   *)
(* READ COMMITTED.                                                         *)
(*                                                                         *)
(* users and token are the COMMITTED rows.  A statement that writes the    *)
(* token row takes two steps: the first takes the statement's snapshot,    *)
(* the second needs the row's lock and works on the row as it then is      *)
(* (PostgreSQL waits, then re-checks the row but not the sub-select on     *)
(* users).  From there to its commit the transaction holds tokLock.        *)
(*                                                                         *)
(* A token is identified with its generation: digests are fresh, and a     *)
(* generation whose transaction rolled back was never seen by anyone.      *)
(* Generation 0 is "no row", and as a presented token "matches nothing".   *)
(***************************************************************************)
EXTENDS Naturals, FiniteSets

CONSTANTS
    Claimants,   \* POST /api/v1/setup/claim-owner requests
    Clis,        \* runs of `vizra claim-token`
    Boots,       \* boots of api replicas
    Casts,       \* which of them may happen together
    Nobody

Minters == Clis \union Boots
Procs == Claimants \union Minters

ASSUME ProcsAssumption ==
    /\ Claimants \intersect Minters = {} /\ Clis \intersect Boots = {}
    /\ Casts \subseteq SUBSET Procs
    /\ Nobody \notin Procs

VARIABLES
    users,      \* rows of users, named by the claim that inserted them
    token,      \* the row of owner_claim_tokens
    expired,    \* generations whose expires_at has passed
    audit,      \* rows of audit_events
    announced,  \* tokens an operator has been shown
    advLock,    \* holder of pg_advisory_xact_lock(advisoryLockMint)
    tokLock,    \* holder of the token row's lock
    pc,         \* where each process is
    presented,  \* the token a claim carries
    clock,      \* expired, as of the start of the process's transaction
    prior,      \* the live generation Mint read, or 0
    answer      \* what each process reported

vars == <<users, token, expired, audit, announced, advLock, tokLock,
          pc, presented, clock, prior, answer>>

locals == <<presented, clock, prior>>
database == <<users, token, audit, announced>>

-----------------------------------------------------------------------------
Init ==
    /\ users = {}
    /\ token = [gen |-> 0, consumed |-> FALSE, superseded |-> FALSE]
    /\ expired = {} /\ audit = {} /\ announced = {}
    /\ advLock = Nobody /\ tokLock = Nobody
    /\ \E cast \in Casts : pc = [p \in Procs |-> IF p \in cast THEN "idle" ELSE "done"]
    /\ presented = [p \in Procs |-> 0]
    /\ clock = [p \in Procs |-> {}]
    /\ prior = [p \in Procs |-> 0]
    /\ answer = [p \in Procs |-> "none"]

\* expires_at passes, by the database clock.
Expire ==
    /\ token.gen \notin expired \union {0}
    /\ expired' = expired \union {token.gen}
    /\ UNCHANGED <<database, locals, advLock, tokLock, pc, answer>>

\* The `live` column, for a transaction whose now() is after exactly `past`.
Live(past) ==
    token.gen # 0 /\ ~token.consumed /\ ~token.superseded /\ token.gen \notin past

Goto(p, label) == pc' = [pc EXCEPT ![p] = label]

\* Variant: a lock that outlives its transaction.
FreeNever(lock, p) == lock
Free(lock, p) == IF lock = p THEN Nobody ELSE lock

\* The end of a process's transaction, committed or rolled back.
Finish(p, result) ==
    /\ Goto(p, "done")
    /\ answer' = [answer EXCEPT ![p] = result]
    /\ advLock' = Free(advLock, p)
    /\ tokLock' = Free(tokLock, p)

\* A lost connection, a cancelled request or a crash: the transaction rolls back.
Abort(p) ==
    /\ pc[p] # "done"
    /\ Finish(p, "unavailable")
    /\ UNCHANGED <<database, locals, expired>>

-----------------------------------------------------------------------------
\* Claim.

\* AnyUserExists, before anything is said about the token.
ClaimStart(c) ==
    /\ pc[c] = "idle"
    /\ \E t \in announced \union {0} : presented' = [presented EXCEPT ![c] = t]
    /\ \/ /\ users # {}
          /\ Finish(c, "already_claimed")
       \/ /\ users = {}
          /\ Goto(c, "examine")
          /\ UNCHANGED <<answer, advLock, tokLock>>
    /\ UNCHANGED <<database, expired, clock, prior>>

\* examineToken: existence, digest compare, liveness pre-check.
ClaimExamine(c) ==
    /\ pc[c] = "examine"
    /\ Goto(c, IF Live(expired) /\ token.gen = presented[c] THEN "hash" ELSE "classify")
    /\ UNCHANGED <<database, locals, expired, advLock, tokLock, answer>>

\* hasher.Hash: a slot of the semaphore, or the request's deadline.
ClaimHash(c) ==
    /\ pc[c] = "hash"
    /\ Goto(c, "gate")
    /\ UNCHANGED <<database, locals, expired, advLock, tokLock, answer>>

ClaimHashBusy(c) ==
    /\ pc[c] = "hash"
    /\ Finish(c, "busy")
    /\ UNCHANGED <<database, locals, expired>>

\* BeginTx fixes now(); the authoritative claimed check is its first statement.
ClaimGate(c) ==
    /\ pc[c] = "gate"
    /\ clock' = [clock EXCEPT ![c] = expired]
    /\ \/ /\ users # {}
          /\ Finish(c, "already_claimed")
       \/ /\ users = {}
          /\ Goto(c, "redeem")
          /\ UNCHANGED <<answer, advLock, tokLock>>
    /\ UNCHANGED <<database, expired, presented, prior>>

\* Variant: the redeem matches the row whatever its digest.
MatchesAnyDigest(c) == Live(clock[c])
\* The guarded UPDATE's conditions on the row.
Matches(c) == Live(clock[c]) /\ token.gen = presented[c]

\* ClaimOwner's snapshot: what it does not match, or users it sees, end it.
ClaimSnapshot(c) ==
    /\ pc[c] = "redeem"
    /\ Goto(c, IF users = {} /\ Matches(c) THEN "redeemWait" ELSE "classify")
    /\ UNCHANGED <<database, locals, expired, advLock, tokLock, answer>>

\* Variant: a row that is locked counts as a row that does not match.
ClaimExecuteNoWait(c) ==
    /\ pc[c] = "redeemWait"
    /\ \/ /\ ~Matches(c) \/ tokLock # Nobody
          /\ Goto(c, "classify")
          /\ UNCHANGED <<advLock, tokLock, answer>>
       \/ /\ Matches(c) /\ users = {} /\ tokLock = Nobody
          /\ Goto(c, "commit")
          /\ tokLock' = c
          /\ UNCHANGED <<advLock, answer>>
    /\ UNCHANGED <<database, locals, expired>>
\* ClaimOwner under the row lock: the row is re-checked, users is not; then
\* users_one_owner has the last word.
ClaimExecute(c) ==
    /\ pc[c] = "redeemWait"
    /\ tokLock = Nobody
    /\ \/ /\ ~Matches(c)
          /\ Goto(c, "classify")
          /\ UNCHANGED <<advLock, tokLock, answer>>
       \/ /\ Matches(c) /\ users # {}
          /\ Finish(c, "owner_conflict")
       \/ /\ Matches(c) /\ users = {}
          /\ Goto(c, "commit")
          /\ tokLock' = c
          /\ UNCHANGED <<advLock, answer>>
    /\ UNCHANGED <<database, locals, expired>>

\* The audit row, then COMMIT, whose own answer may be lost.
ClaimCommit(c) ==
    /\ pc[c] = "commit"
    /\ users' = users \union {c}
    /\ token' = [token EXCEPT !.consumed = TRUE]
    /\ audit' = audit \union {[action |-> "succeeded", gen |-> token.gen]}
    /\ \E result \in {"created", "unavailable"} : Finish(c, result)
    /\ UNCHANGED <<announced, locals, expired>>

\* Variant: a refusal is a 403 without another look at users.
ClassifyRefusalStale(c) ==
    /\ pc[c] = "classify"
    /\ Finish(c, "not_accepted")
    /\ UNCHANGED <<database, locals, expired>>
\* classifyRefusal: 409 or 403, from a fresh read.
ClassifyRefusal(c) ==
    /\ pc[c] = "classify"
    /\ Finish(c, IF users # {} THEN "already_claimed" ELSE "not_accepted")
    /\ UNCHANGED <<database, locals, expired>>
-----------------------------------------------------------------------------
\* Mint: `vizra claim-token` refuses if users exist and always supersedes; a
\* boot mints only if no token is live.

\* BeginTx fixes now(), before the wait for the advisory lock.
MintBegin(m) ==
    /\ pc[m] = IF m \in Clis THEN "idle" ELSE "begin"
    /\ clock' = [clock EXCEPT ![m] = expired]
    /\ Goto(m, "lock")
    /\ UNCHANGED <<database, presented, prior, expired, advLock, tokLock, answer>>

MintLock(m) ==
    /\ pc[m] = "lock"
    /\ advLock = Nobody
    /\ advLock' = m
    /\ Goto(m, IF m \in Clis THEN "users" ELSE "state")
    /\ UNCHANGED <<database, locals, expired, tokLock, answer>>

MintUsers(m) ==
    /\ pc[m] = "users"
    /\ \/ /\ users # {}
          /\ Finish(m, "has_users")
       \/ /\ users = {}
          /\ Goto(m, "state")
          /\ UNCHANGED <<advLock, tokLock, answer>>
    /\ UNCHANGED <<database, locals, expired>>

\* State, under the lock.
MintState(m) ==
    /\ pc[m] = "state"
    /\ prior' = [prior EXCEPT ![m] = IF Live(clock[m]) THEN token.gen ELSE 0]
    /\ \/ /\ m \in Boots /\ Live(clock[m])
          /\ Finish(m, "live_token")
       \/ /\ m \in Clis \/ ~Live(clock[m])
          /\ Goto(m, "mint")
          /\ UNCHANGED <<advLock, tokLock, answer>>
    /\ UNCHANGED <<database, presented, clock, expired>>

\* MintOwnerClaimToken's WHERE NOT EXISTS (SELECT 1 FROM users), evaluated in
\* the statement's snapshot and never again.
MintSnapshot(m) ==
    /\ pc[m] = "mint"
    /\ \/ /\ users # {}
          /\ Finish(m, "has_users")
       \/ /\ users = {}
          /\ Goto(m, "mintWait")
          /\ UNCHANGED <<advLock, tokLock, answer>>
    /\ UNCHANGED <<database, locals, expired>>

\* ON CONFLICT DO UPDATE waits for the row, then updates it as it is.
MintExecute(m) ==
    /\ pc[m] = "mintWait"
    /\ tokLock = Nobody
    /\ tokLock' = m
    /\ Goto(m, "mintCommit")
    /\ UNCHANGED <<database, locals, expired, advLock, answer>>

MintedToken == [gen |-> token.gen + 1, consumed |-> FALSE, superseded |-> FALSE]

\* The audit rows and COMMIT; a token whose COMMIT answer is lost is not shown.
MintCommit(m) ==
    /\ pc[m] = "mintCommit"
    /\ token' = MintedToken
    /\ audit' = audit \union {[action |-> "minted", gen |-> token'.gen]}
                      \union {[action |-> "superseded", gen |-> g] : g \in {prior[m]} \ {0}}
    /\ \/ announced' = announced \union {token'.gen} /\ Finish(m, "minted")
       \/ announced' = announced /\ Finish(m, "unavailable")
    /\ UNCHANGED <<users, locals, expired>>

-----------------------------------------------------------------------------
\* Boot.

\* The branch on AnyUserExists; without the stderr opt-in it only prints.
BootStart(b) ==
    /\ pc[b] = "idle"
    /\ \/ /\ users # {}
          /\ Goto(b, "supersede")
          /\ UNCHANGED <<answer, advLock, tokLock>>
       \/ /\ users = {}
          /\ Goto(b, "begin")
          /\ UNCHANGED <<answer, advLock, tokLock>>
       \/ /\ users = {}
          /\ Finish(b, "told_command")
    /\ UNCHANGED <<database, locals, expired>>

Retirable == token.gen # 0 /\ ~token.consumed /\ ~token.superseded

SupersedeSnapshot(b) ==
    /\ pc[b] = "supersede"
    /\ \/ /\ Retirable
          /\ Goto(b, "supersedeWait")
          /\ UNCHANGED <<answer, advLock, tokLock>>
       \/ /\ ~Retirable
          /\ Finish(b, "claimed")
    /\ UNCHANGED <<database, locals, expired>>

SupersedeExecute(b) ==
    /\ pc[b] = "supersedeWait"
    /\ tokLock = Nobody
    /\ \/ /\ Retirable
          /\ tokLock' = b
          /\ Goto(b, "supersedeCommit")
          /\ UNCHANGED <<answer, advLock>>
       \/ /\ ~Retirable
          /\ Finish(b, "claimed")
    /\ UNCHANGED <<database, locals, expired>>

SupersedeCommit(b) ==
    /\ pc[b] = "supersedeCommit"
    /\ token' = [token EXCEPT !.superseded = TRUE]
    /\ audit' = audit \union {[action |-> "superseded", gen |-> token.gen]}
    /\ \E result \in {"claimed", "unavailable"} : Finish(b, result)
    /\ UNCHANGED <<users, announced, locals, expired>>

-----------------------------------------------------------------------------
ClaimStep(c) ==
    \/ ClaimStart(c) \/ ClaimExamine(c) \/ ClaimHash(c) \/ ClaimHashBusy(c)
    \/ ClaimGate(c) \/ ClaimSnapshot(c) \/ ClaimExecute(c) \/ ClaimCommit(c)
    \/ ClassifyRefusal(c)

MintStep(m) ==
    \/ MintBegin(m) \/ MintLock(m) \/ MintUsers(m) \/ MintState(m)
    \/ MintSnapshot(m) \/ MintExecute(m) \/ MintCommit(m)

BootStep(b) ==
    \/ BootStart(b) \/ SupersedeSnapshot(b) \/ SupersedeExecute(b) \/ SupersedeCommit(b)

AllDone == (\A p \in Procs : pc[p] = "done") /\ UNCHANGED vars

Next ==
    \/ Expire
    \/ \E p \in Procs : Abort(p)
    \/ \E c \in Claimants : ClaimStep(c)
    \/ \E m \in Minters : MintStep(m)
    \/ \E b \in Boots : BootStep(b)
    \/ AllDone

Spec == Init /\ [][Next]_vars

\* Each process keeps executing; PostgreSQL grants a free lock to a waiter.
FairSpec ==
    /\ Spec
    /\ \A c \in Claimants : SF_vars(ClaimStep(c))
    /\ \A m \in Minters : SF_vars(MintStep(m))
    /\ \A b \in Boots : SF_vars(BootStep(b))

-----------------------------------------------------------------------------
\* Properties.

ClaimLabels == {"examine", "hash", "gate", "redeem", "redeemWait", "commit", "classify"}
MintLabels == {"begin", "lock", "users", "state", "mint", "mintWait", "mintCommit"}
SupersedeLabels == {"supersede", "supersedeWait", "supersedeCommit"}
Answers == {"none", "unavailable", "already_claimed", "busy", "owner_conflict", "created",
            "not_accepted", "has_users", "live_token", "minted", "told_command", "claimed"}

\* Types, and the locks are held from the statement that takes them to the
\* end of its transaction, by one process at a time.
TypeOK ==
    /\ users \subseteq Claimants
    /\ token \in [gen : Nat, consumed : BOOLEAN, superseded : BOOLEAN]
    /\ expired \subseteq Nat
    /\ audit \subseteq [action : {"minted", "superseded", "succeeded"}, gen : Nat]
    /\ announced \subseteq Nat
    /\ advLock \in Minters \union {Nobody} /\ tokLock \in Procs \union {Nobody}
    /\ pc \in [Procs -> {"idle", "done"} \union ClaimLabels \union MintLabels \union SupersedeLabels]
    /\ presented \in [Procs -> Nat]
    /\ clock \in [Procs -> SUBSET Nat]
    /\ prior \in [Procs -> Nat]
    /\ answer \in [Procs -> Answers]
    /\ \A p \in Procs : tokLock = p <=> pc[p] \in {"commit", "mintCommit", "supersedeCommit"}
    /\ \A m \in Minters : advLock = m <=> pc[m] \in MintLabels \ {"begin", "lock"}

\* One owner, whatever claims, re-mints and boots overlap: and the redeem
\* alone guarantees it, users_one_owner (the second enforcer) never has to
\* refuse anyone.
OneOwnerWithoutTheIndex ==
    /\ \A c, d \in users : c = d
    /\ \A c \in Claimants : answer[c] # "owner_conflict"

\* A 403 is never given for a token that could still be redeemed: whoever was
\* told "not accepted" carried a token that is used, replaced, expired or
\* wrong.
RefusedTokenIsDead ==
    \A c \in Claimants :
       answer[c] = "not_accepted" => ~(Live(expired) /\ token.gen = presented[c])

\* A claimed instance answers 409 and an unclaimed one 403, even to a request
\* that lost a race in the middle (OQ-4); 201 is answered only to the owner.
AnswersAreTruthful ==
    [][\A c \in Claimants :
          answer'[c] # answer[c] =>
             /\ answer'[c] = "already_claimed" => users # {}
             /\ answer'[c] = "not_accepted" => users = {}
             /\ answer'[c] = "created" => users' = {c}]_vars

\* A boot never invalidates a live token: restarting replicas, however many
\* start together, do not kill the token in the operator's clipboard.
BootKeepsLiveToken ==
    [][\A b \in Boots :
          (MintCommit(b)) => ~Live(clock[b])]_vars

\* Every token an operator was shown is the token of a generation of its own,
\* and a token that is dead does not come back to life.
GenerationsNeverReturn ==
    [][/\ token'.gen >= token.gen
       /\ (token'.gen = token.gen /\ (token.consumed \/ token.superseded))
             => (token'.consumed \/ token'.superseded)]_vars

\* No claim, mint or boot waits for ever on the advisory or the row lock.
EveryoneFinishes == \A p \in Procs : <>(pc[p] = "done")
=============================================================================
