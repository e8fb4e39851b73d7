-------------------------- MODULE OwnerClaimProofs --------------------------
(***************************************************************************)
(* Proofs about OwnerClaim for any number of claims, mints and boots.      *)
(***************************************************************************)
EXTENDS OwnerClaim, TLAPS

\* A presented token is one that existed.
TokensExisted ==
    /\ \A g \in announced : g <= token.gen
    /\ \A p \in Procs : presented[p] <= token.gen

\* A transaction's now() is not ahead of the clock.
ClocksArePast == \A p \in Procs : clock[p] \subseteq expired

\* The transaction about to insert an owner is the first.
CommitterIsFirst == \A c \in Claimants : pc[c] = "commit" => users = {}

\* Once there is an owner, a redeem that still waits with a snapshot in which
\* there was none can only wait for a row that will not match.
StaleRedeemsFail ==
    users # {} => \A c \in Claimants :
       pc[c] = "redeemWait" => presented[c] < token.gen \/ token.consumed

\* A token that cannot be redeemed any more, or never could.
DeadFor(c) == ~(Live(expired) /\ token.gen = presented[c])

\* A refusal is on its way only for a dead token or a claimed instance.
RefusalsAreDue ==
    \A c \in Claimants : pc[c] = "classify" => users # {} \/ DeadFor(c)

\* An answer is the last thing a process does.
AnswersAreLast == \A p \in Procs : pc[p] # "done" => answer[p] = "none"

IInv == /\ TypeOK /\ TokensExisted /\ ClocksArePast /\ CommitterIsFirst
        /\ StaleRedeemsFail /\ RefusalsAreDue /\ AnswersAreLast
        /\ OneOwnerWithoutTheIndex /\ RefusedTokenIsDead

\* The initial state satisfies the invariant.
LEMMA InitIInv == Init => IInv
BY ProcsAssumption
   DEF Init, IInv, TypeOK, TokensExisted, ClocksArePast, CommitterIsFirst, StaleRedeemsFail,
       RefusalsAreDue, OneOwnerWithoutTheIndex, RefusedTokenIsDead, AnswersAreLast, DeadFor, Live, Procs, Minters,
       ClaimLabels, MintLabels, SupersedeLabels, Answers

\* Time passing.
LEMMA ExpireIInv == IInv /\ Expire => IInv'
<1> SUFFICES ASSUME IInv, Expire PROVE IInv'
  BY Zenon
<1>1. /\ UNCHANGED <<users, token, audit, announced, presented, clock, prior>>
      /\ UNCHANGED <<advLock, tokLock, pc, answer>>
      /\ expired \subseteq expired' /\ token.gen \in Nat /\ expired' = expired \union {token.gen}
  BY Zenon DEF Expire, IInv, TypeOK, database, locals
<1>2. TypeOK' /\ TokensExisted' /\ ClocksArePast'
  BY <1>1, Zenon DEF IInv, TypeOK, TokensExisted, ClocksArePast
<1>3. CommitterIsFirst' /\ StaleRedeemsFail' /\ AnswersAreLast' /\ OneOwnerWithoutTheIndex'
  BY <1>1, Zenon DEF IInv, CommitterIsFirst, StaleRedeemsFail, AnswersAreLast, OneOwnerWithoutTheIndex
<1>4. RefusalsAreDue' /\ RefusedTokenIsDead'
  BY <1>1, Zenon DEF IInv, RefusalsAreDue, RefusedTokenIsDead, DeadFor, Live
<1>5. QED BY <1>2, <1>3, <1>4, Zenon DEF IInv

\* The end of a transaction that wrote nothing.
LEMMA FinishIInv ==
    ASSUME IInv, NEW p \in Procs, NEW result \in Answers \ {"owner_conflict"},
           Finish(p, result), UNCHANGED <<database, expired>>,
           presented' \in [Procs -> Nat], \A q \in Procs : presented'[q] <= token.gen,
           \A q \in Procs \ {p} : presented'[q] = presented[q],
           clock' \in [Procs -> SUBSET Nat], \A q \in Procs : clock'[q] \subseteq expired,
           prior' \in [Procs -> Nat],
           result = "not_accepted" => DeadFor(p) /\ presented' = presented
    PROVE  IInv'
<1>1. TypeOK'
  BY ProcsAssumption
  DEF IInv, TypeOK, Finish, Goto, Free, database, Procs, Minters, ClaimLabels, MintLabels,
      SupersedeLabels
<1>2. TokensExisted' /\ ClocksArePast'
  BY Zenon DEF IInv, TypeOK, TokensExisted, ClocksArePast, database
<1>3. /\ \A q \in Procs : pc'[q] = IF q = p THEN "done" ELSE pc[q]
      /\ \A q \in Procs : answer'[q] = IF q = p THEN result ELSE answer[q]
  BY Zenon DEF IInv, TypeOK, Finish, Goto
<1>4. UNCHANGED <<users, token, expired>>
  BY Zenon DEF database
<1>5. CommitterIsFirst' /\ StaleRedeemsFail' /\ RefusalsAreDue'
  BY <1>3, <1>4, Zenon DEF IInv, CommitterIsFirst, StaleRedeemsFail, RefusalsAreDue, DeadFor, Live, Procs
<1>6. OneOwnerWithoutTheIndex' /\ RefusedTokenIsDead' /\ AnswersAreLast'
  BY <1>3, <1>4, Zenon
  DEF IInv, AnswersAreLast, OneOwnerWithoutTheIndex, RefusedTokenIsDead, DeadFor, Live, Procs
<1>7. QED BY <1>1, <1>2, <1>5, <1>6, Zenon DEF IInv
Labels == {"idle", "done"} \union ClaimLabels \union MintLabels \union SupersedeLabels
RowLockLabels == {"commit", "mintCommit", "supersedeCommit"}
MintLockLabels == MintLabels \ {"begin", "lock"}

\* A step inside a transaction, or before one, that writes nothing.
LEMMA MoveIInv ==
    ASSUME IInv, NEW p \in Procs, NEW label \in Labels \ {"done"},
           pc[p] # "done", Goto(p, label), UNCHANGED <<database, expired, answer>>,
           presented' \in [Procs -> Nat], \A q \in Procs : presented'[q] <= token.gen,
           \A q \in Procs \ {p} : presented'[q] = presented[q],
           clock' \in [Procs -> SUBSET Nat], \A q \in Procs : clock'[q] \subseteq expired,
           prior' \in [Procs -> Nat],
           advLock' \in Minters \union {Nobody}, tokLock' \in Procs \union {Nobody},
           \A q \in Procs \ {p} : (tokLock' = q) <=> (tokLock = q),
           \A q \in Procs \ {p} : (advLock' = q) <=> (advLock = q),
           tokLock' = p <=> label \in RowLockLabels,
           p \in Minters => (advLock' = p <=> label \in MintLockLabels),
           (p \in Claimants /\ label \in {"commit", "redeemWait"}) => users = {},
           (p \in Claimants /\ label = "classify") =>
              presented' = presented /\ (users # {} \/ DeadFor(p))
    PROVE  IInv'
<1>0. \A q \in Procs : pc'[q] = IF q = p THEN label ELSE pc[q]
  BY Zenon DEF IInv, TypeOK, Goto
<1>1. TypeOK'
  <2>1. pc' \in [Procs -> Labels]
    BY Zenon DEF IInv, TypeOK, Goto, Labels
  <2>2. \A q \in Procs : tokLock' = q <=> pc'[q] \in RowLockLabels
    BY <1>0 DEF IInv, TypeOK, RowLockLabels
  <2>3. \A m \in Minters : advLock' = m <=> pc'[m] \in MintLockLabels
    BY <1>0 DEF IInv, TypeOK, MintLockLabels, Procs
  <2>4. QED
    BY <2>1, <2>2, <2>3, Zenon DEF IInv, TypeOK, Labels, RowLockLabels, MintLockLabels, database
<1>2. TokensExisted' /\ ClocksArePast'
  BY Zenon DEF IInv, TypeOK, TokensExisted, ClocksArePast, database
<1>4. UNCHANGED <<users, token, expired, answer>>
  BY Zenon DEF database
<1>5. CommitterIsFirst' /\ StaleRedeemsFail'
  BY <1>0, <1>4, Zenon DEF IInv, CommitterIsFirst, StaleRedeemsFail, Procs
<1>6. RefusalsAreDue'
  BY <1>0, <1>4, Zenon DEF IInv, RefusalsAreDue, DeadFor, Live, Procs
<1>7. OneOwnerWithoutTheIndex' /\ AnswersAreLast'
  BY <1>0, <1>4, Zenon DEF IInv, OneOwnerWithoutTheIndex, AnswersAreLast, Procs
<1>8. RefusedTokenIsDead'
  <2>1. answer[p] = "none"
    BY Zenon DEF IInv, AnswersAreLast
  <2>2. QED BY <1>4, <2>1, Zenon DEF IInv, RefusedTokenIsDead, Live, Procs
<1>9. QED BY <1>1, <1>2, <1>5, <1>6, <1>7, <1>8, Zenon DEF IInv

\* Every claim step preserves the invariant.
LEMMA ClaimIInv == ASSUME IInv, NEW c \in Claimants, ClaimStep(c) PROVE IInv'
<1> USE DEF Procs
<1>0. /\ c \in Procs /\ c \notin Minters
      /\ presented \in [Procs -> Nat] /\ clock \in [Procs -> SUBSET Nat] /\ prior \in [Procs -> Nat]
      /\ \A q \in Procs : presented[q] <= token.gen
      /\ \A q \in Procs : clock[q] \subseteq expired
      /\ advLock \in Minters \union {Nobody} /\ tokLock \in Procs \union {Nobody}
      /\ expired \subseteq Nat
      /\ tokLock = c <=> pc[c] \in RowLockLabels
  BY ProcsAssumption DEF IInv, TypeOK, TokensExisted, ClocksArePast, RowLockLabels
<1>1. CASE ClaimStart(c)
  <2>1. PICK t \in announced \union {0} : presented' = [presented EXCEPT ![c] = t]
    BY <1>1, Zenon DEF ClaimStart
  <2>2. t \in Nat /\ t <= token.gen
    BY DEF IInv, TypeOK, TokensExisted
  <2>3. /\ presented' \in [Procs -> Nat] /\ \A q \in Procs : presented'[q] <= token.gen
        /\ \A q \in Procs \ {c} : presented'[q] = presented[q]
    BY <1>0, <2>1, <2>2, Zenon
  <2>4. CASE Finish(c, "already_claimed")
    BY <1>0, <1>1, <2>3, <2>4, FinishIInv, Zenon DEF ClaimStart, Answers
  <2>5. CASE Goto(c, "examine") /\ UNCHANGED <<answer, advLock, tokLock>>
    BY <1>0, <1>1, <2>3, <2>5, MoveIInv, Zenon DEF ClaimStart, Labels, ClaimLabels, RowLockLabels
  <2>6. QED BY <1>1, <2>4, <2>5, Zenon DEF ClaimStart
<1>2. CASE ClaimExamine(c)
  <2>1. CASE Live(expired) /\ token.gen = presented[c]
    BY <1>0, <1>2, <2>1, MoveIInv, Zenon
    DEF ClaimExamine, Labels, ClaimLabels, RowLockLabels, locals
  <2>2. CASE ~(Live(expired) /\ token.gen = presented[c])
    BY <1>0, <1>2, <2>2, MoveIInv, Zenon
    DEF ClaimExamine, Labels, ClaimLabels, RowLockLabels, locals, DeadFor
  <2>3. QED BY <2>1, <2>2, Zenon
<1>3. CASE ClaimHash(c)
  BY <1>0, <1>3, MoveIInv, Zenon DEF ClaimHash, Labels, ClaimLabels, RowLockLabels, locals
<1>4. CASE ClaimHashBusy(c)
  BY <1>0, <1>4, FinishIInv, Zenon DEF ClaimHashBusy, Answers, locals
<1>5. CASE ClaimGate(c)
  <2>1. clock' \in [Procs -> SUBSET Nat] /\ \A q \in Procs : clock'[q] \subseteq expired
    BY <1>0, <1>5, Zenon DEF ClaimGate
  <2>2. CASE Finish(c, "already_claimed")
    BY <1>0, <1>5, <2>1, <2>2, FinishIInv, Zenon DEF ClaimGate, Answers
  <2>3. CASE Goto(c, "redeem") /\ UNCHANGED <<answer, advLock, tokLock>>
    BY <1>0, <1>5, <2>1, <2>3, MoveIInv, Zenon DEF ClaimGate, Labels, ClaimLabels, RowLockLabels
  <2>4. QED BY <1>5, <2>2, <2>3, Zenon DEF ClaimGate
<1>6. ~Matches(c) => DeadFor(c)
  BY <1>0, Zenon DEF Matches, DeadFor, Live
<1>7. CASE ClaimSnapshot(c)
  <2>1. CASE users = {} /\ Matches(c)
    BY <1>0, <1>7, <2>1, MoveIInv, Zenon
    DEF ClaimSnapshot, Labels, ClaimLabels, RowLockLabels, locals
  <2>2. CASE ~(users = {} /\ Matches(c))
    BY <1>0, <1>6, <1>7, <2>2, MoveIInv, Zenon
    DEF ClaimSnapshot, Labels, ClaimLabels, RowLockLabels, locals
  <2>3. QED BY <2>1, <2>2, Zenon
<1>8. CASE ClaimExecute(c)
  <2>1. CASE ~Matches(c) /\ Goto(c, "classify") /\ UNCHANGED <<advLock, tokLock, answer>>
    BY <1>0, <1>6, <1>8, <2>1, MoveIInv, Zenon
    DEF ClaimExecute, Labels, ClaimLabels, RowLockLabels, locals
  <2>2. ~(Matches(c) /\ users # {})
    BY <1>0, <1>8 DEF ClaimExecute, IInv, TypeOK, StaleRedeemsFail, Matches, Live
  <2>3. CASE users = {} /\ Goto(c, "commit") /\ tokLock' = c /\ UNCHANGED <<advLock, answer>>
    BY <1>0, <1>8, <2>3, MoveIInv, ProcsAssumption
    DEF ClaimExecute, Labels, ClaimLabels, RowLockLabels, locals
  <2>4. QED BY <1>8, <2>1, <2>2, <2>3, Zenon DEF ClaimExecute
<1>9. CASE ClaimCommit(c)
  <2>1. PICK result \in {"created", "unavailable"} : Finish(c, result)
    BY <1>9, Zenon DEF ClaimCommit
  <2>2. users = {} /\ users' = {c} /\ tokLock = c
    BY <1>0, <1>9, Zenon DEF ClaimCommit, IInv, CommitterIsFirst, RowLockLabels
  <2>3. /\ \A q \in Procs : pc'[q] = IF q = c THEN "done" ELSE pc[q]
        /\ \A q \in Procs : answer'[q] = IF q = c THEN result ELSE answer[q]
        /\ pc' \in [Procs -> Labels] /\ answer' \in [Procs -> Answers]
    BY <2>1, Zenon DEF IInv, TypeOK, Finish, Goto, Answers, Labels
  <2>4. /\ token' = [token EXCEPT !.consumed = TRUE]
        /\ token'.gen = token.gen /\ token'.consumed /\ token'.superseded = token.superseded
        /\ token' \in [gen : Nat, consumed : BOOLEAN, superseded : BOOLEAN]
    BY <1>9, Zenon DEF ClaimCommit, IInv, TypeOK
  <2>5. UNCHANGED <<announced, presented, clock, prior, expired>>
    BY <1>9, Zenon DEF ClaimCommit, locals
  <2>6. /\ tokLock' = Nobody /\ advLock' = advLock
        /\ \A q \in Procs \ {c} : pc[q] \notin RowLockLabels
    BY <1>0, <2>1, <2>2, ProcsAssumption DEF Finish, Free, IInv, TypeOK, RowLockLabels
  <2>7. TypeOK'
    <3>1. audit' \subseteq [action : {"minted", "superseded", "succeeded"}, gen : Nat]
      BY <1>9 DEF ClaimCommit, IInv, TypeOK
    <3>2. \A q \in Procs : tokLock' = q <=> pc'[q] \in RowLockLabels
      BY <2>3, <2>6, ProcsAssumption DEF RowLockLabels
    <3>3. \A m \in Minters : advLock' = m <=> pc'[m] \in MintLockLabels
      BY <1>0, <2>3, <2>6, Zenon DEF IInv, TypeOK, MintLockLabels
    <3>4. QED
      BY <2>2, <2>3, <2>4, <2>5, <2>6, <3>1, <3>2, <3>3, Zenon
      DEF IInv, TypeOK, Labels, RowLockLabels, MintLockLabels
  <2>8. TokensExisted' /\ ClocksArePast' /\ StaleRedeemsFail' /\ RefusalsAreDue'
    BY <2>2, <2>4, <2>5, Zenon DEF IInv, TokensExisted, ClocksArePast, StaleRedeemsFail, RefusalsAreDue
  <2>9. CommitterIsFirst'
    BY <2>3, <2>6, Zenon DEF CommitterIsFirst, RowLockLabels
  <2>10. OneOwnerWithoutTheIndex' /\ AnswersAreLast' /\ RefusedTokenIsDead'
    BY <2>2, <2>3, <2>4
    DEF IInv, OneOwnerWithoutTheIndex, AnswersAreLast, RefusedTokenIsDead, Live
  <2>11. QED BY <2>7, <2>8, <2>9, <2>10, Zenon DEF IInv
<1>10. CASE ClassifyRefusal(c)
  <2>1. CASE users # {}
    BY <1>0, <1>10, <2>1, FinishIInv, Zenon DEF ClassifyRefusal, Answers, locals
  <2>2. CASE users = {}
    BY <1>0, <1>10, <2>2, FinishIInv, Zenon DEF ClassifyRefusal, Answers, locals, IInv, RefusalsAreDue
  <2>3. QED BY <2>1, <2>2, Zenon
<1>11. QED
  BY <1>1, <1>2, <1>3, <1>4, <1>5, <1>7, <1>8, <1>9, <1>10, Zenon DEF ClaimStep

\* A minter's commit: the row gets a new generation, or is retired.
LEMMA WriteIInv ==
    ASSUME IInv, NEW m \in Minters, m \notin Claimants,
           NEW result \in Answers, Finish(m, result),
           pc[m] \in RowLockLabels,
           UNCHANGED <<users, presented, clock, prior, expired>>,
           token' \in [gen : Nat, consumed : BOOLEAN, superseded : BOOLEAN],
           \/ token'.gen = token.gen + 1
           \/ token'.gen = token.gen /\ token'.superseded /\ token'.consumed = token.consumed,
           announced' \subseteq Nat, \A g \in announced' : g <= token'.gen,
           audit' \subseteq [action : {"minted", "superseded", "succeeded"}, gen : Nat]
    PROVE  IInv'
<1> USE DEF Procs
<1>1. /\ \A q \in Procs : pc'[q] = IF q = m THEN "done" ELSE pc[q]
      /\ \A q \in Procs : answer'[q] = IF q = m THEN result ELSE answer[q]
      /\ pc' \in [Procs -> Labels] /\ answer' \in [Procs -> Answers]
  BY Zenon DEF IInv, TypeOK, Finish, Goto, Labels
<1>2. /\ presented \in [Procs -> Nat] /\ token.gen \in Nat
      /\ \A q \in Procs : presented[q] <= token.gen
  BY Zenon DEF IInv, TypeOK, TokensExisted
<1>3. TypeOK'
  <2>1. /\ advLock' \in Minters \union {Nobody} /\ tokLock' \in Procs \union {Nobody}
        /\ \A q \in Procs : tokLock' = q <=> pc'[q] \in RowLockLabels
        /\ \A q \in Minters : advLock' = q <=> pc'[q] \in MintLockLabels
    BY <1>1, ProcsAssumption
    DEF IInv, TypeOK, Finish, Free, RowLockLabels, MintLockLabels, MintLabels
  <2>2. QED BY <1>1, <2>1, Zenon DEF IInv, TypeOK, Labels, RowLockLabels, MintLockLabels
<1>4. TokensExisted' /\ ClocksArePast'
  BY <1>2, SMTT(60) DEF IInv, TokensExisted, ClocksArePast
<1>5. CommitterIsFirst' /\ AnswersAreLast' /\ OneOwnerWithoutTheIndex'
  BY <1>1, Zenon DEF IInv, CommitterIsFirst, AnswersAreLast, OneOwnerWithoutTheIndex
<1>6. StaleRedeemsFail'
  BY <1>1, <1>2 DEF IInv, StaleRedeemsFail
<1>7. \A c \in Claimants : DeadFor(c)'
  BY <1>2 DEF DeadFor, Live
<1>8. RefusalsAreDue' /\ RefusedTokenIsDead'
  BY <1>7, Zenon DEF RefusalsAreDue, RefusedTokenIsDead, DeadFor
<1>9. QED BY <1>3, <1>4, <1>5, <1>6, <1>8, Zenon DEF IInv

\* Every mint and boot step preserves the invariant.
LEMMA MintIInv ==
    ASSUME IInv, NEW m \in Minters, MintStep(m) \/ (m \in Boots /\ BootStep(m)) PROVE IInv'
<1> USE DEF Procs
<1>0. /\ m \in Procs /\ m \notin Claimants
      /\ presented \in [Procs -> Nat] /\ clock \in [Procs -> SUBSET Nat] /\ prior \in [Procs -> Nat]
      /\ \A q \in Procs : presented[q] <= token.gen
      /\ \A q \in Procs : clock[q] \subseteq expired
      /\ advLock \in Minters \union {Nobody} /\ tokLock \in Procs \union {Nobody}
      /\ expired \subseteq Nat
      /\ tokLock = m <=> pc[m] \in RowLockLabels
      /\ advLock = m <=> pc[m] \in MintLockLabels
      /\ Nobody # m /\ Nobody \notin Procs
      /\ token.gen \in Nat
  BY ProcsAssumption
  DEF IInv, TypeOK, TokensExisted, ClocksArePast, RowLockLabels, MintLockLabels
<1>1. CASE MintBegin(m)
  <2>1. clock' \in [Procs -> SUBSET Nat] /\ \A q \in Procs : clock'[q] \subseteq expired
    BY <1>0, <1>1, Zenon DEF MintBegin
  <2>2. QED
    BY <1>0, <1>1, <2>1, MoveIInv, Zenon
    DEF MintBegin, Labels, MintLabels, RowLockLabels, MintLockLabels
<1>2. CASE MintLock(m)
  BY <1>0, <1>2, MoveIInv, Zenon
  DEF MintLock, Labels, MintLabels, RowLockLabels, MintLockLabels, locals
<1>3. CASE MintUsers(m)
  <2>1. CASE Finish(m, "has_users")
    BY <1>0, <1>3, <2>1, FinishIInv, Zenon DEF MintUsers, Answers, locals
  <2>2. CASE Goto(m, "state") /\ UNCHANGED <<advLock, tokLock, answer>>
    BY <1>0, <1>3, <2>2, MoveIInv, Zenon
    DEF MintUsers, Labels, MintLabels, RowLockLabels, MintLockLabels, locals
  <2>3. QED BY <1>3, <2>1, <2>2, Zenon DEF MintUsers
<1>4. CASE MintState(m)
  <2>1. prior' \in [Procs -> Nat]
    BY <1>0, <1>4, Zenon DEF MintState
  <2>2. CASE Finish(m, "live_token")
    BY <1>0, <1>4, <2>1, <2>2, FinishIInv, Zenon DEF MintState, Answers
  <2>3. CASE Goto(m, "mint") /\ UNCHANGED <<advLock, tokLock, answer>>
    BY <1>0, <1>4, <2>1, <2>3, MoveIInv, Zenon
    DEF MintState, Labels, MintLabels, RowLockLabels, MintLockLabels
  <2>4. QED BY <1>4, <2>2, <2>3, Zenon DEF MintState
<1>5. CASE MintSnapshot(m)
  <2>1. CASE Finish(m, "has_users")
    BY <1>0, <1>5, <2>1, FinishIInv, Zenon DEF MintSnapshot, Answers, locals
  <2>2. CASE Goto(m, "mintWait") /\ UNCHANGED <<advLock, tokLock, answer>>
    BY <1>0, <1>5, <2>2, MoveIInv, Zenon
    DEF MintSnapshot, Labels, MintLabels, RowLockLabels, MintLockLabels, locals
  <2>3. QED BY <1>5, <2>1, <2>2, Zenon DEF MintSnapshot
<1>6. CASE MintExecute(m)
  BY <1>0, <1>6, MoveIInv, Zenon
  DEF MintExecute, Labels, MintLabels, RowLockLabels, MintLockLabels, locals
<1>7. CASE MintCommit(m)
  <2>1. PICK result \in {"minted", "unavailable"} : Finish(m, result)
    BY <1>7, Zenon DEF MintCommit
  <2>2. /\ token' \in [gen : Nat, consumed : BOOLEAN, superseded : BOOLEAN]
        /\ token'.gen = token.gen + 1
    BY <1>0, <1>7, SMTT(60) DEF MintCommit, MintedToken
  <2>3. /\ announced' \subseteq Nat /\ \A g \in announced' : g <= token'.gen
    BY <1>0, <1>7, <2>2, SMTT(60) DEF MintCommit, IInv, TypeOK, TokensExisted
  <2>4. audit' \subseteq [action : {"minted", "superseded", "succeeded"}, gen : Nat]
    BY <1>0, <1>7, <2>2, SMTT(60) DEF MintCommit, IInv, TypeOK
  <2>5. UNCHANGED <<users, presented, clock, prior, expired>>
    BY <1>7, Zenon DEF MintCommit, locals
  <2>6. QED BY <1>0, <1>7, <2>1, <2>2, <2>3, <2>4, <2>5, WriteIInv, Zenon
        DEF MintCommit, Answers, RowLockLabels
<1>8. CASE BootStart(m)
  <2>1. CASE Finish(m, "told_command")
    BY <1>0, <1>8, <2>1, FinishIInv, Zenon DEF BootStart, Answers, locals
  <2>2. CASE (Goto(m, "supersede") \/ Goto(m, "begin")) /\ UNCHANGED <<answer, advLock, tokLock>>
    BY <1>0, <1>8, <2>2, MoveIInv, Zenon
    DEF BootStart, Labels, MintLabels, SupersedeLabels, RowLockLabels, MintLockLabels, locals
  <2>3. QED BY <1>8, <2>1, <2>2, Zenon DEF BootStart
<1>9. CASE SupersedeSnapshot(m)
  <2>1. CASE Finish(m, "claimed")
    BY <1>0, <1>9, <2>1, FinishIInv, Zenon DEF SupersedeSnapshot, Answers, locals
  <2>2. CASE Goto(m, "supersedeWait") /\ UNCHANGED <<answer, advLock, tokLock>>
    BY <1>0, <1>9, <2>2, MoveIInv, Zenon
    DEF SupersedeSnapshot, Labels, MintLabels, SupersedeLabels, RowLockLabels, MintLockLabels, locals
  <2>3. QED BY <1>9, <2>1, <2>2, Zenon DEF SupersedeSnapshot
<1>10. CASE SupersedeExecute(m)
  <2>1. CASE Finish(m, "claimed")
    BY <1>0, <1>10, <2>1, FinishIInv, Zenon DEF SupersedeExecute, Answers, locals
  <2>2. CASE tokLock' = m /\ Goto(m, "supersedeCommit") /\ UNCHANGED <<answer, advLock>>
    BY <1>0, <1>10, <2>2, MoveIInv, Zenon
    DEF SupersedeExecute, Labels, MintLabels, SupersedeLabels, RowLockLabels, MintLockLabels, locals
  <2>3. QED BY <1>10, <2>1, <2>2, Zenon DEF SupersedeExecute
<1>11. CASE SupersedeCommit(m)
  <2>1. PICK result \in {"claimed", "unavailable"} : Finish(m, result)
    BY <1>11, Zenon DEF SupersedeCommit
  <2>2. /\ token' \in [gen : Nat, consumed : BOOLEAN, superseded : BOOLEAN]
        /\ token'.gen = token.gen /\ token'.superseded /\ token'.consumed = token.consumed
    BY <1>11, Zenon DEF SupersedeCommit, IInv, TypeOK
  <2>3. announced' \subseteq Nat /\ \A g \in announced' : g <= token'.gen
    BY <1>11, <2>2, Zenon DEF SupersedeCommit, IInv, TypeOK, TokensExisted
  <2>4. audit' \subseteq [action : {"minted", "superseded", "succeeded"}, gen : Nat]
    BY <1>0, <1>11 DEF SupersedeCommit, IInv, TypeOK
  <2>5. UNCHANGED <<users, presented, clock, prior, expired>>
    BY <1>11, Zenon DEF SupersedeCommit, locals
  <2>6. QED BY <1>0, <1>11, <2>1, <2>2, <2>3, <2>4, <2>5, WriteIInv, Zenon
        DEF SupersedeCommit, Answers, RowLockLabels
<1>12. QED
  BY <1>1, <1>2, <1>3, <1>4, <1>5, <1>6, <1>7, <1>8, <1>9, <1>10, <1>11, Zenon DEF MintStep, BootStep

\* Every step preserves the invariant.
LEMMA StepIInv == IInv /\ [Next]_vars => IInv'
<1> SUFFICES ASSUME IInv, [Next]_vars PROVE IInv'
  BY Zenon
<1>1. ASSUME NEW p \in Procs, Abort(p) PROVE IInv'
  BY <1>1, FinishIInv, Zenon
  DEF Abort, Answers, locals, IInv, TypeOK, TokensExisted, ClocksArePast
<1>2. CASE UNCHANGED vars
  BY <1>2, Zenon
  DEF IInv, TypeOK, TokensExisted, ClocksArePast, CommitterIsFirst, StaleRedeemsFail,
      RefusalsAreDue, OneOwnerWithoutTheIndex, RefusedTokenIsDead, AnswersAreLast, DeadFor, Live, vars
<1>3. QED
  BY <1>1, <1>2, ExpireIInv, ClaimIInv, MintIInv, Zenon DEF Next, AllDone, Minters

\* The invariant holds throughout.
THEOREM AlwaysIInv == Spec => []IInv
<1>1. QED BY InitIInv, StepIInv, PTL DEF Spec

\* Types, and the discipline of the two locks.
THEOREM TypeCorrect == Spec => []TypeOK
<1>1. IInv => TypeOK BY Zenon DEF IInv
<1>2. QED BY <1>1, AlwaysIInv, PTL

\* However many claims, mints and boots overlap there is at most one owner,
\* and the unique index users_one_owner is never what prevents a second one.
THEOREM OneOwner == Spec => []OneOwnerWithoutTheIndex
<1>1. IInv => OneOwnerWithoutTheIndex BY Zenon DEF IInv
<1>2. QED BY <1>1, AlwaysIInv, PTL

\* Nobody is told "not accepted" about a token that could still be redeemed.
THEOREM RefusalsAreJust == Spec => []RefusedTokenIsDead
<1>1. IInv => RefusedTokenIsDead BY Zenon DEF IInv
<1>2. QED BY <1>1, AlwaysIInv, PTL

\* The token row's generation never goes back, and a used or replaced
\* generation stays so.
THEOREM GenerationsAreFinal == Spec => GenerationsNeverReturn
<1> DEFINE A == /\ token'.gen >= token.gen
                /\ (token'.gen = token.gen /\ (token.consumed \/ token.superseded))
                      => (token'.consumed \/ token'.superseded)
<1>1. IInv /\ [Next]_vars => A
  <2> SUFFICES ASSUME IInv, [Next]_vars PROVE A
    BY Zenon
  <2>0. token \in [gen : Nat, consumed : BOOLEAN, superseded : BOOLEAN]
    BY Zenon DEF IInv, TypeOK
  <2>1. CASE UNCHANGED token
    BY <2>0, <2>1
  <2>2. ASSUME NEW c \in Claimants, ClaimStep(c) PROVE A
    BY <2>0, <2>2
    DEF ClaimStep, ClaimStart, ClaimExamine, ClaimHash, ClaimHashBusy, ClaimGate, ClaimSnapshot,
        ClaimExecute, ClaimCommit, ClassifyRefusal, database
  <2>3. ASSUME NEW m \in Minters, MintStep(m) PROVE A
    <3>1. CASE MintCommit(m)
      <4>1. token'.gen = token.gen + 1 BY <3>1, Zenon DEF MintCommit, MintedToken
      <4>2. QED BY <2>0, <4>1
    <3>2. CASE ~MintCommit(m)
      BY <2>1, <2>3, <3>2, Zenon
      DEF MintStep, MintBegin, MintLock, MintUsers, MintState, MintSnapshot, MintExecute, database
    <3>3. QED BY <3>1, <3>2, Zenon
  <2>4. ASSUME NEW b \in Boots, BootStep(b) PROVE A
    BY <2>0, <2>4
    DEF BootStep, BootStart, SupersedeSnapshot, SupersedeExecute, SupersedeCommit, database
  <2>5. QED BY <2>1, <2>2, <2>3, <2>4, Zenon DEF Next, AllDone, vars, Expire, Abort, database
<1>2. QED BY <1>1, AlwaysIInv, PTL DEF Spec, GenerationsNeverReturn

\* 409 is said only of a claimed instance, 403 only of an unclaimed one, and
\* 201 only to the request that made its owner.
THEOREM AnswersHold == Spec => AnswersAreTruthful
<1> DEFINE B(c) == answer'[c] # answer[c] =>
                     /\ answer'[c] = "already_claimed" => users # {}
                     /\ answer'[c] = "not_accepted" => users = {}
                     /\ answer'[c] = "created" => users' = {c}
<1>1. IInv /\ [Next]_vars => \A c \in Claimants : B(c)
  <2> SUFFICES ASSUME IInv, [Next]_vars, NEW c \in Claimants PROVE B(c)
    BY Zenon
  <2>0. answer \in [Procs -> Answers] /\ c \in Procs /\ c \notin Minters
    BY ProcsAssumption DEF IInv, TypeOK, Procs
  <2>1. ASSUME NEW p \in Procs \ {c}, NEW result, Finish(p, result) PROVE B(c)
    BY <2>0, <2>1, Zenon DEF Finish
  <2>2. ASSUME UNCHANGED answer PROVE B(c)
    BY <2>2, Zenon
  <2>3. ASSUME NEW d \in Claimants \ {c}, ClaimStep(d) PROVE B(c)
    BY <2>1, <2>2, <2>3, Zenon
    DEF ClaimStep, ClaimStart, ClaimExamine, ClaimHash, ClaimHashBusy, ClaimGate, ClaimSnapshot,
        ClaimExecute, ClaimCommit, ClassifyRefusal, Procs
  <2>4. CASE ClaimCommit(c)
    <3>1. users' = {c}
      BY <2>4, Zenon DEF ClaimCommit, IInv, CommitterIsFirst
    <3>2. answer'[c] \in {"created", "unavailable"}
      BY <2>0, <2>4, Zenon DEF ClaimCommit, Finish
    <3>3. QED BY <3>1, <3>2, Zenon
  <2>5. CASE ClaimStep(c) /\ ~ClaimCommit(c)
    BY <2>0, <2>5, Zenon
    DEF ClaimStep, ClaimStart, ClaimExamine, ClaimHash, ClaimHashBusy, ClaimGate, ClaimSnapshot,
        ClaimExecute, ClassifyRefusal, Finish
  <2>6. ASSUME NEW m \in Minters, MintStep(m) \/ (m \in Boots /\ BootStep(m)) PROVE B(c)
    <3>1. m \in Procs \ {c} BY <2>0, Zenon DEF Procs
    <3>2. UNCHANGED answer \/ \E result \in Answers : Finish(m, result)
      BY <2>6, Zenon
      DEF MintStep, MintBegin, MintLock, MintUsers, MintState, MintSnapshot, MintExecute,
          MintCommit, BootStep, BootStart, SupersedeSnapshot, SupersedeExecute, SupersedeCommit,
          Answers
    <3>3. QED BY <2>1, <2>2, <3>1, <3>2, Zenon
  <2>7. ASSUME NEW p \in Procs, Abort(p) PROVE B(c)
    BY <2>0, <2>7, Zenon DEF Abort, Finish
  <2>8. QED BY <2>2, <2>3, <2>4, <2>5, <2>6, <2>7, Zenon DEF Next, AllDone, vars, Expire, Minters
<1>2. QED BY <1>1, AlwaysIInv, PTL DEF Spec, AnswersAreTruthful

\* A boot past its look at the token still has no live token to destroy: only
\* the holder of the advisory lock could make one.
BootSawNoLiveToken ==
    \A b \in Boots : pc[b] \in {"mint", "mintWait", "mintCommit"} => ~Live(clock[b])

\* However many replicas boot at once, alongside re-mints and claims, no boot
\* replaces a live token.
THEOREM BootsAreGentle == Spec => BootKeepsLiveToken
<1>1. Init => BootSawNoLiveToken
  BY Zenon DEF Init, BootSawNoLiveToken, Procs, Minters
<1>2. ASSUME IInv, BootSawNoLiveToken, [Next]_vars PROVE BootSawNoLiveToken'
  <2> SUFFICES ASSUME NEW b \in Boots, pc'[b] \in {"mint", "mintWait", "mintCommit"}
               PROVE  ~Live(clock[b])'
    BY Zenon DEF BootSawNoLiveToken
  <2>0. /\ pc \in [Procs -> Labels] /\ clock \in [Procs -> SUBSET Nat]
        /\ token \in [gen : Nat, consumed : BOOLEAN, superseded : BOOLEAN]
        /\ b \in Procs /\ b \in Minters /\ b \notin Claimants /\ b \notin Clis
        /\ \A m \in Minters : advLock = m <=> pc[m] \in MintLockLabels
    BY <1>2, ProcsAssumption DEF IInv, TypeOK, Labels, MintLockLabels, Procs, Minters
  <2>1. CASE UNCHANGED <<token, pc, clock>>
    BY <1>2, <2>1, Zenon DEF BootSawNoLiveToken, Live
  <2>2. ASSUME NEW p \in Procs \ {b}, pc'[b] = pc[b], clock'[b] = clock[b],
               \/ token' = token
               \/ token' = [token EXCEPT !.consumed = TRUE]
               \/ token' = [token EXCEPT !.superseded = TRUE]
        PROVE  ~Live(clock[b])'
    BY <1>2, <2>0, <2>2, Zenon DEF BootSawNoLiveToken, Live
  <2>3. ASSUME NEW c \in Claimants, ClaimStep(c) PROVE ~Live(clock[b])'
    <3>1. c \in Procs \ {b} BY <2>0, Zenon DEF Procs
    <3>2. /\ pc'[b] = pc[b] /\ clock'[b] = clock[b]
          /\ token' = token \/ token' = [token EXCEPT !.consumed = TRUE]
      BY <2>0, <2>3, <3>1, Zenon
      DEF ClaimStep, ClaimStart, ClaimExamine, ClaimHash, ClaimHashBusy, ClaimGate, ClaimSnapshot,
          ClaimExecute, ClaimCommit, ClassifyRefusal, Finish, Goto, database, locals
    <3>3. QED BY <2>2, <3>1, <3>2, Zenon
  <2>4. ASSUME NEW m \in Minters \ {b}, MintStep(m) \/ (m \in Boots /\ BootStep(m))
        PROVE  ~Live(clock[b])'
    <3>1. m \in Procs \ {b} BY Zenon DEF Procs
    <3>2. pc'[b] = pc[b] /\ clock'[b] = clock[b]
      BY <2>0, <2>4, <3>1, Zenon
      DEF MintStep, MintBegin, MintLock, MintUsers, MintState, MintSnapshot, MintExecute,
          MintCommit, BootStep, BootStart, SupersedeSnapshot, SupersedeExecute, SupersedeCommit,
          Finish, Goto, locals
    <3>3. ~MintCommit(m)
      BY <2>0, <3>2, Zenon DEF MintCommit, MintLockLabels, MintLabels
    <3>4. token' = token \/ token' = [token EXCEPT !.superseded = TRUE]
      BY <2>4, <3>3, Zenon
      DEF MintStep, MintBegin, MintLock, MintUsers, MintState, MintSnapshot, MintExecute,
          BootStep, BootStart, SupersedeSnapshot, SupersedeExecute, SupersedeCommit, database
    <3>5. QED BY <2>2, <3>1, <3>2, <3>4, Zenon
  <2>5. CASE MintStep(b) \/ BootStep(b)
    <3>1. \/ MintState(b) /\ ~Live(clock[b]) /\ clock'[b] = clock[b]
          \/ MintSnapshot(b) \/ MintExecute(b)
      BY <2>0, <2>5, Zenon
      DEF MintStep, MintBegin, MintLock, MintUsers, MintState, MintCommit, BootStep, BootStart,
          SupersedeSnapshot, SupersedeExecute, SupersedeCommit, Finish, Goto
    <3>2. UNCHANGED token /\ clock'[b] = clock[b]
      BY <3>1, Zenon DEF MintState, MintSnapshot, MintExecute, database, locals
    <3>3. ~Live(clock[b])
      BY <1>2, <2>0, <3>1, Zenon DEF BootSawNoLiveToken, MintSnapshot, MintExecute
    <3>4. QED BY <3>2, <3>3, Zenon DEF Live
  <2>6. ASSUME NEW p \in Procs, Abort(p) PROVE ~Live(clock[b])'
    <3>1. UNCHANGED <<token, clock>> /\ p # b /\ pc'[b] = pc[b]
      BY <2>0, <2>6, Zenon DEF Abort, Finish, Goto, database, locals
    <3>2. QED BY <1>2, <3>1, Zenon DEF BootSawNoLiveToken, Live
  <2>7. CASE Expire \/ AllDone
    BY <2>1, <2>7, Zenon DEF Expire, AllDone, vars, database, locals
  <2>8. QED BY <1>2, <2>1, <2>3, <2>4, <2>5, <2>6, <2>7, Zenon DEF Next, vars, Minters
<1>3. BootSawNoLiveToken => \A b \in Boots : MintCommit(b) => ~Live(clock[b])
  BY Zenon DEF BootSawNoLiveToken, MintCommit
<1>4. QED BY <1>1, <1>2, <1>3, AlwaysIInv, PTL DEF Spec, BootKeepsLiveToken
=============================================================================
