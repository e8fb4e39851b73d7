--------------------------- MODULE JobQueueProofs ---------------------------
(***************************************************************************)
(* Proofs about JobQueue for any jobs, workers, slots, budgets and times,  *)
(* and about JobQueueCalm: why heartbeats at a third of the lease are      *)
(* enough to keep a row for as long as nothing goes wrong.                 *)
(***************************************************************************)
EXTENDS JobQueueCalm, TLAPS

\* A run in flight is a run of some row, from a claim that was really made,
\* and it has an outcome once its handler has returned.
RunsWellFormed ==
    \A w \in Workers, s \in Slots :
       /\ run[w][s].phase # "idle" =>
             /\ run[w][s].job \in Jobs
             /\ run[w][s].attempt <= attempts[run[w][s].job]
       /\ run[w][s].phase = "returned" => run[w][s].outcome # "none"

\* A row that is not there yet has spent nothing.
Fresh == \A j \in Jobs : state[j] = "absent" => attempts[j] = 0

IInv == TypeOK /\ Fresh /\ RunsWellFormed /\ NoZombie /\ DeadMeansExhausted /\ LeaseComplete

\* The intervals derived from the constants.
LEMMA TimesAreNat == HeartbeatEvery \in Nat /\ AgeCap \in Nat
BY TimeAssumption DEF HeartbeatEvery, AgeCap

\* Idle, new and older runs are runs.
LEMMA RunTypes ==
    /\ IdleRun \in Run
    /\ \A j \in Jobs, n \in Nat : NewRun(j, n) \in Run
    /\ \A r \in Run : Older(r) \in Run
<1>1. IdleRun \in Run
  BY TimesAreNat DEF IdleRun, Run, Outcomes
<1>2. \A j \in Jobs, n \in Nat : NewRun(j, n) \in Run
  BY TimesAreNat DEF NewRun, Run, Outcomes
<1>3. \A r \in Run : Older(r) \in Run
  <2> SUFFICES ASSUME NEW r \in Run PROVE Older(r) \in Run
    BY Zenon
  <2> DEFINE age == IF r.phase # "idle" /\ r.age < AgeCap THEN r.age + 1 ELSE r.age
             hbLeft == IF r.phase = "running" /\ r.hbLeft > 0 THEN r.hbLeft - 1 ELSE r.hbLeft
  <2>1. age \in 0..AgeCap /\ hbLeft \in 0..HeartbeatEvery
    BY TimesAreNat DEF Run
  <2>2. Older(r) = [r EXCEPT !.age = age, !.hbLeft = hbLeft]
    BY Zenon DEF Older
  <2> HIDE DEF age, hbLeft
  <2>3. QED BY <2>1, <2>2, Zenon DEF Run
<1>4. QED BY <1>1, <1>2, <1>3, Zenon

\* The backoff is a rung of the ladder for every attempt number.
LEMMA BackoffIsNat == \A n \in Nat : Backoff(n) \in Nat
<1> SUFFICES ASSUME NEW n \in Nat PROVE Backoff(n) \in Nat
  BY Zenon
<1> DEFINE i == CASE n < 1 -> 1 [] n > Len(RetryLadder) -> Len(RetryLadder) [] OTHER -> n
<1>1. RetryLadder \in Seq(Nat) /\ Len(RetryLadder) \in Nat /\ Len(RetryLadder) >= 1
  BY TimeAssumption
<1>2. i \in 1..Len(RetryLadder)
  BY <1>1
<1>3. Backoff(n) = RetryLadder[i]
  BY Zenon DEF Backoff
<1> HIDE DEF i
<1>4. QED BY <1>1, <1>2, <1>3

\* The passage of time leaves alone what a run is about.
LEMMA OlderKeeps ==
    \A r \in Run : /\ Older(r).phase = r.phase /\ Older(r).job = r.job
                  /\ Older(r).attempt = r.attempt /\ Older(r).outcome = r.outcome
BY Zenon DEF Older, Run

\* Setting one slot sets that slot and no other.
LEMMA SetRunStep ==
    ASSUME TypeOK, NEW w \in Workers, NEW s \in Slots, NEW r \in Run, SetRun(w, s, r)
    PROVE  /\ run' \in [Workers -> [Slots -> Run]]
           /\ run'[w][s] = r
           /\ \A v \in Workers, t \in Slots :
                 run'[v][t] = IF v = w /\ t = s THEN r ELSE run[v][t]
BY Zenon DEF TypeOK, SetRun

\* The initial state satisfies the invariant.
LEMMA InitIInv == Init => IInv
BY RunTypes, BudgetAssumption, TimeAssumption, NobodyAssumption DEF Init, IInv, TypeOK, RunsWellFormed, NoZombie, DeadMeansExhausted,
   LeaseComplete, Fresh, L!JobStates, IdleRun

\* Every step preserves the invariant.
LEMMA StepIInv == IInv /\ [Next]_vars => IInv'
<1> SUFFICES ASSUME IInv, [Next]_vars PROVE IInv'
  BY Zenon
<1> USE BudgetAssumption, NobodyAssumption
<1>1. CASE Tick
  <2>1. TypeOK'
    BY <1>1, RunTypes, TimeAssumption DEF IInv, TypeOK, Tick
  <2>2. \A w \in Workers, s \in Slots :
           /\ run'[w][s].phase = run[w][s].phase
           /\ run'[w][s].job = run[w][s].job
           /\ run'[w][s].attempt = run[w][s].attempt
           /\ run'[w][s].outcome = run[w][s].outcome
    BY <1>1, OlderKeeps DEF IInv, TypeOK, Tick
  <2>3. RunsWellFormed'
    <3>1. attempts' = attempts
      BY <1>1, Zenon DEF Tick
    <3>2. QED BY <2>2, <3>1 DEF IInv, RunsWellFormed
  <2>4. QED BY <1>1, <2>1, <2>3, Zenon
    DEF IInv, TypeOK, Tick, NoZombie, DeadMeansExhausted, LeaseComplete, Fresh
<1>2. ASSUME NEW j \in Jobs, NEW delay \in Delays, Enqueue(j, delay)
      PROVE  IInv'
  BY <1>2, TimeAssumption DEF IInv, TypeOK, RunsWellFormed, Enqueue, NoZombie, DeadMeansExhausted, LeaseComplete, L!JobStates, L!LiveStates, Fresh
<1>3. ASSUME NEW w \in Workers, Start(w) \/ Drain(w)
      PROVE  IInv'
  <2>1. UNCHANGED <<state, attempts, leasedBy, leaseLeft, waitLeft, run, leader>>
    BY <1>3, Zenon DEF Start, Drain, rowVars
  <2>2. proc' \in [Workers -> {"new", "up", "draining", "down"}]
    BY <1>3, Zenon DEF Start, Drain, IInv, TypeOK
  <2>3. TypeOK' BY <2>1, <2>2, Zenon DEF IInv, TypeOK
  <2>4. QED BY <2>1, <2>3, Zenon DEF IInv, RunsWellFormed, NoZombie, DeadMeansExhausted, LeaseComplete, Fresh
<1>4. ASSUME NEW w \in Workers, Exit(w) \/ Die(w)
      PROVE  IInv'
  <2>1. End(w) BY <1>4, Zenon DEF Exit, Die
  <2>2. TypeOK' BY <2>1, RunTypes, Zenon DEF IInv, TypeOK, End, rowVars
  <2>3. \A v \in Workers, s \in Slots :
          run'[v][s] = run[v][s] \/ run'[v][s].phase = "idle"
    BY <2>1, Zenon DEF IInv, TypeOK, End, IdleRun
  <2>4. RunsWellFormed'
    BY <2>1, <2>3 DEF IInv, TypeOK, RunsWellFormed, End, rowVars
  <2> QED BY <2>1, <2>2, <2>4, Zenon
    DEF IInv, End, NoZombie, DeadMeansExhausted, LeaseComplete, Fresh, rowVars
<1>5. ASSUME NEW w \in Workers, SweepBegin(w) \/ SweepFails(w)
      PROVE  IInv'
  BY <1>5 DEF IInv, TypeOK, RunsWellFormed, SweepBegin, SweepFails, NoZombie, DeadMeansExhausted, LeaseComplete, Fresh, rowVars
<1>6. ASSUME NEW w \in Workers, Sweep(w)
      PROVE  IInv'
  <2>1. \A j \in Jobs :
          \/ /\ state[j] = "leased"
             /\ leasedBy'[j] = NoWorker /\ leaseLeft'[j] = 0
             /\ \/ state'[j] = "queued" /\ attempts[j] < MaxAttempts[j]
                \/ state'[j] = "dead" /\ attempts[j] = MaxAttempts[j]
          \/ /\ state'[j] = state[j]
             /\ leasedBy'[j] = leasedBy[j] /\ leaseLeft'[j] = leaseLeft[j]
    <3> SUFFICES ASSUME NEW j \in Jobs
                 PROVE  \/ /\ state[j] = "leased"
                           /\ leasedBy'[j] = NoWorker /\ leaseLeft'[j] = 0
                           /\ \/ state'[j] = "queued" /\ attempts[j] < MaxAttempts[j]
                              \/ state'[j] = "dead" /\ attempts[j] = MaxAttempts[j]
                        \/ /\ state'[j] = state[j]
                           /\ leasedBy'[j] = leasedBy[j] /\ leaseLeft'[j] = leaseLeft[j]
      BY Zenon
    <3>1. attempts[j] \in Nat /\ MaxAttempts[j] \in Nat /\ attempts[j] <= MaxAttempts[j]
      BY Zenon DEF IInv, TypeOK
    <3>2. CASE j \in Expired
      BY <1>6, <3>1, <3>2 DEF Sweep, Expired, SweptState
    <3>3. CASE j \notin Expired
      BY <1>6, <3>3, Zenon DEF Sweep
    <3>4. QED BY <3>2, <3>3, Zenon
  <2>2. TypeOK'
    BY <1>6, <2>1, TimeAssumption
    DEF IInv, TypeOK, Sweep, L!JobStates, L!LiveStates, L!TerminalStates
  <2>3. UNCHANGED <<attempts, run>>
    BY <1>6, Zenon DEF Sweep
  <2>4. QED
    BY <2>1, <2>2, <2>3, Zenon
    DEF IInv, RunsWellFormed, NoZombie, DeadMeansExhausted, LeaseComplete, Fresh
<1>7. ASSUME NEW w \in Workers, NEW s \in Slots, Claim(w, s) \/ ClaimLost(w, s)
      PROVE  IInv'
  <2>1. PICK j \in Jobs :
          /\ LeaseRow(w, j)
          /\ Eligible(j)
          /\ \/ SetRun(w, s, NewRun(j, attempts[j] + 1))
             \/ run' = run
          /\ UNCHANGED <<proc, leader>>
    BY <1>7, RegisteredAssumption DEF Claim, ClaimLost, NextFor
  <2>2. run' \in [Workers -> [Slots -> Run]]
    BY <2>1, RunTypes, SetRunStep DEF IInv, TypeOK
  <2>3. TypeOK'
    BY <2>1, <2>2, TimeAssumption
    DEF IInv, TypeOK, LeaseRow, Eligible, L!JobStates, L!LiveStates
  <2>4. RunsWellFormed'
    <3>1. NewRun(j, attempts[j] + 1) \in Run
      BY RunTypes DEF IInv, TypeOK
    <3>2. \A v \in Workers, t \in Slots :
            run'[v][t] = run[v][t] \/ run'[v][t] = NewRun(j, attempts[j] + 1)
      BY <2>1, <3>1, SetRunStep DEF IInv
    <3>3. attempts'[j] = attempts[j] + 1 /\ \A i \in Jobs : attempts'[i] >= attempts[i]
      BY <2>1 DEF IInv, TypeOK, LeaseRow
    <3>4. \A v \in Workers, t \in Slots : run[v][t].attempt \in Nat
      BY DEF IInv, TypeOK, Run
    <3>5. attempts \in [Jobs -> Nat] /\ attempts' \in [Jobs -> Nat]
      BY <2>3, Zenon DEF IInv, TypeOK
    <3>6. QED BY <3>2, <3>3, <3>4, <3>5, SMTT(60) DEF IInv, RunsWellFormed, NewRun
  <2>5. QED
    BY <2>1, <2>3, <2>4, Zenon
    DEF IInv, TypeOK, LeaseRow, Eligible, NoZombie, DeadMeansExhausted, LeaseComplete, Fresh
<1>8. ASSUME NEW w \in Workers, NEW s \in Slots,
             NEW outcome \in Outcomes \ {"none"}, HandlerReturns(w, s, outcome)
      PROVE  IInv'
  <2> DEFINE r == [run[w][s] EXCEPT !.phase = "returned", !.outcome = outcome]
  <2>0. run[w][s] \in Run
    BY DEF IInv, TypeOK
  <2>1. r \in Run
    BY <2>0, Zenon DEF Run
  <2>2. SetRun(w, s, r)
    BY <1>8, Zenon DEF HandlerReturns
  <2>3. /\ r.job = run[w][s].job /\ r.attempt = run[w][s].attempt
        /\ r.outcome # "none" /\ run[w][s].phase # "idle"
    BY <1>8, <2>0, Zenon DEF Run, HandlerReturns
  <2> HIDE DEF r
  <2>4. RunsWellFormed'
    BY <1>8, <2>1, <2>2, <2>3, SetRunStep DEF IInv, RunsWellFormed, HandlerReturns, rowVars
  <2>5. QED
    BY <1>8, <2>1, <2>2, <2>4, SetRunStep, Zenon
    DEF IInv, TypeOK, HandlerReturns, NoZombie, DeadMeansExhausted, LeaseComplete, Fresh, rowVars
<1>9. ASSUME NEW w \in Workers, NEW s \in Slots, Heartbeat(w, s) \/ HeartbeatFails(w, s)
      PROVE  IInv'
  <2>1. PICK r \in Run :
          /\ SetRun(w, s, r)
          /\ r.phase = run[w][s].phase /\ r.job = run[w][s].job
          /\ r.attempt = run[w][s].attempt /\ r.outcome = run[w][s].outcome
    <3> DEFINE late == [run[w][s] EXCEPT !.hbLeft = HeartbeatEvery]
               lost == [run[w][s] EXCEPT !.cancelled = TRUE]
    <3>0. run[w][s] \in Run
      BY DEF IInv, TypeOK
    <3>1. late \in Run /\ lost \in Run
      <4>1. HeartbeatEvery \in 0..HeartbeatEvery
        BY TimesAreNat
      <4>2. late \in Run
        BY <3>0, <4>1, Zenon DEF Run
      <4>3. lost \in Run
        BY <3>0, Zenon DEF Run
      <4>4. QED BY <4>2, <4>3, Zenon
    <3>2. SetRun(w, s, late) \/ SetRun(w, s, lost)
      BY <1>9, Zenon DEF Heartbeat, HeartbeatFails
    <3>3. /\ late.phase = run[w][s].phase /\ late.job = run[w][s].job
          /\ late.attempt = run[w][s].attempt /\ late.outcome = run[w][s].outcome
          /\ lost.phase = run[w][s].phase /\ lost.job = run[w][s].job
          /\ lost.attempt = run[w][s].attempt /\ lost.outcome = run[w][s].outcome
      BY <3>0, Zenon DEF Run
    <3> HIDE DEF late, lost
    <3>4. QED BY <3>1, <3>2, <3>3, Zenon
  <2>2. leaseLeft' \in [Jobs -> 0..LeaseTime]
    <3>1. LeaseTime \in 0..LeaseTime
      BY TimeAssumption
    <3>2. QED BY <1>9, <3>1, Zenon DEF IInv, TypeOK, Heartbeat, HeartbeatFails, rowVars
  <2>3. UNCHANGED <<state, attempts, leasedBy, waitLeft, proc, leader>>
    BY <1>9, Zenon DEF Heartbeat, HeartbeatFails, rowVars
  <2>4. RunsWellFormed'
    BY <2>1, <2>3, SetRunStep, SMTT(60) DEF IInv, RunsWellFormed
  <2>5. QED
    BY <2>1, <2>2, <2>3, <2>4, SetRunStep, Zenon
    DEF IInv, TypeOK, NoZombie, DeadMeansExhausted, LeaseComplete, Fresh
<1>10. ASSUME NEW w \in Workers, NEW s \in Slots, Record(w, s) \/ RecordFails(w, s)
       PROVE  IInv'
  <2> DEFINE r == run[w][s]
  <2>1. /\ SetRun(w, s, IdleRun)
        /\ UNCHANGED <<proc, leader, attempts>>
        /\ r.phase = "returned"
    BY <1>10, Zenon DEF Record, RecordFails, WriteOutcome, rowVars
  <2>2. run' \in [Workers -> [Slots -> Run]]
    BY <2>1, RunTypes, SetRunStep, Zenon DEF IInv
  <2>3. RunsWellFormed'
    BY <2>1, RunTypes, SetRunStep, SMTT(60) DEF IInv, RunsWellFormed, IdleRun
  <2>4. CASE UNCHANGED rowVars
    BY <2>1, <2>2, <2>3, <2>4, Zenon
    DEF IInv, TypeOK, NoZombie, DeadMeansExhausted, LeaseComplete, Fresh, rowVars
  <2>5. CASE OutcomeApplies(w, r) /\ WriteOutcome(r)
    <3>1. /\ r \in Run
          /\ r.job \in Jobs
          /\ r.attempt <= attempts[r.job]
          /\ r.outcome \in {"ok", "terminal", "retryable"}
      BY <2>1 DEF IInv, TypeOK, RunsWellFormed, Run, Outcomes
    <3>2. /\ RecordedState(r) \in {"succeeded", "failed", "dead", "queued"}
          /\ RecordedState(r) = "dead" => attempts[r.job] = MaxAttempts[r.job]
      <4>1. /\ r.attempt \in Nat /\ attempts[r.job] \in Nat /\ MaxAttempts[r.job] \in Nat
            /\ attempts[r.job] <= MaxAttempts[r.job]
        BY <3>1, Zenon DEF IInv, TypeOK, Run
      <4> HIDE DEF r
      <4>2. CASE r.outcome = "ok"
        BY <4>2, Zenon DEF RecordedState
      <4>3. CASE r.outcome = "terminal"
        BY <4>3, Zenon DEF RecordedState
      <4>4. CASE r.outcome = "retryable"
        BY <4>1, <4>4, <3>1 DEF RecordedState, OutOfAttempts
      <4>5. QED BY <3>1, <4>2, <4>3, <4>4, Zenon
    <3>3. Backoff(r.attempt) \in Nat
      BY <3>1, BackoffIsNat, Zenon DEF Run
    <3> HIDE DEF r
    <3>4. TypeOK'
      <4>1. state' \in [Jobs -> L!JobStates]
        BY <2>5, <3>1, <3>2 DEF IInv, TypeOK, WriteOutcome, L!JobStates, L!LiveStates, L!TerminalStates
      <4>2. waitLeft' \in [Jobs -> Nat]
        BY <2>5, <3>1, <3>3 DEF IInv, TypeOK, WriteOutcome
      <4>3. leasedBy' \in [Jobs -> Workers \union {NoWorker}]
        BY <2>5, <3>1 DEF IInv, TypeOK, WriteOutcome
      <4>4. leaseLeft' \in [Jobs -> 0..LeaseTime]
        BY <2>5, <3>1, TimeAssumption DEF IInv, TypeOK, WriteOutcome
      <4>5. QED BY <2>1, <2>2, <4>1, <4>2, <4>3, <4>4, Zenon DEF IInv, TypeOK
    <3>5. QED
      BY <2>1, <2>3, <2>5, <3>1, <3>2, <3>4, SMTT(60)
      DEF IInv, TypeOK, WriteOutcome, OutcomeApplies, Holds, NoZombie, DeadMeansExhausted,
          LeaseComplete, Fresh
  <2>6. QED BY <1>10, <2>4, <2>5, Zenon DEF Record, RecordFails
<1>11. CASE UNCHANGED vars
  BY <1>11, Zenon DEF IInv, TypeOK, RunsWellFormed, NoZombie, DeadMeansExhausted, LeaseComplete,
     Fresh, vars
<1>12. QED
  BY <1>1, <1>2, <1>3, <1>4, <1>5, <1>6, <1>7, <1>8, <1>9, <1>10, <1>11, Zenon DEF Next

\* The invariant holds throughout.
THEOREM AlwaysIInv == Spec => []IInv
<1>1. QED BY InitIInv, StepIInv, PTL DEF Spec

\* Rows, processes, runs and the sweep lock keep their types, and attempts
\* never exceeds max_attempts, whatever the workers do.
THEOREM TypeCorrect == Spec => []TypeOK
<1>1. IInv => TypeOK BY Zenon DEF IInv
<1>2. QED BY <1>1, AlwaysIInv, PTL

\* The count that the comment on SweepExpiredLeases requires to be 0 is 0.
THEOREM ZombieFree == Spec => []NoZombie
<1>1. IInv => NoZombie BY Zenon DEF IInv
<1>2. QED BY <1>1, AlwaysIInv, PTL

\* Nothing is dead-lettered before max_attempts claims, by the worker that
\* decides on its own copy of attempts or by the sweep.
THEOREM DeadOnlyWhenExhausted == Spec => []DeadMeansExhausted
<1>1. IInv => DeadMeansExhausted BY Zenon DEF IInv
<1>2. QED BY <1>1, AlwaysIInv, PTL

\* leased_by names a holder exactly as long as the outcome statements rely
\* on it.
THEOREM LeasesAreComplete == Spec => []LeaseComplete
<1>1. IInv => LeaseComplete BY Zenon DEF IInv
<1>2. QED BY <1>1, AlwaysIInv, PTL

\* Every step of the queue is a step of JobLifecycle or leaves it alone.
LEMMA StepRefines == IInv /\ [Next]_vars => [L!LifecycleNext]_L!lifecycleVars
<1> SUFFICES ASSUME IInv, [Next]_vars
             PROVE  L!LifecycleNext \/ UNCHANGED <<state, attempts>>
  BY Zenon DEF L!lifecycleVars
<1>1. ASSUME NEW j \in Jobs, NEW delay \in Delays, Enqueue(j, delay)
      PROVE  L!LifecycleNext
  <2>1. L!Submit(j) BY <1>1, Zenon DEF Enqueue, L!Submit
  <2>2. QED BY <2>1, Zenon DEF L!LifecycleNext
<1>2. ASSUME NEW w \in Workers, NEW s \in Slots, Claim(w, s) \/ ClaimLost(w, s)
      PROVE  L!LifecycleNext
  <2>1. PICK j \in Jobs : LeaseRow(w, j) /\ Eligible(j)
    BY <1>2, RegisteredAssumption DEF Claim, ClaimLost, NextFor
  <2>2. L!Lease(j) BY <2>1, Zenon DEF LeaseRow, Eligible, L!Lease, L!HasBudget
  <2>3. QED BY <2>2, Zenon DEF L!LifecycleNext
<1>3. ASSUME NEW w \in Workers, NEW s \in Slots, Record(w, s)
      PROVE  L!LifecycleNext \/ UNCHANGED <<state, attempts>>
  <2> DEFINE r == run[w][s]
  <2>1. CASE UNCHANGED rowVars
    BY <2>1, Zenon DEF rowVars
  <2>2. CASE OutcomeApplies(w, r) /\ WriteOutcome(r)
    <3>1. /\ r.job \in Jobs /\ r.attempt \in Nat /\ r.attempt <= attempts[r.job]
          /\ r.outcome \in {"ok", "terminal", "retryable"}
      BY <1>3, SMTT(60) DEF Record, IInv, TypeOK, RunsWellFormed, Run, Outcomes
    <3>2. /\ attempts[r.job] \in Nat /\ MaxAttempts[r.job] \in Nat
          /\ attempts[r.job] <= MaxAttempts[r.job]
      BY <3>1, BudgetAssumption DEF IInv, TypeOK
    <3> HIDE DEF r
    <3>3. /\ RecordedState(r) \in L!TerminalStates \union {"queued"}
          /\ RecordedState(r) = "dead" => attempts[r.job] >= MaxAttempts[r.job]
      <4>1. CASE r.outcome = "ok"
        BY <4>1, Zenon DEF RecordedState, L!TerminalStates
      <4>2. CASE r.outcome = "terminal"
        BY <4>2, Zenon DEF RecordedState, L!TerminalStates
      <4>3. CASE r.outcome = "retryable"
        BY <3>1, <3>2, <4>3 DEF RecordedState, OutOfAttempts, L!TerminalStates
      <4>4. QED BY <3>1, <4>1, <4>2, <4>3, Zenon
    <3>4. L!Settle(r.job, RecordedState(r))
      BY <2>2, <3>2, <3>3 DEF OutcomeApplies, WriteOutcome, Holds, L!Settle, L!HasBudget
    <3>5. QED BY <3>1, <3>3, <3>4, Zenon DEF L!LifecycleNext
  <2>3. QED BY <1>3, <2>1, <2>2, Zenon DEF Record
<1>4. ASSUME NEW w \in Workers, Sweep(w)
      PROVE  L!LifecycleNext
  <2>1. \A j \in Jobs : SweptState(j) = IF L!HasBudget(j) THEN "queued" ELSE "dead"
    BY BudgetAssumption DEF IInv, TypeOK, SweptState, L!HasBudget
  <2>2. L!Reclaim(Expired)
    BY <1>4, <2>1, Zenon DEF Sweep, Expired, L!Reclaim
  <2>3. Expired \in SUBSET Jobs BY Zenon DEF Expired
  <2>4. QED BY <2>2, <2>3, Zenon DEF L!LifecycleNext
<1>5. ASSUME NEW w \in Workers,
             \/ Start(w) \/ Drain(w) \/ Exit(w) \/ Die(w) \/ SweepBegin(w) \/ SweepFails(w)
      PROVE  UNCHANGED <<state, attempts>>
  BY <1>5, Zenon DEF Start, Drain, Exit, Die, End, SweepBegin, SweepFails, rowVars
<1>6. ASSUME NEW w \in Workers, NEW s \in Slots,
             \/ Heartbeat(w, s) \/ HeartbeatFails(w, s) \/ RecordFails(w, s)
             \/ \E outcome \in Outcomes \ {"none"} : HandlerReturns(w, s, outcome)
      PROVE  UNCHANGED <<state, attempts>>
  BY <1>6, Zenon DEF Heartbeat, HeartbeatFails, RecordFails, HandlerReturns, rowVars
<1>7. CASE Tick \/ UNCHANGED vars
  BY <1>7, Zenon DEF Tick, vars
<1>8. QED BY <1>1, <1>2, <1>3, <1>4, <1>5, <1>6, <1>7, Zenon DEF Next

\* The queue with its workers, leases, lost answers and crashes implements the
\* one-job life cycle.
THEOREM Refinement == Spec => ImplementsLifecycle
<1>1. Init => L!LifecycleInit
  BY Zenon DEF Init, L!LifecycleInit
<1>2. QED
  BY <1>1, AlwaysIInv, StepRefines, PTL DEF Spec, ImplementsLifecycle, L!LifecycleSpec

\* Succeeded, failed and dead rows are never written again.
THEOREM FinishedJobsAreFinal == Spec => FinishedJobsStay
<1> DEFINE A == \A j \in Jobs : Terminal(j) => state'[j] = state[j] /\ attempts'[j] = attempts[j]
<1>1. IInv /\ [Next]_vars => A
  <2> SUFFICES ASSUME IInv, L!LifecycleNext, NEW j \in Jobs, Terminal(j)
               PROVE  state'[j] = state[j] /\ attempts'[j] = attempts[j]
    BY StepRefines, Zenon DEF L!lifecycleVars
  <2>1. state[j] \notin {"absent", "queued", "leased"}
    BY Zenon DEF Terminal, L!TerminalStates
  <2>2. QED
    BY <2>1, Zenon DEF L!LifecycleNext, L!Submit, L!Lease, L!Settle, L!Reclaim, IInv, TypeOK
<1>2. QED BY <1>1, AlwaysIInv, PTL DEF Spec, FinishedJobsStay

\* In the step, runs end or go on for the same claim, and none begins.
RunsOnlyFade ==
    \A w \in Workers, s \in Slots :
       \/ run'[w][s].phase = "idle"
       \/ /\ run[w][s].phase # "idle"
          /\ run'[w][s].job = run[w][s].job
          /\ run'[w][s].attempt = run[w][s].attempt

\* Only a claim that is answered begins a run.
LEMMA OnlyClaimsBeginRuns ==
    IInv /\ [Next]_vars => RunsOnlyFade \/ \E w \in Workers, s \in Slots : Claim(w, s)
<1> SUFFICES ASSUME IInv, [Next]_vars, ~\E w \in Workers, s \in Slots : Claim(w, s)
             PROVE  RunsOnlyFade
  BY Zenon
<1>0. TypeOK BY Zenon DEF IInv
<1>1. ASSUME UNCHANGED run PROVE RunsOnlyFade
  BY <1>1, Zenon DEF RunsOnlyFade
<1>2. CASE Tick
  BY <1>0, <1>2, OlderKeeps, Zenon DEF TypeOK, Tick, RunsOnlyFade
<1>3. ASSUME NEW w \in Workers, Exit(w) \/ Die(w) PROVE RunsOnlyFade
  BY <1>0, <1>3, SMTT(60) DEF TypeOK, Exit, Die, End, RunsOnlyFade, IdleRun
<1>4. ASSUME NEW w \in Workers, NEW s \in Slots, Record(w, s) \/ RecordFails(w, s)
      PROVE  RunsOnlyFade
  <2>1. SetRun(w, s, IdleRun) BY <1>4, Zenon DEF Record, RecordFails
  <2>2. \A v \in Workers, t \in Slots :
          run'[v][t] = IF v = w /\ t = s THEN IdleRun ELSE run[v][t]
    BY <1>0, <2>1, RunTypes, SetRunStep
  <2>3. IdleRun.phase = "idle" BY Zenon DEF IdleRun
  <2>4. QED BY <2>2, <2>3, Zenon DEF RunsOnlyFade
<1>5. ASSUME NEW w \in Workers, NEW s \in Slots, NEW r,
             SetRun(w, s, r), run[w][s].phase # "idle",
             r.job = run[w][s].job, r.attempt = run[w][s].attempt
      PROVE  RunsOnlyFade
  BY <1>0, <1>5, Zenon DEF TypeOK, SetRun, RunsOnlyFade
<1>6. ASSUME NEW w \in Workers, NEW s \in Slots, NEW outcome \in Outcomes \ {"none"},
             HandlerReturns(w, s, outcome)
      PROVE  RunsOnlyFade
  <2> DEFINE r == [run[w][s] EXCEPT !.phase = "returned", !.outcome = outcome]
  <2>1. run[w][s] \in Run BY <1>0, Zenon DEF TypeOK
  <2>2. r.job = run[w][s].job /\ r.attempt = run[w][s].attempt
    BY <2>1, Zenon DEF Run
  <2>3. SetRun(w, s, r) /\ run[w][s].phase # "idle"
    BY <1>6, Zenon DEF HandlerReturns
  <2> HIDE DEF r
  <2>4. QED BY <1>5, <2>2, <2>3, Zenon
<1>7. ASSUME NEW w \in Workers, NEW s \in Slots, Heartbeat(w, s) \/ HeartbeatFails(w, s)
      PROVE  RunsOnlyFade
  <2> DEFINE late == [run[w][s] EXCEPT !.hbLeft = HeartbeatEvery]
             lost == [run[w][s] EXCEPT !.cancelled = TRUE]
  <2>1. run[w][s] \in Run BY <1>0, Zenon DEF TypeOK
  <2>2. /\ late.job = run[w][s].job /\ late.attempt = run[w][s].attempt
        /\ lost.job = run[w][s].job /\ lost.attempt = run[w][s].attempt
    BY <2>1, Zenon DEF Run
  <2>3. /\ SetRun(w, s, late) \/ SetRun(w, s, lost)
        /\ run[w][s].phase # "idle"
    BY <1>7, Zenon DEF Heartbeat, HeartbeatFails, HeartbeatDue
  <2> HIDE DEF late, lost
  <2>4. QED BY <1>5, <2>2, <2>3, Zenon
<1>8. ASSUME NEW w \in Workers, NEW s \in Slots, ClaimLost(w, s)
      PROVE  UNCHANGED run
  BY <1>8, Zenon DEF ClaimLost
<1>9. ASSUME NEW w \in Workers,
             Start(w) \/ Drain(w) \/ SweepBegin(w) \/ SweepFails(w) \/ Sweep(w)
      PROVE  UNCHANGED run
  BY <1>9, Zenon DEF Start, Drain, SweepBegin, SweepFails, Sweep
<1>10. ASSUME NEW j \in Jobs, NEW delay \in Delays, Enqueue(j, delay)
       PROVE  UNCHANGED run
  BY <1>10, Zenon DEF Enqueue
<1>11. QED
  BY <1>1, <1>2, <1>3, <1>4, <1>6, <1>7, <1>8, <1>9, <1>10, Zenon DEF Next, vars

\* attempts only grows.
LEMMA AttemptsGrow == IInv /\ [Next]_vars => \A j \in Jobs : attempts'[j] >= attempts[j]
<1> SUFFICES ASSUME IInv, [Next]_vars, NEW j \in Jobs PROVE attempts'[j] >= attempts[j]
  BY Zenon
<1>1. attempts \in [Jobs -> Nat] BY Zenon DEF IInv, TypeOK
<1>2. L!LifecycleNext \/ UNCHANGED <<state, attempts>>
  BY StepRefines, Zenon DEF L!lifecycleVars
<1>3. QED
  BY <1>1, <1>2 DEF L!LifecycleNext, L!Submit, L!Lease, L!Settle, L!Reclaim

\* At-least-once delivery is never more than once per claim: no interleaving
\* of claims, lost answers, sweeps and restarts starts two runs for one claim.
THEOREM RunsAreOnePerClaim == Spec => []OneRunPerClaim
<1>1. Init => OneRunPerClaim
  BY DEF Init, OneRunPerClaim, IdleRun
<1>2. ASSUME IInv, IInv', OneRunPerClaim, [Next]_vars PROVE OneRunPerClaim'
  <2>0. /\ attempts \in [Jobs -> Nat] /\ attempts' \in [Jobs -> Nat]
        /\ \A j \in Jobs : attempts'[j] >= attempts[j]
        /\ \A w \in Workers, s \in Slots : run[w][s].attempt \in Nat
        /\ \A w \in Workers, s \in Slots : run[w][s].phase # "idle" => run[w][s].job \in Jobs
    <3>1. attempts \in [Jobs -> Nat] /\ attempts' \in [Jobs -> Nat]
      BY <1>2, Zenon DEF IInv, TypeOK
    <3>2. \A j \in Jobs : attempts'[j] >= attempts[j]
      BY <1>2, AttemptsGrow, Zenon
    <3>3. \A w \in Workers, s \in Slots : run[w][s] \in Run
      BY <1>2, Zenon DEF IInv, TypeOK
    <3>4. \A w \in Workers, s \in Slots : run[w][s].attempt \in Nat
      BY <3>3, Zenon DEF Run
    <3>5. \A w \in Workers, s \in Slots : run[w][s].phase # "idle" => run[w][s].job \in Jobs
      BY <1>2, Zenon DEF IInv, RunsWellFormed
    <3>6. QED BY <3>1, <3>2, <3>4, <3>5, Zenon
  <2>1. CASE RunsOnlyFade
    <3> SUFFICES ASSUME NEW w \in Workers, NEW v \in Workers, NEW s \in Slots, NEW t \in Slots,
                        run'[w][s].phase # "idle"
                 PROVE  /\ run'[w][s].attempt \in 1..attempts'[run'[w][s].job]
                        /\ (/\ run'[v][t].phase # "idle"
                            /\ run'[v][t].job = run'[w][s].job
                            /\ run'[v][t].attempt = run'[w][s].attempt) => <<w, s>> = <<v, t>>
      BY DEF OneRunPerClaim
    <3>1. /\ run[w][s].phase # "idle"
          /\ run'[w][s].job = run[w][s].job /\ run'[w][s].attempt = run[w][s].attempt
      BY <2>1, Zenon DEF RunsOnlyFade
    <3>2. run'[v][t].phase # "idle" =>
            /\ run[v][t].phase # "idle"
            /\ run'[v][t].job = run[v][t].job /\ run'[v][t].attempt = run[v][t].attempt
      BY <2>1, Zenon DEF RunsOnlyFade
    <3>3. /\ run[w][s].attempt \in 1..attempts[run[w][s].job]
          /\ (/\ run[v][t].phase # "idle"
              /\ run[v][t].job = run[w][s].job
              /\ run[v][t].attempt = run[w][s].attempt) => <<w, s>> = <<v, t>>
      BY <1>2, <3>1, SMTT(60) DEF OneRunPerClaim
    <3>4. run'[w][s].attempt \in 1..attempts'[run'[w][s].job]
      BY <2>0, <3>1, <3>3, SMTT(60)
    <3>5. QED BY <3>1, <3>2, <3>3, <3>4, Zenon
  <2>2. ASSUME NEW w \in Workers, NEW s \in Slots, Claim(w, s)
        PROVE  OneRunPerClaim'
    <3>1. PICK j \in Jobs :
            SetRun(w, s, NewRun(j, attempts[j] + 1)) /\ LeaseRow(w, j)
      BY <2>2, RegisteredAssumption DEF Claim, NextFor
    <3>2. NewRun(j, attempts[j] + 1) \in Run
      BY <2>0, RunTypes
    <3>3. \A v \in Workers, t \in Slots :
            run'[v][t] = IF v = w /\ t = s THEN NewRun(j, attempts[j] + 1) ELSE run[v][t]
      BY <1>2, <3>1, <3>2, SetRunStep DEF IInv
    <3>4. attempts'[j] = attempts[j] + 1
      BY <2>0, <3>1, Zenon DEF LeaseRow
    <3>5. /\ NewRun(j, attempts[j] + 1).job = j
          /\ NewRun(j, attempts[j] + 1).attempt = attempts[j] + 1
      BY Zenon DEF NewRun
    <3>6. \A v \in Workers, t \in Slots :
            run[v][t].phase # "idle" => run[v][t].attempt \in 1..attempts[run[v][t].job]
      BY <1>2, Zenon DEF OneRunPerClaim
    <3> SUFFICES ASSUME NEW u \in Workers, NEW v \in Workers, NEW x \in Slots, NEW t \in Slots,
                        run'[u][x].phase # "idle"
                 PROVE  /\ run'[u][x].attempt \in 1..attempts'[run'[u][x].job]
                        /\ (/\ run'[v][t].phase # "idle"
                            /\ run'[v][t].job = run'[u][x].job
                            /\ run'[v][t].attempt = run'[u][x].attempt) => <<u, x>> = <<v, t>>
      BY DEF OneRunPerClaim
    <3> DEFINE new == NewRun(j, attempts[j] + 1)
    <3>7. /\ run'[u][x] = IF u = w /\ x = s THEN new ELSE run[u][x]
          /\ run'[v][t] = IF v = w /\ t = s THEN new ELSE run[v][t]
      BY <3>3, Zenon
    <3>8. /\ new.job = j /\ new.attempt = attempts[j] + 1
          /\ attempts[j] \in Nat /\ attempts'[j] = attempts[j] + 1
      BY <2>0, <3>4, <3>5, Zenon
    <3> HIDE DEF new
    <3>9. run'[u][x].attempt \in 1..attempts'[run'[u][x].job]
      BY <2>0, <3>6, <3>7, <3>8, SMTT(60)
    <3>10. ASSUME run'[v][t].phase # "idle", run'[v][t].job = run'[u][x].job,
                  run'[v][t].attempt = run'[u][x].attempt
           PROVE  <<u, x>> = <<v, t>>
      <4>1. CASE (u = w /\ x = s) /\ (v = w /\ t = s)
        BY <4>1, Zenon
      <4>2. CASE (u = w /\ x = s) /\ ~(v = w /\ t = s)
        BY <2>0, <3>6, <3>7, <3>8, <3>10, <4>2, SMTT(60)
      <4>3. CASE ~(u = w /\ x = s) /\ (v = w /\ t = s)
        BY <2>0, <3>6, <3>7, <3>8, <3>10, <4>3, SMTT(60)
      <4>4. CASE ~(u = w /\ x = s) /\ ~(v = w /\ t = s)
        BY <1>2, <3>7, <3>10, <4>4, SMTT(60) DEF OneRunPerClaim
      <4>5. QED BY <4>1, <4>2, <4>3, <4>4, Zenon
    <3>11. QED BY <3>9, <3>10, Zenon
  <2>3. QED BY <1>2, <2>1, <2>2, OnlyClaimsBeginRuns, Zenon
<1>3. QED BY <1>1, <1>2, AlwaysIInv, PTL DEF Spec

\* A lease is ended by its own expiry or by a run of the process that holds
\* it: the WHERE clauses keep every other process out.
THEOREM LeasesEndProperly == Spec => LeaseEndsByHolderOrExpiry
<1> DEFINE A ==
      \A j \in Jobs, w \in Workers :
         (Holds(w, j) /\ ~Holds(w, j)') =>
            \/ leaseLeft[j] = 0
            \/ \E s \in Slots : run[w][s].phase = "returned" /\ run[w][s].job = j
<1>1. IInv /\ [Next]_vars => A
  <2> SUFFICES ASSUME IInv, [Next]_vars, NEW j \in Jobs, NEW w \in Workers,
                      state[j] = "leased", leasedBy[j] = w, leaseLeft[j] # 0,
                      ~(state'[j] = "leased" /\ leasedBy'[j] = w)
               PROVE  \E s \in Slots : run[w][s].phase = "returned" /\ run[w][s].job = j
    BY SMTT(60) DEF Holds, IInv, TypeOK
  <2>0. TypeOK BY Zenon DEF IInv
  <2>1. ASSUME NEW v \in Workers, NEW s \in Slots, Record(v, s)
        PROVE  \E t \in Slots : run[w][t].phase = "returned" /\ run[w][t].job = j
    <3>1. OutcomeApplies(v, run[v][s]) /\ WriteOutcome(run[v][s]) /\ run[v][s].phase = "returned"
      BY <2>1, Zenon DEF Record, rowVars
    <3>2. run[v][s].job = j
      BY <2>0, <3>1, Zenon DEF TypeOK, WriteOutcome
    <3>3. v = w
      BY <3>1, <3>2, Zenon DEF OutcomeApplies, Holds
    <3>4. QED BY <3>1, <3>2, <3>3, Zenon
  <2>2. ASSUME NEW v \in Workers, Sweep(v) PROVE FALSE
    BY <2>0, <2>2, Zenon DEF TypeOK, Sweep, Expired
  <2>3. ASSUME NEW v \in Workers, NEW s \in Slots, Claim(v, s) \/ ClaimLost(v, s) PROVE FALSE
    <3>1. PICK i \in Jobs : LeaseRow(v, i) /\ Eligible(i)
      BY <2>3, RegisteredAssumption DEF Claim, ClaimLost, NextFor
    <3>2. QED BY <2>0, <3>1, Zenon DEF TypeOK, LeaseRow, Eligible
  <2>4. ASSUME NEW i \in Jobs, NEW delay \in Delays, Enqueue(i, delay) PROVE FALSE
    BY <2>0, <2>4, Zenon DEF TypeOK, Enqueue
  <2>5. ASSUME NEW v \in Workers,
               \/ Start(v) \/ Drain(v) \/ Exit(v) \/ Die(v) \/ SweepBegin(v) \/ SweepFails(v)
        PROVE  FALSE
    BY <2>5, Zenon DEF Start, Drain, Exit, Die, End, SweepBegin, SweepFails, rowVars
  <2>6. ASSUME NEW v \in Workers, NEW s \in Slots,
               \/ Heartbeat(v, s) \/ HeartbeatFails(v, s) \/ RecordFails(v, s)
               \/ \E outcome \in Outcomes \ {"none"} : HandlerReturns(v, s, outcome)
        PROVE  FALSE
    BY <2>6, Zenon DEF Heartbeat, HeartbeatFails, RecordFails, HandlerReturns, rowVars
  <2>7. ASSUME Tick \/ UNCHANGED vars PROVE FALSE
    BY <2>7, Zenon DEF Tick, vars
  <2>8. QED BY <2>1, <2>2, <2>3, <2>4, <2>5, <2>6, <2>7, Zenon DEF Next
<1>2. QED BY <1>1, AlwaysIInv, PTL DEF Spec, LeaseEndsByHolderOrExpiry

-----------------------------------------------------------------------------
\* While nothing goes wrong, a run in flight holds its row, with a lease that
\* outlasts the time to its next heartbeat, and it is the only run of it.
KeptAt(w, s) ==
    run[w][s].phase # "idle" =>
       /\ Holds(w, run[w][s].job)
       /\ ~run[w][s].cancelled
       /\ leaseLeft[run[w][s].job] > run[w][s].hbLeft
       /\ \A v \in Workers, t \in Slots :
             (run[v][t].phase # "idle" /\ run[v][t].job = run[w][s].job) => v = w /\ t = s

Kept == \A w \in Workers, s \in Slots : KeptAt(w, s)

CInv == IInv /\ calm \in BOOLEAN /\ (calm => Kept)

LEMMA FaultFreeIsNext == FaultFreeNext => Next
<1> SUFFICES ASSUME FaultFreeNext PROVE Next  BY Zenon
<1>1. \A w \in Workers, s \in Slots : HandlerReturns(w, s, "ok") =>
         \E outcome \in Outcomes \ {"none"} : HandlerReturns(w, s, outcome)
  BY Zenon DEF Outcomes
<1>2. QED  BY <1>1, Zenon DEF FaultFreeNext, Next

\* The slots do not change, and the rows that are run do not either.
LEMMA KeptByOthers ==
    ASSUME Kept, IInv, UNCHANGED run,
           \A w \in Workers, s \in Slots : run[w][s].phase # "idle" =>
              LET j == run[w][s].job
              IN  state'[j] = state[j] /\ leasedBy'[j] = leasedBy[j] /\ leaseLeft'[j] = leaseLeft[j]
    PROVE  Kept'
<1> SUFFICES ASSUME NEW w \in Workers, NEW s \in Slots PROVE KeptAt(w, s)'  BY Zenon DEF Kept
<1>1. KeptAt(w, s)  BY Zenon DEF Kept
<1>2. QED  BY <1>1, Zenon DEF KeptAt, Holds

\* Slot s of w is given run r of row i, and what it had to say about other
\* slots' rows is nothing.
LEMMA KeptBySlot ==
    ASSUME Kept, IInv, NEW w \in Workers, NEW s \in Slots, NEW r \in Run, SetRun(w, s, r),
           NEW i \in Jobs,
           \A j \in Jobs \ {i} : /\ state'[j] = state[j] /\ leasedBy'[j] = leasedBy[j]
                                 /\ leaseLeft'[j] = leaseLeft[j],
           \A v \in Workers, t \in Slots :
              (run[v][t].phase # "idle" /\ run[v][t].job = i) => v = w /\ t = s,
           r.phase # "idle" => /\ r.job = i /\ state'[i] = "leased" /\ leasedBy'[i] = w
                               /\ ~r.cancelled /\ leaseLeft'[i] > r.hbLeft
    PROVE  Kept'
<1> SUFFICES ASSUME NEW v \in Workers, NEW t \in Slots, run'[v][t].phase # "idle"
             PROVE  KeptAt(v, t)'
  BY DEF Kept, KeptAt
<1>0. TypeOK  BY Zenon DEF IInv
<1>1. \A x \in Workers, y \in Slots : run'[x][y] = IF x = w /\ y = s THEN r ELSE run[x][y]
  BY <1>0, SetRunStep
<1>2. CASE v = w /\ t = s
  <2>1. run'[v][t] = r  BY <1>1, <1>2, Zenon
  <2>2. r.job = i  BY <2>1, Zenon
  <2>3. QED  BY <1>1, <1>2, <2>1, <2>2 DEF KeptAt, Holds
<1>3. CASE ~(v = w /\ t = s)
  <2>1. run'[v][t] = run[v][t]  BY <1>1, <1>3, Zenon
  <2>2. KeptAt(v, t) /\ run[v][t].phase # "idle"  BY <2>1, Zenon DEF Kept
  <2>3. run[v][t].job \in Jobs \ {i}  BY <1>3, <2>2, Zenon DEF IInv, RunsWellFormed
  <2>4. QED
    <3>1. \A x \in Workers, y \in Slots :
            (run'[x][y].phase # "idle" /\ run'[x][y].job = run[v][t].job) => x = v /\ y = t
      BY <1>1, <2>2, <2>3 DEF KeptAt
    <3>2. QED  BY <2>1, <2>2, <2>3, <3>1 DEF KeptAt, Holds
<1>4. QED  BY <1>2, <1>3, Zenon

-----------------------------------------------------------------------------
\* The steps of a day when nothing goes wrong.

\* A row that is claimed was queued, so nobody runs it.
LEMMA KeptByClaim ==
    ASSUME Kept, IInv, NEW w \in Workers, NEW s \in Slots, Claim(w, s)
    PROVE  Kept'
<1>1. PICK i \in NextFor(w) : LeaseRow(w, i) /\ SetRun(w, s, NewRun(i, attempts[i] + 1))
  BY Zenon DEF Claim
<1>2. i \in Jobs /\ state[i] = "queued"
  BY <1>1, RegisteredAssumption DEF NextFor, Eligible
<1>3. PICK r : r = NewRun(i, attempts[i] + 1)  BY Zenon
<1>4. attempts[i] + 1 \in Nat  BY <1>2 DEF IInv, TypeOK
<1>5. r \in Run /\ r.job = i /\ ~r.cancelled /\ r.hbLeft = HeartbeatEvery
  BY <1>2, <1>3, <1>4, RunTypes, Zenon DEF NewRun
<1>6. /\ state'[i] = "leased" /\ leasedBy'[i] = w /\ leaseLeft'[i] = LeaseTime
      /\ \A j \in Jobs \ {i} : /\ state'[j] = state[j] /\ leasedBy'[j] = leasedBy[j]
                               /\ leaseLeft'[j] = leaseLeft[j]
  BY <1>1, <1>2, Zenon DEF LeaseRow, IInv, TypeOK
<1>7. LeaseTime > HeartbeatEvery  BY TimeAssumption DEF HeartbeatEvery
<1>8. \A v \in Workers, t \in Slots :
         (run[v][t].phase # "idle" /\ run[v][t].job = i) => v = w /\ t = s
  BY <1>2 DEF Kept, KeptAt, Holds
<1>9. QED  BY <1>1, <1>2, <1>3, <1>5, <1>6, <1>7, <1>8, KeptBySlot

LEMMA KeptByHeartbeat ==
    ASSUME Kept, IInv, NEW w \in Workers, NEW s \in Slots, Heartbeat(w, s)
    PROVE  Kept'
<1>1. PICK i : i = run[w][s].job  BY Zenon
<1>2. run[w][s].phase = "running" /\ run[w][s] \in Run  BY Zenon DEF Heartbeat, HeartbeatDue, IInv, TypeOK
<1>3. i \in Jobs /\ Holds(w, i) /\ ~run[w][s].cancelled
  BY <1>1, <1>2, Zenon DEF Kept, KeptAt, IInv, RunsWellFormed
<1>4. PICK r : r = [run[w][s] EXCEPT !.hbLeft = HeartbeatEvery]  BY Zenon
<1>5. /\ leaseLeft' = [leaseLeft EXCEPT ![i] = LeaseTime] /\ SetRun(w, s, r)
      /\ UNCHANGED <<state, leasedBy>>
  BY <1>1, <1>3, <1>4, Zenon DEF Heartbeat
<1>6. r \in Run /\ r.job = i /\ ~r.cancelled /\ r.hbLeft = HeartbeatEvery
  BY <1>1, <1>2, <1>3, <1>4, TimesAreNat DEF Run
<1>7. leaseLeft'[i] > HeartbeatEvery  BY <1>3, <1>5, TimeAssumption DEF HeartbeatEvery, IInv, TypeOK
<1>8. \A j \in Jobs \ {i} : leaseLeft'[j] = leaseLeft[j]  BY <1>5, Zenon DEF IInv, TypeOK
<1>9. \A v \in Workers, t \in Slots :
         (run[v][t].phase # "idle" /\ run[v][t].job = i) => v = w /\ t = s
  BY <1>1, <1>2 DEF Kept, KeptAt
<1>10. state'[i] = "leased" /\ leasedBy'[i] = w  BY <1>3, <1>5, Zenon DEF Holds
<1>11. QED  BY <1>3, <1>5, <1>6, <1>7, <1>8, <1>9, <1>10, KeptBySlot

LEMMA KeptByReturn ==
    ASSUME Kept, IInv, NEW w \in Workers, NEW s \in Slots, HandlerReturns(w, s, "ok")
    PROVE  Kept'
<1>1. PICK i : i = run[w][s].job  BY Zenon
<1>2. run[w][s].phase = "running" /\ run[w][s] \in Run  BY Zenon DEF HandlerReturns, IInv, TypeOK
<1>3. i \in Jobs /\ KeptAt(w, s)  BY <1>1, <1>2, Zenon DEF Kept, IInv, RunsWellFormed
<1>4. PICK r : r = [run[w][s] EXCEPT !.phase = "returned", !.outcome = "ok"]  BY Zenon
<1>5. SetRun(w, s, r) /\ UNCHANGED rowVars  BY <1>4, Zenon DEF HandlerReturns
<1>6. r \in Run /\ r.job = i /\ r.cancelled = run[w][s].cancelled /\ r.hbLeft = run[w][s].hbLeft
  BY <1>1, <1>2, <1>4, Zenon DEF Run, Outcomes
<1>7. /\ state'[i] = "leased" /\ leasedBy'[i] = w /\ ~r.cancelled /\ leaseLeft'[i] > r.hbLeft
  BY <1>1, <1>2, <1>3, <1>5, <1>6, Zenon DEF KeptAt, Holds, rowVars
<1>8. \A v \in Workers, t \in Slots :
         (run[v][t].phase # "idle" /\ run[v][t].job = i) => v = w /\ t = s
  BY <1>1, <1>2, <1>3, Zenon DEF KeptAt
<1>9. \A j \in Jobs \ {i} : /\ state'[j] = state[j] /\ leasedBy'[j] = leasedBy[j]
                            /\ leaseLeft'[j] = leaseLeft[j]
  BY <1>5, Zenon DEF rowVars
<1>10. QED  BY <1>3, <1>5, <1>6, <1>7, <1>8, <1>9, KeptBySlot

LEMMA KeptByRecord ==
    ASSUME Kept, IInv, NEW w \in Workers, NEW s \in Slots, Record(w, s) \/ RecordFails(w, s)
    PROVE  Kept'
<1>1. PICK i : i = run[w][s].job  BY Zenon
<1>2. run[w][s].phase = "returned" /\ SetRun(w, s, IdleRun)  BY DEF Record, RecordFails
<1>3. i \in Jobs /\ KeptAt(w, s)  BY <1>1, <1>2, Zenon DEF Kept, IInv, RunsWellFormed
<1>4. IdleRun \in Run /\ IdleRun.phase = "idle"  BY RunTypes, Zenon DEF IdleRun
<1>5. \A j \in Jobs \ {i} : /\ state'[j] = state[j] /\ leasedBy'[j] = leasedBy[j]
                            /\ leaseLeft'[j] = leaseLeft[j]
  <2>1. CASE WriteOutcome(run[w][s])
    BY <1>1, <2>1, Zenon DEF WriteOutcome, IInv, TypeOK
  <2>2. CASE UNCHANGED rowVars
    BY <2>2, Zenon DEF rowVars
  <2>3. QED  BY <2>1, <2>2, Zenon DEF Record, RecordFails
<1>6. \A v \in Workers, t \in Slots :
         (run[v][t].phase # "idle" /\ run[v][t].job = i) => v = w /\ t = s
  BY <1>1, <1>2, <1>3, Zenon DEF KeptAt
<1>7. QED  BY <1>2, <1>3, <1>4, <1>5, <1>6, KeptBySlot

\* The lease of a row that is run has not run out: the sweep passes it by.
LEMMA KeptBySweep ==
    ASSUME Kept, IInv, NEW w \in Workers, Sweep(w)
    PROVE  Kept'
<1>1. ASSUME NEW v \in Workers, NEW t \in Slots, run[v][t].phase # "idle"
      PROVE  run[v][t].job \in Jobs \ Expired
  <2>1. KeptAt(v, t) /\ run[v][t] \in Run /\ run[v][t].job \in Jobs
    BY <1>1, Zenon DEF Kept, IInv, TypeOK, RunsWellFormed
  <2>2. leaseLeft[run[v][t].job] > run[v][t].hbLeft /\ run[v][t].hbLeft >= 0
    BY <1>1, <2>1, TimesAreNat DEF KeptAt, Run
  <2>3. QED  BY <2>1, <2>2, TimesAreNat DEF Expired, Run, IInv, TypeOK
<1>2. QED  BY <1>1, KeptByOthers, Zenon DEF Sweep

\* Time passes only once every due heartbeat has been sent, so it takes as much
\* from the lease as from the time to the next heartbeat.
LEMMA KeptByTick ==
    ASSUME Kept, IInv, Tick,
           \A w \in Workers, s \in Slots :
              /\ run[w][s].phase # "returned"
              /\ run[w][s].phase = "running" => run[w][s].age + 1 < JobTimeout
    PROVE  Kept'
<1>1. ASSUME NEW w \in Workers, NEW s \in Slots
      PROVE  /\ run[w][s] \in Run /\ run'[w][s] = Older(run[w][s])
             /\ run'[w][s].phase = run[w][s].phase /\ run'[w][s].job = run[w][s].job
  <2>1. run[w][s] \in Run /\ run'[w][s] = Older(run[w][s])  BY Zenon DEF Tick, IInv, TypeOK
  <2>2. QED  BY <2>1, OlderKeeps, Zenon
<1> SUFFICES ASSUME NEW w \in Workers, NEW s \in Slots, run'[w][s].phase # "idle"
             PROVE  KeptAt(w, s)'
  BY Zenon DEF Kept, KeptAt
<1>2. PICK r : r = run[w][s]  BY Zenon
<1>3. r \in Run /\ run'[w][s] = Older(r) /\ run'[w][s].job = r.job /\ r.phase # "idle"
  BY <1>1, <1>2, Zenon
<1>4. r.phase = "running" /\ r.age + 1 < JobTimeout  BY <1>2, <1>3, Zenon DEF Run
<1>5. r.job \in Jobs /\ KeptAt(w, s)  BY <1>2, <1>3, Zenon DEF Kept, IInv, RunsWellFormed
<1>6. /\ Holds(w, r.job) /\ ~r.cancelled /\ leaseLeft[r.job] > r.hbLeft
      /\ \A v \in Workers, t \in Slots :
            (run[v][t].phase # "idle" /\ run[v][t].job = r.job) => v = w /\ t = s
  BY <1>2, <1>3, <1>5, Zenon DEF KeptAt
<1>7. r.age < JobTimeout  BY <1>3, <1>4, TimesAreNat, TimeAssumption DEF Run
<1>8. r.hbLeft # 0  BY <1>2, <1>4, <1>6, <1>7, Zenon DEF Tick, HeartbeatDue, JobCtxAlive
<1>9. r.hbLeft \in Nat /\ r.hbLeft > 0  BY <1>3, <1>8, TimesAreNat DEF Run
<1>10. Older(r).hbLeft = r.hbLeft - 1 /\ Older(r).cancelled = r.cancelled
  BY <1>3, <1>4, <1>9, Zenon DEF Older, Run
<1>11. leaseLeft[r.job] \in Nat /\ leaseLeft'[r.job] = leaseLeft[r.job] - 1
  BY <1>5, <1>6, <1>9, TimeAssumption DEF Tick, IInv, TypeOK
<1>12. Holds(w, r.job)'  BY <1>3, <1>6, Zenon DEF Tick, Holds
<1>13. leaseLeft'[r.job] > Older(r).hbLeft  BY <1>6, <1>9, <1>10, <1>11
<1>14. \A v \in Workers, t \in Slots :
          (run'[v][t].phase # "idle" /\ run'[v][t].job = r.job) => v = w /\ t = s
  BY <1>1, <1>6
<1>15. QED  BY <1>3, <1>6, <1>10, <1>12, <1>13, <1>14, Zenon DEF KeptAt, Holds

LEMMA KeptByExit ==
    ASSUME Kept, IInv, NEW w \in Workers, Exit(w)
    PROVE  Kept'
<1>1. \A s \in Slots : run[w][s].phase = "idle"  BY Zenon DEF Exit
<1>2. \A v \in Workers, t \in Slots :
         run'[v][t] = run[v][t] \/ (v = w /\ run'[v][t].phase = "idle")
  BY Zenon DEF Exit, End, IdleRun, IInv, TypeOK
<1> SUFFICES ASSUME NEW v \in Workers, NEW t \in Slots, run'[v][t].phase # "idle"
             PROVE  KeptAt(v, t)'
  BY Zenon DEF Kept, KeptAt
<1>3. run'[v][t] = run[v][t] /\ KeptAt(v, t)  BY <1>2, Zenon DEF Kept
<1>4. UNCHANGED <<state, leasedBy, leaseLeft>>  BY Zenon DEF Exit, End, rowVars
<1>5. QED  BY <1>2, <1>3, <1>4 DEF KeptAt, Holds

LEMMA KeptStep == ASSUME Kept, IInv, FaultFreeNext PROVE Kept'
<1>1. ASSUME NEW j \in Jobs, NEW delay \in Delays, Enqueue(j, delay) PROVE Kept'
  <2>1. \A w \in Workers, s \in Slots : run[w][s].phase # "idle" =>
           run[w][s].job \in Jobs /\ run[w][s].job # j
    BY <1>1 DEF Enqueue, Kept, KeptAt, Holds, IInv, RunsWellFormed
  <2>2. QED  BY <1>1, <2>1, KeptByOthers, Zenon DEF Enqueue, IInv, TypeOK
<1>2. ASSUME NEW w \in Workers, Start(w) \/ Drain(w) \/ SweepBegin(w) PROVE Kept'
  BY <1>2, KeptByOthers, Zenon DEF Start, Drain, SweepBegin, rowVars
<1>3. QED
  BY <1>1, <1>2, KeptByTick, KeptByClaim, KeptByHeartbeat, KeptByReturn, KeptByRecord,
     KeptBySweep, KeptByExit, Zenon DEF FaultFreeNext

-----------------------------------------------------------------------------
LEMMA CalmInitially == ASSUME CalmInit PROVE CInv
<1>1. IInv /\ calm \in BOOLEAN  BY InitIInv, Zenon DEF CalmInit
<1>2. Kept  BY Zenon DEF CalmInit, Init, Kept, KeptAt, IdleRun
<1>3. QED  BY <1>1, <1>2, Zenon DEF CInv

LEMMA CalmStep == ASSUME CInv, [CalmNext]_<<vars, calm>> PROVE CInv'
<1>1. CASE FaultFreeNext /\ UNCHANGED calm
  <2>1. IInv'  BY <1>1, FaultFreeIsNext, StepIInv, Zenon DEF CInv
  <2>2. calm' \in BOOLEAN /\ (calm' => calm)  BY <1>1, Zenon DEF CInv
  <2>3. calm' => Kept'  BY <1>1, <2>2, KeptStep, Zenon DEF CInv
  <2>4. QED  BY <2>1, <2>2, <2>3, Zenon DEF CInv
<1>2. CASE Next /\ calm' = FALSE
  BY <1>2, StepIInv, Zenon DEF CInv
<1>3. CASE UNCHANGED <<vars, calm>>
  <2>1. IInv' /\ calm' \in BOOLEAN /\ (calm' => calm)  BY <1>3, StepIInv, Zenon DEF CInv
  <2>2. Kept => Kept'  BY <1>3, KeptByOthers, Zenon DEF vars, CInv
  <2>3. QED  BY <2>1, <2>2, Zenon DEF CInv
<1>4. QED  BY <1>1, <1>2, <1>3 DEF CalmNext

\* NoOverlapWithoutFaults: as long as nothing has gone wrong, two slots never
\* run one job, whatever the lease, as heartbeats come at a third of it.
THEOREM HeartbeatsKeepTheLease == CalmSpec => []NoOverlapWithoutFaults
<1>1. ASSUME CInv PROVE NoOverlapWithoutFaults
  <2> USE DEF NoOverlapWithoutFaults
  <2> HAVE calm
  <2> TAKE w, v \in Workers, s, t \in Slots
  <2> HAVE /\ run[w][s].phase # "idle" /\ run[v][t].phase # "idle"
           /\ run[w][s].job = run[v][t].job
  <2>1. KeptAt(w, s)  BY <1>1, Zenon DEF CInv, Kept
  <2>2. v = w /\ t = s  BY <2>1, Zenon DEF KeptAt
  <2>3. QED  BY <2>2, Zenon
<1>2. QED  BY <1>1, CalmInitially, CalmStep, PTL DEF CalmSpec
=============================================================================
