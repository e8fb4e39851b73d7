------------------------------ MODULE JobQueue ------------------------------
(***************************************************************************)
(* The durable job queue of internal/jobs: rows of the jobs table, worker  *)
(* processes that claim, run, heartbeat and record them, the sweep that    *)
(* reclaims lapsed leases, and the clock they share (PostgreSQL's now()).  *)
(*                                                                         *)
(* Time is kept as what is LEFT of each interval, saturating at its end,   *)
(* so that the model is finite however long it runs: leaseLeft[j] is       *)
(* leased_until - now(), waitLeft[j] is run_after - now(), r.age is the    *)
(* time since run() began, r.hbLeft the time to the next heartbeat.  One   *)
(* Tick passes one unit.  Every SQL statement of the queue touches its     *)
(* rows under row locks, so each is one atomic step.                       *)
(***************************************************************************)
EXTENDS Integers, Sequences

CONSTANTS
    Jobs,                \* job rows
    Workers,             \* worker processes; a restarted one is another element
    Slots,               \* the Concurrency semaphore of a process
    MaxAttempts,         \* [Jobs -> max_attempts]
    Priority,            \* [Jobs -> priority], lower first
    Registered,          \* [Workers -> kinds with a handler, as sets of jobs]
    Stable,              \* workers that are never stopped nor crash
    LeaseTime,           \* Options.Lease
    JobTimeout,          \* Options.Timeout
    OutcomeWriteTimeout, \* outcomeWriteTimeout
    RetryLadder,         \* the backoff schedule
    Delays,              \* how far ahead callers schedule a job
    NoWorker, NoJob

ASSUME BudgetAssumption == MaxAttempts \in [Jobs -> Nat \ {0}]
ASSUME PriorityAssumption == Priority \in [Jobs -> Nat]
ASSUME RegisteredAssumption == Registered \in [Workers -> SUBSET Jobs]
ASSUME StableAssumption == Stable \subseteq Workers
\* The heartbeat fires every Lease/3, so the lease is at least 3 units, and
\* config.Load refuses a timeout that does not exceed the lease.
ASSUME TimeAssumption ==
    /\ LeaseTime \in Nat /\ LeaseTime >= 3
    /\ JobTimeout \in Nat /\ JobTimeout > LeaseTime
    /\ OutcomeWriteTimeout \in Nat \ {0}
    /\ RetryLadder \in Seq(Nat) /\ RetryLadder # <<>>
    /\ Delays \subseteq Nat
ASSUME NobodyAssumption == NoWorker \notin Workers /\ NoJob \notin Jobs

VARIABLES
    state,      \* jobs.state, "absent" before the row is inserted
    attempts,   \* jobs.attempts
    leasedBy,   \* jobs.leased_by
    leaseLeft,  \* jobs.leased_until - now(), in units begun; 0 once it may have passed
    waitLeft,   \* jobs.run_after - now(), 0 once it has passed
    proc,       \* the life of each worker process
    run,        \* what each slot of each process is doing
    leader      \* holder of the sweep's session advisory lock

rowVars == <<state, attempts, leasedBy, leaseLeft, waitLeft>>
vars == <<state, attempts, leasedBy, leaseLeft, waitLeft, proc, run, leader>>

\* The abstract lifecycle, which sees of a row its state and its attempts.
L == INSTANCE JobLifecycle WITH Jobs <- Jobs, MaxAttempts <- MaxAttempts,
                                state <- state, attempts <- attempts

-----------------------------------------------------------------------------
\* Data.

Outcomes == {"none", "ok", "terminal", "retryable"}

\* Variant: a heartbeat that fires only after the lease has run out.
HeartbeatEveryLate == LeaseTime + 1
HeartbeatEvery == LeaseTime \div 3

\* A run's clock stops mattering once both of its contexts are over.
AgeCap == IF JobTimeout < OutcomeWriteTimeout THEN OutcomeWriteTimeout ELSE JobTimeout

Run == [ phase     : {"idle", "running", "returned"},
         job       : Jobs \union {NoJob},
         attempt   : Nat,            \* j.Attempts as the claim returned it
         outcome   : Outcomes,
         age       : 0..AgeCap,
         hbLeft    : 0..HeartbeatEvery,
         cancelled : BOOLEAN ]       \* cancelJob was called by the heartbeat

IdleRun == [ phase |-> "idle", job |-> NoJob, attempt |-> 0, outcome |-> "none",
             age |-> 0, hbLeft |-> 0, cancelled |-> FALSE ]

NewRun(j, attempt) ==
    [ phase |-> "running", job |-> j, attempt |-> attempt, outcome |-> "none",
      age |-> 0, hbLeft |-> HeartbeatEvery, cancelled |-> FALSE ]

\* jobCtx and recCtx are both made when run() starts.
JobCtxAlive(r) == ~r.cancelled /\ r.age < JobTimeout
RecCtxAlive(r) == r.age < OutcomeWriteTimeout

Terminal(j) == state[j] \in L!TerminalStates

\* WHERE id = $1 AND state = 'leased' AND leased_by = $2.
Holds(w, j) == state[j] = "leased" /\ leasedBy[j] = w

SetRun(w, s, r) == run' = [run EXCEPT ![w][s] = r]

HeartbeatDue(r) == r.phase = "running" /\ JobCtxAlive(r) /\ r.hbLeft = 0

-----------------------------------------------------------------------------
Init ==
    /\ state = [j \in Jobs |-> "absent"]
    /\ attempts = [j \in Jobs |-> 0]
    /\ leasedBy = [j \in Jobs |-> NoWorker]
    /\ leaseLeft = [j \in Jobs |-> 0]
    /\ waitLeft = [j \in Jobs |-> 0]
    /\ proc = [w \in Workers |-> "new"]
    /\ run = [w \in Workers |-> [s \in Slots |-> IdleRun]]
    /\ leader = NoWorker

\* A committed Enqueue with its run_after.
Enqueue(j, delay) ==
    /\ state[j] = "absent"
    /\ state' = [state EXCEPT ![j] = "queued"]
    /\ waitLeft' = [waitLeft EXCEPT ![j] = delay]
    /\ UNCHANGED <<attempts, leasedBy, leaseLeft, proc, run, leader>>

Start(w) ==
    /\ proc[w] = "new"
    /\ proc' = [proc EXCEPT ![w] = "up"]
    /\ UNCHANGED <<rowVars, run, leader>>

-----------------------------------------------------------------------------
\* Claiming.

Eligible(j) == state[j] = "queued" /\ waitLeft[j] = 0 /\ attempts[j] < MaxAttempts[j]

\* ORDER BY priority, with any order among equals: run_after and created_at
\* are not tracked past their effect on eligibility.
NextFor(w) ==
    LET candidates == {j \in Registered[w] : Eligible(j)}
    IN  {j \in candidates : \A i \in candidates : Priority[j] <= Priority[i]}

\* Variant: attempts counts failures, so a claim does not spend one.
LeaseRowFree(w, j) ==
    /\ state' = [state EXCEPT ![j] = "leased"]
    /\ leasedBy' = [leasedBy EXCEPT ![j] = w]
    /\ leaseLeft' = [leaseLeft EXCEPT ![j] = LeaseTime]
    /\ UNCHANGED <<attempts, waitLeft>>
\* The UPDATE of ClaimJob.
LeaseRow(w, j) ==
    /\ state' = [state EXCEPT ![j] = "leased"]
    /\ attempts' = [attempts EXCEPT ![j] = @ + 1]
    /\ leasedBy' = [leasedBy EXCEPT ![j] = w]
    /\ leaseLeft' = [leaseLeft EXCEPT ![j] = LeaseTime]
    /\ UNCHANGED waitLeft

Claim(w, s) ==
    /\ proc[w] = "up"
    /\ run[w][s].phase = "idle"
    /\ \E j \in NextFor(w) :
          /\ LeaseRow(w, j)
          /\ SetRun(w, s, NewRun(j, attempts[j] + 1))
    /\ UNCHANGED <<proc, leader>>

\* The claim commits and its answer is lost: the row is leased, nobody runs it.
ClaimLost(w, s) ==
    /\ proc[w] = "up"
    /\ run[w][s].phase = "idle"
    /\ \E j \in NextFor(w) : LeaseRow(w, j)
    /\ UNCHANGED <<proc, run, leader>>

-----------------------------------------------------------------------------
\* Running.

\* The handler returns; stopHB() ends the heartbeats.
HandlerReturns(w, s, outcome) ==
    /\ run[w][s].phase = "running"
    /\ SetRun(w, s, [run[w][s] EXCEPT !.phase = "returned", !.outcome = outcome])
    /\ UNCHANGED <<rowVars, proc, leader>>

\* HeartbeatJob renews the lease, or finds no row and cancels the handler.
Heartbeat(w, s) ==
    LET j == run[w][s].job IN
    /\ HeartbeatDue(run[w][s])
    /\ \/ /\ Holds(w, j)
          /\ leaseLeft' = [leaseLeft EXCEPT ![j] = LeaseTime]
          /\ SetRun(w, s, [run[w][s] EXCEPT !.hbLeft = HeartbeatEvery])
       \/ /\ ~Holds(w, j)
          /\ SetRun(w, s, [run[w][s] EXCEPT !.cancelled = TRUE])
          /\ UNCHANGED leaseLeft
    /\ UNCHANGED <<state, attempts, leasedBy, waitLeft, proc, leader>>

\* A heartbeat whose statement fails is logged and the next one is awaited.
HeartbeatFails(w, s) ==
    /\ HeartbeatDue(run[w][s])
    /\ SetRun(w, s, [run[w][s] EXCEPT !.hbLeft = HeartbeatEvery])
    /\ UNCHANGED <<rowVars, proc, leader>>

-----------------------------------------------------------------------------
\* Recording the outcome.

\* The ladder is entered at its first rung and held at its last; the +/- 10%
\* jitter is below the model's unit of time.
Backoff(n) ==
    RetryLadder[CASE n < 1                -> 1
                  [] n > Len(RetryLadder) -> Len(RetryLadder)
                  [] OTHER                -> n]

\* j.Attempts >= j.MaxAttempts, on the values the claim returned.
OutOfAttempts(r) == r.attempt >= MaxAttempts[r.job]

\* The state the outcome statement would write, and the ones it may match.
RecordedState(r) ==
    CASE r.outcome = "ok"        -> "succeeded"
      [] r.outcome = "terminal"  -> "failed"
      [] r.outcome = "retryable" -> IF OutOfAttempts(r) THEN "dead" ELSE "queued"
      [] OTHER                   -> "leased"

OutcomeApplies(w, r) ==
    /\ Holds(w, r.job)
    /\ RecordedState(r) = "queued" => attempts[r.job] < MaxAttempts[r.job]

\* CompleteJob keeps leased_by and leased_until, the other three clear them.
WriteOutcome(r) ==
    LET j == r.job  to == RecordedState(r) IN
    /\ state' = [state EXCEPT ![j] = to]
    /\ waitLeft' = [waitLeft EXCEPT ![j] = IF to = "queued" THEN Backoff(r.attempt) ELSE @]
    /\ leasedBy' = [leasedBy EXCEPT ![j] = IF to = "succeeded" THEN @ ELSE NoWorker]
    /\ leaseLeft' = [leaseLeft EXCEPT ![j] = IF to = "succeeded" THEN @ ELSE 0]
    /\ UNCHANGED attempts

Record(w, s) ==
    LET r == run[w][s] IN
    /\ r.phase = "returned"
    /\ RecCtxAlive(r)
    /\ \/ OutcomeApplies(w, r) /\ WriteOutcome(r)
       \/ ~OutcomeApplies(w, r) /\ UNCHANGED rowVars
    /\ SetRun(w, s, IdleRun)
    /\ UNCHANGED <<proc, leader>>

\* The write fails: the database refuses it, or recCtx is already over.  The
\* error is logged, the slot is freed, and the row waits for the sweep.
RecordFails(w, s) ==
    /\ run[w][s].phase = "returned"
    /\ SetRun(w, s, IdleRun)
    /\ UNCHANGED <<rowVars, proc, leader>>

-----------------------------------------------------------------------------
\* Sweeping.

\* Variant: rows that have used their last attempt are left alone.
ExpiredWithBudget == {j \in Jobs : /\ state[j] = "leased" /\ leaseLeft[j] = 0
                                   /\ attempts[j] < MaxAttempts[j]}
Expired == {j \in Jobs : state[j] = "leased" /\ leaseLeft[j] = 0}

\* Variant: the sweep requeues whatever it finds.
SweptStateQueued(j) == "queued"
SweptState(j) == IF attempts[j] >= MaxAttempts[j] THEN "dead" ELSE "queued"

\* TryAdvisoryLock: one sweeper at a time.
SweepBegin(w) ==
    /\ proc[w] = "up"
    /\ leader = NoWorker
    /\ leader' = w
    /\ UNCHANGED <<rowVars, proc, run>>

\* SweepExpiredLeases, then AdvisoryUnlock.
Sweep(w) ==
    /\ leader = w
    /\ state' = [j \in Jobs |-> IF j \in Expired THEN SweptState(j) ELSE state[j]]
    /\ leasedBy' = [j \in Jobs |-> IF j \in Expired THEN NoWorker ELSE leasedBy[j]]
    /\ leaseLeft' = [j \in Jobs |-> IF j \in Expired THEN 0 ELSE leaseLeft[j]]
    /\ leader' = NoWorker
    /\ UNCHANGED <<attempts, waitLeft, proc, run>>

\* The statement fails, or shutdown cancels it; the deferred unlock still runs.
SweepFails(w) ==
    /\ leader = w
    /\ leader' = NoWorker
    /\ UNCHANGED <<rowVars, proc, run>>

-----------------------------------------------------------------------------
\* Stopping.

\* SIGTERM: no further claims or sweeps, the runs in flight go on.
Drain(w) ==
    /\ w \notin Stable
    /\ proc[w] = "up"
    /\ proc' = [proc EXCEPT ![w] = "draining"]
    /\ UNCHANGED <<rowVars, run, leader>>

\* The end of a process takes its runs and its session's lock with it.
End(w) ==
    /\ proc' = [proc EXCEPT ![w] = "down"]
    /\ run' = [run EXCEPT ![w] = [s \in Slots |-> IdleRun]]
    /\ leader' = IF leader = w THEN NoWorker ELSE leader
    /\ UNCHANGED rowVars

\* Every slot is free, so claimLoop returns.
Exit(w) ==
    /\ proc[w] = "draining"
    /\ \A s \in Slots : run[w][s].phase = "idle"
    /\ End(w)

\* A crash, or DrainGrace over with a handler still running.
Die(w) ==
    /\ w \notin Stable
    /\ proc[w] \in {"up", "draining"}
    /\ End(w)

-----------------------------------------------------------------------------
\* One unit of time.  A heartbeat that is due goes first: one that is late is
\* one that failed.

Older(r) ==
    [r EXCEPT !.age = IF r.phase # "idle" /\ @ < AgeCap THEN @ + 1 ELSE @,
              !.hbLeft = IF r.phase = "running" /\ @ > 0 THEN @ - 1 ELSE @]

Tick ==
    /\ \A w \in Workers, s \in Slots : ~HeartbeatDue(run[w][s])
    /\ leaseLeft' = [j \in Jobs |-> IF leaseLeft[j] > 0 THEN leaseLeft[j] - 1 ELSE 0]
    /\ waitLeft' = [j \in Jobs |-> IF waitLeft[j] > 0 THEN waitLeft[j] - 1 ELSE 0]
    /\ run' = [w \in Workers |-> [s \in Slots |-> Older(run[w][s])]]
    /\ UNCHANGED <<state, attempts, leasedBy, proc, leader>>

Next ==
    \/ Tick
    \/ \E j \in Jobs, delay \in Delays : Enqueue(j, delay)
    \/ \E w \in Workers : \/ Start(w) \/ Drain(w) \/ Exit(w) \/ Die(w)
                          \/ SweepBegin(w) \/ Sweep(w) \/ SweepFails(w)
    \/ \E w \in Workers, s \in Slots :
          \/ Claim(w, s) \/ ClaimLost(w, s)
          \/ Heartbeat(w, s) \/ HeartbeatFails(w, s)
          \/ \E outcome \in Outcomes \ {"none"} : HandlerReturns(w, s, outcome)
          \/ Record(w, s) \/ RecordFails(w, s)

Spec == Init /\ [][Next]_vars

-----------------------------------------------------------------------------
\* Fairness: the clock runs, a due heartbeat is sent or fails, handlers return
\* (they are given a context that ends) and outcome writes are answered; the
\* claim loop and the sweep ticker are counted on only where a worker stays.
\* A database error does not repeat for ever, hence SF for the sweep.

Fairness ==
    /\ WF_vars(Tick)
    /\ \A w \in Stable : WF_vars(Start(w)) /\ WF_vars(SweepBegin(w))
    /\ \A w \in Stable, s \in Slots : WF_vars(Claim(w, s))
    /\ \A w \in Workers : SF_vars(Sweep(w))
    /\ \A w \in Workers, s \in Slots :
          /\ WF_vars(Heartbeat(w, s) \/ HeartbeatFails(w, s))
          /\ WF_vars(\E outcome \in Outcomes \ {"none"} : HandlerReturns(w, s, outcome))
          /\ WF_vars(Record(w, s) \/ RecordFails(w, s))

FairSpec == Spec /\ Fairness

\* The same system on a day when nothing goes wrong: no crash, no database
\* error, every handler succeeds within its timeout, and every outcome write
\* that is still allowed to run is immediate.  Rolling restarts still happen.
FaultFreeNext ==
    \/ /\ \A w \in Workers, s \in Slots :
             /\ run[w][s].phase # "returned"
             /\ run[w][s].phase = "running" => run[w][s].age + 1 < JobTimeout
       /\ Tick
    \/ \E j \in Jobs, delay \in Delays : Enqueue(j, delay)
    \/ \E w \in Workers : Start(w) \/ Drain(w) \/ Exit(w) \/ SweepBegin(w) \/ Sweep(w)
    \/ \E w \in Workers, s \in Slots :
          \/ Claim(w, s) \/ Heartbeat(w, s) \/ HandlerReturns(w, s, "ok")
          \/ Record(w, s) \/ (~RecCtxAlive(run[w][s]) /\ RecordFails(w, s))

FaultFreeSpec == Init /\ [][FaultFreeNext]_vars

-----------------------------------------------------------------------------
\* Properties.

\* Types, and the table's own constraint attempts BETWEEN 0 AND max_attempts.
TypeOK ==
    /\ state \in [Jobs -> L!JobStates]
    /\ attempts \in [Jobs -> Nat]
    /\ leasedBy \in [Jobs -> Workers \union {NoWorker}]
    /\ leaseLeft \in [Jobs -> 0..LeaseTime]
    /\ waitLeft \in [Jobs -> Nat]
    /\ proc \in [Workers -> {"new", "up", "draining", "down"}]
    /\ run \in [Workers -> [Slots -> Run]]
    /\ leader \in Workers \union {NoWorker}
    /\ \A j \in Jobs : attempts[j] <= MaxAttempts[j]

\* No queued row has spent its budget: the query the sweep's comment says
\* must count 0, because such a row can never be claimed again.
NoZombie == \A j \in Jobs : state[j] = "queued" => attempts[j] < MaxAttempts[j]

\* A dead-lettered job really was claimed max_attempts times, even when the
\* decision was made on the copy of attempts that an old claim returned.
DeadMeansExhausted == \A j \in Jobs : state[j] = "dead" => attempts[j] = MaxAttempts[j]

\* At-least-once delivery never becomes twice per claim: two runs in flight on
\* one job stem from different claims, and none from a claim not yet made.
OneRunPerClaim ==
    \A w, v \in Workers, s, t \in Slots :
       LET r == run[w][s]  q == run[v][t] IN
       r.phase # "idle" =>
          /\ r.attempt \in 1..attempts[r.job]
          /\ (q.phase # "idle" /\ q.job = r.job /\ q.attempt = r.attempt) => <<w, s>> = <<v, t>>

\* A row says who holds it exactly while it is held, so the sweep and the
\* outcome statements can tell a live lease from a corrupt one; only
\* succeeded rows keep the name of their last holder.
LeaseComplete ==
    \A j \in Jobs :
       /\ state[j] = "leased" => leasedBy[j] # NoWorker
       /\ leasedBy[j] # NoWorker => state[j] \in {"leased", "succeeded"}

\* Succeeded, failed and dead are final: no late outcome, heartbeat or sweep
\* of an earlier claim moves a finished job.
FinishedJobsStay ==
    [][\A j \in Jobs : Terminal(j) => state'[j] = state[j] /\ attempts'[j] = attempts[j]]_vars

\* A lease ends because it ran out, or because a handler of the process that
\* holds it returned; no other process can end it.
LeaseEndsByHolderOrExpiry ==
    [][\A j \in Jobs, w \in Workers :
          (Holds(w, j) /\ ~Holds(w, j)') =>
             \/ leaseLeft[j] = 0
             \/ \E s \in Slots : run[w][s].phase = "returned" /\ run[w][s].job = j]_vars

\* The queue keeps the promises of JobLifecycle.
ImplementsLifecycle == L!LifecycleSpec

\* Every committed job that some surviving worker has a handler for reaches a
\* final state, whatever crashes, lost answers and failed writes happen.
Settles ==
    \A j \in UNION {Registered[w] : w \in Stable} :
       (state[j] = "queued") ~> Terminal(j)

\* Work that succeeded is recorded as such: when nothing goes wrong, a job
\* whose handler always succeeds is not dead-lettered.
SuccessIsRecorded == \A j \in Jobs : state[j] # "dead"
=============================================================================
