# A verification project for vizra-core

TLA+ models of the parts of vizra-core that keep state, decide or race, the TLC
runs that check them on small instances, and TLAPS proofs of the most important
results for every instance. `PROJECT.json` lists the components, runs, proved
theorems, known hazards, findings, and the source lines that each definition
models.

## The system and its parts

vizra-core is a Go API (`cmd/api`), a job worker (`cmd/worker`) and an operator
CLI (`cmd/vizra`) over PostgreSQL, an optional Redis-compatible cache and an
optional search service.

| Part | State | Operations | What makes it hard |
|---|---|---|---|
| job queue (`internal/jobs`) | rows of `jobs`, leases, retry budget, worker slots, sweep lock | enqueue, claim, heartbeat, complete, retry, dead-letter, fail, sweep, drain | crashes between claim and outcome, lapsed leases, lost answers, late runs |
| enqueueing (`jobs.Enqueue`) | partial unique index over live keys, callers' transactions | insert, read the live job back, commit, roll back | waits between transactions, a job that finishes in between, deadlock |
| worker readiness (`health.go`) | progress per claim loop, probe reports | touch, report | busy against stalled, several sites in one verdict |
| owner claim (`internal/ownerclaim`) | users, one token row, advisory lock, audit | claim, mint, supersede, boot | statement snapshots against row locks, expiry between check and use |
| setup gate (`httpapi/setup.go`) | a cached "claimed" bit per replica | guard, status, claim | slow lookups that write back late, stale negatives |
| claim endpoint (`setup.go`, `setup_limits.go`, `internal/credential`) | request ceilings, failure budgets, derivation slots, audit rows | status, claim | who spends whose budget, requests abandoned half-way |
| api process (`cmd/api`, `httpapi/probes.go`) | readiness cache, computation in flight, draining, grace period | boot, get, compute, drain, shut down | a refresh shared by callers under one caller's context, requests in flight at the end |
| rate limiter (`internal/cache`) | shared and per-process windows, degraded flag | allow | the cache coming and going within a window |
| search boundary (`internal/search`) | two atomic flags, signed requests | search, suggest, publish, probe, ping, sign, verify | overlapping calls that store in any order, two clocks |
| operator commands (`cmd/vizra`, `migrate`, `config`, `doctor`) | migration ledger and its lock per site | migrate, doctor | concurrent releases, failures part-way, checks that could not be made |
| authorization (`internal/authz`) | none | decide | agreement between many surfaces |

They meet in a few places. The api's boot runs the owner-claim bootstrap, whose
failure readiness reports. The setup handlers call `ownerclaim.Claim`, cache its
result and spend the limiter's budgets. Readiness reads the limiter's degraded
flag, the search client's health and the age of the queue. The worker's probe
reads what the claim loop of the queue records. Doctor runs the validator that
boot runs, and reads the ledger that migrate writes.

## Modules

| Module | Models | Proofs | Instances |
|---|---|---|---|
| `JobLifecycle` | what the queue promises of one job: submitted, leased with an attempt spent, settled, reclaimed | | |
| `JobQueue` | workers, slots, leases and the sweep; implements `JobLifecycle` (`INSTANCE ... WITH` under `ImplementsLifecycle`) | `JobQueueProofs` | `MCJobQueue` |
| `JobQueueCalm` | `JobQueue` with a memory of whether anything has gone wrong | `JobQueueProofs` | `MCJobQueueCalm` |
| `JobEnqueue` | idempotent enqueueing by concurrent transactions | `JobsProofs` | `MCJobs` |
| `WorkerHealth` | claim-loop progress and the worker's `/readyz` | `JobsProofs` | `MCJobs` |
| `OwnerClaim` | claim, mint, supersede and boot, statement by statement | `OwnerClaimProofs` | `MCOwnerClaim` |
| `SetupGate` | the claimed cache and the requests that use it | `ReplicaProofs` | `MCSetupGate` |
| `ClaimEndpoint` | ceilings, failure budgets, derivation slots and audit rows of the setup routes | `ClaimEndpointProofs` | `MCClaimEndpoint` |
| `Readiness` | the api's `/readyz` cache | `ApiProofs` | |
| `ApiProcess` | the life of an api process around `Readiness`, and `vizra healthcheck` as its caller | `ApiProofs` | `MCApi` |
| `RateLimiter` | fixed windows in the cache and in process | `ReplicaProofs` | `MCApi` |
| `RequestSigning` | signing and verifying a request, on wrapping clocks | `SearchServiceProofs` | |
| `SearchService` | fallback and health of the search client, over `RequestSigning` | `SearchServiceProofs` | `MCApi` |
| `Authz` | the evaluator and its laws | `ApiProofs` | `MCApi` |
| `Migrations` | `vizra migrate` by concurrent runners over the ledgers of several sites | `OperatorProofs` | |
| `Config` | the validator of the environment; the normal form of an origin | `OperatorProofs` | |
| `Doctor` | the verdict of each check, the summary and the exit code | `OperatorProofs` | |
| `Operator` | the commands of `cmd/vizra` together: composes the three above | `OperatorProofs` | `MCOperator` |

`MCJobs` and `MCApi` instantiate several components that share no state. A behaviour of
theirs is one of one component (`part`), with the others at rest in one initial state, so
one run asks the questions of all of them without multiplying their states. Fairness is
that of each component, while it is the one that runs.

Definitions called *Variant* stand directly before the definition they vary.
Each is that definition with a plausible mistake in it. With the variant in its
place, the property named in the `mutants` list of `PROJECT.json` fails.

### How the models correspond to the code

**Job queue.** A row of `jobs` is `state`, `attempts`, `leasedBy`, `leaseLeft`
and `waitLeft`. A call of `Worker.run` is a record in `run[w][s]`, with the
attempt number copied at claim time, the age of its two contexts, and the time to
its next heartbeat. Each SQL statement is one action, because each locks the
rows it changes. `ClaimLost`, `HeartbeatFails`, `RecordFails` and `SweepFails` are
the error paths, `Die` is a crash or the end of the drain grace. Intervals are
kept as what is left of them, so the model is finite without a bound on time. A
`leaseLeft` of 0 means that the lease ends within the present unit, so the sweep
may or may not find it expired there. `created_at` and the jitter of retries are
left out; rows of equal priority are claimed in any order.

**Enqueueing.** `row[t][k]` is the row that transaction `t` inserted under key
`k`. An insert that meets another open transaction's row waits for it. The
deadlock detector aborts one member of a ring. `finishes[t]` is history: the keys of
which a job has finished since the insert of `t` found one live.

**Worker readiness.** A report is a snapshot followed by one ping per site, with
the loops running in between. Timers fire on time. A claim takes at most
`ClaimTime`, except on the sites in `Hanging`, where it may never return: the code
gives it no deadline.

**Owner claim.** PostgreSQL's READ COMMITTED matters here, so a statement that
may wait for a row is split: it takes its snapshot (`MintSnapshot`, ...), and
executes once the row is free, with the conditions on the locked row evaluated
again and the other conditions on the snapshot (`MintExecute`, ...). `expired` is
the set of generations whose lifetime is over; a transaction sees the set as of
its start, as `now()` does. Fields of a claim other than the token are valid.

**Setup gate.** A request is a record with a phase, and one step is what happens
between two points where others can run. `stamp` is the age of the time stored with a
cached false, which the status handler renews without a lookup. `saidTrue` is history
that no action reads.

**Claim endpoint.** A request goes through the handler's steps in the code's
order: ceiling, claimed bit, token, derivation slot, redemption, failure budget,
`audited` unit, audit row. Each limiter call is one step on a counter of
`buckets`. The claimed bit may be read stale, as `SetupGate` allows; token check
and redemption are one step each, as `OwnerClaim` justifies; the limiter has its
cache, and `RateLimiter` has the case without. A token that `lapses` passes the check and
expires or is superseded while the key is derived: its redemption matches nothing and is
a refusal like that of a wrong one, unless there is an owner by then. `Abandon`, `HashBusy` and
`Unavailable` are the ends of a request whose context or database goes away.
`posts` and `seen` are history.

**Api process.** `stage` is how far `run()` is, from boot through the two
`Shutdown` calls and the deferred closes to the exit. `work` is one request of
another route, which may hold a connection and so hold up closing the pool. In
`Readiness`, components other than the database can only degrade, and are one
choice. A draining process answers `unavailable`; the model calls that answer
`draining` to tell the two apart. The `dbUp` of a verdict and `cut` are history.

**Rate limiter.** One key; keys do not influence each other. `INCR` and
`EXPIRE NX` are one atomic step because the code sends them in one
transaction. `seen` observes one span of the length of a window.

**Search.** Each load and store of a flag is a step. A signed call carries the
timestamp core read from its clock; the service verifies it by a clock and a key
of its own, on a line that may delay or rewrite it. `last`, the request that was answered
last, and `mixed`, whether it overlapped another, are history. `int64` is the range
`-Int64Limit..Int64Limit-1`, and differences wrap in it as in Go. A MAC is the tuple of what
it is computed from, which makes it injective.

**Operator.** A `situation` is who runs, in which environment, on which machine.
The ledger, its advisory lock and the loop over pending migrations belong to
golang-migrate and are modelled from how the code uses them. Every statement of a
runner may fail and every runner may be killed between two statements. `Config`
is `validate` rule by rule over what the rules tell apart: a secret is its class,
a duration 0 when it does not parse or is not positive. An origin keeps the parts
of a URL that `NormalizeOrigin` treats differently: among its hosts are two spellings of
one IPv6 address, among its ports a default port with a leading zero. `Operator` takes the probes of
`collect()` one at a time, so migrations go on between them.

**Authorization.** `Decide` is an operator over all combinations of subject,
action and resource; a step asks about one. The reasons, which are only logged,
are left out.

## What the runs check

Runs that pass:

| Run | Properties | Instance |
|---|---|---|
| `JobQueue` | `OneRunPerClaim`, `NoOverlapWithoutFaults`, `ImplementsLifecycle`, `Settles` | 2 jobs of different priority and budget, 2 workers of 1 slot, one of which stays up and one of which knows only one kind of job, lease 3, timeout 4 |
| `Jobs` | enqueueing: `OneLiveJobPerKey`, `CommittedHasItsJobs`, `RefusedOnlyByAFinish`, `TransactionsEnd` | 3 transactions over 2 keys, crossed orders, one key twice |
| | worker readiness: `ReportIsHonest`, `WedgedIsReported`, `HealthRecovers` | 2 sites of 1 slot, claims of one of them may hang |
| `OwnerClaim` | `OneOwnerWithoutTheIndex`, `RefusedTokenIsDead`, `AnswersAreTruthful`, `EveryoneFinishes` | 4 processes out of 2 claims, 1 command and 2 boots, in three mixes |
| `SetupGate` | `CacheIsTruthful`, `NoReturnToUnclaimed`, `GuardOpens` | 2 requests on 2 replicas, TTL 2 |
| `ClaimEndpoint` | `AuditIsBounded`, `ClaimedIsInert`, `RightTokenIsNotStarved`, `EveryRequestIsAnswered` | 2 requests at a time, in four mixes of polling, wrong, right and lapsing tokens with and without a known address; 1 derivation slot |
| `Api` | process: `ReadyIsEarned`, `CleanExitCutsNobody`, `EveryCallerIsAnswered`, `RecoversWhileServing`, `SignalEndsTheProcess` | 2 callers of which one may hang up, 1 other request, TTL 2, grace 1 |
| | authorization: `ShownIsReachable`, `HiddenFromStrangers`, `PrivilegeOnlyAdds` | every combination over 1 viewer and 2 owners |
| | search: `FaultsAreVisible`, `AcceptedIsFreshAndIntact`, `HonestIsNotRejected` | 2 searching goroutines, 1 prober, 4 clock readings, two of them 2^63 apart in a small int64 |
| | rate limiter: `SpanIsBounded`, `NoLockout` | 2 replicas, limit 2, window 2, 1 lost counter |
| `Operator` | `AppliedOnceInOrder`, `SuccessMeansMigrated`, `DoctorTellsTheTruth`, `OriginsMatchBySite`, `CommandsEnd` | 2 sites; releases of 1 and 2 migrations at once, one whose migrations skip a number, doctor beside a runner; doctor alone on 15 machines and in every environment that differs from a valid one in one key or two |

Some properties are proved and have no run of their own: `NoZombie`,
`DeadMeansExhausted`, `FinishedJobsStay` (they follow from `ImplementsLifecycle`),
`LeaseComplete`, `LeaseEndsByHolderOrExpiry`, `GenerationsNeverReturn`,
`BootKeepsLiveToken`, `SingleFlight`, `WaitersGetAVerdict`, `NarrowingOnlyRemoves`
and `PublishedIsForEveryone`. The `TypeOK` definitions are not listed in the runs;
those of `JobQueue`, `OwnerClaim`, `SetupGate`, `JobEnqueue` and `SearchService`
are part of what is proved, the others document the types. The inductive invariants
of the proofs are defined in the proof modules and have no run of their own.

Some promises come with a condition, and the condition is the point:

- `NoOverlapWithoutFaults` speaks of behaviours in which nothing has gone wrong so
  far. `JobQueueCalm` adds the history variable `calm` for that. Once a
  heartbeat has failed for a lease, two slots may run the same job.
- `Settles` speaks of jobs that a worker which stays up has a handler for.
- `GuardOpens` assumes that status requests end; `SetupStatusPolling` shows why.
- `RecoversWhileServing` assumes that the process keeps serving, the database stays
  up and nobody hangs up on a computation any more. `HealthRecovers`
  assumes that the databases stay up and that claims return in time: a claim that
  hangs wedges the loop for good, and is reported.
- `CleanExitCutsNobody` is about requests that were accepted. A probe that is refused
  because the listener is closed is none.
- `FaultsAreVisible` speaks of probes that are answered while no other request is out,
  after one that overlapped no other. Of overlapping requests the flags keep what was
  stored last, and the code promises no order.
- `OriginsMatchBySite` promises that the endpoint takes the header of its own pages only
  where address and port number are spelled as browsers spell them; `OriginSpelling` has
  the other case. That it takes no other header holds without a condition.
- `DoctorTellsTheTruth` speaks of a doctor that exits with 0.
- `RightTokenIsNotStarved` excepts the POST route's own ceiling, which right and
  wrong tokens share.
- `CommandsEnd` speaks of a runner that has begun. A runner waits at most golang-migrate's
  lock timeout for another.

Five runs fail on purpose. Each checks one sentence of the repository against what the
code does, and TLC finds a behaviour of the code that contradicts it:

| Run | Property | What the code does |
|---|---|---|
| `JobQueueRecording` | `SuccessIsRecorded` | The deadline for recording an outcome starts before the handler. A handler that takes longer than `outcomeWriteTimeout` succeeds and is never recorded; the job is run again until it is dead-lettered. No fault is needed. |
| `SetupStatusPolling` | `StaleFalseOnlyDelays` | The status handler stores a cached "unclaimed" again under the present time (`setup.go:223`). Steady polling keeps the guard shut for ever on a replica that did not serve the claim, while `setup.go:82-84` says that a false "is cached only briefly" and "merely delays the guard opening". |
| `ReadinessHangUp` | `OnlyTheDatabaseMakesIt503` | The shared refresh runs under the request context of the caller that started it (`probes.go:123`). If that client hangs up, "unavailable" is stored and everybody is answered 503 for a TTL with the database up; `probes.go:77` says "Exactly one condition yields 503: PostgreSQL unreachable (or draining)". |
| `SearchRecovery` | `RecoversWithoutARestart` | A probe makes no request after the first use (`remote.go:102-116`), and nothing in the repository searches yet. A service that was down at the first probe stays degraded; `remote.go:28-29` says that one "that recovers reports ok again without a restart". The instance has no searching goroutine, as the repository has none. |
| `OriginSpelling` | `RenderedAsBrowsersSend` | A zero-padded port and an IPv6 address that is not in its shortest form are accepted at boot and kept as written, so no browser's header matches; `origin.go:18` says that `NormalizeOrigin` "renders an origin in the form a browser sends". |

### Other observations

Behaviours of the code met while modelling. The models contain them unless the item
says otherwise; no run is kept for them.

- `leased_by` names the process (`worker.go:395`). A run whose lease was swept is
  not cancelled when another slot of the same process has claimed the job again.
  `OneRunPerClaim` still holds: the two runs belong to two claims.
- The guard in the mint statement (`owner_claim.sql:35-41`) is evaluated on the
  statement's snapshot. A claim that commits while the mint waits for the token
  row leaves a live token on a claimed instance. It cannot be redeemed there
  (`OneOwnerWithoutTheIndex`), and the next boot supersedes it.
- The `audited` unit (`setup_limits.go:153`) is one key for all origins and its
  window is not aligned with those of the failure budgets. The transition into the
  limited state of a second origin in the same window leaves no row, and a request
  that is abandoned after spending the unit leaves none either, while the comment at
  `setup_limits.go:124` says "exactly one".
- `Shutdown` follows `Drain` at once (`cmd/api/main.go:177-182`). The comment above
  it wants probes to turn red before the listener closes; no time is left for a
  probe to come.
- `OwnerClaimDegraded` is fixed at boot. After a boot during an outage readiness says
  degraded until the process is restarted (`probes.go:169`).
- The deferred `pools.Close()` waits for connections in use, so the exit can come
  later than the grace period.
- `migrate` reads the ledger before it takes the lock (`migrate.go:167`). A migration
  that another runner is in the middle of is reported as one that "failed
  part-way", and the version reported by a runner that found nothing to do may be
  an old one.
- A misspelt `VIZRA_MODE` hides the problems of the production rules, and a lease that
  does not parse hides the comparison with the timeout, from a doctor that means
  to show "every one at once" (`doctor.go:59-61`).
- Checks that doctor does not make after an invalid configuration or an unreachable
  database are absent from its list instead of listed as skipped. The exit code is 1
  in both cases, so `DoctorTellsTheTruth` holds.
- `exec.Command` in doctor (`doctor.go:279`) has no deadline; the model takes it that the
  command it starts comes back.
- Doctor's search check asks for `/healthz`, which is not signed, so a wrong
  `SEARCH_HMAC_KEY` is not found by it. `keys.go:66` mentions a failure of doctor on the
  age of the queue; there is no such check.
- An empty album privacy is refused; the comment on the field (`authz.go:153`)
  says that it defaults to public.

### Bounds, and why they are enough

Two processes of each kind are enough for the races in question, which are
between a process that read something and one that changed it. In `JobQueue`, two
attempts reach both sides of the budget; the lease of 3 is the shortest with a
heartbeat interval of one unit; a timeout of 4 lets a run outlive its lease and be
swept, and its successor begins while it is still there; the outcome deadline of 2
is below the lease, as 10 s is below the default lease. Several slots of one process
are left to the proofs and to `JobQueueRecording`.

In `WorkerHealth` the slowest claim takes exactly the staleness bound, the edge at
which it may still not be reported. In `RateLimiter` the bound on a span is
reached. `MaxLosses` bounds how many counters are lost to eviction or restart in
the observed span. Each process of `OwnerClaim` acts once, so generations are
bounded by the number of minters. `Casts` names the processes, in `OwnerClaim`, and
the calls, in `ClaimEndpoint`, that may take part in one behaviour. The ceilings of
`ClaimEndpoint` are the smallest at which every counter can be exhausted while the
others are not; its one slot makes a second request wait. A grace of 1 lets the
shutdown end both in time and too late. `Int64Limit` is 2^4 where the code has 2^63, with
a pair of readings whose difference is its own negation. In `Operator`, two sites
allow one to fail and the other not; releases of 1 and 2 migrations allow a ledger
that is ahead of one of them. No run uses symmetry or a state constraint.

### Fairness, and why the code justifies it

Time passes: weak fairness on `Tick`, strong in `WorkerHealth`, where jobs that
end at once could otherwise fill every instant. A goroutine that can go on goes
on: weak fairness on its steps. Beyond that:

- `JobQueue`: a worker in `Stable`, and no other, is started again, keeps claiming and
  begins its sweeps; a sweep that has begun does not fail every time (SF). Handlers
  return, since their context ends, which a handler has to respect. A write of an
  outcome may fail every time.
- `OwnerClaim`: a waiting statement gets its lock when the lock becomes free again
  and again (SF); PostgreSQL queues waiters.
- `JobEnqueue`: a caller commits or rolls back. The deadlock detector runs.
- `SetupGate`: requests keep arriving at every replica and lookups do not fail for
  ever (SF).
- `ClaimEndpoint`: a derivation slot that keeps coming free comes to each who waits
  (SF), as a Go channel serves its senders in turn. No context is assumed to end.
- `ApiProcess`: `run()` goes on, the container runtime starts a dead process again,
  probes keep coming. A slow client need not let go. That a statement under way ends
  (`QueryEnds`) is an assumption: nothing in the code gives it a deadline.
- `Operator`: a command that was neither killed nor waits goes on. The database may be
  down whenever it likes.
- `WorkerHealth`: probes keep coming. Jobs need not end.
- `SearchService` (only in `SearchRecovery`): goroutines go on, requests end by the
  client's timeout, readiness is polled. Nobody has to search.
- `RateLimiter`: every replica keeps being asked.

## What is proved

`tlapm` checks every proof; the theorems hold for every value of the constants
that satisfies the named assumptions, which the runs evaluate.

**Job queue** (any jobs, workers, slots, budgets, priorities and times, with the
lease at least 3 units and the timeout above it, which `config.Load` enforces).
The inductive invariant `IInv` is `TypeOK`, `NoZombie`, `DeadMeansExhausted` and
`LeaseComplete`, strengthened by two facts. `RunsWellFormed` says that a run's
copied attempt number is at most the row's. Without it, "dead means exhausted" is
not inductive, because the decision to dead-letter is made on the copy. `Fresh`
says that a row not yet inserted has no attempts and no holder. From `IInv`
follow the invariants themselves, the refinement of `JobLifecycle` step by step,
and the action properties `FinishedJobsStay` and `LeaseEndsByHolderOrExpiry`.
`OneRunPerClaim` needs a separate induction: only claims begin runs, a claim
raises `attempts`, and attempts never fall. `NoOverlapWithoutFaults` needs a third,
`CInv`: while nothing has gone wrong, every run is backed by the lease of its own
row, with more left of the lease than there is to the next heartbeat (`Kept`). It
is here that the interval of a third of the lease is used.

**Enqueueing** (any transactions, keys and plans). `EInv` adds to the properties that
what a transaction was promised for its earlier keys still stands (`Stands`), and that
the row that kept it from inserting can be read by it, or has finished since
(`Promised`). The last is why a refusal can only come from a job that finished between
the insert and the read of that very enqueue.

**Owner claim** (any claimants, commands and boots, in any mixes). The heart of `IInv` is
`CommitterIsFirst` and `StaleRedeemsFail`: whoever is about to commit an owner
holds the token row and there is no owner yet, and a redemption that waited
behind it finds the token consumed when its condition is evaluated again. This is
why one owner results without the unique index. `RefusalsAreDue` carries the
reason of a refusal from the statement that saw it to the answer.

**Setup gate** (any replicas, requests and TTL). `GInv` says of each request that what
it carries is true (`Sound`: a "claimed" that it read is so, and one that comes after its
replica has said so is answered by the cache), and of each replica that once it has said
"claimed" its cache says so too (`Told`), whatever slow lookups store later.

**Claim endpoint** (any requests, origins, limits and window). `RInv` says that a
request which arrived after there was an owner is not past the token check, that none
with the right token is on its way through the failure budgets (both `Proper`), and
that the counter of the POST ceiling is the number of POSTs in its window. The first
gives `ClaimedIsInert`, the other two `RightTokenIsNotStarved`. `AuditIsBounded` needs
`AuditInv`, for finitely many requests: the rows of the observed span, with those on
their way, are covered by what the failure budget and the transition unit can have
allowed in it (`May`) and one row per request. `May` counts a second window only when
the present one began inside the span, which is why two windows and no more are met.

**Api process** (any callers, TTL and grace). `RInv` ties the computation in flight to
the one caller that leads it, and says that a computed verdict is ready only with a ping
that found the database up (`Good`) and that a waiter is only ever released after a value was stored (`Proper`).
`CleanInv` says that on the way to exit code 0 there is no request left (`Quiet`).

**Worker readiness** (any sites, slots, poll interval, floor and hanging sites, with
claims that return within the stale bound elsewhere: `ClaimAssumption`). `HealthInv`
bounds the age of the progress of every loop by where the loop is and for how long
(`Prompt`): in a claim or asleep by that time, waiting for a slot by that time and one
poll interval, the sleep before it. Two poll intervals are within the five of
`HealthStaleBound`. `Accounted` says of a report on its way that the databases up now
have been seen up, and that it is ready only if every loop had begun and every site it
has pinged was up.

**Rate limiter** (finitely many replicas, any limit, window and number of losses).
`SpanInv` bounds the grants seen in the span by what the counters can have allowed
(`May`), given how long their windows last compared with the rest of the span. The sum
over the replicas is written as the size of a set of pairs (`Allowances`), since the
prover has no induction over finite sums; three lemmas say how the size follows one
counter.

**Migrations** (any processes, releases and sites, at least one: `SitesAssumption`).
`MigrateInv` says of each site that the migrations applied are 1 to n, with n what the
ledger says (`Recorded`); of each process that it holds the lock of its site whenever it
writes there, and that what it has marked is the migration after the last one
(`Placed`); and of its results that a site without an error is migrated (`Collected`).
The lock is what the induction turns on: a step of one process leaves alone the sites
that others have locked (`Careful`), so what they rely on stays (`Bystander`). From
`MigrateInv` follow `AppliedOnceInOrder` and `SuccessMeansMigrated`.

**Doctor** (any situation; `DoctorAssumption`). `DoctorInv` says of each verdict what it
vouches for (`Sound`), and of each phase which checks are listed, or which listed failure
kept them from being made. That a schema found current stays applied is an induction
together with `MigrateInv`: the probe sees a clean ledger, and no step takes a migration
back. With no failure counted the list is complete.

**Origins** (`SituationsAssumption`: the variable holds an origin, or nothing). No
induction: the environment never changes. Normalising is shown to be idempotent, to be
defined on whatever `validate` accepts, to keep the origin that is meant, and to elide the
port exactly where a browser does if it is written without zeros in front.

**Search** (any callers, probers, clock readings, width of int64, and window). That
accepted requests are fresh follows from the fact that both clocks are checked against
the range before they are subtracted, so the difference neither wraps nor is its own
negation; that honest ones are not refused, from the same fact read the other way, and
from a call having no outcome while it is out (`Unanswered`). `FlagsInv` says that, unless
the last request overlapped another, at most one is under way, what it has stored is its
own (`Own`), and with none under way the two flags say what the last one came to
(`Settled`).

**Authorization** (any users and owners). The laws follow from the definitions by
cases over the kinds of surface, with four lemmas on standing (`Staff` is upward
closed, more privilege keeps standing, narrower settings reach less, exports are
for owners and staff).

Only model-checked: the liveness properties, since fairness and `ENABLED` are outside the
prover's reach (`Settles`, `TransactionsEnd`, `WedgedIsReported`, `HealthRecovers`,
`EveryoneFinishes`, `GuardOpens`, `EveryRequestIsAnswered`, `EveryCallerIsAnswered`,
`RecoversWhileServing`, `SignalEndsTheProcess`, `NoLockout`, `CommandsEnd`), and the five
that are violated. Every other property of a passing run is also a theorem.

## What is not modelled

- Text and encodings: redaction, log lines, error envelopes, the PHC string, the
  bytes of the canonical request and of the MAC, IP truncation, `readEnvFile`, the
  arguments of the commands, the sanitised output of `healthcheck`.
- Parsing: whether a number, a duration or a URL parses is part of the abstract value
  of a configuration key.
- `metrics`, `obs`, routing and middleware: no state that a decision depends on.
- `site` and `db` beyond the set of sites and the closing of pools: one site, fixed at
  start. The model of the setup gate relies on that: there is one claimed cache per
  server.
- What job handlers do. There are none in this repository yet, so a job that is
  coalesced with one in flight cannot be checked against what that job reads.
- Which rung of the retry ladder a retry waits for: any delay leads to the same lifecycle.
- The window between the first use of the search client and its first stored outcome,
  in which a probe says ok on no evidence; the code promises nothing about it.
- The SQL implementation of search, a stub; fixtures, generators, repository scripts
  and generated code.
