---------------------------- MODULE WorkerHealth ----------------------------
(***************************************************************************)
(* Readiness of one worker process: the claim loop of every site           *)
(* (internal/jobs/worker.go, claimLoop) records its progress in Health     *)
(* (internal/jobs/health.go), and a /readyz report reads it.               *)
(*                                                                         *)
(* A report copies the progress of all sites under the mutex and then      *)
(* pings the sites one by one, while the loops go on.  Times are ages in   *)
(* units and saturate.  A slot is held by the loop from the moment it is   *)
(* taken until the claim finds nothing, or by the job until it ends.       *)
(***************************************************************************)
EXTENDS Integers

CONSTANTS
    Sites,
    Concurrency,    \* Options.Concurrency, slots of one claim loop
    PollInterval,   \* Options.PollInterval
    StaleFloor,     \* the 15s floor of HealthStaleBound
    ClaimTime,      \* longest claim round trip of a database that is not hung
    Hanging         \* sites whose claims may never return

ASSUME TimesAssumption ==
    /\ Concurrency \in Nat \ {0} /\ PollInterval \in Nat \ {0}
    /\ StaleFloor \in Nat /\ ClaimTime \in Nat /\ Hanging \subseteq Sites

VARIABLES
    loop,       \* where each claim loop is
    timer,      \* how long it has been there
    busy,       \* slots taken, len(sem)
    progress,   \* age of siteProgress.lastProgress
    dbUp,       \* the site's PostgreSQL answers
    draining,   \* the process context is cancelled
    report      \* the report in progress, or the last one

healthVars == <<loop, timer, busy, progress, dbUp, draining, report>>

\* HealthStaleBound: five poll intervals, at least the floor.
HealthStaleBound == IF 5 * PollInterval < StaleFloor THEN StaleFloor ELSE 5 * PollInterval

\* A database that takes longer than the bound to answer counts as hung.
ASSUME ClaimAssumption == ClaimTime <= HealthStaleBound

Never == HealthStaleBound + 2       \* lastProgress.IsZero()
TimerCap == IF PollInterval < ClaimTime THEN ClaimTime ELSE PollInterval

Report == [ phase   : {"none", "ping", "done"},
            todo    : SUBSET Sites,     \* sites not yet pinged
            ready   : BOOLEAN,          \* rep.Ready, so far
            stalled : SUBSET Sites,     \* sites whose claim_loop is "stalled"
            begun   : SUBSET Sites,     \* sites whose loop had begun
            seenUp  : SUBSET Sites ]    \* databases up at some time since it began

\* NewHealth, and a process whose loops have not started.
HealthInit ==
    /\ loop = [s \in Sites |-> "off"]
    /\ timer = [s \in Sites |-> 0]
    /\ busy = [s \in Sites |-> 0]
    /\ progress = [s \in Sites |-> Never]
    /\ dbUp \in [Sites -> BOOLEAN]
    /\ draining = FALSE
    /\ report = [ phase |-> "none", todo |-> {}, ready |-> FALSE, stalled |-> {},
                  begun |-> {}, seenUp |-> {} ]

-----------------------------------------------------------------------------
Goto(s, phase) ==
    /\ loop' = [loop EXCEPT ![s] = phase]
    /\ timer' = [timer EXCEPT ![s] = 0]

\* Health.touch, of LoopAlive, ClaimOK, ClaimFailed and Saturated alike.
Touch(s) == progress' = [progress EXCEPT ![s] = 0]

Start(s) ==
    /\ loop[s] = "off"
    /\ Goto(s, "slot")
    /\ UNCHANGED <<busy, progress, dbUp, draining, report>>

\* The loop gets a slot and begins a claim.
TakeSlot(s) ==
    /\ loop[s] = "slot" /\ busy[s] < Concurrency
    /\ busy' = [busy EXCEPT ![s] = @ + 1]
    /\ Goto(s, "claim") /\ Touch(s)
    /\ UNCHANGED <<dbUp, draining, report>>

\* Variant: the loop wakes up and records nothing.
SlotWaitSilent(s) ==
    /\ loop[s] = "slot" /\ timer[s] = PollInterval
    /\ Goto(s, "slot")
    /\ UNCHANGED <<busy, progress, dbUp, draining, report>>
\* Every slot is busy for a poll interval: alive, saturated.
SlotWaitEnds(s) ==
    /\ loop[s] = "slot" /\ timer[s] = PollInterval
    /\ Goto(s, "slot") /\ Touch(s)
    /\ UNCHANGED <<busy, dbUp, draining, report>>

\* The claim returns a job, which keeps the slot, ...
ClaimFinds(s) ==
    /\ loop[s] = "claim" /\ dbUp[s]
    /\ Goto(s, "slot") /\ Touch(s)
    /\ UNCHANGED <<busy, dbUp, draining, report>>

\* ... or no job ...
ClaimFindsNone(s) ==
    /\ loop[s] = "claim" /\ dbUp[s]
    /\ busy' = [busy EXCEPT ![s] = @ - 1]
    /\ Goto(s, "sleep") /\ Touch(s)
    /\ UNCHANGED <<dbUp, draining, report>>

\* Variant: an error ends the loop.
ClaimFailsForGood(s) ==
    /\ loop[s] = "claim"
    /\ busy' = [busy EXCEPT ![s] = @ - 1]
    /\ Goto(s, "ended") /\ Touch(s)
    /\ UNCHANGED <<dbUp, draining, report>>
\* ... or an error, after which the loop sleeps in the same way.
ClaimFails(s) ==
    /\ loop[s] = "claim"
    /\ busy' = [busy EXCEPT ![s] = @ - 1]
    /\ Goto(s, "sleep") /\ Touch(s)
    /\ UNCHANGED <<dbUp, draining, report>>

\* sleep returns after a poll interval, or when the process drains.
SleepEnds(s) ==
    /\ loop[s] = "sleep" /\ (timer[s] = PollInterval \/ draining)
    /\ Goto(s, "slot")
    /\ UNCHANGED <<busy, progress, dbUp, draining, report>>

\* Slots held by jobs, the loop's own left out.
Jobs(s) == IF loop[s] = "claim" THEN busy[s] - 1 ELSE busy[s]

\* A job ends, after any time, and releases its slot.
JobEnds(s) ==
    /\ Jobs(s) > 0
    /\ busy' = [busy EXCEPT ![s] = @ - 1]
    /\ UNCHANGED <<loop, timer, progress, dbUp, draining, report>>

\* The process is told to stop; a loop leaves where it would wait for a slot.
Drain ==
    /\ ~draining
    /\ draining' = TRUE
    /\ UNCHANGED <<loop, timer, busy, progress, dbUp, report>>

Leave(s) ==
    /\ loop[s] = "slot" /\ draining
    /\ Goto(s, "ended")
    /\ UNCHANGED <<busy, progress, dbUp, draining, report>>

-----------------------------------------------------------------------------
\* Variant: a loop that once began is taken to be running.
LoopVerdictOnceBegun(s) == IF progress[s] = Never THEN "not_started" ELSE "ok"
\* claim_loop of one site.
LoopVerdict(s) ==
    CASE progress[s] = Never            -> "not_started"
      [] HealthStaleBound < progress[s]
         /\ progress[s] < Never         -> "stalled"
      [] OTHER                          -> "ok"

\* Report takes its snapshot.
ReportBegins ==
    /\ report.phase # "ping"
    /\ LET verdict == [s \in Sites |-> LoopVerdict(s)]
       IN  report' = [ phase   |-> "ping", todo |-> Sites,
                       ready   |-> Sites # {} /\ \A s \in Sites : verdict[s] = "ok",
                       stalled |-> {s \in Sites : verdict[s] = "stalled"},
                       begun   |-> {s \in Sites : progress[s] # Never},
                       seenUp  |-> {s \in Sites : dbUp[s]} ]
    /\ UNCHANGED <<loop, timer, busy, progress, dbUp, draining>>

\* One ping; after the last one the report is answered.
PingSite(s) ==
    /\ report.phase = "ping" /\ s \in report.todo
    /\ report' = [report EXCEPT !.todo = @ \ {s}, !.ready = @ /\ dbUp[s],
                                !.phase = IF report.todo = {s} THEN "done" ELSE "ping"]
    /\ UNCHANGED <<loop, timer, busy, progress, dbUp, draining>>

Database(s) ==
    /\ dbUp' = [dbUp EXCEPT ![s] = ~@]
    /\ report' = IF report.phase = "ping" /\ ~dbUp[s]
                 THEN [report EXCEPT !.seenUp = @ \union {s}] ELSE report
    /\ UNCHANGED <<loop, timer, busy, progress, draining>>

\* Timers fire on time, a free slot is taken at once, and a claim returns
\* within ClaimTime unless it hangs.
MayWait(s) ==
    /\ loop[s] = "slot" => busy[s] = Concurrency /\ timer[s] < PollInterval /\ ~draining
    /\ loop[s] = "sleep" => timer[s] < PollInterval /\ ~draining
    /\ loop[s] = "claim" => timer[s] < ClaimTime \/ (s \in Hanging /\ ~draining)

Tick ==
    /\ \A s \in Sites : MayWait(s)
    /\ timer' = [s \in Sites |-> IF timer[s] < TimerCap THEN timer[s] + 1 ELSE TimerCap]
    /\ progress' = [s \in Sites |-> IF progress[s] <= HealthStaleBound
                                    THEN progress[s] + 1 ELSE progress[s]]
    /\ UNCHANGED <<loop, busy, dbUp, draining, report>>

ClaimReturns(s) == ClaimFinds(s) \/ ClaimFindsNone(s) \/ ClaimFails(s)
LoopStep(s) == Start(s) \/ TakeSlot(s) \/ SlotWaitEnds(s) \/ SleepEnds(s) \/ Leave(s)

HealthNext ==
    \/ Tick \/ Drain \/ ReportBegins
    \/ \E s \in Sites :
          LoopStep(s) \/ ClaimReturns(s) \/ JobEnds(s) \/ PingSite(s) \/ Database(s)

HealthSpec == HealthInit /\ [][HealthNext]_healthVars

\* Time passes however many jobs come and go in an instant (hence SF), the
\* loops run, probes keep coming and are answered, and a claim returns unless
\* it may hang.  Jobs need not end.
HealthFairness ==
    /\ SF_healthVars(Tick) /\ WF_healthVars(ReportBegins)
    /\ \A s \in Sites : /\ WF_healthVars(LoopStep(s)) /\ WF_healthVars(PingSite(s))
                        /\ WF_healthVars((s \notin Hanging \/ draining) /\ ClaimReturns(s))

FairHealthSpec == HealthSpec /\ HealthFairness

-----------------------------------------------------------------------------
\* Types; a claim is only made with a slot in hand.
HealthTypeOK ==
    /\ loop \in [Sites -> {"off", "slot", "claim", "sleep", "ended"}]
    /\ timer \in [Sites -> 0..TimerCap]
    /\ busy \in [Sites -> 0..Concurrency]
    /\ progress \in [Sites -> 0..Never]
    /\ dbUp \in [Sites -> BOOLEAN]
    /\ draining \in BOOLEAN
    /\ report \in Report
    /\ \A s \in Sites : loop[s] = "claim" => busy[s] > 0

\* What a probe is told is true.  "The loop records progress when it is
\* saturated too": a worker whose slots are all taken, for however long, and
\* whose database answers or refuses within the bound, is never reported stalled
\* before it drains, hanging sites beside it or not.  "Both must hold, for every
\* site": the worker answers 200 only when every claim loop had begun and every
\* database was up at some time since the probe came in, whichever sites changed
\* while the others were pinged.
ReportIsHonest ==
    /\ ~draining => report.stalled \subseteq Hanging
    /\ (report.phase = "done" /\ report.ready) =>
          report.begun = Sites /\ report.seenUp = Sites

\* A claim loop that is stuck in a claim for ever is reported: from some time
\* on no report is ready.
WedgedIsReported ==
    \A s \in Sites :
        <>[](loop[s] = "claim") => <>[](report.phase = "done" => ~report.ready)

\* Once the databases stay up and claims return in time, a worker that is not
\* told to stop is reported ready again and again, busy or not and whatever
\* failed before.
Recovers ==
    (/\ <>[](\A s \in Sites : dbUp[s]) /\ [](~draining)
     /\ \A s \in Sites : <>[](loop[s] = "claim" => timer[s] < ClaimTime)) =>
        []<>(report.phase = "done" /\ report.ready)
=============================================================================
