------------------------------- MODULE MCJobs -------------------------------
(***************************************************************************)
(* Small instances of JobEnqueue and WorkerHealth for TLC.  They share no  *)
(* state, so a behaviour is one of one of them, while the other rests.     *)
(***************************************************************************)
EXTENDS JobEnqueue, WorkerHealth, TLC

CONSTANTS t1, t2, t3, a, b, s1, s2

VARIABLE part   \* the one that runs

ThreeTxs == {t1, t2, t3}
TwoKeys == {a, b}
\* Two transactions that take the keys in opposite orders, and a third that
\* enqueues one key twice.
CrossedPlans == t1 :> <<a, b>> @@ t2 :> <<b, a>> @@ t3 :> <<a, a>>

TwoSites == {s1, s2}

InEnqueue == part = "enqueue"
InHealth == part = "health"

JobsInit ==
    /\ Init /\ HealthInit
    /\ part \in {"enqueue", "health"} /\ (InEnqueue => \A s \in Sites : dbUp[s])
JobsNext ==
    /\ \/ InEnqueue /\ Next /\ UNCHANGED healthVars
       \/ InHealth /\ HealthNext /\ UNCHANGED vars
    /\ UNCHANGED part

\* EnqueueFairness and HealthFairness, each when its part runs.
JobsSpec ==
    /\ JobsInit /\ [][JobsNext]_<<vars, healthVars, part>>
    /\ \A t \in Txs : /\ WF_vars(InEnqueue /\ (Step(t) \/ Commit(t)))
                      /\ WF_vars(InEnqueue /\ DeadlockVictim(t))
                      /\ WF_vars(InEnqueue /\ t \in refused /\ Rollback(t))
    /\ SF_healthVars(InHealth /\ Tick) /\ WF_healthVars(InHealth /\ ReportBegins)
    /\ \A s \in Sites : /\ WF_healthVars(InHealth /\ LoopStep(s)) /\ WF_healthVars(InHealth /\ PingSite(s))
                        /\ WF_healthVars(InHealth /\ (s \notin Hanging \/ draining) /\ ClaimReturns(s))

\* EveryTransactionEnds and Recovers, each when its part runs.
TransactionsEnd == part = "enqueue" => EveryTransactionEnds
HealthRecovers == part = "health" => Recovers
=============================================================================
