---------------------------- MODULE JobLifecycle ----------------------------
(***************************************************************************)
(* What the durable queue promises about a single job, whatever workers,   *)
(* leases, clocks and crashes are doing: a job moves along                 *)
(*                                                                         *)
(*    absent -> queued -> leased -> succeeded | failed | dead              *)
(*                 ^________|                                              *)
(*                                                                         *)
(* it is leased at most MaxAttempts[j] times, it goes back to the queue    *)
(* only while it has attempts left, it is dead-lettered only when it has   *)
(* none, and a finished job never moves again.  JobQueue implements this.  *)
(***************************************************************************)
EXTENDS Naturals

CONSTANTS Jobs, MaxAttempts

VARIABLES state, attempts

lifecycleVars == <<state, attempts>>

LiveStates     == {"queued", "leased"}
TerminalStates == {"succeeded", "failed", "dead"}
JobStates      == {"absent"} \union LiveStates \union TerminalStates

HasBudget(j) == attempts[j] < MaxAttempts[j]

LifecycleInit ==
    /\ state = [j \in Jobs |-> "absent"]
    /\ attempts = [j \in Jobs |-> 0]

\* A committed Enqueue.
Submit(j) ==
    /\ state[j] = "absent"
    /\ state' = [state EXCEPT ![j] = "queued"]
    /\ UNCHANGED attempts

\* A claim: the only step that spends an attempt.
Lease(j) ==
    /\ state[j] = "queued"
    /\ HasBudget(j)
    /\ state' = [state EXCEPT ![j] = "leased"]
    /\ attempts' = [attempts EXCEPT ![j] = @ + 1]

\* An outcome ends the lease of one job.
Settle(j, outcome) ==
    /\ state[j] = "leased"
    /\ outcome = "queued" => HasBudget(j)
    /\ outcome = "dead" => ~HasBudget(j)
    /\ state' = [state EXCEPT ![j] = outcome]
    /\ UNCHANGED attempts

\* A sweep ends the leases of several jobs at once.
Reclaim(S) ==
    /\ \A j \in S : state[j] = "leased"
    /\ state' = [j \in Jobs |->
                    IF j \in S THEN IF HasBudget(j) THEN "queued" ELSE "dead"
                    ELSE state[j]]
    /\ UNCHANGED attempts

LifecycleNext ==
    \/ \E j \in Jobs : Submit(j) \/ Lease(j)
    \/ \E j \in Jobs, outcome \in TerminalStates \union {"queued"} : Settle(j, outcome)
    \/ \E S \in SUBSET Jobs : Reclaim(S)

LifecycleSpec == LifecycleInit /\ [][LifecycleNext]_lifecycleVars
=============================================================================
