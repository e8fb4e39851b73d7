---------------------------- MODULE JobQueueCalm ----------------------------
(***************************************************************************)
(* JobQueue with a history variable that remembers whether anything has    *)
(* gone wrong yet: calm stays TRUE for as long as every step is one of the *)
(* fault-free system, rolling restarts included.                           *)
(***************************************************************************)
EXTENDS JobQueue

VARIABLE calm

CalmInit == Init /\ calm = TRUE

\* Any step may be the one after which the promise below no longer applies.
CalmNext ==
    \/ FaultFreeNext /\ UNCHANGED calm
    \/ Next /\ calm' = FALSE

CalmSpec == CalmInit /\ [][CalmNext]_<<vars, calm>>

CalmFairSpec == CalmSpec /\ Fairness

\* When nothing goes wrong a job is never run twice at once: heartbeats at a
\* third of the lease keep the sweep away for as long as the handler runs.
NoOverlapWithoutFaults ==
    calm => \A w, v \in Workers, s, t \in Slots :
       (/\ run[w][s].phase # "idle" /\ run[v][t].phase # "idle"
        /\ run[w][s].job = run[v][t].job) => <<w, s>> = <<v, t>>
=============================================================================
