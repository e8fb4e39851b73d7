----------------------------- MODULE JobEnqueue -----------------------------
(***************************************************************************)
(* jobs.Enqueue inside the caller's transaction (internal/jobs/jobs.go),   *)
(* statement by statement, under READ COMMITTED.                           *)
(*                                                                         *)
(* Each transaction enqueues one job per key of its plan, in order, and    *)
(* commits or rolls back.  A key stands for a (kind, idempotency_key), and *)
(* row[t][k] is the row that transaction t inserts for key k.  jobs_idem   *)
(* is the partial unique index over queued and leased rows, so an insert   *)
(* waits for the end of a transaction that has inserted the same key.      *)
(***************************************************************************)
EXTENDS Naturals, Sequences

CONSTANTS
    Txs,
    Keys,
    Plan        \* Plan[t]: the keys that t enqueues, in order

ASSUME PlanAssumption == Plan \in [Txs -> Seq(Keys)]

VARIABLES
    row,        \* row[t][k]: "none", "pending", "live", "finished"
    tx,         \* "open", "committed" or "rolledback"
    at,         \* at[t]: the enqueue that t is in
    conflicted, \* its insert returned no row
    given,      \* given[t][k]: whose row Enqueue returned, t itself if its own
    refused,    \* transactions whose Enqueue returned an error
    finishes    \* history: keys of which a job has finished since t's conflict

vars == <<row, tx, at, conflicted, given, refused, finishes>>

Nobody == "nobody"
ASSUME NobodyAssumption == Nobody \notin Txs

Key(t) == Plan[t][at[t]]
Busy(t) == tx[t] = "open" /\ t \notin refused /\ at[t] <= Len(Plan[t])

Init ==
    /\ row = [t \in Txs |-> [k \in Keys |-> "none"]]
    /\ tx = [t \in Txs |-> "open"]
    /\ at = [t \in Txs |-> 1]
    /\ conflicted = [t \in Txs |-> FALSE]
    /\ given = [t \in Txs |-> [k \in Keys |-> Nobody]]
    /\ refused = {}
    /\ finishes = [t \in Txs |-> {}]

-----------------------------------------------------------------------------
\* The transactions whose insert of k is not yet decided.
Inserting(k) == {u \in Txs : row[u][k] = "pending"}

\* A committed row that jobs_idem covers, or t's own.
Taken(t, k) == row[t][k] = "pending" \/ \E u \in Txs : row[u][k] = "live"

\* t's INSERT has to wait for the transactions that inserted k before it.
Blocked(t) == Busy(t) /\ ~conflicted[t] /\ Inserting(Key(t)) \ {t} # {}

Advance(t, u) ==
    /\ given' = [given EXCEPT ![t][Key(t)] = u]
    /\ at' = [at EXCEPT ![t] = @ + 1]
    /\ conflicted' = [conflicted EXCEPT ![t] = FALSE]

\* Variant: the index covers committed rows only.
InsertUnblocked(t) ==
    /\ Busy(t) /\ ~conflicted[t]
    /\ ~Taken(t, Key(t))
    /\ row' = [row EXCEPT ![t][Key(t)] = "pending"]
    /\ Advance(t, t)
    /\ UNCHANGED <<tx, refused, finishes>>
\* EnqueueJob inserts and returns the row.
Insert(t) ==
    /\ Busy(t) /\ ~conflicted[t] /\ ~Blocked(t)
    /\ ~Taken(t, Key(t))
    /\ row' = [row EXCEPT ![t][Key(t)] = "pending"]
    /\ Advance(t, t)
    /\ UNCHANGED <<tx, refused, finishes>>

\* ON CONFLICT DO NOTHING returns no row.
Conflict(t) ==
    /\ Busy(t) /\ ~conflicted[t] /\ ~Blocked(t)
    /\ Taken(t, Key(t))
    /\ conflicted' = [conflicted EXCEPT ![t] = TRUE]
    /\ finishes' = [finishes EXCEPT ![t] = {}]
    /\ UNCHANGED <<row, tx, at, given, refused>>

\* Variant: the read sees what other transactions have not committed.
VisibleDirty(t, k) == {u \in Txs : row[u][k] \in {"live", "pending"}}
\* Variant: the read goes through another connection.
VisibleOutside(t, k) == {u \in Txs : row[u][k] = "live"}
\* What GetLiveJobByIdempotencyKey sees, in a snapshot of its own.
Visible(t, k) == {u \in Txs : row[u][k] = "live" \/ (u = t /\ row[u][k] = "pending")}

\* The job in flight is returned instead of a second one ...
ReadLive(t) ==
    /\ Busy(t) /\ conflicted[t]
    /\ \E u \in Visible(t, Key(t)) : Advance(t, u)
    /\ UNCHANGED <<row, tx, refused, finishes>>

\* Variant: reads again until the job is there.
ReadNonePolls(t) ==
    /\ Busy(t) /\ conflicted[t]
    /\ Visible(t, Key(t)) = {}
    /\ UNCHANGED vars
\* ... unless it has finished in between, which is an error.
ReadNone(t) ==
    /\ Busy(t) /\ conflicted[t]
    /\ Visible(t, Key(t)) = {}
    /\ refused' = refused \union {t}
    /\ UNCHANGED <<row, tx, at, conflicted, given, finishes>>

-----------------------------------------------------------------------------
\* The end of a transaction decides its rows.
Decide(t, verdict, rows) ==
    /\ tx' = [tx EXCEPT ![t] = verdict]
    /\ row' = [row EXCEPT ![t] = [k \in Keys |-> IF row[t][k] = "pending" THEN rows ELSE row[t][k]]]
    /\ UNCHANGED <<at, conflicted, given, refused, finishes>>

Commit(t) ==
    /\ tx[t] = "open" /\ t \notin refused /\ at[t] > Len(Plan[t])
    /\ Decide(t, "committed", "live")

\* An error from Enqueue, a fault of the caller, or a crash.
Rollback(t) ==
    /\ tx[t] = "open"
    /\ Decide(t, "rolledback", "none")

\* Transactions that wait for each other in a ring.
Ring(S) ==
    \A t \in S : /\ Blocked(t)
                 /\ \E u \in S \ {t} : u \in Inserting(Key(t))
                 /\ \E u \in S \ {t} : Blocked(u) /\ t \in Inserting(Key(u))

\* PostgreSQL rolls back one transaction of a ring.
DeadlockVictim(t) ==
    /\ \E S \in SUBSET Txs : t \in S /\ Ring(S)
    /\ Decide(t, "rolledback", "none")

\* A worker completes, fails or dead-letters the job.
Finish(t, k) ==
    /\ row[t][k] = "live"
    /\ row' = [row EXCEPT ![t][k] = "finished"]
    /\ finishes' = [u \in Txs |-> IF conflicted[u] THEN finishes[u] \union {k} ELSE finishes[u]]
    /\ UNCHANGED <<tx, at, conflicted, given, refused>>

AllDone ==
    /\ \A t \in Txs : tx[t] # "open"
    /\ UNCHANGED vars

Step(t) == Insert(t) \/ Conflict(t) \/ ReadLive(t) \/ ReadNone(t)

Next ==
    \/ \E t \in Txs : \/ Insert(t) \/ Conflict(t) \/ ReadLive(t) \/ ReadNone(t)
                      \/ Commit(t) \/ Rollback(t) \/ DeadlockVictim(t)
    \/ \E t \in Txs, k \in Keys : Finish(t, k)
    \/ AllDone

Spec == Init /\ [][Next]_vars

\* Statements run, deadlocks are found, and a transaction that is not waiting
\* is brought to its end.
EnqueueFairness ==
    /\ \A t \in Txs : /\ WF_vars(Step(t) \/ Commit(t))
                      /\ WF_vars(DeadlockVictim(t))
                      /\ WF_vars(t \in refused /\ Rollback(t))

FairSpec == Spec /\ EnqueueFairness

-----------------------------------------------------------------------------
\* Types; a transaction is only given a row that it may hold on to.
TypeOK ==
    /\ row \in [Txs -> [Keys -> {"none", "pending", "live", "finished"}]]
    /\ tx \in [Txs -> {"open", "committed", "rolledback"}]
    /\ \A t \in Txs : at[t] \in 1..(Len(Plan[t]) + 1)
    /\ conflicted \in [Txs -> BOOLEAN]
    /\ given \in [Txs -> [Keys -> Txs \union {Nobody}]]
    /\ refused \subseteq Txs /\ finishes \in [Txs -> SUBSET Keys]
    /\ \A t \in Txs, k \in Keys : row[t][k] = "pending" => tx[t] = "open"

\* jobs_idem: of one key there is at most one job that is live or about to be,
\* whatever inserts, commits, rollbacks and finishes are interleaved.
OneLiveJobPerKey ==
    \A k \in Keys, t, u \in Txs :
        (row[t][k] \in {"pending", "live"} /\ row[u][k] \in {"pending", "live"}) => t = u

\* "A committed mutation can never lose its side effect": a committed caller
\* holds, for every key of its plan, a job that was committed too, and never
\* one that went away with another caller's rollback.
CommittedHasItsJobs ==
    \A t \in Txs : tx[t] = "committed" =>
        \A i \in DOMAIN Plan[t] :
            LET u == given[t][Plan[t][i]]
            IN  u # Nobody /\ row[u][Plan[t][i]] \in {"live", "finished"}

\* Enqueue's "could not be read" error is only ever about a job that finished
\* between its two statements: after the insert that found the key taken, and
\* before the read that finds nobody there.
RefusedOnlyByAFinish ==
    \A t \in refused : Key(t) \in finishes[t]

\* No transaction waits for ever: neither for one that never ends nor in a ring.
EveryTransactionEnds == <>(\A t \in Txs : tx[t] # "open")
=============================================================================
