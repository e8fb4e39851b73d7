----------------------------- MODULE Migrations -----------------------------
(***************************************************************************)
(* internal/migrate and the vizra migrate command: processes that bring    *)
(* the ledger of every site to the version their binary embeds, one site   *)
(* after the other, while others do the same, migrations fail part-way and *)
(* processes die.  The ledger, its lock and the loop over the pending      *)
(* migrations belong to golang-migrate and are modelled from their use:    *)
(* Up() takes a session advisory lock, reads the ledger again, and for     *)
(* each migration marks the version dirty, runs it and marks it clean.     *)
(***************************************************************************)
EXTENDS Integers, Sequences, FiniteSets

CONSTANTS
    Runners,    \* vizra migrate processes
    Sites,      \* the sequence of sites the resolver knows
    Files,      \* [Runners -> the version prefixes of the .up.sql files compiled in]
    NoRunner

ASSUME FilesAssumption == Files \in [Runners -> Seq(Nat)]
ASSUME RunnerAssumption == NoRunner \notin Runners

VARIABLES
    dbUp,       \* PostgreSQL answers (external)
    ledger,     \* per site schema_migrations: the version and its dirty bit
    applied,    \* per site, history: the migrations whose SQL committed, in order
    lock,       \* per site the holder of golang-migrate's advisory lock
    runner,     \* what each process is doing
    results     \* per process, what ApplyAll has collected

migrateVars == <<dbUp, ledger, applied, lock, runner, results>>

\* The highest version, or 0 for its errors: no migration, a version that
\* appears twice, or a sequence other than 1..N.
EmbeddedVersion(files) ==
    IF {files[i] : i \in DOMAIN files} = 1..Len(files) THEN Len(files) ELSE 0
Embedded(r) == EmbeddedVersion(Files[r])

SiteSet == {Sites[i] : i \in 1..Len(Sites)}
\* NewResolver knows a site.
ASSUME SitesAssumption == Sites \in Seq(SiteSet) /\ Len(Sites) > 0
Versions == {-1, 0} \union UNION {0..Embedded(r) : r \in Runners}

\* version 0 stands for an empty ledger (ErrNilVersion), -1 for no table at all.
Ledger == [version : Versions, dirty : BOOLEAN]
Runner == [ phase : {"new", "open", "read", "up", "locked", "marked", "ran", "after", "exited", "dead"},
            site : 0..Len(Sites), before : Versions, exit : {-1, 0, 1} ]
\* SiteResult, as far as it differs: Err, or Applied with the version reported.
SiteResult == [ err : BOOLEAN, applied : BOOLEAN, version : Versions ]

At(r) == Sites[runner[r].site]
In(r, phase) == runner[r].phase = phase
Goto(r, phase) == runner' = [runner EXCEPT ![r].phase = phase]
Unlocked(r) == [s \in SiteSet |-> IF lock[s] = r THEN NoRunner ELSE lock[s]]

MigrateInit ==
    /\ dbUp = TRUE
    /\ ledger = [s \in SiteSet |-> [version |-> -1, dirty |-> FALSE]]
    /\ applied = [s \in SiteSet |-> <<>>]
    /\ lock = [s \in SiteSet |-> NoRunner]
    /\ runner = [r \in Runners |-> [phase |-> "new", site |-> 0, before |-> 0, exit |-> -1]]
    /\ results = [r \in Runners |-> <<>>]

-----------------------------------------------------------------------------
\* ApplyAll.

\* Variant: the run is judged by its last site.
ExitOfLast(r, collected) == IF collected[Len(collected)].err THEN 1 ELSE 0
\* failed > 0 is an error of the run, whatever the other sites came to.
ExitOf(r, collected) == IF \E i \in 1..Len(collected) : collected[i].err THEN 1 ELSE 0

\* applyOne returns, its deferred m.Close() gives back the lock, and the loop
\* goes on to the next site, also after a failure.
SiteDone(r, err, isApplied, version) ==
    LET collected == Append(results[r], [err |-> err, applied |-> isApplied, version |-> version])
        last == runner[r].site = Len(Sites)
    IN  /\ results' = [results EXCEPT ![r] = collected]
        /\ lock' = Unlocked(r)
        /\ runner' = [runner EXCEPT ![r] =
              [ phase  |-> IF last THEN "exited" ELSE "open",
                site   |-> IF last THEN @.site ELSE @.site + 1,
                before |-> 0,
                exit   |-> IF last THEN ExitOf(r, collected) ELSE -1 ]]
SiteFails(r) == SiteDone(r, TRUE, FALSE, runner[r].before)

-----------------------------------------------------------------------------
\* applyOne.

\* A binary whose migrations are out of order refuses; otherwise the loop
\* starts at the first site.
MigrateStarts(r) ==
    /\ In(r, "new")
    /\ runner' = [runner EXCEPT ![r] = IF Embedded(r) = 0
                                       THEN [@ EXCEPT !.phase = "exited", !.exit = 1]
                                       ELSE [@ EXCEPT !.phase = "open", !.site = 1]]
    /\ UNCHANGED <<dbUp, ledger, applied, lock, results>>

\* --dry-run reports the embedded set and opens nothing.
DryRun(r) ==
    /\ In(r, "new") /\ Embedded(r) # 0
    /\ runner' = [runner EXCEPT ![r].phase = "exited", ![r].exit = 0]
    /\ UNCHANGED <<dbUp, ledger, applied, lock, results>>

\* Opening the ledger creates its table under the lock, so it waits for one.
newMigrator(r) ==
    /\ In(r, "open")
    /\ \/ /\ dbUp /\ lock[At(r)] = NoRunner
          /\ ledger' = [ledger EXCEPT ![At(r)].version = IF @ = -1 THEN 0 ELSE @]
          /\ Goto(r, "read") /\ UNCHANGED <<lock, results>>
       \/ ~dbUp /\ SiteFails(r) /\ UNCHANGED ledger
    /\ UNCHANGED <<dbUp, applied>>

\* Variant: a dirty ledger is forced clean at the version before, and retried.
ReadLedgerForces(r) ==
    /\ In(r, "read") /\ dbUp
    /\ runner' = [runner EXCEPT ![r].phase = "up", ![r].before = ledger[At(r)].version]
    /\ ledger' = IF ledger[At(r)].dirty
                 THEN [ledger EXCEPT ![At(r)] = [version |-> @.version - 1, dirty |-> FALSE]]
                 ELSE ledger
    /\ UNCHANGED <<dbUp, applied, lock, results>>
\* m.Version(), without the lock: dirty is reported and never repaired.
ReadLedger(r) ==
    LET l == ledger[At(r)] IN
    /\ In(r, "read") /\ dbUp
    /\ \/ /\ ~l.dirty
          /\ runner' = [runner EXCEPT ![r].phase = "up", ![r].before = l.version]
          /\ UNCHANGED <<lock, results>>
       \/ l.dirty /\ SiteDone(r, TRUE, FALSE, l.version)
    /\ UNCHANGED <<dbUp, ledger, applied>>

-----------------------------------------------------------------------------
\* m.Up(), golang-migrate's.

UpLocks(r) ==
    /\ In(r, "up") /\ dbUp
    /\ lock[At(r)] = NoRunner
    /\ lock' = [lock EXCEPT ![At(r)] = r]
    /\ Goto(r, "locked")
    /\ UNCHANGED <<dbUp, ledger, applied, results>>

\* ErrLockTimeout, after 15 seconds of somebody else's migration.
UpLockTimesOut(r) ==
    /\ In(r, "up")
    /\ lock[At(r)] \notin {NoRunner, r}
    /\ SiteFails(r)
    /\ UNCHANGED <<dbUp, ledger, applied>>

\* The version after the one the ledger names.
Pending(r) == ledger[At(r)].version + 1

\* Under the lock: dirty, or a version this binary does not know, is an error;
\* nothing pending is ErrNoChange, reported with the version read before.
UpBegins(r) ==
    LET l == ledger[At(r)] IN
    /\ In(r, "locked") /\ dbUp
    /\ \/ (l.dirty \/ l.version > Embedded(r)) /\ SiteFails(r) /\ UNCHANGED ledger
       \/ /\ ~l.dirty /\ Pending(r) = Embedded(r) + 1
          /\ SiteDone(r, FALSE, FALSE, runner[r].before) /\ UNCHANGED ledger
       \/ /\ ~l.dirty /\ Pending(r) <= Embedded(r)
          /\ ledger' = [ledger EXCEPT ![At(r)] = [version |-> Pending(r), dirty |-> TRUE]]
          /\ Goto(r, "marked")
          /\ UNCHANGED <<lock, results>>
    /\ UNCHANGED <<dbUp, applied>>

\* One file is one implicit transaction: it commits whole or not at all.
MigrationRuns(r) ==
    /\ In(r, "marked") /\ dbUp
    /\ applied' = [applied EXCEPT ![At(r)] = Append(@, ledger[At(r)].version)]
    /\ Goto(r, "ran")
    /\ UNCHANGED <<dbUp, ledger, lock, results>>

\* The bit is cleared, and the next migration looked for or the lock given back.
MigrationDone(r) ==
    LET last == ledger[At(r)].version = Embedded(r) IN
    /\ In(r, "ran") /\ dbUp
    /\ ledger' = [ledger EXCEPT ![At(r)].dirty = FALSE]
    /\ Goto(r, IF last THEN "after" ELSE "locked")
    /\ lock' = IF last THEN Unlocked(r) ELSE lock
    /\ UNCHANGED <<dbUp, applied, results>>

\* The second m.Version(), whose errors are ignored.
ReadAfter(r) ==
    /\ In(r, "after")
    /\ SiteDone(r, FALSE, TRUE, IF dbUp THEN ledger[At(r)].version ELSE 0)
    /\ UNCHANGED <<dbUp, ledger, applied>>

\* A statement fails: SQL that is refused, or a database that is gone.  What
\* was marked stays dirty.
StatementFails(r) ==
    /\ runner[r].phase \in {"read", "up", "locked", "marked", "ran"}
    /\ SiteFails(r)
    /\ UNCHANGED <<dbUp, ledger, applied>>

\* Variant: the lock is a row, which outlives the session that wrote it.
RunnerDiesLocked(r) ==
    /\ runner[r].phase \notin {"new", "exited", "dead"}
    /\ Goto(r, "dead")
    /\ UNCHANGED <<dbUp, ledger, applied, lock, results>>
\* The process dies; PostgreSQL ends its session and drops its lock.
RunnerDies(r) ==
    /\ runner[r].phase \notin {"new", "exited", "dead"}
    /\ Goto(r, "dead")
    /\ lock' = Unlocked(r)
    /\ UNCHANGED <<dbUp, ledger, applied, results>>

Advance(r) ==
    \/ MigrateStarts(r) \/ DryRun(r) \/ newMigrator(r) \/ ReadLedger(r) \/ UpLocks(r)
    \/ UpLockTimesOut(r) \/ UpBegins(r) \/ MigrationRuns(r) \/ MigrationDone(r) \/ ReadAfter(r)
    \/ StatementFails(r)

-----------------------------------------------------------------------------
\* Probe, the read that /schemaz and vizra doctor make: unreadable is unknown.
Probe(site, embedded) ==
    LET l == ledger[site] IN
    IF ~dbUp \/ l.version = -1 THEN "unknown"
    ELSE IF l.dirty THEN "dirty"
    ELSE IF l.version < embedded THEN "behind"
    ELSE IF l.version > embedded THEN "ahead"
    ELSE "current"

-----------------------------------------------------------------------------
MigrateTypeOK ==
    /\ dbUp \in BOOLEAN
    /\ ledger \in [SiteSet -> Ledger]
    /\ applied \in [SiteSet -> Seq(Versions)]
    /\ lock \in [SiteSet -> Runners \union {NoRunner}]
    /\ runner \in [Runners -> Runner]
    /\ results \in [Runners -> Seq(SiteResult)]

\* However many runners of whatever age overlap, fail and die, the SQL of each
\* migration commits at most once per database and in order, and the ledger
\* says how far: up to its version, or one less when that is dirty.
AppliedOnceInOrder ==
    \A s \in SiteSet :
       LET l == ledger[s]  n == Len(applied[s]) IN
       /\ applied[s] = [i \in 1..n |-> i]
       /\ \/ n = l.version
          \/ l.dirty /\ n = l.version - 1
          \/ l.version = -1 /\ n = 0

\* "Applying to three sites and failing on the second must not look like
\* success": a migrate that exits 0 went through every site, and each of them
\* has every migration the binary embeds.
SuccessMeansMigrated ==
    \A r \in Runners : (runner[r].exit = 0 /\ results[r] # <<>>) =>
       /\ Len(results[r]) = Len(Sites)
       /\ \A s \in SiteSet : Len(applied[s]) >= Embedded(r)
=============================================================================
