------------------------------ MODULE Operator ------------------------------
(***************************************************************************)
(* What an operator runs around a deployment: vizra migrate, possibly from *)
(* two releases at once, and vizra doctor, over one environment and one    *)
(* machine.  Every command loads the configuration first and refuses to    *)
(* run on an invalid one; doctor reports it and goes on with what is left. *)
(***************************************************************************)
EXTENDS Migrations, Config, Doctor

CONSTANTS
    DoctorVersion,  \* EmbeddedVersion() of the binary doctor runs from
    Situations      \* the situations to start from

ASSUME DoctorAssumption == DoctorVersion \in Nat
ASSUME SituationsAssumption ==
    \A s \in Situations : s.env["VIZRA_PUBLIC_ORIGIN"] \in Origins \union {NoOrigin}

VARIABLES
    situation,  \* who runs, in which environment, on which machine; never changes
    doctor      \* how far collect() is, and its results so far

operatorVars == <<migrateVars, situation, doctor>>

\* A situation is the cast (the commands that are run), the environment, and
\* the machine: what doctor's probes find there, facts outside the program.
env == situation.env
machine == situation.machine

Init ==
    /\ MigrateInit
    /\ situation \in Situations
    /\ doctor = [phase |-> "config", results |-> <<>>]

-----------------------------------------------------------------------------
\* vizra migrate.

MigrateRefused(r) ==
    /\ In(r, "new") /\ ~Accepted(env)
    /\ runner' = [runner EXCEPT ![r].phase = "exited", ![r].exit = 1]
    /\ UNCHANGED <<dbUp, ledger, applied, lock, results>>

runMigrate(r) ==
    /\ r \in situation.cast
    /\ \/ MigrateRefused(r)
       \/ Accepted(env) /\ Advance(r)
    /\ UNCHANGED <<situation, doctor>>

MigrateDies(r) == RunnerDies(r) /\ UNCHANGED <<situation, doctor>>

-----------------------------------------------------------------------------
\* vizra doctor: collect(), probe by probe.

Add(new, phase) ==
    /\ doctor' = [ phase |-> phase,
                   results |-> [n \in DOMAIN doctor.results \union DOMAIN new |->
                                   IF n \in DOMAIN new THEN new[n] ELSE doctor.results[n]] ]
    /\ UNCHANGED <<migrateVars, situation>>

At_(phase) == doctor.phase = phase

\* Everything below the compose check needs a valid configuration.
DoctorConfig ==
    /\ At_("config")
    /\ Add([configuration |-> CheckConfig(Accepted(env)),
            compose |-> CheckCompose(machine.compose)],
           IF Accepted(env) THEN "ping" ELSE "report")

\* Variant: a database that cannot be reached is something to know, not a failure.
DoctorPingWarns ==
    /\ At_("ping")
    /\ Add([database |-> IF dbUp THEN "OK" ELSE "WARN"], IF dbUp THEN "schema" ELSE "cache")
\* Variant: doctor waits for the database.
DoctorPingWaits ==
    /\ At_("ping") /\ dbUp
    /\ Add([database |-> CheckDatabase(dbUp)], "schema")
\* The pool is opened and pinged; without an answer schema and owner are skipped.
DoctorPing ==
    /\ At_("ping")
    /\ Add([database |-> CheckDatabase(dbUp)], IF dbUp THEN "schema" ELSE "cache")

\* The server version is listed when it could be read, and left out otherwise.
DoctorSchema ==
    /\ At_("schema")
    /\ LET schema == CheckSchema(Probe(Sites[1], DoctorVersion))
       IN  Add(IF dbUp THEN [schema |-> schema, version |-> "OK"] ELSE [schema |-> schema], "owner")

\* The two reads of realOwnerClaim need the tables of the last migration.
DoctorOwner ==
    /\ At_("owner")
    /\ Add([owner |-> CheckOwnerClaim(dbUp /\ Len(applied[Sites[1]]) >= DoctorVersion, machine.claimed)],
           "cache")

DoctorRest ==
    /\ At_("cache")
    /\ LET cache == CheckCache(machine.cache)
           raw == env["VIZRA_PUBLIC_ORIGIN"]
           normal == PublicOrigin(env)
       IN  Add([n \in DOMAIN cache \union {"origin", "search"} |->
                   CASE n = "origin" -> CheckPublicOrigin(machine.originSet, normal # NoOrigin, raw = normal,
                                                          normal.scheme = "http", production(env))
                     [] n = "search" -> CheckSearch(env["VIZRA_SEARCH_MODE"], machine.searchReachable)
                     [] OTHER        -> cache[n]],
               "report")

Report ==
    /\ At_("report")
    /\ Add(<<>>, "done")

runDoctor ==
    /\ "doctor" \in situation.cast
    /\ \/ DoctorConfig \/ DoctorPing \/ DoctorSchema \/ DoctorOwner \/ DoctorRest \/ Report

-----------------------------------------------------------------------------
\* PostgreSQL goes away and comes back.
DatabaseFlips ==
    /\ dbUp' = ~dbUp
    /\ UNCHANGED <<ledger, applied, lock, runner, results, situation, doctor>>

Next ==
    \/ DatabaseFlips
    \/ \E r \in Runners : runMigrate(r) \/ MigrateDies(r)
    \/ runDoctor

Spec == Init /\ [][Next]_operatorVars

\* Processes that are neither killed nor waiting go on; a statement is
\* answered or fails.
FairSpec ==
    /\ Spec
    /\ \A r \in Runners : WF_operatorVars(runMigrate(r))
    /\ WF_operatorVars(runDoctor)

-----------------------------------------------------------------------------
\* Properties.

\* The checks that every run of doctor is about, when nothing keeps it from
\* making them; the server version and the cache floor are extras.
Checks == {"configuration", "compose", "database", "schema", "owner", "cache", "origin", "search"}

NotMade(check) ==
    CASE check = "compose" -> ~machine.compose.docker
      [] check = "origin"  -> ~machine.originSet
      [] check = "schema"  -> doctor.results["schema"] = "SKIP"
      [] OTHER             -> FALSE

\* "8 OK can never be printed when three checks never ran": a doctor that
\* exits 0 lists every check, counts as not run what it did not run, and what
\* it found in place is still in place however the runners went on.
DoctorTellsTheTruth ==
    (At_("done") /\ ExitCode(doctor.results) = 0) =>
       /\ Checks \subseteq DOMAIN doctor.results
       /\ Summarise(doctor.results).skipped = Cardinality({c \in Checks : NotMade(c)})
       /\ doctor.results["schema"] = "OK" => Len(applied[Sites[1]]) >= DoctorVersion

\* How a browser writes a host and a port: one spelling for an address, no
\* leading zeros.
Address(host) == IF host = "[0::1]" THEN "[::1]" ELSE host
PortNumber(port) == IF port = "0443" THEN "443" ELSE port

\* What a browser sends for the pages of an origin: no path, the default port
\* elided; a fully qualified host keeps its dot.
BrowserOrigins ==
    {o \in Origins : /\ o.scheme # "ftp" /\ o.host \in {"a", "b", "[::1]"} /\ ~o.upper /\ o.path = ""
                     /\ ~o.extra /\ o.port \notin {"0443", DefaultPort(o.scheme)}}
EffectivePort(o) == IF o.port = "" THEN DefaultPort(o.scheme) ELSE PortNumber(o.port)
SameOrigin(o, p) ==
    /\ o.scheme = p.scheme /\ Address(o.host) = Address(p.host) /\ EffectivePort(o) = EffectivePort(p)

\* The claim endpoint takes the Origin header of no other pages than its own,
\* however the accepted VIZRA_PUBLIC_ORIGIN is spelled; and it takes that of its
\* own, whatever its case, dot, slash and default port, if address and port
\* number are written as a browser writes them.
OriginsMatchBySite ==
    Accepted(env) => \A header \in BrowserOrigins :
       LET origin == env["VIZRA_PUBLIC_ORIGIN"]
           taken == checkOrigin(PublicOrigin(env), header, "same-origin")
       IN  /\ taken => SameOrigin(origin, header)
           /\ (/\ SameOrigin(origin, header)
               /\ Address(origin.host) = origin.host /\ PortNumber(origin.port) = origin.port) => taken

\* The comment of NormalizeOrigin: it "renders an origin in the form a browser
\* sends in `Origin`, so the two can be compared as values".
RenderedAsBrowsersSend == Accepted(env) => PublicOrigin(env) \in BrowserOrigins

\* Every command comes to an end: a migrate that was killed under the ledger's
\* lock leaves it to the others, and doctor is not held up by anything.
CommandsEnd ==
    /\ \A r \in Runners : (runner[r].phase # "new") ~> (runner[r].phase \in {"exited", "dead"})
    /\ ("doctor" \in situation.cast) ~> At_("done")
=============================================================================
