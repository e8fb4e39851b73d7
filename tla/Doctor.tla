------------------------------- MODULE Doctor -------------------------------
(***************************************************************************)
(* internal/doctor: the verdict of each check as a function of the facts   *)
(* it is given, and the summary of a run.  A result is the status under    *)
(* the name of the check; what a check prints is left out.                 *)
(***************************************************************************)
EXTENDS Integers, FiniteSets

Statuses == {"OK", "WARN", "FAIL", "SKIP"}

CheckConfig(accepted) == IF accepted THEN "OK" ELSE "FAIL"
CheckDatabase(pingOk) == IF pingOk THEN "OK" ELSE "FAIL"

\* Every drift is a failure; a ledger that could not be read was not checked.
CheckSchema(ledgerState) ==
    CASE ledgerState = "current"                     -> "OK"
      [] ledgerState \in {"behind", "ahead", "dirty"} -> "FAIL"
      [] OTHER                                       -> "SKIP"

\* Versions are triples; Unparsed is what ParseVersion refuses.
Unparsed == <<>>
CompareVersion(a, b) ==
    LET differ == {i \in 1..3 : a[i] # b[i]}
        first == CHOOSE i \in differ : \A k \in differ : i <= k
    IN  IF differ = {} THEN 0 ELSE IF a[first] < b[first] THEN -1 ELSE 1

CacheFloor == <<7, 2, 0>>
ComposeFloor == <<2, 24, 4>>

\* Fails closed: a version that does not parse does not meet the floor.
MeetsFloor(version, floor) == version # Unparsed /\ CompareVersion(version, floor) >= 0

\* The cache is [ping, identify : BOOLEAN, version]; the floor is a result of
\* its own, there only when the server named its version.
CheckCache(c) ==
    IF ~c.ping THEN [cache |-> "FAIL"]
    ELSE IF ~c.identify THEN [cache |-> "WARN"]
    ELSE [cache |-> "OK", floor |-> IF MeetsFloor(c.version, CacheFloor) THEN "OK" ELSE "FAIL"]

\* Compose is [docker, runs : BOOLEAN, version].
CheckCompose(c) ==
    IF ~c.docker THEN "SKIP"
    ELSE IF c.runs /\ MeetsFloor(c.version, ComposeFloor) THEN "OK"
    ELSE "FAIL"

CheckSearch(mode, reachable) == IF mode = "off" \/ reachable THEN "OK" ELSE "FAIL"

CheckOwnerClaim(readable, claimed) ==
    IF ~readable THEN "FAIL" ELSE IF claimed THEN "OK" ELSE "WARN"

\* raw = "" when VIZRA_PUBLIC_ORIGIN is not in the environment at all.
CheckPublicOrigin(set, comparable, normal, plainHttp, production) ==
    IF ~set THEN "SKIP"
    ELSE IF ~comparable THEN "FAIL"
    ELSE IF ~normal \/ (plainHttp /\ production) THEN "WARN"
    ELSE "OK"

Summarise(results) ==
    [ total  |-> Cardinality(DOMAIN results),
      failed |-> Cardinality({n \in DOMAIN results : results[n] = "FAIL"}),
      skipped |-> Cardinality({n \in DOMAIN results : results[n] = "SKIP"}) ]

ExitCode(results) == IF Summarise(results).failed > 0 THEN 1 ELSE 0
=============================================================================
