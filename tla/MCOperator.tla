----------------------------- MODULE MCOperator -----------------------------
(* Small instances of Operator for TLC. *)
EXTENDS Operator, TLC

CONSTANTS r1, r2, r3

\* An old release, a new one, and one whose migrations skip a number.
Releases == {r1, r2, r3}
TwoSites == <<"site1", "site2">>
Shipped == [r \in Runners |-> CASE r = r1 -> <<1>> [] r = r2 -> <<1, 2>> [] r = r3 -> <<1, 3>>]

\* What each key may be set to.
Values ==
    [k \in Durations |-> {0, 1, 2}]
    @@ [k \in Names |-> {"default", ""}]
    @@ [k \in ProductionSecrets \union {"SEARCH_HMAC_KEY"} |-> Secrets]
    @@ [k \in {"DATABASE_URL", "VIZRA_CACHE_URL", "VIZRA_SEARCH_URL"} |-> URLs]
    @@ [k \in Switches \union ValueHatches \union RetiredKeys
                \union {"VIZRA_ALLOW_INSECURE_PUBLIC_ORIGIN"} |-> Raw]
    @@ [ VIZRA_MODE |-> Modes, VIZRA_SEARCH_MODE |-> SearchModes,
         VIZRA_OWNER_CLAIM_ANNOUNCE |-> {"off", "stderr", "other"},
         VIZRA_WORKER_CONCURRENCY |-> {0, 1}, VIZRA_PUBLIC_ORIGIN |-> Origins,
         VIZRA_CORS_ALLOWED_ORIGINS |-> SUBSET CorsEntries ]

Plain == [NoOrigin EXCEPT !.scheme = "https", !.host = "a"]
Template ==
    [k \in Durations |-> IF k = "VIZRA_JOB_TIMEOUT" THEN 2 ELSE 1]
    @@ [k \in Names |-> "default"]
    @@ [k \in ProductionSecrets \union {"SEARCH_HMAC_KEY"} |-> "strong"]
    @@ [k \in {"DATABASE_URL", "VIZRA_CACHE_URL", "VIZRA_SEARCH_URL"} |-> "right"]
    @@ [k \in Switches \union ValueHatches \union RetiredKeys
                \union {"VIZRA_ALLOW_INSECURE_PUBLIC_ORIGIN"} |-> "absent"]
    @@ [ VIZRA_MODE |-> "production", VIZRA_SEARCH_MODE |-> "managed",
         VIZRA_OWNER_CLAIM_ANNOUNCE |-> "off", VIZRA_WORKER_CONCURRENCY |-> 1,
         VIZRA_PUBLIC_ORIGIN |-> Plain, VIZRA_CORS_ALLOWED_ORIGINS |-> {"https"} ]

\* Environments that differ from the template in one key or two.
VaryOne(e, keys) == UNION {{[e EXCEPT ![k] = v] : v \in Values[k]} : k \in keys}
Small == DOMAIN Values \ {"VIZRA_PUBLIC_ORIGIN"}
Envs ==
    VaryOne(Template, DOMAIN Values)
    \union VaryOne([Template EXCEPT !["VIZRA_ALLOW_INSECURE_PUBLIC_ORIGIN"] = "truthy"], DOMAIN Values)
    \union UNION {VaryOne(e, Small) : e \in VaryOne(Template, Small)}

Machine == [ compose |-> [docker |-> TRUE, runs |-> TRUE, version |-> <<5, 0, 1>>],
             cache |-> [ping |-> TRUE, identify |-> TRUE, version |-> <<7, 2, 0>>],
             searchReachable |-> TRUE, claimed |-> TRUE, originSet |-> TRUE ]
Machines ==
    {[Machine EXCEPT !.compose.version = v] : v \in {Unparsed, <<2, 24, 3>>, <<2, 24, 4>>, <<2, 30, 0>>}}
    \union {[Machine EXCEPT !.cache.version = v] : v \in {Unparsed, <<7, 1, 9>>, <<7, 2, 0>>, <<8, 0, 0>>}}
    \union {[Machine EXCEPT !.compose.docker = FALSE], [Machine EXCEPT !.compose.runs = FALSE],
            [Machine EXCEPT !.cache.ping = FALSE], [Machine EXCEPT !.cache.identify = FALSE],
            [Machine EXCEPT !.searchReachable = FALSE], [Machine EXCEPT !.claimed = FALSE],
            [Machine EXCEPT !.originSet = FALSE]}

DoctorEnvs == {Template, [Template EXCEPT !["VIZRA_MODE"] = "development"],
               [Template EXCEPT !["VIZRA_SEARCH_MODE"] = "off"],
               [Template EXCEPT !["VIZRA_PUBLIC_ORIGIN"].upper = TRUE]}

\* Two releases migrate at once; doctor looks on while one of them does; and
\* doctor by itself on every machine and in every environment.
Everyday ==
    [cast : {{r1, r2}}, env : {Template}, machine : {Machine}]
    \union [cast : {{r3}}, env : {Template}, machine : {Machine}]
    \union [cast : {{r2, "doctor"}}, env : {Template}, machine : {Machine}]
    \union [cast : {{r1, "doctor"}}, env : {[Template EXCEPT !["VIZRA_JOB_LEASE"] = 2]}, machine : {Machine}]
    \union [cast : {{"doctor"}}, env : DoctorEnvs, machine : Machines]
    \union [cast : {{"doctor"}}, env : Envs, machine : {Machine}]
=============================================================================
