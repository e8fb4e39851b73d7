------------------------------- MODULE Config -------------------------------
(***************************************************************************)
(* internal/config: the one validator that boot, every vizra command and   *)
(* vizra doctor call, and the normal form of an origin in which the claim  *)
(* endpoint compares the browser's Origin header with the configured one.  *)
(*                                                                         *)
(* A value of the environment is what the rules tell apart: a secret is    *)
(* its class, a URL whether it has the right scheme, a duration 0 when it  *)
(* does not parse or is not positive.  An origin keeps the parts of a URL  *)
(* that normalisation treats differently.                                  *)
(***************************************************************************)
EXTENDS Integers

-----------------------------------------------------------------------------
\* Origins.

Schemes == {"http", "https", "ftp"}
\* A port is digits, so 443 has more than one spelling.
Ports == {"", "80", "443", "8080", "0443"}
\* A host is a name, empty, not ASCII, or an IPv6 literal.  "[0::1]" is another
\* spelling of the address "[::1]".
Literals == {"[::1]", "[0::1]"}
Hosts == {"a", "b", "", "unicode"} \union Literals

\* What url.Parse finds.  "extra" is a query, a fragment or user information.
\* url.Parse lowers the scheme, and a literal is followed by a port or nothing.
Origins == {o \in [ scheme : Schemes, host : Hosts, upper : BOOLEAN, dot : BOOLEAN,
                    port : Ports, path : {"", "/", "/x"}, extra : BOOLEAN ] :
               o.dot => o.host \notin Literals}

\* The answer "" of NormalizeOrigin, also the parse of an empty header.
NoOrigin == [ scheme |-> "", host |-> "", upper |-> FALSE, dot |-> FALSE,
              port |-> "", path |-> "", extra |-> FALSE ]

DefaultPort(scheme) == CASE scheme = "http" -> "80" [] scheme = "https" -> "443" [] OTHER -> ""

Web(o) == o.host # "" /\ o.scheme \in {"http", "https"}

\* u.Hostname() takes the brackets off a literal, and they are put back.
Hostname(host) == CASE host = "[::1]" -> "::1" [] host = "[0::1]" -> "0::1" [] OTHER -> host
Bracketed(name) == CASE name = "::1" -> "[::1]" [] name = "0::1" -> "[0::1]" [] OTHER -> name

\* Variant: a port that the scheme implies is kept.
NormalizeOriginKeepsPort(o) ==
    IF /\ Web(o) /\ o.path \in {"", "/"} /\ ~o.extra /\ o.host # "unicode"
    THEN [o EXCEPT !.host = Bracketed(Hostname(@)), !.upper = FALSE, !.dot = FALSE, !.path = ""]
    ELSE NoOrigin
NormalizeOrigin(o) ==
    IF /\ Web(o) /\ o.path \in {"", "/"} /\ ~o.extra /\ o.host # "unicode"
    THEN [o EXCEPT !.host = Bracketed(Hostname(@)), !.upper = FALSE, !.dot = FALSE, !.path = "",
                   !.port = IF @ = DefaultPort(o.scheme) THEN "" ELSE @]
    ELSE NoOrigin

\* checkOrigin of the claim endpoint.  "absent" stands for a missing header.
FetchSites == {"absent", "same-origin", "none", "same-site", "cross-site"}
checkOrigin(want, header, fetchSite) ==
    /\ header # NoOrigin =>
          LET got == NormalizeOrigin(header)  wanted == NormalizeOrigin(want)
          IN  got # NoOrigin /\ wanted # NoOrigin /\ got = wanted
    /\ fetchSite \in {"absent", "same-origin", "none"}

-----------------------------------------------------------------------------
\* The environment.

Modes == {"development", "production", "other"}
SearchModes == {"off", "managed", "external", "other"}
Secrets == {"", "published", "short", "dev", "strong"}
URLs == {"", "foreign", "right"}
\* The raw text of a key that is refused by its presence or its truth.
Raw == {"absent", "empty", "blank", "falsy", "truthy", "name"}
CorsEntries == {"*", "relative", "http", "https"}

Durations == {"VIZRA_SEARCH_TIMEOUT", "VIZRA_QUEUE_AGE_THRESHOLD", "VIZRA_JOB_LEASE",
              "VIZRA_JOB_TIMEOUT", "VIZRA_SHUTDOWN_GRACE", "VIZRA_OWNER_CLAIM_TTL"}
Names == {"VIZRA_SITE_HANDLE", "VIZRA_CACHE_NAMESPACE", "VIZRA_STORAGE_PREFIX"}
ProductionSecrets == {"VIZRA_SESSION_SECRET", "VIZRA_MFA_KEY_KEK"}
\* A hatch that is a switch, the one that carries a user name, a retired key.
Switches == {"VIZRA_DEV_DISABLE_AUTH"}
ValueHatches == {"VIZRA_DEV_AUTOLOGIN_USER"}
RetiredKeys == {"VIZRA_SEARCH_HMAC_KEY"}

\* A secret that is long enough and not published, and what it may not be.
looksLikeDevSecret(v) == v = "dev"
isPublishedSecret(v) == v = "published"
LongEnough(v) == v \in {"published", "dev", "strong"}
truthy(raw) == raw = "truthy"
Absolute(url) == url = "right"

-----------------------------------------------------------------------------
\* The rules of LoadFrom, each as the set of keys it complains about.

Bad(key, cond) == IF cond THEN {key} ELSE {}

production(env) == env["VIZRA_MODE"] = "production"

EnumProblems(env) ==
    Bad("VIZRA_MODE", env["VIZRA_MODE"] \notin {"development", "production"})
    \union Bad("VIZRA_SEARCH_MODE", env["VIZRA_SEARCH_MODE"] \notin {"off", "managed", "external"})
    \union Bad("VIZRA_OWNER_CLAIM_ANNOUNCE", env["VIZRA_OWNER_CLAIM_ANNOUNCE"] \notin {"off", "stderr"})

DurationProblems(env) == {k \in Durations : env[k] <= 0}

\* JobTimeout is compared with JobLease only when both parsed.
JobProblems(env) ==
    LET lease == env["VIZRA_JOB_LEASE"]  timeout == env["VIZRA_JOB_TIMEOUT"] IN
    Bad("VIZRA_WORKER_CONCURRENCY", env["VIZRA_WORKER_CONCURRENCY"] < 1)
    \union Bad("VIZRA_JOB_TIMEOUT", lease > 0 /\ timeout > 0 /\ timeout <= lease)

NameProblems(env) == {k \in Names : env[k] = ""}

\* strings.TrimRight(.., "/") comes first.
TrimmedOrigin(env) ==
    LET o == env["VIZRA_PUBLIC_ORIGIN"] IN [o EXCEPT !.path = IF @ = "/" THEN "" ELSE @]

OriginProblems(env) ==
    LET o == TrimmedOrigin(env) IN
    Bad("VIZRA_PUBLIC_ORIGIN",
        \/ o = NoOrigin
        \/ ~Web(o)
        \/ o.path # ""
        \/ production(env) /\ o.scheme = "http" /\ ~truthy(env["VIZRA_ALLOW_INSECURE_PUBLIC_ORIGIN"])
        \/ NormalizeOrigin(o) = NoOrigin)

URLProblems(env) == {k \in {"DATABASE_URL", "VIZRA_CACHE_URL"} : ~Absolute(env[k])}

SearchProblems(env) ==
    IF env["VIZRA_SEARCH_MODE"] = "off" THEN {}
    ELSE Bad("VIZRA_SEARCH_URL", ~Absolute(env["VIZRA_SEARCH_URL"]))
         \union Bad("SEARCH_HMAC_KEY",
                    \/ ~LongEnough(env["SEARCH_HMAC_KEY"])
                    \/ /\ production(env)
                       /\ \/ isPublishedSecret(env["SEARCH_HMAC_KEY"])
                          \/ looksLikeDevSecret(env["SEARCH_HMAC_KEY"]))

SecretProblems(env) ==
    {k \in ProductionSecrets :
        LET v == env[k] IN
        v = "" \/ isPublishedSecret(v) \/ ~LongEnough(v) \/ looksLikeDevSecret(v)}

CorsProblems(env) ==
    Bad("VIZRA_CORS_ALLOWED_ORIGINS",
        \E o \in env["VIZRA_CORS_ALLOWED_ORIGINS"] :
           \/ o \in {"*", "relative"}
           \/ o = "http" /\ ~truthy(env["VIZRA_ALLOW_INSECURE_PUBLIC_ORIGIN"]))

\* Presence refuses a retired key and a value-bearing hatch; only truth a switch.
LeftoverProblems(env) ==
    {k \in RetiredKeys \union ValueHatches : env[k] \notin {"absent", "empty"}}
    \union {k \in Switches : truthy(env[k])}

Problems(env) ==
    EnumProblems(env) \union DurationProblems(env) \union JobProblems(env)
    \union NameProblems(env) \union OriginProblems(env) \union URLProblems(env)
    \union SearchProblems(env)
    \union IF production(env)
           THEN SecretProblems(env) \union CorsProblems(env) \union LeftoverProblems(env)
           ELSE {}

\* LoadFrom: a configuration, or every problem at once.
Accepted(env) == Problems(env) = {}

\* What an accepted configuration stores.
PublicOrigin(env) == NormalizeOrigin(TrimmedOrigin(env))
=============================================================================
