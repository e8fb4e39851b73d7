--------------------------- MODULE OperatorProofs ---------------------------
(***************************************************************************)
(* Proofs about Operator and the modules it is made of, for any number of  *)
(* migrate processes of any releases, any sites, and any environment and   *)
(* machine.                                                                *)
(***************************************************************************)
EXTENDS Operator, FiniteSetTheorems, TLAPS

-----------------------------------------------------------------------------
\* Origins.

\* What NormalizeOrigin makes of an origin that has a normal form.
Normal(scheme, host, port) ==
    [ scheme |-> scheme, host |-> host, upper |-> FALSE, dot |-> FALSE,
      port |-> port, path |-> "", extra |-> FALSE ]
Elided(o) == IF o.port = DefaultPort(o.scheme) THEN "" ELSE o.port
HasNormal(o) == Web(o) /\ o.path \in {"", "/"} /\ ~o.extra /\ o.host # "unicode"

LEMMA NormalFields ==
    ASSUME NEW s, NEW h, NEW p
    PROVE  /\ Normal(s, h, p).scheme = s /\ Normal(s, h, p).host = h /\ Normal(s, h, p).port = p
           /\ ~Normal(s, h, p).extra
BY Zenon DEF Normal

LEMMA NormalPath ==
    ASSUME NEW s, NEW h, NEW p
    PROVE  Normal(s, h, p).path = ""
BY Zenon DEF Normal

LEMMA NormalType ==
    ASSUME NEW s \in Schemes, NEW h \in Hosts, NEW p \in Ports
    PROVE  Normal(s, h, p) \in Origins
BY Zenon DEF Normal, Origins

\* The brackets of a literal come back.
LEMMA BracketsStay == ASSUME NEW h \in Hosts PROVE Bracketed(Hostname(h)) = h
<1>1. CASE h \in Literals  BY <1>1 DEF Literals, Bracketed, Hostname
<1>2. CASE h \notin Literals
  <2>1. Hostname(h) = h  BY <1>2 DEF Literals, Hostname
  <2>2. h # "::1" /\ h # "0::1"  BY DEF Hosts, Literals
  <2>3. QED  BY <2>1, <2>2 DEF Bracketed
<1>3. QED  BY <1>1, <1>2

\* NormalizeOrigin lowers, drops the dot and elides the default port, or has no
\* answer.
LEMMA Normalized ==
    ASSUME NEW o \in Origins
    PROVE  NormalizeOrigin(o) = IF HasNormal(o) THEN Normal(o.scheme, o.host, Elided(o)) ELSE NoOrigin
<1>1. CASE HasNormal(o)
  <2>1. o.extra = FALSE  BY <1>1 DEF Origins, HasNormal
  <2>2. PICK port : port = Elided(o)  BY Zenon
  <2>3. NormalizeOrigin(o) = [o EXCEPT !.host = o.host, !.upper = FALSE, !.dot = FALSE, !.path = "", !.port = port]
    BY <1>1, <2>2, BracketsStay DEF Origins, NormalizeOrigin, Elided, HasNormal
  <2>4. NormalizeOrigin(o) = Normal(o.scheme, o.host, port)
    BY <2>1, <2>3 DEF Origins, Normal
  <2>5. QED  BY <1>1, <2>2, <2>4, Zenon
<1>2. CASE ~HasNormal(o)
  BY <1>2 DEF NormalizeOrigin, HasNormal
<1>3. QED  BY <1>1, <1>2, Zenon

\* A normal form is not NoOrigin, and it is its own normal form: the configured
\* origin, stored in normal form, means the same when checkOrigin normalises it
\* again.
LEMMA NormalizeTwice ==
    ASSUME NEW o \in Origins, HasNormal(o)
    PROVE  /\ NormalizeOrigin(NormalizeOrigin(o)) = NormalizeOrigin(o)
           /\ NormalizeOrigin(o) # NoOrigin /\ NormalizeOrigin(o) \in Origins
<1>1. PICK n : n = Normal(o.scheme, o.host, Elided(o))  BY Zenon
<1>2. n.scheme = o.scheme /\ n.host = o.host /\ n.port = Elided(o) /\ ~n.extra
  BY <1>1, NormalFields
<1>2a. n.path = ""  BY <1>1, NormalPath, Zenon
<1>3. /\ o.scheme \in {"http", "https"} /\ o.host \in Hosts
      /\ o.host # "" /\ o.host # "unicode" /\ o.port \in Ports
  BY DEF HasNormal, Web, Origins
<1>4. Elided(o) \in Ports /\ Elided(o) # DefaultPort(o.scheme)
  BY <1>3 DEF Elided, Ports, DefaultPort
<1>5. n \in Origins  BY <1>1, <1>3, <1>4, NormalType DEF Schemes
<1>6. HasNormal(n)  BY <1>2, <1>2a, <1>3 DEF HasNormal, Web
<1>7. Elided(n) = Elided(o)  BY <1>2, <1>4 DEF Elided
<1>8. NormalizeOrigin(n) = n  BY <1>1, <1>2, <1>5, <1>6, <1>7, Normalized, Zenon
<1>9. n # NoOrigin
  <2>1. NoOrigin.host = ""  BY Zenon DEF NoOrigin
  <2>2. QED  BY <1>2, <1>3, <2>1, Zenon
<1>10. NormalizeOrigin(o) = n  BY <1>1, Normalized, Zenon
<1>11. QED  BY <1>5, <1>8, <1>9, <1>10, Zenon

\* A configuration that is accepted has an origin with a normal form, and that is
\* what it stores.
LEMMA AcceptedOrigin ==
    ASSUME NEW e, e["VIZRA_PUBLIC_ORIGIN"] \in Origins \union {NoOrigin}, Accepted(e)
    PROVE  \E t \in Origins :
             /\ HasNormal(t) /\ PublicOrigin(e) = NormalizeOrigin(t)
             /\ t.scheme = e["VIZRA_PUBLIC_ORIGIN"].scheme
             /\ t.host = e["VIZRA_PUBLIC_ORIGIN"].host
             /\ t.port = e["VIZRA_PUBLIC_ORIGIN"].port
<1>1. OriginProblems(e) = {}  BY Zenon DEF Accepted, Problems
<1>2. PICK o : o = e["VIZRA_PUBLIC_ORIGIN"]  BY Zenon
<1>3. PICK t : t = TrimmedOrigin(e)  BY Zenon
<1>4. Web(t) /\ NormalizeOrigin(t) # NoOrigin
  BY <1>1, <1>3 DEF OriginProblems, Bad
<1>5. PICK path : path = (IF o.path = "/" THEN "" ELSE o.path)  OBVIOUS
<1>6. t = [o EXCEPT !.path = path]  BY <1>2, <1>3, <1>5 DEF TrimmedOrigin
<1>7. o \in Origins
  <2> SUFFICES ASSUME o = NoOrigin PROVE FALSE  BY <1>2, Zenon
  <2>1. o \in [ scheme : {""}, host : {""}, upper : BOOLEAN, dot : BOOLEAN, port : {""},
                path : {""}, extra : BOOLEAN ]
    BY Zenon DEF NoOrigin
  <2>2. t.host = ""  BY <1>6, <2>1
  <2>3. QED  BY <1>4, <2>2 DEF Web
<1>8. path \in {"", "/", "/x"}  BY <1>5, <1>7 DEF Origins
<1>9. t \in Origins /\ t.scheme = o.scheme /\ t.host = o.host /\ t.port = o.port
  BY <1>6, <1>7, <1>8 DEF Origins
<1>10. HasNormal(t)  BY <1>4, <1>9, Normalized, Zenon
<1>11. QED  BY <1>2, <1>3, <1>9, <1>10, Zenon DEF PublicOrigin

\* What a browser sends has a normal form, with its own port.
LEMMA BrowserForm ==
    ASSUME NEW h \in BrowserOrigins
    PROVE  /\ h \in Origins /\ HasNormal(h) /\ Elided(h) = h.port
           /\ h.port # DefaultPort(h.scheme) /\ h.port # "0443"
           /\ Address(h.host) = h.host /\ h # NoOrigin
<1>1. /\ h \in Origins /\ h.scheme # "ftp" /\ h.host \in {"a", "b", "[::1]"} /\ h.path = "" /\ ~h.extra
      /\ h.port # DefaultPort(h.scheme) /\ h.port # "0443"
  BY DEF BrowserOrigins
<1>2. h.scheme \in {"http", "https"}  BY <1>1 DEF Origins, Schemes
<1>3. HasNormal(h) /\ Elided(h) = h.port  BY <1>1, <1>2 DEF HasNormal, Web, Elided
<1>4. h # NoOrigin
  <2>1. NoOrigin.host = ""  BY Zenon DEF NoOrigin
  <2>2. QED  BY <1>1, <2>1
<1>5. Address(h.host) = h.host  BY <1>1 DEF Address
<1>6. QED  BY <1>1, <1>3, <1>4, <1>5

\* Ports that compare equal are one port; the converse needs the one spelling.
PortElided(s, p) == IF p = DefaultPort(s) THEN "" ELSE p
PortOf(s, p) == IF p = "" THEN DefaultPort(s) ELSE PortNumber(p)

LEMMA PortsAgree ==
    ASSUME NEW s \in {"http", "https"}, NEW p \in Ports, NEW h \in Ports,
           h # DefaultPort(s), h # "0443"
    PROVE  /\ h = PortElided(s, p) => PortOf(s, p) = PortOf(s, h)
           /\ PortOf(s, p) = PortOf(s, h) /\ PortNumber(p) = p => h = PortElided(s, p)
BY DEF Ports, DefaultPort, PortNumber, PortElided, PortOf

LEMMA OriginsMatch ==
    ASSUME env["VIZRA_PUBLIC_ORIGIN"] \in Origins \union {NoOrigin}
    PROVE  OriginsMatchBySite
<1>1. PICK o : o = env["VIZRA_PUBLIC_ORIGIN"]  BY Zenon
<1> DEFINE Taken(h) == checkOrigin(PublicOrigin(env), h, "same-origin")
           Plainly == Address(o.host) = o.host /\ PortNumber(o.port) = o.port
<1>2. ASSUME Accepted(env), NEW h \in BrowserOrigins
      PROVE  /\ Taken(h) => SameOrigin(o, h)
             /\ SameOrigin(o, h) /\ Plainly => Taken(h)
  <2>1. PICK t \in Origins :
          /\ HasNormal(t) /\ PublicOrigin(env) = NormalizeOrigin(t)
          /\ t.scheme = o.scheme /\ t.host = o.host /\ t.port = o.port
    BY <1>1, <1>2, AcceptedOrigin, Zenon
  <2>2. PICK w : w = Normal(t.scheme, t.host, Elided(t))  BY Zenon
  <2>3. w = PublicOrigin(env) /\ NormalizeOrigin(w) = w /\ w # NoOrigin
    BY <2>1, <2>2, Normalized, NormalizeTwice, Zenon
  <2>4. PICK g : g = Normal(h.scheme, h.host, h.port)  BY Zenon
  <2>5. /\ h \in Origins /\ HasNormal(h) /\ Elided(h) = h.port /\ h # NoOrigin
        /\ h.port # DefaultPort(h.scheme) /\ h.port # "0443" /\ Address(h.host) = h.host
    BY BrowserForm, Zenon
  <2>6. g = NormalizeOrigin(h) /\ g # NoOrigin
    BY <2>4, <2>5, Normalized, NormalizeTwice, Zenon
  <2>7. Taken(h) <=> g = w
    BY <2>3, <2>5, <2>6, Zenon DEF checkOrigin
  <2>8. g = w <=> h.scheme = t.scheme /\ h.host = t.host /\ h.port = Elided(t)
    <3>1. g.scheme = h.scheme /\ g.host = h.host /\ g.port = h.port  BY <2>4, NormalFields
    <3>2. w.scheme = t.scheme /\ w.host = t.host /\ w.port = Elided(t)  BY <2>2, NormalFields
    <3>3. QED  BY <2>2, <2>4, <3>1, <3>2, Zenon
  <2>9. t.scheme \in {"http", "https"} /\ t.port \in Ports /\ h.port \in Ports
    BY <2>1, <2>5 DEF HasNormal, Web, Origins
  <2>10. h.scheme = t.scheme =>
           /\ h.port = Elided(t) => EffectivePort(t) = EffectivePort(h)
           /\ EffectivePort(t) = EffectivePort(h) /\ PortNumber(t.port) = t.port => h.port = Elided(t)
    <3> SUFFICES ASSUME h.scheme = t.scheme
                 PROVE  /\ h.port = Elided(t) => EffectivePort(t) = EffectivePort(h)
                        /\ EffectivePort(t) = EffectivePort(h) /\ PortNumber(t.port) = t.port
                              => h.port = Elided(t)
      BY Zenon
    <3>1. h.port # DefaultPort(t.scheme) /\ h.port # "0443"  BY <2>5, Zenon
    <3>2. Elided(t) = PortElided(t.scheme, t.port)  BY Zenon DEF Elided, PortElided
    <3>3. EffectivePort(t) = PortOf(t.scheme, t.port)  BY Zenon DEF EffectivePort, PortOf
    <3>4. EffectivePort(h) = PortOf(t.scheme, h.port)  BY Zenon DEF EffectivePort, PortOf
    <3>5. /\ h.port = PortElided(t.scheme, t.port) => PortOf(t.scheme, t.port) = PortOf(t.scheme, h.port)
          /\ PortOf(t.scheme, t.port) = PortOf(t.scheme, h.port) /\ PortNumber(t.port) = t.port
                => h.port = PortElided(t.scheme, t.port)
      BY <2>9, <3>1, PortsAgree
    <3>6. QED  BY <3>2, <3>3, <3>4, <3>5, Zenon
  <2>11. EffectivePort(t) = EffectivePort(o)  BY <2>1, Zenon DEF EffectivePort
  <2>12. QED  BY <2>1, <2>5, <2>7, <2>8, <2>10, <2>11, Zenon DEF SameOrigin
<1>3. QED  BY <1>1, <1>2, Zenon DEF OriginsMatchBySite

\* OriginsMatchBySite: whatever accepted VIZRA_PUBLIC_ORIGIN the process was
\* started with, checkOrigin takes nothing but what the browser sends for its own
\* pages, and takes that if address and port are written as browsers write them.
THEOREM OriginsAreMatchedBySite == Spec => []OriginsMatchBySite
<1>1. Init => situation \in Situations  BY Zenon DEF Init
<1>2. situation \in Situations /\ [Next]_operatorVars => (situation \in Situations)'
  BY Zenon DEF Next, operatorVars, DatabaseFlips, runMigrate, MigrateDies, runDoctor, DoctorConfig,
         DoctorPing, DoctorSchema, DoctorOwner, DoctorRest, Report, Add
<1>3. situation \in Situations => OriginsMatchBySite
  BY SituationsAssumption, OriginsMatch DEF env
<1>4. QED  BY <1>1, <1>2, <1>3, PTL DEF Spec
-----------------------------------------------------------------------------
\* vizra migrate.

Working == {"open", "read", "up", "locked", "marked", "ran", "after"}
Phases == Working \union {"new", "exited", "dead"}
Process == [phase : Phases, site : 0..Len(Sites), before : Int, exit : {-1, 0, 1}]
Outcome == [err : BOOLEAN, applied : BOOLEAN, version : Int]

\* The first n migrations, in order.
Upto(n) == [i \in 1..n |-> i]

\* What the ledger of a site says of the migrations that were applied to it.
Recorded(l, a) ==
    /\ l.version \in Int
    /\ \E n \in Nat :
          /\ a = Upto(n)
          /\ n = l.version \/ (l.dirty /\ n = l.version - 1) \/ (l.version = -1 /\ n = 0)

\* Where process r is: it holds the lock of its site while it writes there, and
\* what it has marked is the one migration after those applied.
Placed(r) ==
    LET m == runner[r]  l == ledger[At(r)]  n == Len(applied[At(r)]) IN
    /\ m \in Process
    /\ m.phase # "exited" => m.exit = -1
    /\ m.phase \in Working => m.site > 0
    /\ m.phase \in Working \ {"open"} => l.version >= 0
    /\ m.phase \in {"locked", "marked", "ran"} => lock[At(r)] = r
    /\ m.phase = "marked" => l.dirty /\ l.version = n + 1 /\ l.version <= Embedded(r)
    /\ m.phase = "ran" => l.dirty /\ l.version = n
    /\ m.phase = "after" => n >= Embedded(r)

\* What process r has collected: one result for each site it is done with, and
\* no error only for one that is migrated.
Collected(r) ==
    LET m == runner[r]  c == results[r] IN
    /\ c \in Seq(Outcome) /\ Len(c) <= Len(Sites)
    /\ m.phase \in Working => Len(c) = m.site - 1
    /\ m.phase = "new" => c = <<>>
    /\ \A i \in 1..Len(c) : ~c[i].err => Len(applied[Sites[i]]) >= Embedded(r)
    /\ m.exit = 0 /\ c # <<>> => Len(c) = Len(Sites) /\ \A i \in 1..Len(c) : ~c[i].err

MigrateInv ==
    /\ ledger \in [SiteSet -> [version : Int, dirty : BOOLEAN]]
    /\ applied \in [SiteSet -> Seq(Nat)]
    /\ lock \in [SiteSet -> Runners \union {NoRunner}]
    /\ runner \in [Runners -> Process]
    /\ results \in [Runners -> Seq(Outcome)]
    /\ \A s \in SiteSet : Recorded(ledger[s], applied[s])
    /\ \A r \in Runners : Placed(r) /\ Collected(r)

LEMMA SiteFacts == Len(Sites) \in Nat /\ Len(Sites) > 0
BY SitesAssumption

\* What the loop of ApplyAll visits is a site.
LEMMA SiteAt == ASSUME NEW i \in 1..Len(Sites) PROVE Sites[i] \in SiteSet
BY Zenon DEF SiteSet

LEMMA EmbeddedType == ASSUME NEW r \in Runners PROVE Embedded(r) \in Nat
<1>1. Files[r] \in Seq(Nat)  BY FilesAssumption
<1>2. QED  BY <1>1 DEF Embedded, EmbeddedVersion

\* The next migration in order extends the migrations in order.
LEMMA UptoFacts ==
    ASSUME NEW n \in Nat
    PROVE  /\ Upto(n) \in Seq(Nat) /\ Len(Upto(n)) = n
           /\ Append(Upto(n), n + 1) = Upto(n + 1)
<1>1. Upto(n) \in Seq(Nat) /\ Len(Upto(n)) = n  BY DEF Upto
<1>2. Append(Upto(n), n + 1) = Upto(n + 1)  BY <1>1 DEF Upto
<1>3. QED  BY <1>1, <1>2, Zenon

\* What MigrateInv says of one site.
LEMMA SiteRecorded ==
    ASSUME MigrateInv, NEW s \in SiteSet
    PROVE  /\ ledger[s] \in [version : Int, dirty : BOOLEAN] /\ ledger[s].version \in Int
           /\ Len(applied[s]) \in Nat /\ applied[s] = Upto(Len(applied[s]))
           /\ \/ Len(applied[s]) = ledger[s].version
              \/ ledger[s].dirty /\ Len(applied[s]) = ledger[s].version - 1
              \/ ledger[s].version = -1 /\ Len(applied[s]) = 0
<1>1. ledger[s] \in [version : Int, dirty : BOOLEAN] /\ Recorded(ledger[s], applied[s])
  BY Zenon DEF MigrateInv
<1>2. PICK n \in Nat :
        /\ applied[s] = Upto(n)
        /\ \/ n = ledger[s].version
           \/ ledger[s].dirty /\ n = ledger[s].version - 1
           \/ ledger[s].version = -1 /\ n = 0
  BY <1>1, Zenon DEF Recorded
<1>3. Len(applied[s]) = n  BY <1>2, UptoFacts, Zenon
<1>4. ledger[s].version \in Int  BY <1>1, Zenon
<1>5. QED  BY <1>1, <1>2, <1>3, <1>4, Zenon

\* Where a working process is.
LEMMA AtSite ==
    ASSUME MigrateInv, NEW r \in Runners, runner[r].phase \in Working
    PROVE  /\ runner[r] \in Process /\ runner[r].site \in 1..Len(Sites) /\ At(r) \in SiteSet
           /\ runner[r].exit = -1
           /\ results[r] \in Seq(Outcome) /\ Len(results[r]) = runner[r].site - 1
<1>1. Placed(r) /\ Collected(r)  BY Zenon DEF MigrateInv
<1>2. runner[r] \in Process /\ runner[r].site > 0 /\ runner[r].exit = -1  BY <1>1, Zenon DEF Placed, Working
<1>3. runner[r].site \in 1..Len(Sites)  BY <1>2, SiteFacts DEF Process
<1>4. At(r) \in SiteSet  BY <1>3, SiteAt, Zenon DEF At
<1>5. QED  BY <1>1, <1>2, <1>3, <1>4, Zenon DEF Collected

\* What a step does to the sites when others look on: no migration is undone, no
\* ledger goes away, and a site somebody else has locked is left alone.
Careful(r) ==
    \A s \in SiteSet :
       /\ Len(applied'[s]) \in Nat /\ Len(applied'[s]) >= Len(applied[s])
       /\ ledger[s].version >= 0 => ledger'[s].version >= 0
       /\ \A p \in Runners \ {r} : lock[s] = p =>
             lock'[s] = p /\ ledger'[s] = ledger[s] /\ applied'[s] = applied[s]

\* What a careful step of r leaves to the others.
LEMMA Bystander ==
    ASSUME MigrateInv, NEW r \in Runners, NEW p \in Runners, p # r, Careful(r),
           runner'[p] = runner[p], results'[p] = results[p]
    PROVE  Placed(p)' /\ Collected(p)'
<1>1. Placed(p) /\ Collected(p)  BY Zenon DEF MigrateInv
<1>2. ASSUME runner[p].phase \in Working PROVE Placed(p)'
  <2>1. PICK s \in SiteSet : s = At(p)  BY <1>2, AtSite, Zenon
  <2>2. At(p)' = s  BY <2>1, Zenon DEF At
  <2>3. /\ Len(applied[s]) \in Nat /\ Len(applied'[s]) \in Nat /\ Len(applied'[s]) >= Len(applied[s])
        /\ ledger[s].version >= 0 => ledger'[s].version >= 0
        /\ lock[s] = p => lock'[s] = p /\ ledger'[s] = ledger[s] /\ applied'[s] = applied[s]
    BY SiteRecorded, Zenon DEF Careful
  <2>4. Embedded(p) \in Nat  BY EmbeddedType, Zenon
  <2>5. runner[p].phase = "after" => Len(applied'[s]) >= Embedded(p)
    BY <1>1, <2>1, <2>3, <2>4 DEF Placed
  <2>6. QED  BY <1>1, <2>1, <2>2, <2>3, <2>5, Zenon DEF Placed
<1>3. ASSUME runner[p].phase \notin Working PROVE Placed(p)'
  BY <1>1, <1>3, Zenon DEF Placed, Working
<1>4. Collected(p)'
  <2>1. \A i \in 1..Len(results[p]) : ~results[p][i].err => Len(applied'[Sites[i]]) >= Embedded(p)
    <3> SUFFICES ASSUME NEW i \in 1..Len(results[p]), ~results[p][i].err
                 PROVE  Len(applied'[Sites[i]]) >= Embedded(p)
      BY Zenon
    <3>1. Len(results[p]) \in Nat /\ Len(results[p]) <= Len(Sites)  BY <1>1 DEF Collected
    <3>1a. i \in 1..Len(Sites)  BY <3>1, SiteFacts
    <3>2. PICK s \in SiteSet : s = Sites[i]  BY <3>1a, SiteAt, Zenon
    <3>3. Len(applied[s]) \in Nat /\ Len(applied'[s]) \in Nat /\ Len(applied'[s]) >= Len(applied[s])
      BY SiteRecorded, Zenon DEF Careful
    <3>4. Len(applied[s]) >= Embedded(p)  BY <1>1, <3>2, Zenon DEF Collected
    <3>5. QED  BY <3>2, <3>3, <3>4, EmbeddedType
  <2>2. QED  BY <1>1, <2>1, Zenon DEF Collected
<1>5. QED  BY <1>2, <1>3, <1>4, Zenon

\* The types of what the processes share, and what the ledgers say.
SitesType ==
    /\ ledger \in [SiteSet -> [version : Int, dirty : BOOLEAN]]
    /\ applied \in [SiteSet -> Seq(Nat)]
    /\ lock \in [SiteSet -> Runners \union {NoRunner}]
    /\ \A s \in SiteSet : Recorded(ledger[s], applied[s])

\* A step of one process keeps MigrateInv if it is careful and ends well for it.
LEMMA OneProcess ==
    ASSUME MigrateInv, NEW r \in Runners, Careful(r), SitesType',
           NEW m \in Process, runner' = [runner EXCEPT ![r] = m],
           NEW c \in Seq(Outcome), results' = [results EXCEPT ![r] = c],
           Placed(r)', Collected(r)'
    PROVE  MigrateInv'
<1>1. /\ runner' \in [Runners -> Process] /\ results' \in [Runners -> Seq(Outcome)]
      /\ \A p \in Runners : p # r => runner'[p] = runner[p] /\ results'[p] = results[p]
  BY Zenon DEF MigrateInv
<1>2. \A p \in Runners : p # r => Placed(p)' /\ Collected(p)'  BY <1>1, Bystander, Zenon
<1>3. \A p \in Runners : Placed(p)' /\ Collected(p)'  BY <1>2, Zenon
<1>4. QED  BY <1>1, <1>3, Zenon DEF MigrateInv, SitesType

\* While it stays at its site, a process collects nothing.
LEMMA StaysAtSite ==
    ASSUME MigrateInv, NEW r \in Runners, runner[r].phase \in Working, Careful(r), SitesType',
           NEW m \in Process, runner' = [runner EXCEPT ![r] = m], UNCHANGED results,
           m.site = runner[r].site, m.phase \in Working \/ m.phase = "dead", m.exit = -1,
           Placed(r)'
    PROVE  MigrateInv'
<1>1. Collected(r) /\ results \in [Runners -> Seq(Outcome)] /\ runner'[r] = m  BY Zenon DEF MigrateInv
<1>2. PICK c \in Seq(Outcome) : c = results[r]  BY <1>1, Zenon
<1>3. results' = [results EXCEPT ![r] = c]  BY <1>1, <1>2, Zenon
<1>4. /\ results'[r] = c /\ Len(c) \in Nat /\ Len(c) <= Len(Sites) /\ Len(c) = m.site - 1
  BY <1>1, <1>2 DEF Collected
<1>5. \A i \in 1..Len(c) : ~c[i].err => Len(applied'[Sites[i]]) >= Embedded(r)
  <2> SUFFICES ASSUME NEW i \in 1..Len(c), ~c[i].err
               PROVE  Len(applied'[Sites[i]]) >= Embedded(r)
    BY Zenon
  <2>0. i \in 1..Len(Sites)  BY <1>4, SiteFacts
  <2>1. PICK s \in SiteSet : s = Sites[i]  BY <2>0, SiteAt, Zenon
  <2>2. Len(applied[s]) \in Nat /\ Len(applied'[s]) \in Nat /\ Len(applied'[s]) >= Len(applied[s])
    BY SiteRecorded, Zenon DEF Careful
  <2>3. Len(applied[s]) >= Embedded(r)  BY <1>1, <1>2, <2>1, Zenon DEF Collected
  <2>4. QED  BY <2>1, <2>2, <2>3, EmbeddedType
<1>6. Collected(r)'  BY <1>1, <1>2, <1>4, <1>5 DEF Collected, Working
<1>7. QED  BY <1>2, <1>3, <1>6, OneProcess, Zenon

\* Giving back the lock of r leaves every other lock where it is.
LEMMA UnlockedFacts ==
    ASSUME MigrateInv, NEW r \in Runners
    PROVE  /\ Unlocked(r) \in [SiteSet -> Runners \union {NoRunner}]
           /\ \A s \in SiteSet, p \in Runners \ {r} : lock[s] = p => Unlocked(r)[s] = p
BY Zenon DEF MigrateInv, Unlocked

LEMMA SitesKept ==
    ASSUME MigrateInv, NEW r \in Runners, UNCHANGED <<ledger, applied>>,
           lock' = Unlocked(r) \/ lock' = lock
    PROVE  Careful(r) /\ SitesType'
<1>1. /\ lock' \in [SiteSet -> Runners \union {NoRunner}]
      /\ \A s \in SiteSet, p \in Runners \ {r} : lock[s] = p => lock'[s] = p
  BY UnlockedFacts DEF MigrateInv
<1>2. SitesType'  BY <1>1, Zenon DEF MigrateInv, SitesType
<1>3. Careful(r)  BY <1>1, SiteRecorded DEF Careful
<1>4. QED  BY <1>2, <1>3, Zenon

\* A site that ends, without an error only when it is migrated.
LEMMA SiteDoneStep ==
    ASSUME MigrateInv, NEW r \in Runners, runner[r].phase \in Working,
           NEW err \in BOOLEAN, NEW isApplied \in BOOLEAN, NEW version \in Int,
           SiteDone(r, err, isApplied, version), UNCHANGED <<ledger, applied>>,
           ~err => Len(applied[At(r)]) >= Embedded(r)
    PROVE  MigrateInv'
<1>1. /\ runner[r] \in Process /\ runner[r].site \in 1..Len(Sites) /\ results[r] \in Seq(Outcome)
      /\ Len(results[r]) = runner[r].site - 1 /\ Len(results[r]) \in Nat
  BY AtSite
<1>2. PICK x : x = [err |-> err, applied |-> isApplied, version |-> version]  BY Zenon
<1>3. x \in Outcome /\ x.err = err  BY <1>2, Zenon DEF Outcome
<1>4. PICK c : c = Append(results[r], x)  BY Zenon
<1>5. /\ c \in Seq(Outcome) /\ Len(c) = runner[r].site /\ c # <<>>
      /\ \A i \in 1..Len(c) : c[i] = IF i = runner[r].site THEN x ELSE results[r][i]
  BY <1>1, <1>3, <1>4
<1>6. PICK phase, site, exit :
         /\ phase = IF runner[r].site = Len(Sites) THEN "exited" ELSE "open"
         /\ site = IF runner[r].site = Len(Sites) THEN runner[r].site ELSE runner[r].site + 1
         /\ exit = IF runner[r].site = Len(Sites) THEN ExitOf(r, c) ELSE -1
  BY Zenon
<1>7. PICK m : m = [phase |-> phase, site |-> site, before |-> 0, exit |-> exit]  BY Zenon
<1>8. m \in Process /\ m.phase = phase /\ m.site = site /\ m.exit = exit
  <2>1. ExitOf(r, c) \in {0, 1}  BY Zenon DEF ExitOf
  <2>2. phase \in {"exited", "open"}  BY <1>6, Zenon
  <2>2a. exit \in {-1, 0, 1}  BY <1>6, <2>1, Zenon
  <2>3. site \in 0..Len(Sites)  BY <1>1, <1>6, SiteFacts
  <2>4. phase \in Phases  BY <2>2, Zenon DEF Phases, Working
  <2>5. QED  BY <1>7, <2>2a, <2>3, <2>4 DEF Process
<1>9. runner' = [runner EXCEPT ![r] = m] /\ results' = [results EXCEPT ![r] = c] /\ lock' = Unlocked(r)
  BY <1>2, <1>4, <1>6, <1>7, Zenon DEF SiteDone
<1>10. runner'[r] = m /\ results'[r] = c  BY <1>9, Zenon DEF MigrateInv
<1>11. Careful(r) /\ SitesType'  BY <1>9, SitesKept, Zenon
<1>12. Placed(r)'
  <2>1. m.site > 0  BY <1>1, <1>6, <1>8, SiteFacts
  <2>2. m.phase \in {"exited", "open"} /\ (m.phase = "open" => m.exit = -1)  BY <1>6, <1>8, Zenon
  <2>3. QED  BY <1>8, <1>10, <2>1, <2>2, Zenon DEF Placed, Working
<1>13. Collected(r)'
  <2>1. Collected(r)  BY Zenon DEF MigrateInv
  <2>2. \A i \in 1..Len(c) : ~c[i].err => Len(applied[Sites[i]]) >= Embedded(r)
    <3> SUFFICES ASSUME NEW i \in 1..Len(c), ~c[i].err PROVE Len(applied[Sites[i]]) >= Embedded(r)
      BY Zenon
    <3>1. CASE i = runner[r].site
      <4>1. ~err /\ Sites[i] = At(r)  BY <1>3, <1>5, <3>1, Zenon DEF At
      <4>2. QED  BY <4>1, Zenon
    <3>2. CASE i # runner[r].site
      <4>1. c[i] = results[r][i] /\ i \in 1..Len(results[r])  BY <1>1, <1>5, <3>2
      <4>2. QED  BY <2>1, <4>1, Zenon DEF Collected
    <3>3. QED  BY <3>1, <3>2, Zenon
  <2>3. m.exit = 0 => Len(c) = Len(Sites) /\ \A i \in 1..Len(c) : ~c[i].err
    BY <1>5, <1>6, <1>8 DEF ExitOf
  <2>4. Len(c) <= Len(Sites) /\ (m.phase \in Working => Len(c) = m.site - 1) /\ m.phase # "new"
    BY <1>1, <1>5, <1>6, <1>8, SiteFacts DEF Working
  <2>5. QED  BY <1>5, <1>10, <2>2, <2>3, <2>4, Zenon DEF Collected
<1>14. QED  BY <1>5, <1>8, <1>9, <1>11, <1>12, <1>13, OneProcess, Zenon

-----------------------------------------------------------------------------
\* The step of a process, action by action.

LEMMA StartStep ==
    ASSUME MigrateInv, NEW r \in Runners, MigrateStarts(r) \/ DryRun(r) \/ MigrateRefused(r)
    PROVE  MigrateInv'
<1>1. /\ runner[r].phase = "new" /\ UNCHANGED <<ledger, applied, lock, results>>
      /\ Placed(r) /\ Collected(r) /\ runner[r] \in Process
  BY Zenon DEF MigrateInv, Placed, MigrateStarts, DryRun, MigrateRefused, In
<1>2. results[r] = <<>> /\ runner[r].exit = -1  BY <1>1, Zenon DEF Placed, Collected
<1>3. PICK m \in Process :
        /\ runner' = [runner EXCEPT ![r] = m]
        /\ m.phase = "exited" \/ (m.phase = "open" /\ m.site = 1 /\ m.exit = -1)
  <2>1. CASE MigrateStarts(r)
    <3>1. CASE Embedded(r) = 0
      <4>1. PICK m : m = [runner[r] EXCEPT !.phase = "exited", !.exit = 1]  BY Zenon
      <4>2. runner' = [runner EXCEPT ![r] = m]  BY <2>1, <3>1, <4>1, Zenon DEF MigrateStarts
      <4>3. m \in Process /\ m.phase = "exited"  BY <1>1, <4>1, Zenon DEF Process, Phases
      <4>4. QED  BY <4>2, <4>3, Zenon
    <3>2. CASE Embedded(r) # 0
      <4>1. PICK m : m = [runner[r] EXCEPT !.phase = "open", !.site = 1]  BY Zenon
      <4>2. runner' = [runner EXCEPT ![r] = m]  BY <2>1, <3>2, <4>1, Zenon DEF MigrateStarts
      <4>2a. 1 \in 0..Len(Sites)  BY SiteFacts
      <4>3. m \in Process /\ m.phase = "open" /\ m.site = 1 /\ m.exit = -1
        BY <1>1, <1>2, <4>1, <4>2a, Zenon DEF Process, Phases, Working
      <4>4. QED  BY <4>2, <4>3, Zenon
    <3>3. QED  BY <3>1, <3>2, Zenon
  <2>2. CASE DryRun(r) \/ MigrateRefused(r)
    <3>1. PICK exit \in {0, 1} :
             runner' = [runner EXCEPT ![r] = [runner[r] EXCEPT !.phase = "exited", !.exit = exit]]
      BY <2>2, Zenon DEF DryRun, MigrateRefused
    <3>2. PICK m : m = [runner[r] EXCEPT !.phase = "exited", !.exit = exit]  BY Zenon
    <3>3. m \in Process /\ m.phase = "exited"  BY <1>1, <3>2, Zenon DEF Process, Phases
    <3>4. QED  BY <3>1, <3>2, <3>3, Zenon
  <2>3. QED  BY <2>1, <2>2, Zenon
<1>4. runner'[r] = m /\ results'[r] = results[r]  BY <1>1, <1>3, Zenon DEF MigrateInv
<1>5. Careful(r) /\ SitesType'  BY <1>1, SitesKept, Zenon
<1>6. Placed(r)'  BY <1>3, <1>4 DEF Placed, Working
<1>7. Collected(r)'
  <2>1. Len(<<>>) = 0 /\ <<>> \in Seq(Outcome)  OBVIOUS
  <2>2. QED  BY <1>2, <1>3, <1>4, <2>1, SiteFacts DEF Collected, Working
<1>8. results' = [results EXCEPT ![r] = results[r]] /\ results[r] \in Seq(Outcome)
  BY <1>1, Zenon DEF MigrateInv
<1>9. QED  BY <1>3, <1>5, <1>6, <1>7, <1>8, OneProcess, Zenon

\* A site that ends in an error.
LEMMA FailedStep ==
    ASSUME MigrateInv, NEW r \in Runners, runner[r].phase \in Working, SiteFails(r),
           UNCHANGED <<ledger, applied>>
    PROVE  MigrateInv'
<1>1. runner[r].before \in Int  BY AtSite, Zenon DEF Process
<1>2. SiteDone(r, TRUE, FALSE, runner[r].before)  BY Zenon DEF SiteFails
<1>3. TRUE \in BOOLEAN /\ FALSE \in BOOLEAN  BY Zenon
<1>4. QED  BY <1>1, <1>2, <1>3, SiteDoneStep, Zenon

\* A move to another phase at the same site.
LEMMA Moved ==
    ASSUME MigrateInv, NEW r \in Runners, runner[r].phase \in Working,
           NEW phase \in Phases, Goto(r, phase)
    PROVE  \E m \in Process :
             /\ runner' = [runner EXCEPT ![r] = m] /\ runner'[r] = m
             /\ m.phase = phase /\ m.site = runner[r].site /\ m.exit = -1 /\ At(r)' = At(r)
<1>1. PICK m : m = [runner[r] EXCEPT !.phase = phase]  BY Zenon
<1>2. runner[r] \in Process /\ runner[r].exit = -1  BY AtSite, Zenon
<1>3. m \in Process /\ m.phase = phase /\ m.site = runner[r].site /\ m.exit = -1
  BY <1>1, <1>2, Zenon DEF Process
<1>4. runner' = [runner EXCEPT ![r] = m]  BY <1>1, Zenon DEF Goto
<1>5. runner'[r] = m  BY <1>4, Zenon DEF MigrateInv
<1>6. At(r)' = At(r)  BY <1>3, <1>5, Zenon DEF At
<1>7. QED  BY <1>3, <1>4, <1>5, <1>6, Zenon

\* Opening creates the ledger of a site that has none, under nobody's lock.
LEMMA NewMigratorStep ==
    ASSUME MigrateInv, NEW r \in Runners, newMigrator(r)
    PROVE  MigrateInv'
<1>1. runner[r].phase = "open" /\ runner[r].phase \in Working  BY Zenon DEF newMigrator, In, Working
<1>2. PICK s \in SiteSet : s = At(r)  BY <1>1, AtSite, Zenon
<1>3. CASE SiteFails(r) /\ UNCHANGED ledger
  BY <1>1, <1>3, FailedStep, Zenon DEF newMigrator
<1>4. CASE /\ lock[s] = NoRunner /\ Goto(r, "read") /\ UNCHANGED <<lock, results>>
           /\ ledger' = [ledger EXCEPT ![s].version = IF @ = -1 THEN 0 ELSE @]
  <2>1. PICK m \in Process :
          /\ runner' = [runner EXCEPT ![r] = m] /\ runner'[r] = m
          /\ m.phase = "read" /\ m.site = runner[r].site /\ m.exit = -1 /\ At(r)' = At(r)
    <3>1. "read" \in Phases  BY Zenon DEF Phases, Working
    <3>2. QED  BY <1>1, <1>4, <3>1, Moved, Zenon
  <2>2. PICK v : v = IF ledger[s].version = -1 THEN 0 ELSE ledger[s].version  BY Zenon
  <2>3. PICK l : l = [ledger[s] EXCEPT !.version = v]  BY Zenon
  <2>4. ledger' = [ledger EXCEPT ![s] = l] /\ applied' = applied
    BY <1>4, <2>2, <2>3, Zenon DEF newMigrator
  <2>5. /\ ledger[s] \in [version : Int, dirty : BOOLEAN] /\ ledger[s].version \in Int
        /\ Len(applied[s]) \in Nat /\ applied[s] = Upto(Len(applied[s]))
        /\ \/ Len(applied[s]) = ledger[s].version
           \/ ledger[s].dirty /\ Len(applied[s]) = ledger[s].version - 1
           \/ ledger[s].version = -1 /\ Len(applied[s]) = 0
    BY SiteRecorded, Zenon
  <2>6. v \in Int /\ v >= 0
    BY <2>2, <2>5
  <2>7. l \in [version : Int, dirty : BOOLEAN] /\ l.version = v /\ l.dirty = ledger[s].dirty
    BY <2>3, <2>5, <2>6, Zenon
  <2>8. Len(applied[s]) = v \/ (l.dirty /\ Len(applied[s]) = v - 1)
    BY <2>2, <2>5, <2>7
  <2>9. Recorded(l, applied[s])  BY <2>5, <2>6, <2>7, <2>8, Zenon DEF Recorded
  <2>10. ledger \in [SiteSet -> [version : Int, dirty : BOOLEAN]]  BY Zenon DEF MigrateInv
  <2>11. /\ ledger' \in [SiteSet -> [version : Int, dirty : BOOLEAN]] /\ ledger'[s] = l
         /\ \A t \in SiteSet : t # s => ledger'[t] = ledger[t]
    BY <2>4, <2>7, <2>10, Zenon
  <2>12. SitesType'
    BY <1>4, <2>4, <2>9, <2>11, Zenon DEF SitesType, MigrateInv
  <2>13. Careful(r)
    <3> SUFFICES ASSUME NEW t \in SiteSet
                 PROVE  /\ Len(applied'[t]) \in Nat /\ Len(applied'[t]) >= Len(applied[t])
                        /\ ledger[t].version >= 0 => ledger'[t].version >= 0
                        /\ \A p \in Runners \ {r} : lock[t] = p =>
                              lock'[t] = p /\ ledger'[t] = ledger[t] /\ applied'[t] = applied[t]
      BY Zenon DEF Careful
    <3>1. Len(applied'[t]) \in Nat /\ Len(applied'[t]) >= Len(applied[t])
      BY <2>4, SiteRecorded
    <3>2. ledger[t].version >= 0 => ledger'[t].version >= 0
      BY <2>6, <2>7, <2>11, Zenon
    <3>3. QED  BY <1>4, <2>4, <2>11, <3>1, <3>2, RunnerAssumption, Zenon
  <2>14. Placed(r)'
    <3>1. m.site > 0  BY <1>1, <2>1, AtSite
    <3>2. QED  BY <1>2, <2>1, <2>6, <2>7, <2>11, <3>1, Zenon DEF Placed
  <2>15. "read" \in Working  BY Zenon DEF Working
  <2>16. QED  BY <1>1, <1>4, <2>1, <2>12, <2>13, <2>14, <2>15, StaysAtSite, Zenon
<1>5. QED  BY <1>2, <1>3, <1>4, Zenon DEF newMigrator

LEMMA ReadLedgerStep ==
    ASSUME MigrateInv, NEW r \in Runners, ReadLedger(r)
    PROVE  MigrateInv'
<1>1. /\ runner[r].phase = "read" /\ runner[r].phase \in Working /\ UNCHANGED <<ledger, applied>>
  BY Zenon DEF ReadLedger, In, Working
<1>2. At(r) \in SiteSet /\ runner[r] \in Process /\ runner[r].site > 0 /\ runner[r].exit = -1
  BY <1>1, AtSite
<1>3. PICK v \in Int : v = ledger[At(r)].version  BY <1>2, SiteRecorded, Zenon
<1>4. CASE SiteDone(r, TRUE, FALSE, v)
  <2>1. TRUE \in BOOLEAN /\ FALSE \in BOOLEAN  BY Zenon
  <2>2. QED  BY <1>1, <1>4, <2>1, SiteDoneStep, Zenon
<1>5. CASE /\ UNCHANGED <<lock, results>>
           /\ runner' = [runner EXCEPT ![r].phase = "up", ![r].before = v]
  <2>1. PICK m : m = [runner[r] EXCEPT !.phase = "up", !.before = v]  BY Zenon
  <2>2. runner' = [runner EXCEPT ![r] = m]  BY <1>5, <2>1, Zenon DEF MigrateInv
  <2>3. m \in Process /\ m.phase = "up" /\ m.site = runner[r].site /\ m.exit = -1
    BY <1>2, <2>1, Zenon DEF Process, Phases, Working
  <2>4. runner'[r] = m  BY <2>2, Zenon DEF MigrateInv
  <2>5. Careful(r) /\ SitesType'  BY <1>1, <1>5, SitesKept, Zenon
  <2>6. Placed(r)'
    <3>1. ledger[At(r)].version >= 0  BY <1>1, Zenon DEF MigrateInv, Placed
    <3>2. At(r)' = At(r)  BY <2>3, <2>4, Zenon DEF At
    <3>3. QED  BY <1>1, <1>2, <2>3, <2>4, <3>1, <3>2, Zenon DEF Placed
  <2>7. "up" \in Working  BY Zenon DEF Working
  <2>8. QED  BY <1>1, <1>5, <2>2, <2>3, <2>5, <2>6, <2>7, StaysAtSite, Zenon
<1>6. QED  BY <1>3, <1>4, <1>5, Zenon DEF ReadLedger

\* The lock of the site was free, so nobody else is writing there.
LEMMA UpLocksStep ==
    ASSUME MigrateInv, NEW r \in Runners, UpLocks(r)
    PROVE  MigrateInv'
<1>1. /\ runner[r].phase = "up" /\ runner[r].phase \in Working
      /\ UNCHANGED <<ledger, applied, results>> /\ Goto(r, "locked")
  BY Zenon DEF UpLocks, In, Working
<1>2. PICK s \in SiteSet : s = At(r)  BY <1>1, AtSite, Zenon
<1>3. lock[s] = NoRunner /\ lock' = [lock EXCEPT ![s] = r]  BY <1>2, Zenon DEF UpLocks
<1>4. PICK m \in Process :
        /\ runner' = [runner EXCEPT ![r] = m] /\ runner'[r] = m
        /\ m.phase = "locked" /\ m.site = runner[r].site /\ m.exit = -1 /\ At(r)' = At(r)
  <2>1. "locked" \in Phases  BY Zenon DEF Phases, Working
  <2>2. QED  BY <1>1, <2>1, Moved, Zenon
<1>5. lock \in [SiteSet -> Runners \union {NoRunner}]  BY Zenon DEF MigrateInv
<1>6. /\ lock' \in [SiteSet -> Runners \union {NoRunner}] /\ lock'[s] = r
      /\ \A t \in SiteSet : t # s => lock'[t] = lock[t]
  BY <1>3, <1>5, Zenon
<1>7. SitesType'  BY <1>1, <1>6, Zenon DEF SitesType, MigrateInv
<1>8. Careful(r)
  <2>1. \A t \in SiteSet : Len(applied'[t]) \in Nat /\ Len(applied'[t]) >= Len(applied[t])
    BY <1>1, SiteRecorded
  <2>2. QED  BY <1>1, <1>3, <1>6, <2>1, RunnerAssumption, Zenon DEF Careful
<1>9. Placed(r)'
  <2>1. runner[r].site > 0 /\ ledger[s].version >= 0  BY <1>1, <1>2, Zenon DEF MigrateInv, Placed
  <2>2. QED  BY <1>1, <1>2, <1>4, <1>6, <2>1, Zenon DEF Placed
<1>10. "locked" \in Working  BY Zenon DEF Working
<1>11. QED  BY <1>1, <1>4, <1>7, <1>8, <1>9, <1>10, StaysAtSite, Zenon

\* What holds of a site at the phases that write it.
Suits(r, phase, l, a) ==
    /\ phase \in {"locked", "marked", "ran", "after"}
    /\ phase = "marked" => l.dirty /\ l.version = Len(a) + 1 /\ l.version <= Embedded(r)
    /\ phase = "ran" => l.dirty /\ l.version = Len(a)
    /\ phase = "after" => Len(a) >= Embedded(r)

\* A step that writes l as the ledger and a as the migrations of the site r has
\* locked, and gives the lock back or not.
LEMMA WriteStep ==
    ASSUME MigrateInv, NEW r \in Runners, runner[r].phase \in {"locked", "marked", "ran"},
           NEW phase \in Working, Goto(r, phase), UNCHANGED results,
           NEW s, s = At(r),
           NEW l \in [version : Int, dirty : BOOLEAN], ledger' = [ledger EXCEPT ![s] = l],
           NEW a \in Seq(Nat), applied' = [applied EXCEPT ![s] = a],
           Recorded(l, a), l.version >= 0, Len(a) >= Len(applied[s]),
           lock' = lock \/ (lock' = Unlocked(r) /\ phase = "after"),
           Suits(r, phase, l, a)
    PROVE  MigrateInv'
<1>1. runner[r].phase \in Working  BY Zenon DEF Working
<1>2. s \in SiteSet /\ runner[r].site > 0
  BY <1>1, AtSite
<1>3. lock[s] = r  BY Zenon DEF MigrateInv, Placed
<1>4. PICK m \in Process :
        /\ runner' = [runner EXCEPT ![r] = m] /\ runner'[r] = m
        /\ m.phase = phase /\ m.site = runner[r].site /\ m.exit = -1 /\ At(r)' = At(r)
  <2>1. phase \in Phases  BY Zenon DEF Phases
  <2>2. QED  BY <1>1, <2>1, Moved, Zenon
<1>5. /\ ledger \in [SiteSet -> [version : Int, dirty : BOOLEAN]] /\ applied \in [SiteSet -> Seq(Nat)]
      /\ lock \in [SiteSet -> Runners \union {NoRunner}]
      /\ \A t \in SiteSet : Recorded(ledger[t], applied[t])
  BY Zenon DEF MigrateInv
<1>6. /\ ledger' \in [SiteSet -> [version : Int, dirty : BOOLEAN]] /\ ledger'[s] = l
      /\ applied' \in [SiteSet -> Seq(Nat)] /\ applied'[s] = a
      /\ \A t \in SiteSet : t # s => ledger'[t] = ledger[t] /\ applied'[t] = applied[t]
  BY <1>2, <1>5, Zenon
<1>7. /\ lock' \in [SiteSet -> Runners \union {NoRunner}]
      /\ \A t \in SiteSet, p \in Runners \ {r} : lock[t] = p => lock'[t] = p
  <2>1. CASE lock' = lock  BY <1>5, <2>1, Zenon
  <2>2. CASE lock' = Unlocked(r)  BY <2>2, UnlockedFacts, Zenon
  <2>3. QED  BY <2>1, <2>2, Zenon
<1>8. SitesType'  BY <1>5, <1>6, <1>7, Zenon DEF SitesType
<1>9. Careful(r)
  <2>1. \A t \in SiteSet : Len(applied'[t]) \in Nat /\ Len(applied'[t]) >= Len(applied[t])
    BY <1>6, SiteRecorded
  <2>2. QED  BY <1>3, <1>6, <1>7, <2>1, Zenon DEF Careful
<1>10. Placed(r)'
  <2>1. phase \in {"locked", "marked", "ran"} => lock'[s] = r  BY <1>3, Zenon
  <2>2. phase # "exited" /\ phase # "open"  BY Zenon DEF Suits
  <2>3. runner'[r] = m /\ At(r)' = s  BY <1>4, Zenon
  <2>4. m.site > 0 /\ m.exit = -1 /\ m.phase = phase  BY <1>2, <1>4, Zenon
  <2>5. /\ phase = "marked" => l.dirty /\ l.version = Len(a) + 1 /\ l.version <= Embedded(r)
        /\ phase = "ran" => l.dirty /\ l.version = Len(a)
        /\ phase = "after" => Len(a) >= Embedded(r)
    BY Zenon DEF Suits
  <2>6. ledger'[s] = l /\ applied'[s] = a  BY <1>6, Zenon
  <2>7. QED  BY <2>1, <2>3, <2>4, <2>5, <2>6, Zenon DEF Placed
<1>11. QED  BY <1>1, <1>4, <1>8, <1>9, <1>10, StaysAtSite, Zenon

\* Clean means every migration up to the version is applied; the one that is
\* marked is the next.
LEMMA UpBeginsStep ==
    ASSUME MigrateInv, NEW r \in Runners, UpBegins(r)
    PROVE  MigrateInv'
<1>1. runner[r].phase = "locked" /\ runner[r].phase \in Working /\ UNCHANGED applied
  BY Zenon DEF UpBegins, In, Working
<1>2. PICK s \in SiteSet : s = At(r)  BY <1>1, AtSite, Zenon
<1>3. /\ ledger[s] \in [version : Int, dirty : BOOLEAN] /\ ledger[s].version \in Int
      /\ Len(applied[s]) \in Nat /\ applied[s] = Upto(Len(applied[s]))
      /\ \/ Len(applied[s]) = ledger[s].version
         \/ ledger[s].dirty /\ Len(applied[s]) = ledger[s].version - 1
         \/ ledger[s].version = -1 /\ Len(applied[s]) = 0
  BY SiteRecorded, Zenon
<1>4. ledger[s].version >= 0 /\ Embedded(r) \in Nat
  BY <1>1, <1>2, EmbeddedType, Zenon DEF MigrateInv, Placed
<1>5. CASE SiteFails(r) /\ UNCHANGED ledger
  BY <1>1, <1>5, FailedStep, Zenon
<1>6. CASE /\ ~ledger[s].dirty /\ Pending(r) = Embedded(r) + 1 /\ UNCHANGED ledger
           /\ SiteDone(r, FALSE, FALSE, runner[r].before)
  <2>1. ledger[s].version = Embedded(r)
    <3>1. Pending(r) = ledger[s].version + 1  BY <1>2, Zenon DEF Pending
    <3>2. QED  BY <1>3, <1>4, <1>6, <3>1
  <2>2. Len(applied[At(r)]) >= Embedded(r)  BY <1>2, <1>3, <1>4, <1>6, <2>1
  <2>3. runner[r].before \in Int /\ FALSE \in BOOLEAN  BY <1>1, AtSite, Zenon DEF Process
  <2>4. QED  BY <1>1, <1>6, <2>2, <2>3, SiteDoneStep, Zenon
<1>7. CASE /\ ~ledger[s].dirty /\ Pending(r) <= Embedded(r) /\ UNCHANGED <<lock, results>>
           /\ ledger' = [ledger EXCEPT ![s] = [version |-> Pending(r), dirty |-> TRUE]]
           /\ Goto(r, "marked")
  <2>1. PICK v : v = ledger[s].version + 1  BY Zenon
  <2>2. Pending(r) = v  BY <1>2, <2>1, Zenon DEF Pending
  <2>3. PICK l : l = [version |-> v, dirty |-> TRUE]  BY Zenon
  <2>4. ledger' = [ledger EXCEPT ![s] = l]  BY <1>7, <2>2, <2>3, Zenon
  <2>5. l \in [version : Int, dirty : BOOLEAN] /\ l.version = v /\ l.dirty /\ v \in Int
    BY <1>3, <2>1, <2>3
  <2>6. Len(applied[s]) = v - 1 /\ v >= 0 /\ v = Len(applied[s]) + 1 /\ v <= Embedded(r)
    BY <1>3, <1>4, <1>7, <2>1, <2>2
  <2>7. PICK a \in Seq(Nat) : a = applied[s]  BY Zenon DEF MigrateInv
  <2>8. applied' = [applied EXCEPT ![s] = a]  BY <1>1, <2>7, Zenon DEF MigrateInv
  <2>9. Recorded(l, a)  BY <1>3, <2>5, <2>6, <2>7, Zenon DEF Recorded
  <2>10. Len(a) >= Len(applied[s])  BY <1>3, <2>7
  <2>11. "marked" \in Working  BY Zenon DEF Working
  <2>12. Suits(r, "marked", l, a)  BY <2>5, <2>6, <2>7, Zenon DEF Suits
  <2>13. l.version >= 0  BY <2>5, <2>6, Zenon
  <2>14. lock' = lock /\ UNCHANGED results /\ Goto(r, "marked")  BY <1>7, Zenon
  <2>15. runner[r].phase \in {"locked", "marked", "ran"} /\ l \in [version : Int, dirty : BOOLEAN]
    BY <1>1, <2>5, Zenon
  <2>16. QED
    BY <1>2, <2>4, <2>8, <2>9, <2>10, <2>11, <2>12, <2>13, <2>14, <2>15, WriteStep, Zenon
<1>8. QED  BY <1>2, <1>5, <1>6, <1>7, Zenon DEF UpBegins

\* The migration that was marked, by r under its lock, is applied.
LEMMA MigrationRunsStep ==
    ASSUME MigrateInv, NEW r \in Runners, MigrationRuns(r)
    PROVE  MigrateInv'
<1>1. /\ runner[r].phase = "marked" /\ runner[r].phase \in Working
      /\ UNCHANGED <<ledger, lock, results>> /\ Goto(r, "ran")
  BY Zenon DEF MigrationRuns, In, Working
<1>2. PICK s \in SiteSet : s = At(r)  BY <1>1, AtSite, Zenon
<1>3. /\ ledger[s] \in [version : Int, dirty : BOOLEAN] /\ ledger[s].version \in Int
      /\ Len(applied[s]) \in Nat /\ applied[s] = Upto(Len(applied[s]))
  BY SiteRecorded, Zenon
<1>4. ledger[s].dirty /\ ledger[s].version = Len(applied[s]) + 1 /\ ledger[s].version >= 0
  BY <1>1, <1>2, Zenon DEF MigrateInv, Placed
<1>5. PICK n \in Nat : n = Len(applied[s])  BY <1>3, Zenon
<1>6. PICK a : a = Append(applied[s], ledger[s].version)  BY Zenon
<1>7. a = Upto(n + 1) /\ n + 1 \in Nat /\ a \in Seq(Nat) /\ Len(a) = n + 1
  <2>1. a = Append(Upto(n), n + 1)  BY <1>3, <1>4, <1>5, <1>6, Zenon
  <2>2. n + 1 \in Nat  BY <1>5
  <2>3. QED  BY <2>1, <2>2, UptoFacts, Zenon
<1>8. applied' = [applied EXCEPT ![s] = a]  BY <1>2, <1>6, Zenon DEF MigrationRuns
<1>9. PICK l \in [version : Int, dirty : BOOLEAN] : l = ledger[s]  BY <1>3, Zenon
<1>10. ledger' = [ledger EXCEPT ![s] = l]  BY <1>1, <1>9, Zenon DEF MigrateInv
<1>11. l.version = n + 1 /\ l.dirty /\ l.version >= 0 /\ l.version \in Int
  BY <1>3, <1>4, <1>5, <1>9, Zenon
<1>12. Recorded(l, a)  BY <1>7, <1>11, Zenon DEF Recorded
<1>13. Len(a) >= Len(applied[s])  BY <1>5, <1>7
<1>14. "ran" \in Working  BY Zenon DEF Working
<1>15. Suits(r, "ran", l, a)  BY <1>7, <1>11, Zenon DEF Suits
<1>16. lock' = lock /\ UNCHANGED results /\ Goto(r, "ran") /\ l.version >= 0  BY <1>1, <1>11, Zenon
<1>17. runner[r].phase \in {"locked", "marked", "ran"} /\ a \in Seq(Nat)  BY <1>1, <1>7, Zenon
<1>18. QED
  BY <1>2, <1>8, <1>10, <1>12, <1>13, <1>14, <1>15, <1>16, <1>17, WriteStep, Zenon

\* After the last one the binary embeds the site has them all.
LEMMA MigrationDoneStep ==
    ASSUME MigrateInv, NEW r \in Runners, MigrationDone(r)
    PROVE  MigrateInv'
<1>1. /\ runner[r].phase = "ran" /\ runner[r].phase \in Working /\ UNCHANGED <<applied, results>>
  BY Zenon DEF MigrationDone, In, Working
<1>2. PICK s \in SiteSet : s = At(r)  BY <1>1, AtSite, Zenon
<1>3. /\ ledger[s] \in [version : Int, dirty : BOOLEAN] /\ ledger[s].version \in Int
      /\ Len(applied[s]) \in Nat /\ applied[s] = Upto(Len(applied[s]))
  BY SiteRecorded, Zenon
<1>4. ledger[s].version = Len(applied[s]) /\ ledger[s].version >= 0
  BY <1>1, <1>2, Zenon DEF MigrateInv, Placed
<1>5. PICK l : l = [ledger[s] EXCEPT !.dirty = FALSE]  BY Zenon
<1>6. l \in [version : Int, dirty : BOOLEAN] /\ l.version = ledger[s].version  BY <1>3, <1>5, Zenon
<1>7. ledger' = [ledger EXCEPT ![s] = l]  BY <1>2, <1>5, Zenon DEF MigrationDone
<1>8. PICK a \in Seq(Nat) : a = applied[s]  BY Zenon DEF MigrateInv
<1>9. applied' = [applied EXCEPT ![s] = a]  BY <1>1, <1>8, Zenon DEF MigrateInv
<1>10. Recorded(l, a)  BY <1>3, <1>4, <1>6, <1>8, Zenon DEF Recorded
<1>11. Len(a) >= Len(applied[s]) /\ l.version >= 0  BY <1>3, <1>4, <1>6, <1>8
<1>12. runner[r].phase \in {"locked", "marked", "ran"}  BY <1>1, Zenon
<1>13. CASE ledger[s].version = Embedded(r)
  <2>1. Goto(r, "after") /\ lock' = Unlocked(r)  BY <1>2, <1>13, Zenon DEF MigrationDone
  <2>2. Len(a) >= Embedded(r)  BY <1>3, <1>4, <1>8, <1>13
  <2>3. "after" \in Working  BY Zenon DEF Working
  <2>4. Suits(r, "after", l, a)  BY <2>2, Zenon DEF Suits
  <2>5. QED
    BY <1>1, <1>2, <1>6, <1>7, <1>9, <1>10, <1>11, <1>12, <2>1, <2>3, <2>4, WriteStep, Zenon
<1>14. CASE ledger[s].version # Embedded(r)
  <2>1. Goto(r, "locked") /\ lock' = lock  BY <1>2, <1>14, Zenon DEF MigrationDone
  <2>2. "locked" \in Working  BY Zenon DEF Working
  <2>3. Suits(r, "locked", l, a)  BY Zenon DEF Suits
  <2>4. QED
    BY <1>1, <1>2, <1>6, <1>7, <1>9, <1>10, <1>11, <1>12, <2>1, <2>2, <2>3, WriteStep, Zenon
<1>15. QED  BY <1>13, <1>14, Zenon
\* No lock is held by now, and nobody takes a migration back.
LEMMA ReadAfterStep ==
    ASSUME MigrateInv, NEW r \in Runners, ReadAfter(r)
    PROVE  MigrateInv'
<1>1. runner[r].phase = "after" /\ runner[r].phase \in Working /\ UNCHANGED <<ledger, applied>>
  BY Zenon DEF ReadAfter, In, Working
<1>2. At(r) \in SiteSet  BY <1>1, AtSite, Zenon
<1>3. PICK v : v = IF dbUp THEN ledger[At(r)].version ELSE 0  BY Zenon
<1>4. ledger[At(r)].version \in Int  BY <1>2, SiteRecorded, Zenon
<1>5. v \in Int  BY <1>3, <1>4
<1>6. SiteDone(r, FALSE, TRUE, v)  BY <1>3, Zenon DEF ReadAfter
<1>7. Len(applied[At(r)]) >= Embedded(r)  BY <1>1, Zenon DEF MigrateInv, Placed
<1>8. TRUE \in BOOLEAN /\ FALSE \in BOOLEAN  BY Zenon
<1>9. QED  BY <1>1, <1>5, <1>6, <1>7, <1>8, SiteDoneStep, Zenon

\* A dead process claims nothing; what it marked stays dirty.
LEMMA RunnerDiesStep ==
    ASSUME MigrateInv, NEW r \in Runners, RunnerDies(r)
    PROVE  MigrateInv'
<1>1. /\ runner[r].phase \in Working /\ UNCHANGED <<ledger, applied, results>>
      /\ Goto(r, "dead") /\ lock' = Unlocked(r)
  <2>1. runner[r].phase \in Phases  BY Zenon DEF MigrateInv, Process
  <2>2. QED  BY <2>1, Zenon DEF RunnerDies, Phases
<1>2. PICK m \in Process :
        /\ runner' = [runner EXCEPT ![r] = m] /\ runner'[r] = m
        /\ m.phase = "dead" /\ m.site = runner[r].site /\ m.exit = -1 /\ At(r)' = At(r)
  <2>1. "dead" \in Phases  BY Zenon DEF Phases
  <2>2. QED  BY <1>1, <2>1, Moved, Zenon
<1>3. Careful(r) /\ SitesType'  BY <1>1, SitesKept, Zenon
<1>4. Placed(r)'
  <2>1. "dead" \notin Working  BY Zenon DEF Working
  <2>2. QED  BY <1>2, <2>1, Zenon DEF Placed
<1>5. QED  BY <1>1, <1>2, <1>3, <1>4, StaysAtSite, Zenon

\* Every step of a process keeps MigrateInv, one lemma for each kind.
LEMMA MigrateStep ==
    ASSUME MigrateInv, NEW r \in Runners,
           MigrateRefused(r) \/ Advance(r) \/ RunnerDies(r)
    PROVE  MigrateInv'
<1>1. CASE MigrateStarts(r) \/ DryRun(r) \/ MigrateRefused(r)  BY <1>1, StartStep, Zenon
<1>2. CASE newMigrator(r)  BY <1>2, NewMigratorStep, Zenon
<1>3. CASE ReadLedger(r)  BY <1>3, ReadLedgerStep, Zenon
<1>4. CASE UpLocks(r)  BY <1>4, UpLocksStep, Zenon
<1>5. CASE UpLockTimesOut(r) \/ StatementFails(r)
  <2>1. runner[r].phase \in Working /\ SiteFails(r) /\ UNCHANGED <<ledger, applied>>
    BY <1>5, Zenon DEF UpLockTimesOut, StatementFails, In, Working
  <2>2. QED  BY <2>1, FailedStep, Zenon
<1>6. CASE UpBegins(r)  BY <1>6, UpBeginsStep, Zenon
<1>7. CASE MigrationRuns(r)  BY <1>7, MigrationRunsStep, Zenon
<1>8. CASE MigrationDone(r)  BY <1>8, MigrationDoneStep, Zenon
<1>9. CASE ReadAfter(r)  BY <1>9, ReadAfterStep, Zenon
<1>10. CASE RunnerDies(r)  BY <1>10, RunnerDiesStep, Zenon
<1>11. QED
  BY <1>1, <1>2, <1>3, <1>4, <1>5, <1>6, <1>7, <1>8, <1>9, <1>10, Zenon DEF Advance

LEMMA MigrateUntouched ==
    ASSUME MigrateInv, UNCHANGED <<ledger, applied, lock, runner, results>>
    PROVE  MigrateInv'
<1>1. ASSUME NEW r \in Runners PROVE Placed(r)' /\ Collected(r)'
  <2>1. Placed(r) /\ Collected(r)  BY Zenon DEF MigrateInv
  <2>2. QED  BY <2>1, Zenon DEF Placed, Collected, At
<1>2. QED  BY <1>1, Zenon DEF MigrateInv

LEMMA MigrateInvStarts == Init => MigrateInv
<1> SUFFICES ASSUME MigrateInit PROVE MigrateInv  BY Zenon DEF Init
<1>1. ASSUME NEW s \in SiteSet PROVE Recorded(ledger[s], applied[s])
  <2>1. ledger[s] = [version |-> -1, dirty |-> FALSE] /\ applied[s] = <<>>  BY Zenon DEF MigrateInit
  <2>2. ledger[s].version = -1 /\ Len(applied[s]) = 0 /\ applied[s] = Upto(0)
    BY <2>1 DEF Upto
  <2>3. QED  BY <2>1, <2>2 DEF Recorded
<1>2. ASSUME NEW r \in Runners PROVE Placed(r) /\ Collected(r)
  <2>1. PICK m : m = [phase |-> "new", site |-> 0, before |-> 0, exit |-> -1]  BY Zenon
  <2>2. runner[r] = m /\ results[r] = <<>>  BY <2>1, Zenon DEF MigrateInit
  <2>3. m \in Process /\ m.phase = "new" /\ m.exit = -1  BY <2>1, SiteFacts DEF Process, Phases
  <2>4. m.phase \notin Working  BY <2>3, Zenon DEF Working
  <2>5. Placed(r)  BY <2>2, <2>3, <2>4, Zenon DEF Placed
  <2>6. Collected(r)  BY <2>2, <2>3, <2>4, SiteFacts DEF Collected
  <2>7. QED  BY <2>5, <2>6, Zenon
<1>3. /\ ledger \in [SiteSet -> [version : Int, dirty : BOOLEAN]]
      /\ applied \in [SiteSet -> Seq(Nat)]
      /\ lock \in [SiteSet -> Runners \union {NoRunner}]
      /\ results \in [Runners -> Seq(Outcome)]
  BY DEF MigrateInit
<1>4. runner \in [Runners -> Process]
  <2>1. \A r \in Runners : runner[r] \in Process  BY <1>2, Zenon DEF Placed
  <2>2. QED  BY <2>1, Zenon DEF MigrateInit
<1>5. QED  BY <1>1, <1>2, <1>3, <1>4, Zenon DEF MigrateInv

\* doctor reads what the processes write, and they never look at it.
LEMMA MigrateInvKept == MigrateInv /\ [Next]_operatorVars => MigrateInv'
<1> SUFFICES ASSUME MigrateInv, [Next]_operatorVars PROVE MigrateInv'  BY Zenon
<1>1. CASE UNCHANGED <<ledger, applied, lock, runner, results>>  BY <1>1, MigrateUntouched, Zenon
<1>2. CASE \E r \in Runners : runMigrate(r) \/ MigrateDies(r)
  BY <1>2, MigrateStep, Zenon DEF runMigrate, MigrateDies
<1>3. CASE DatabaseFlips  BY <1>1, <1>3, Zenon DEF DatabaseFlips
<1>4. CASE runDoctor
  <2>1. UNCHANGED migrateVars
    BY <1>4, Zenon DEF runDoctor, DoctorConfig, DoctorPing, DoctorSchema, DoctorOwner, DoctorRest,
                       Report, Add
  <2>2. QED  BY <1>1, <2>1, Zenon DEF migrateVars
<1>5. CASE UNCHANGED operatorVars  BY <1>1, <1>5, Zenon DEF operatorVars, migrateVars
<1>6. QED  BY <1>2, <1>3, <1>4, <1>5, Zenon DEF Next

\* However many migrate processes of whatever release overlap, fail and die, at
\* however many sites, the SQL of each migration commits at most once per
\* database and in order, and the ledger says how far: golang-migrate's lock
\* and dirty bit under applyOne.
THEOREM MigrationsApplyOnceInOrder == Spec => []AppliedOnceInOrder
<1>1. MigrateInv => AppliedOnceInOrder
  <2> SUFFICES ASSUME MigrateInv, NEW s \in SiteSet
               PROVE  LET l == ledger[s]  n == Len(applied[s]) IN
                      /\ applied[s] = [i \in 1..n |-> i]
                      /\ \/ n = l.version
                         \/ l.dirty /\ n = l.version - 1
                         \/ l.version = -1 /\ n = 0
    BY Zenon DEF AppliedOnceInOrder
  <2>1. QED  BY SiteRecorded, Zenon DEF Upto
<1>2. QED  BY <1>1, MigrateInvStarts, MigrateInvKept, PTL DEF Spec

\* A migrate that exits 0 after opening databases went through every site, and
\* each of them has every migration its binary embeds: ApplyAll counts failures
\* over all of the sites.
THEOREM MigrateSuccessIsReal == Spec => []SuccessMeansMigrated
<1>1. MigrateInv => SuccessMeansMigrated
  <2> SUFFICES ASSUME MigrateInv, NEW r \in Runners, runner[r].exit = 0, results[r] # <<>>
               PROVE  /\ Len(results[r]) = Len(Sites)
                      /\ \A s \in SiteSet : Len(applied[s]) >= Embedded(r)
    BY Zenon DEF SuccessMeansMigrated
  <2>1. /\ Len(results[r]) = Len(Sites)
        /\ \A i \in 1..Len(results[r]) : Len(applied[Sites[i]]) >= Embedded(r)
    BY Zenon DEF MigrateInv, Collected
  <2>2. QED  BY <2>1, Zenon DEF SiteSet
<1>2. QED  BY <1>1, MigrateInvStarts, MigrateInvKept, PTL DEF Spec

-----------------------------------------------------------------------------
\* vizra doctor.

\* What a verdict that was listed under a name says.
Sound(n, v) ==
    /\ v \in Statuses
    /\ n = "compose" => (v = "SKIP" <=> ~machine.compose.docker)
    /\ n = "origin" => (v = "SKIP" <=> ~machine.originSet)
    /\ n = "schema" /\ v = "OK" => Len(applied[Sites[1]]) >= DoctorVersion
    /\ v = "SKIP" => n \in {"compose", "origin", "schema"}

Listed == Checks \union {"version", "floor"}
Fails(n) == n \in DOMAIN doctor.results /\ doctor.results[n] = "FAIL"

\* How far collect() is: what is not listed was kept from being checked by a
\* failure that is.
DoctorInv ==
    LET p == doctor.phase  names == DOMAIN doctor.results IN
    /\ names \subseteq Listed
    /\ \A n \in names : Sound(n, doctor.results[n])
    /\ p # "config" => {"configuration", "compose"} \subseteq names
    /\ p \in {"schema", "owner", "cache", "report", "done"} =>
          "database" \in names \/ Fails("configuration")
    /\ p \in {"owner", "cache", "report", "done"} =>
          "schema" \in names \/ Fails("configuration") \/ Fails("database")
    /\ p \in {"cache", "report", "done"} =>
          "owner" \in names \/ Fails("configuration") \/ Fails("database")
    /\ p \in {"report", "done"} =>
          {"cache", "origin", "search"} \subseteq names \/ Fails("configuration")

LEMMA ListedFinite == IsFiniteSet(Listed)
<1>1. /\ IsFiniteSet({}) /\ \A S, x : IsFiniteSet(S) => IsFiniteSet(S \union {x})
  BY FS_EmptySet, FS_AddElement, Zenon
<1>2. Listed = ((((((((({} \union {"configuration"}) \union {"compose"}) \union {"database"})
                  \union {"schema"}) \union {"owner"}) \union {"cache"}) \union {"origin"})
                  \union {"search"}) \union {"version"}) \union {"floor"}
  BY Zenon DEF Listed, Checks
<1>3. QED  BY <1>1, <1>2, Zenon

\* What Add makes of the list.
LEMMA Added ==
    ASSUME DoctorInv, NEW new, NEW phase, Add(new, phase),
           DOMAIN new \subseteq Listed, \A n \in DOMAIN new : Sound(n, new[n])
    PROVE  /\ doctor'.phase = phase
           /\ DOMAIN doctor'.results = DOMAIN doctor.results \union DOMAIN new
           /\ DOMAIN doctor'.results \subseteq Listed
           /\ \A n \in DOMAIN new : doctor'.results[n] = new[n]
           /\ \A n \in DOMAIN doctor.results \ DOMAIN new :
                 doctor'.results[n] = doctor.results[n]
           /\ (\A n \in DOMAIN doctor.results : Sound(n, doctor.results[n]))'
<1>1. PICK f : f = [n \in DOMAIN doctor.results \union DOMAIN new |->
                      IF n \in DOMAIN new THEN new[n] ELSE doctor.results[n]]
  BY Zenon
<1>2. doctor' = [phase |-> phase, results |-> f]  BY <1>1, Zenon DEF Add
<1>3. doctor'.phase = phase /\ doctor'.results = f  BY <1>2, Zenon
<1>4. /\ DOMAIN f = DOMAIN doctor.results \union DOMAIN new
      /\ \A n \in DOMAIN new : f[n] = new[n]
      /\ \A n \in DOMAIN doctor.results \ DOMAIN new : f[n] = doctor.results[n]
  BY <1>1, Zenon
<1>5. \A n \in DOMAIN f : Sound(n, f[n])  BY <1>4, Zenon DEF DoctorInv
<1>6. UNCHANGED <<situation, applied>>  BY Zenon DEF Add, migrateVars
<1>7. \A n \in DOMAIN f : Sound(n, f[n])'  BY <1>5, <1>6, Zenon DEF Sound, machine
<1>8. DOMAIN f \subseteq Listed  BY <1>4, Zenon DEF DoctorInv
<1>9. QED  BY <1>3, <1>4, <1>7, <1>8, Zenon
\* Only a configuration that failed leaves the rest out.
LEMMA DoctorConfigStep == ASSUME DoctorInv, DoctorConfig PROVE DoctorInv'
<1>1. PICK c : c = CheckConfig(Accepted(env))  BY Zenon
<1>2. PICK k : k = CheckCompose(machine.compose)  BY Zenon
<1>3. PICK new : new = [configuration |-> c, compose |-> k]  BY Zenon
<1>4. PICK phase : phase = IF Accepted(env) THEN "ping" ELSE "report"  BY Zenon
<1>5. Add(new, phase)  BY <1>1, <1>2, <1>3, <1>4, Zenon DEF DoctorConfig
<1>6. DOMAIN new = {"configuration", "compose"} /\ new["configuration"] = c /\ new["compose"] = k
  BY <1>3, Zenon
<1>7. c \in {"OK", "FAIL"} /\ (phase = "ping" \/ (phase = "report" /\ c = "FAIL"))
  BY <1>1, <1>4, Zenon DEF CheckConfig
<1>8. Sound("configuration", c)  BY <1>7, Zenon DEF Sound, Statuses
<1>9. Sound("compose", k)
  BY <1>2, Zenon DEF Sound, Statuses, CheckCompose
<1>10. DOMAIN new \subseteq Listed  BY <1>6, Zenon DEF Listed, Checks
<1>11. \A n \in DOMAIN new : Sound(n, new[n])  BY <1>6, <1>8, <1>9, Zenon
<1>12. /\ doctor'.phase = phase
       /\ DOMAIN doctor'.results = DOMAIN doctor.results \union DOMAIN new
       /\ DOMAIN doctor'.results \subseteq Listed
       /\ doctor'.results["configuration"] = c
       /\ (\A n \in DOMAIN doctor.results : Sound(n, doctor.results[n]))'
  BY <1>5, <1>6, <1>10, <1>11, Added, Zenon
<1>13. QED  BY <1>6, <1>7, <1>12, Zenon DEF DoctorInv, Fails

\* Only a database that failed leaves schema and owner out.
LEMMA DoctorPingStep == ASSUME DoctorInv, DoctorPing PROVE DoctorInv'
<1>1. PICK d : d = CheckDatabase(dbUp)  BY Zenon
<1>2. PICK new : new = [database |-> d]  BY Zenon
<1>3. PICK phase : phase = IF dbUp THEN "schema" ELSE "cache"  BY Zenon
<1>4. doctor.phase = "ping" /\ Add(new, phase)  BY <1>1, <1>2, <1>3, Zenon DEF DoctorPing, At_
<1>5. DOMAIN new = {"database"} /\ new["database"] = d  BY <1>2, Zenon
<1>6. d \in {"OK", "FAIL"} /\ (phase = "schema" \/ (phase = "cache" /\ d = "FAIL"))
  BY <1>1, <1>3, Zenon DEF CheckDatabase
<1>7. Sound("database", d)  BY <1>6, Zenon DEF Sound, Statuses
<1>8. DOMAIN new \subseteq Listed  BY <1>5, Zenon DEF Listed, Checks
<1>9. \A n \in DOMAIN new : Sound(n, new[n])  BY <1>5, <1>7, Zenon
<1>10. /\ doctor'.phase = phase
       /\ DOMAIN doctor'.results = DOMAIN doctor.results \union DOMAIN new
       /\ DOMAIN doctor'.results \subseteq Listed
       /\ doctor'.results["database"] = d
       /\ (\A n \in DOMAIN doctor.results : Sound(n, doctor.results[n]))'
  BY <1>4, <1>5, <1>8, <1>9, Added, Zenon
<1>11. {"configuration", "compose"} \subseteq DOMAIN doctor.results  BY <1>4, Zenon DEF DoctorInv
<1>12. QED  BY <1>5, <1>6, <1>10, <1>11, Zenon DEF DoctorInv, Fails

\* The failures that kept a check from being made stay on the list.
LEMMA FailsKept ==
    ASSUME DoctorInv, NEW new, NEW phase, Add(new, phase),
           DOMAIN new \subseteq Listed, \A n \in DOMAIN new : Sound(n, new[n]),
           NEW n, n \notin DOMAIN new, Fails(n)
    PROVE  Fails(n)'
BY Added, Zenon DEF Fails

\* The schema found current is the schema applied, and stays so.
LEMMA DoctorSchemaStep == ASSUME DoctorInv, MigrateInv, DoctorSchema PROVE DoctorInv'
<1>1. PICK probe : probe = Probe(Sites[1], DoctorVersion)  BY Zenon
<1>2. PICK v : v = CheckSchema(probe)  BY Zenon
<1>3. PICK new : new = IF dbUp THEN [schema |-> v, version |-> "OK"] ELSE [schema |-> v]  BY Zenon
<1>4. doctor.phase = "schema" /\ Add(new, "owner")
  BY <1>1, <1>2, <1>3, Zenon DEF DoctorSchema, At_
<1>5. /\ "schema" \in DOMAIN new /\ DOMAIN new \subseteq {"schema", "version"}
      /\ new["schema"] = v /\ ("version" \in DOMAIN new => new["version"] = "OK")
  BY <1>3, Zenon
<1>6. v \in {"OK", "FAIL", "SKIP"} /\ (v = "OK" => probe = "current")
  BY <1>2, Zenon DEF CheckSchema
<1>7. v = "OK" => Len(applied[Sites[1]]) >= DoctorVersion
  <2> SUFFICES ASSUME probe = "current" PROVE Len(applied[Sites[1]]) >= DoctorVersion
    BY <1>6, Zenon
  <2>1. 1 \in 1..Len(Sites)  BY SiteFacts
  <2>2. PICK s \in SiteSet : s = Sites[1]  BY <2>1, SiteAt, Zenon
  <2>3. PICK l : l = ledger[s]  BY Zenon
  <2>4. ~(l.version = -1) /\ ~l.dirty /\ ~(l.version < DoctorVersion)
    BY <1>1, <2>2, <2>3, Zenon DEF Probe
  <2>5. l.version \in Int /\ Len(applied[s]) \in Nat /\ Len(applied[s]) = l.version
    BY <2>3, <2>4, SiteRecorded, Zenon
  <2>6. Len(applied[s]) >= DoctorVersion  BY <2>4, <2>5, DoctorAssumption
  <2>7. QED  BY <2>2, <2>6, Zenon
<1>8. Sound("schema", v) /\ Sound("version", "OK")  BY <1>6, <1>7, Zenon DEF Sound, Statuses
<1>9. DOMAIN new \subseteq Listed  BY <1>5, Zenon DEF Listed, Checks
<1>10. \A n \in DOMAIN new : Sound(n, new[n])  BY <1>5, <1>8, Zenon
<1>11. /\ doctor'.phase = "owner"
       /\ DOMAIN doctor'.results = DOMAIN doctor.results \union DOMAIN new
       /\ DOMAIN doctor'.results \subseteq Listed
       /\ (\A n \in DOMAIN doctor.results : Sound(n, doctor.results[n]))'
  BY <1>4, <1>9, <1>10, Added, Zenon
<1>12. /\ {"configuration", "compose"} \subseteq DOMAIN doctor.results
       /\ "database" \in DOMAIN doctor.results \/ Fails("configuration")
  BY <1>4, Zenon DEF DoctorInv
<1>13. Fails("configuration") => Fails("configuration")'
  <2>1. "configuration" \notin DOMAIN new  BY <1>5, Zenon
  <2>2. QED  BY <1>4, <1>9, <1>10, <2>1, FailsKept, Zenon
<1>14. QED  BY <1>5, <1>11, <1>12, <1>13, Zenon DEF DoctorInv

LEMMA DoctorOwnerStep == ASSUME DoctorInv, DoctorOwner PROVE DoctorInv'
<1>1. PICK v : v = CheckOwnerClaim(dbUp /\ Len(applied[Sites[1]]) >= DoctorVersion, machine.claimed)
  BY Zenon
<1>2. PICK new : new = [owner |-> v]  BY Zenon
<1>3. doctor.phase = "owner" /\ Add(new, "cache")  BY <1>1, <1>2, Zenon DEF DoctorOwner, At_
<1>4. DOMAIN new = {"owner"} /\ new["owner"] = v  BY <1>2, Zenon
<1>5. v \in {"OK", "WARN", "FAIL"}  BY <1>1, Zenon DEF CheckOwnerClaim
<1>6. Sound("owner", v)  BY <1>5, Zenon DEF Sound, Statuses
<1>7. DOMAIN new \subseteq Listed  BY <1>4, Zenon DEF Listed, Checks
<1>8. \A n \in DOMAIN new : Sound(n, new[n])  BY <1>4, <1>6, Zenon
<1>9. /\ doctor'.phase = "cache"
      /\ DOMAIN doctor'.results = DOMAIN doctor.results \union DOMAIN new
      /\ DOMAIN doctor'.results \subseteq Listed
      /\ (\A n \in DOMAIN doctor.results : Sound(n, doctor.results[n]))'
  BY <1>3, <1>7, <1>8, Added, Zenon
<1>10. /\ {"configuration", "compose"} \subseteq DOMAIN doctor.results
       /\ "database" \in DOMAIN doctor.results \/ Fails("configuration")
       /\ "schema" \in DOMAIN doctor.results \/ Fails("configuration") \/ Fails("database")
  BY <1>3, Zenon DEF DoctorInv
<1>11. \A n \in {"configuration", "database"} : Fails(n) => Fails(n)'
  <2> SUFFICES ASSUME NEW n \in {"configuration", "database"}, Fails(n) PROVE Fails(n)'  BY Zenon
  <2>1. n \notin DOMAIN new  BY <1>4, Zenon
  <2>2. QED  BY <1>3, <1>7, <1>8, <2>1, FailsKept, Zenon
<1>12. QED  BY <1>4, <1>9, <1>10, <1>11, Zenon DEF DoctorInv
LEMMA DoctorRestStep == ASSUME DoctorInv, DoctorRest PROVE DoctorInv'
<1>1. PICK cache : cache = CheckCache(machine.cache)  BY Zenon
<1>2. PICK o : o = CheckPublicOrigin(machine.originSet, PublicOrigin(env) # NoOrigin,
                       env["VIZRA_PUBLIC_ORIGIN"] = PublicOrigin(env),
                       PublicOrigin(env).scheme = "http", production(env))
  BY Zenon
<1>3. PICK k : k = CheckSearch(env["VIZRA_SEARCH_MODE"], machine.searchReachable)  BY Zenon
<1>4. PICK new : new = [n \in DOMAIN cache \union {"origin", "search"} |->
                          CASE n = "origin" -> o [] n = "search" -> k [] OTHER -> cache[n]]
  BY Zenon
<1>5. doctor.phase = "cache" /\ Add(new, "report")
  BY <1>1, <1>2, <1>3, <1>4, Zenon DEF DoctorRest, At_
<1>6. /\ "cache" \in DOMAIN cache /\ DOMAIN cache \subseteq {"cache", "floor"}
      /\ \A n \in DOMAIN cache : cache[n] \in {"OK", "WARN", "FAIL"}
  <2>1. CASE cache = [cache |-> "FAIL"] \/ cache = [cache |-> "WARN"]  BY <2>1
  <2>2. CASE \E f \in {"OK", "FAIL"} : cache = [cache |-> "OK", floor |-> f]  BY <2>2
  <2>3. QED  BY <1>1, <2>1, <2>2, Zenon DEF CheckCache
<1>7. /\ DOMAIN new = DOMAIN cache \union {"origin", "search"}
      /\ new["origin"] = o /\ new["search"] = k
      /\ \A n \in DOMAIN cache : new[n] = cache[n]
  <2>1. \A n \in DOMAIN cache : n # "origin" /\ n # "search"  BY <1>6, Zenon
  <2>2. QED  BY <1>4, <2>1, Zenon
<1>8. Sound("origin", o)  BY <1>2, Zenon DEF Sound, Statuses, CheckPublicOrigin
<1>9. Sound("search", k)  BY <1>3, Zenon DEF Sound, Statuses, CheckSearch
<1>10. \A n \in DOMAIN cache : Sound(n, cache[n])  BY <1>6, Zenon DEF Sound, Statuses
<1>11. DOMAIN new \subseteq Listed  BY <1>6, <1>7, Zenon DEF Listed, Checks
<1>12. \A n \in DOMAIN new : Sound(n, new[n])  BY <1>7, <1>8, <1>9, <1>10, Zenon
<1>13. /\ doctor'.phase = "report"
       /\ DOMAIN doctor'.results = DOMAIN doctor.results \union DOMAIN new
       /\ DOMAIN doctor'.results \subseteq Listed
       /\ (\A n \in DOMAIN doctor.results : Sound(n, doctor.results[n]))'
  BY <1>5, <1>11, <1>12, Added, Zenon
<1>14. /\ {"configuration", "compose"} \subseteq DOMAIN doctor.results
       /\ "database" \in DOMAIN doctor.results \/ Fails("configuration")
       /\ "schema" \in DOMAIN doctor.results \/ Fails("configuration") \/ Fails("database")
       /\ "owner" \in DOMAIN doctor.results \/ Fails("configuration") \/ Fails("database")
  BY <1>5, Zenon DEF DoctorInv
<1>15. \A n \in {"configuration", "database"} : Fails(n) => Fails(n)'
  <2> SUFFICES ASSUME NEW n \in {"configuration", "database"}, Fails(n) PROVE Fails(n)'  BY Zenon
  <2>1. n \notin DOMAIN new  BY <1>6, <1>7, Zenon
  <2>2. QED  BY <1>5, <1>11, <1>12, <2>1, FailsKept, Zenon
<1>16. QED  BY <1>6, <1>7, <1>13, <1>14, <1>15, Zenon DEF DoctorInv

LEMMA ReportStep == ASSUME DoctorInv, Report PROVE DoctorInv'
<1>1. PICK new : new = <<>>  BY Zenon
<1>2. doctor.phase = "report" /\ Add(new, "done")  BY <1>1, Zenon DEF Report, At_
<1>3. DOMAIN new = {}  BY <1>1
<1>4. DOMAIN new \subseteq Listed /\ \A n \in DOMAIN new : Sound(n, new[n])  BY <1>3, Zenon
<1>5. /\ doctor'.phase = "done"
      /\ DOMAIN doctor'.results = DOMAIN doctor.results
      /\ \A n \in DOMAIN doctor.results : doctor'.results[n] = doctor.results[n]
      /\ (\A n \in DOMAIN doctor.results : Sound(n, doctor.results[n]))'
  BY <1>2, <1>3, <1>4, Added, Zenon
<1>6. \A n \in Listed : Fails(n)' <=> Fails(n)  BY <1>5, Zenon DEF Fails
<1>7. "configuration" \in Listed /\ "database" \in Listed  BY Zenon DEF Listed, Checks
<1>8. DOMAIN doctor.results \subseteq Listed  BY Zenon DEF DoctorInv
<1>9. /\ {"configuration", "compose"} \subseteq DOMAIN doctor.results
      /\ "database" \in DOMAIN doctor.results \/ Fails("configuration")
      /\ "schema" \in DOMAIN doctor.results \/ Fails("configuration") \/ Fails("database")
      /\ "owner" \in DOMAIN doctor.results \/ Fails("configuration") \/ Fails("database")
      /\ {"cache", "origin", "search"} \subseteq DOMAIN doctor.results \/ Fails("configuration")
  BY <1>2, Zenon DEF DoctorInv
<1>10. QED  BY <1>5, <1>6, <1>7, <1>8, <1>9, Zenon DEF DoctorInv

\* No step takes a migration back.
LEMMA NothingUnapplied ==
    ASSUME MigrateInv, [Next]_operatorVars, NEW s \in SiteSet
    PROVE  Len(applied'[s]) >= Len(applied[s])
<1>1. Len(applied[s]) \in Nat  BY SiteRecorded, Zenon
<1>2. CASE UNCHANGED applied  BY <1>1, <1>2
<1>3. CASE \E r \in Runners : MigrationRuns(r)
  <2>1. PICK r, v : applied' = [applied EXCEPT ![At(r)] = Append(@, v)]
    BY <1>3, Zenon DEF MigrationRuns
  <2>2. applied \in [SiteSet -> Seq(Nat)]  BY Zenon DEF MigrateInv
  <2>3. applied'[s] = applied[s] \/ applied'[s] = Append(applied[s], v)  BY <2>1, <2>2, Zenon
  <2>4. applied[s] \in Seq(Nat)  BY <2>2, Zenon
  <2>5. Len(Append(applied[s], v)) = Len(applied[s]) + 1
    BY <2>4
  <2>6. QED  BY <1>1, <2>3, <2>5
<1>4. QED
  BY <1>2, <1>3, Zenon
  DEF Next, operatorVars, migrateVars, DatabaseFlips, runMigrate, MigrateDies, RunnerDies,
      MigrateRefused, Advance, MigrateStarts, DryRun, newMigrator, ReadLedger, UpLocks,
      UpLockTimesOut, UpBegins, MigrationDone, ReadAfter, StatementFails,
      runDoctor, DoctorConfig, DoctorPing, DoctorSchema, DoctorOwner, DoctorRest, Report, Add

\* A step of another process leaves the list of verdicts as true as it was.
LEMMA DoctorUntouched ==
    ASSUME DoctorInv, MigrateInv, [Next]_operatorVars, UNCHANGED <<situation, doctor>>
    PROVE  DoctorInv'
<1>1. PICK s \in SiteSet : s = Sites[1]
  <2>1. 1 \in 1..Len(Sites)  BY SiteFacts
  <2>2. QED  BY <2>1, SiteAt, Zenon
<1>2. Len(applied[s]) \in Nat /\ Len(applied'[s]) \in Nat
  <2>1. MigrateInv'  BY MigrateInvKept, Zenon
  <2>2. applied'[s] \in Seq(Nat)  BY <2>1, Zenon DEF MigrateInv
  <2>3. QED  BY <2>2, SiteRecorded
<1>3. Len(applied[Sites[1]]) >= DoctorVersion => Len(applied'[Sites[1]]) >= DoctorVersion
  <2>1. Len(applied'[s]) >= Len(applied[s])  BY NothingUnapplied, Zenon
  <2>2. Len(applied[s]) >= DoctorVersion => Len(applied'[s]) >= DoctorVersion
    BY <1>2, <2>1, DoctorAssumption
  <2>3. QED  BY <1>1, <2>2, Zenon
<1>4. (\A n \in DOMAIN doctor.results : Sound(n, doctor.results[n]))'
  <2>1. ASSUME NEW n, NEW v, Sound(n, v) PROVE Sound(n, v)'
    BY <1>3, <2>1, Zenon DEF Sound, machine
  <2>2. \A n \in DOMAIN doctor.results : Sound(n, doctor.results[n])  BY Zenon DEF DoctorInv
  <2>3. QED  BY <2>1, <2>2, Zenon
<1>5. \A n : Fails(n)' <=> Fails(n)  BY Zenon DEF Fails
<1>6. QED  BY <1>4, <1>5, Zenon DEF DoctorInv

LEMMA DoctorInvKept == MigrateInv /\ DoctorInv /\ [Next]_operatorVars => DoctorInv'
<1> SUFFICES ASSUME MigrateInv, DoctorInv, [Next]_operatorVars PROVE DoctorInv'  BY Zenon
<1>1. CASE UNCHANGED <<situation, doctor>>  BY <1>1, DoctorUntouched, Zenon
<1>2. CASE runDoctor
  BY <1>2, DoctorConfigStep, DoctorPingStep, DoctorSchemaStep, DoctorOwnerStep, DoctorRestStep,
     ReportStep, Zenon DEF runDoctor
<1>3. QED
  BY <1>1, <1>2, Zenon DEF Next, operatorVars, DatabaseFlips, runMigrate, MigrateDies

\* A doctor that is done and counted no failure lists every check, and what it
\* counts as skipped is what it did not check.
LEMMA DoctorReport ==
    ASSUME DoctorInv, At_("done"), ExitCode(doctor.results) = 0
    PROVE  /\ Checks \subseteq DOMAIN doctor.results
           /\ Summarise(doctor.results).skipped = Cardinality({c \in Checks : NotMade(c)})
<1>1. PICK failed : failed = {n \in DOMAIN doctor.results : doctor.results[n] = "FAIL"}  BY Zenon
<1>2. PICK skipped : skipped = {n \in DOMAIN doctor.results : doctor.results[n] = "SKIP"}  BY Zenon
<1>3. PICK total : total = Cardinality(DOMAIN doctor.results)  BY Zenon
<1>4. Summarise(doctor.results) =
        [total |-> total, failed |-> Cardinality(failed), skipped |-> Cardinality(skipped)]
  BY <1>1, <1>2, <1>3, Zenon DEF Summarise
<1>5. /\ Summarise(doctor.results).failed = Cardinality(failed)
      /\ Summarise(doctor.results).skipped = Cardinality(skipped)
  BY <1>4
<1>6. ~(Cardinality(failed) > 0)
  <2>1. Summarise(doctor.results).failed > 0 => ExitCode(doctor.results) = 1
    BY Zenon DEF ExitCode
  <2>2. QED  BY <1>5, <2>1
<1>7. failed = {}
  <2>1. failed \subseteq Listed  BY <1>1, Zenon DEF DoctorInv
  <2>2. IsFiniteSet(failed)  BY <2>1, ListedFinite, FS_Subset, Zenon
  <2>3. Cardinality(failed) \in Nat  BY <2>2, FS_CardinalityType, Zenon
  <2>4. Cardinality(failed) = 0  BY <1>6, <2>3
  <2>5. QED  BY <2>2, <2>4, FS_EmptySet, Zenon
<1>8. ~Fails("configuration") /\ ~Fails("database")  BY <1>1, <1>7, Zenon DEF Fails
<1>9. Checks \subseteq DOMAIN doctor.results
  <2>1. doctor.phase = "done"  BY Zenon DEF At_
  <2>2. /\ {"configuration", "compose"} \subseteq DOMAIN doctor.results
        /\ "database" \in DOMAIN doctor.results /\ "schema" \in DOMAIN doctor.results
        /\ "owner" \in DOMAIN doctor.results
        /\ {"cache", "origin", "search"} \subseteq DOMAIN doctor.results
    BY <1>8, <2>1, Zenon DEF DoctorInv
  <2>3. QED  BY <2>2, Zenon DEF Checks
<1>10. skipped = {c \in Checks : NotMade(c)}
  <2>1. \A n \in DOMAIN doctor.results : Sound(n, doctor.results[n])  BY Zenon DEF DoctorInv
  <2>2. ASSUME NEW c \in skipped PROVE c \in Checks /\ NotMade(c)
    <3>1. Sound(c, "SKIP") /\ doctor.results[c] = "SKIP"  BY <1>2, <2>1, <2>2, Zenon
    <3>2. c \in {"compose", "origin", "schema"}  BY <3>1, Zenon DEF Sound
    <3>3. CASE c = "compose"  BY <3>1, <3>3, Zenon DEF Sound, NotMade, Checks
    <3>4. CASE c = "origin"  BY <3>1, <3>4, Zenon DEF Sound, NotMade, Checks
    <3>5. CASE c = "schema"  BY <3>1, <3>5, Zenon DEF NotMade, Checks
    <3>6. QED  BY <3>2, <3>3, <3>4, <3>5, Zenon
  <2>3. ASSUME NEW c \in Checks, NotMade(c) PROVE c \in skipped
    <3>1. c \in DOMAIN doctor.results /\ Sound(c, doctor.results[c])  BY <1>9, <2>1, Zenon
    <3>2. CASE c = "compose"
      <4>1. ~machine.compose.docker  BY <2>3, <3>2, Zenon DEF NotMade
      <4>2. doctor.results[c] = "SKIP"  BY <3>1, <3>2, <4>1, Zenon DEF Sound
      <4>3. QED  BY <1>2, <3>1, <4>2, Zenon
    <3>3. CASE c = "origin"
      <4>1. ~machine.originSet  BY <2>3, <3>3, Zenon DEF NotMade
      <4>2. doctor.results[c] = "SKIP"  BY <3>1, <3>3, <4>1, Zenon DEF Sound
      <4>3. QED  BY <1>2, <3>1, <4>2, Zenon
    <3>4. CASE c = "schema"
      <4>1. doctor.results["schema"] = "SKIP"  BY <2>3, <3>4, Zenon DEF NotMade
      <4>2. QED  BY <1>2, <3>1, <3>4, <4>1, Zenon
    <3>5. c \in {"compose", "origin", "schema"}
      BY <2>3, Zenon DEF NotMade
    <3>6. QED  BY <3>2, <3>3, <3>4, <3>5, Zenon
  <2>4. QED  BY <2>2, <2>3, Zenon
<1>11. QED  BY <1>5, <1>9, <1>10, Zenon

\* A doctor that exits 0 lists every check, counts as not run what it did not
\* run, and a schema it found current is applied and stays so, whatever the
\* migrate processes do while collect() goes from probe to probe.
THEOREM DoctorIsTruthful == Spec => []DoctorTellsTheTruth
<1>1. Init => DoctorInv
  <2> SUFFICES ASSUME Init PROVE DoctorInv  BY Zenon
  <2>1. doctor = [phase |-> "config", results |-> <<>>]  BY Zenon DEF Init
  <2>2. doctor.phase = "config" /\ DOMAIN doctor.results = {}  BY <2>1
  <2>3. QED  BY <2>2, Zenon DEF DoctorInv
<1>2. DoctorInv => DoctorTellsTheTruth
  <2> SUFFICES ASSUME DoctorInv, At_("done"), ExitCode(doctor.results) = 0
               PROVE  /\ Checks \subseteq DOMAIN doctor.results
                      /\ Summarise(doctor.results).skipped
                            = Cardinality({c \in Checks : NotMade(c)})
                      /\ doctor.results["schema"] = "OK" => Len(applied[Sites[1]]) >= DoctorVersion
    BY Zenon DEF DoctorTellsTheTruth
  <2>1. "schema" \in DOMAIN doctor.results  BY DoctorReport, Zenon DEF Checks
  <2>2. Sound("schema", doctor.results["schema"])  BY <2>1, Zenon DEF DoctorInv
  <2>3. QED  BY <2>2, DoctorReport, Zenon DEF Sound
<1>3. QED  BY <1>1, <1>2, MigrateInvStarts, MigrateInvKept, DoctorInvKept, PTL DEF Spec
=============================================================================
