--------------------------- MODULE RequestSigning ---------------------------
(***************************************************************************)
(* internal/search/hmac.go: how core signs a request to vizra-search, and  *)
(* the verification that both repositories are held to.  A MAC is the      *)
(* tuple of what it is computed from, a key is what tells it from another  *)
(* one, and a header keeps what the shape rules tell apart.  Seconds are   *)
(* int64: the range and the window are checked in wrapping arithmetic.     *)
(***************************************************************************)
EXTENDS Integers

CONSTANTS
    Int64Limit,     \* 2^63
    MinTimestamp, MaxTimestamp,
    MaxClockSkew    \* in seconds

ASSUME TimestampAssumption ==
    /\ {Int64Limit, MinTimestamp, MaxTimestamp, MaxClockSkew} \subseteq Nat
    /\ 0 < MinTimestamp /\ MinTimestamp <= MaxTimestamp /\ MaxTimestamp < Int64Limit

int64 == -Int64Limit..(Int64Limit - 1)

\* The int64 that one addition, subtraction or negation leaves.
Wrap(x) ==
    CASE x >= Int64Limit  -> x - 2 * Int64Limit
      [] x < -Int64Limit  -> x + 2 * Int64Limit
      [] OTHER       -> x

\* strconv.FormatInt: bare digits that do not begin with 0, or something else.
FormatInt(secs) == [bare |-> secs > 0, secs |-> secs]

ValidateMethod(method) == method = "POST"
ValidateNonce(nonce) == nonce = "lower hex"
ValidateTimestamp(raw) == raw.bare /\ MinTimestamp <= raw.secs /\ raw.secs <= MaxTimestamp

\* Variant: the verifier's own clock is taken as it is.
WithinWindowAnyClock(secs, now) ==
    /\ MinTimestamp <= secs /\ secs <= MaxTimestamp
    /\ LET delta == Wrap(now - secs)
       IN  (IF delta < 0 THEN Wrap(-delta) ELSE delta) <= MaxClockSkew
\* Variant: off by one at the edge of the window.
WithinWindowStrict(secs, now) ==
    /\ MinTimestamp <= secs /\ secs <= MaxTimestamp
    /\ MinTimestamp <= now /\ now <= MaxTimestamp
    /\ LET delta == Wrap(now - secs)
       IN  (IF delta < 0 THEN Wrap(-delta) ELSE delta) < MaxClockSkew
WithinWindow(secs, now) ==
    /\ MinTimestamp <= secs /\ secs <= MaxTimestamp
    /\ MinTimestamp <= now /\ now <= MaxTimestamp
    /\ LET delta == Wrap(now - secs)
       IN  (IF delta < 0 THEN Wrap(-delta) ELSE delta) <= MaxClockSkew

\* CanonicalString under the key.
Sign(key, method, path, ts, nonce, body) == <<"v1", key, method, path, ts, nonce, body>>

SignRequest(key, path, body, now) ==
    LET ts == FormatInt(now) IN
    [ method |-> "POST", path |-> path, ts |-> ts, nonce |-> "lower hex", body |-> body,
      copies |-> 1,       \* how often each of the three headers is there
      sig |-> Sign(key, "POST", path, ts, "lower hex", body) ]

Verify(key, m, now) ==
    /\ ValidateMethod(m.method)
    /\ m.copies = 1
    /\ ValidateNonce(m.nonce)
    /\ ValidateTimestamp(m.ts)
    /\ WithinWindow(m.ts.secs, now)
    /\ Sign(key, m.method, m.path, m.ts, m.nonce, m.body) = m.sig

\* What an intermediary that rewrites requests makes of one.
Rewritten(m) ==
    { [m EXCEPT !.method = "post"], [m EXCEPT !.path = "another"], [m EXCEPT !.copies = 0],
      [m EXCEPT !.copies = 2], [m EXCEPT !.nonce = "upper hex"], [m EXCEPT !.body = "another"],
      [m EXCEPT !.ts.bare = FALSE] }
=============================================================================
