-------------------------- MODULE MCClaimEndpoint ---------------------------
(* A small instance of ClaimEndpoint for TLC. *)
EXTENDS ClaimEndpoint

CONSTANTS q1, q2, o1

TwoRequests == {q1, q2}
OneOrigin == {o1}

Poll == [kind |-> "status", token |-> "none", from |-> Nowhere]
Post(token, from) == [kind |-> "owner", token |-> token, from |-> from]

\* Polling beside the operator; strangers whose address is not known, alone or
\* beside the operator; a stranger whose address is.
PollersAndStrangers ==
    LET Pair(a, b) == [q \in Requests |-> IF q = q1 THEN a ELSE b]
    IN  { Pair({Poll, Post("right", o1)}, {Poll, Post("right", o1)}),
          Pair({Post("right", o1)}, {Post("wrong", Nowhere), Post("lapses", Nowhere)}),
          Pair({Post("wrong", Nowhere)}, {Post("wrong", Nowhere)}),
          Pair({Post("wrong", o1)}, {}) }
=============================================================================
