---------------------------- MODULE MCSetupGate -----------------------------
(* A small instance of SetupGate for TLC. *)
EXTENDS SetupGate

CONSTANTS r1, r2, q1, q2

TwoReplicas == {r1, r2}
TwoRequests == {q1, q2}
=============================================================================
