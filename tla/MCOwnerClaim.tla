---------------------------- MODULE MCOwnerClaim ----------------------------
(* A small instance of OwnerClaim for TLC. *)
EXTENDS OwnerClaim

CONSTANTS c1, c2, m1, b1, b2

TwoClaimants == {c1, c2}
OneCli == {m1}
TwoBoots == {b1, b2}

\* Two claims against a command and a boot, two claims against two boots, and
\* one claim against all three minters.
FourAtATime == {{c1, c2, m1, b1}, {c1, c2, b1, b2}, {c1, m1, b1, b2}}
=============================================================================
