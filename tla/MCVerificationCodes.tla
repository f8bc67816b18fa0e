-------------------------- MODULE MCVerificationCodes --------------------------
(* Two concurrent requests on the codes of one account. *)
EXTENDS VerificationCodes, TLC

CONSTANTS r1, r2, t1

Symmetry == Permutations(Requests)
=============================================================================
