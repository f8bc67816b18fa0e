---------------------------- MODULE MCLoginGuard ----------------------------
(* One account tried by two requests at a time; the local table has room for *)
(* one of its two keys.                                                       *)
EXTENDS LoginGuard, TLC

CONSTANTS r1, r2, a, e

Symmetry == Permutations(Logins)
=============================================================================
