------------------------------ MODULE MCAccounts ------------------------------
(* Accounts for TLC: tokens, threads and the accounts other than the first    *)
(* administrator's are model values of the .cfg files and interchangeable.    *)
EXTENDS Accounts, TLC

Interchangeable ==
  Permutations(Accounts \ {FirstAdmin}) \union Permutations(Tokens)
    \union Permutations(Requests)
=============================================================================
