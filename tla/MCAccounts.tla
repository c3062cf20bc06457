------------------------------ MODULE MCAccounts ------------------------------
(* Instances of Accounts for TLC.                                          *)
EXTENDS Accounts, TLC

Symmetry == Permutations(Users) \cup Permutations(Tokens)
            \cup Permutations(Requests)
=============================================================================
