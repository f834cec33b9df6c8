----------------------------- MODULE MCAccounts -----------------------------
(* The instance of Accounts that TLC checks. *)
EXTENDS AccountsProperties, TLC

Symmetry == Permutations(Threads) \union Permutations(Temps) \union Permutations(Codes)
=============================================================================
