----------------------------- MODULE MCAccounts -----------------------------
(* Small instances of Accounts for TLC. *)
EXTENDS Accounts, TLC

Symmetric == Permutations(User) \cup Permutations(Token) \cup Permutations(Worker)
=============================================================================
