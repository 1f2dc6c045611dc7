------------------------------- MODULE MCAccess -------------------------------
(* Small instances of Access for TLC. *)
EXTENDS Access, TLC

Symmetric == Permutations(Tenant) \cup Permutations(Role) \cup Permutations(Worker)
=============================================================================
