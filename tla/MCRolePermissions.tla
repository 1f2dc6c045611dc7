-------------------------- MODULE MCRolePermissions --------------------------
(* Small instances of RolePermissions for TLC. *)
EXTENDS RolePermissions, TLC

Symmetric == Permutations(Role) \cup Permutations(Registry) \cup Permutations(Worker)
=============================================================================
