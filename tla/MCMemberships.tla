--------------------------- MODULE MCMemberships ---------------------------
(* Small instances of Memberships for TLC. *)
EXTENDS Memberships, TLC

Symmetric == Permutations(User) \cup Permutations(Tenant) \cup Permutations(Role)
                 \cup Permutations(Invite) \cup Permutations(Worker)
=============================================================================
