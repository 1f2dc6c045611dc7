--------------------------- MODULE RolePermissions ---------------------------
(***************************************************************************)
(* PUT /api/tenant-roles/:id/permissions (SetRolePermissions and           *)
(* ReplacePermissions) statement by statement, as transactions of          *)
(* PostgreSQL at READ COMMITTED run it:                                     *)
(*   - DELETE finds the rows that are committed when it starts, waits for   *)
(*     transactions that have deleted some of them, and deletes those that  *)
(*     are then still there; rows committed meanwhile it does not see;      *)
(*   - INSERT waits for a transaction that has inserted or deleted the same *)
(*     key, and fails if a row with that key is there                       *)
(*     (uni_tenant_role_permissions_role_key);                              *)
(*   - UPDATE tenant_roles waits for a transaction that has updated the     *)
(*     role, unless the role is soft-deleted: then it finds no row;         *)
(*   - all rows of a transaction appear and disappear at COMMIT.            *)
(* A row is its key: the unique index leaves a role one row of a key.       *)
(***************************************************************************)
EXTENDS Naturals, SequencesExt

CONSTANTS
    Role,
    Registry,      \* AllPermissions
    Unknown,       \* a key that is not in the registry
    MaxKeys,       \* bound on the keys of a request
    Worker,
    Nil

ASSUME PermissionConstants == Unknown \notin Registry /\ Nil \notin Role /\ MaxKeys \in Nat

VARIABLES
    live,          \* roles that are not soft-deleted
    grants,        \* table tenant_role_permissions: committed keys of a role
    pc, req        \* where each worker is, and its locals and row locks

vars == <<live, grants, pc, req>>

--------------------------------------------------------------------------
(* Types and helpers *)

Key == Registry \cup {Unknown}

\* keys: the request; left: keys still to insert; seen: rows DELETE has found;
\* gone: rows it has deleted; added: rows inserted; late (history): keys the
\* role has from requests that have committed since DELETE looked for its rows.
Request == [role : Role \cup {Nil}, keys : Seq(Key), left : Seq(Key),
            seen : SUBSET Key, gone : SUBSET Key, added : SUBSET Key, late : SUBSET Key]

NoRequest == [role |-> Nil, keys |-> <<>>, left |-> <<>>, seen |-> {}, gone |-> {}, added |-> {},
              late |-> {}]

\* The other transactions on the role that w works on.
Rivals(w) == {v \in Worker \ {w} : req[v].role = req[w].role}

Return_KeepsLocks(w) ==
    /\ pc' = [pc EXCEPT ![w] = "idle"]
    /\ UNCHANGED req

Return(w) ==
    /\ pc' = [pc EXCEPT ![w] = "idle"]
    /\ req' = [req EXCEPT ![w] = NoRequest]

\* An error, a failed INSERT, a deadlock the database breaks, or the end of
\* the process: the transaction leaves no trace.
Fail(w) ==
    /\ pc[w] # "idle"
    /\ Return(w)
    /\ UNCHANGED <<live, grants>>

--------------------------------------------------------------------------
(* SetRolePermissions *)

\* The role is one of the tenant and every key is in the registry.
SetRolePermissions(w, r, keys) ==
    /\ pc[w] = "idle"
    /\ r \in live
    /\ \A i \in DOMAIN keys : keys[i] \in Registry
    /\ pc' = [pc EXCEPT ![w] = "delete"]
    /\ req' = [req EXCEPT ![w] = [NoRequest EXCEPT !.role = r, !.keys = keys, !.left = keys]]
    /\ UNCHANGED <<live, grants>>

DeleteFind(w) ==
    /\ pc[w] = "delete"
    /\ pc' = [pc EXCEPT ![w] = "delete_lock"]
    /\ req' = [req EXCEPT ![w].seen = grants[req[w].role], ![w].late = {}]
    /\ UNCHANGED <<live, grants>>

DeleteRows(w) ==
    /\ pc[w] = "delete_lock"
    /\ \A v \in Rivals(w) : req[v].gone \cap req[w].seen = {}
    /\ pc' = [pc EXCEPT ![w] = "insert"]
    /\ req' = [req EXCEPT ![w].gone = req[w].seen, ![w].seen = {}]
    /\ UNCHANGED <<live, grants>>

Insert(w) ==
    LET k == Head(req[w].left) IN
    /\ pc[w] = "insert"
    /\ req[w].left # <<>>
    /\ k \notin grants[req[w].role] \ req[w].gone
    /\ k \notin req[w].added
    /\ \A v \in Rivals(w) : k \notin req[v].added
    /\ req' = [req EXCEPT ![w].added = @ \cup {k}, ![w].left = Tail(@)]
    /\ UNCHANGED <<live, grants, pc>>

\* UPDATE tenant_roles SET updated_by_id.
Touch(w) ==
    /\ pc[w] = "insert"
    /\ req[w].left = <<>>
    /\ req[w].role \in live => \A v \in Rivals(w) : pc[v] # "touched"
    /\ pc' = [pc EXCEPT ![w] = "touched"]
    /\ UNCHANGED <<live, grants, req>>

Commit_KeepsOld(w) ==
    LET r == req[w].role IN
    /\ pc[w] = "touched"
    /\ grants' = [grants EXCEPT ![r] = @ \cup req[w].added]
    /\ Return(w)
    /\ UNCHANGED live

Commit_Early(w) ==
    LET r == req[w].role IN
    /\ pc[w] = "insert"
    /\ grants' = [grants EXCEPT ![r] = (@ \ req[w].gone) \cup req[w].added]
    /\ Return(w)
    /\ UNCHANGED live

\* A transaction that waited for this one no longer finds the deleted rows.
Commit(w) ==
    LET r == req[w].role IN
    /\ pc[w] = "touched"
    /\ grants' = [grants EXCEPT ![r] = (@ \ req[w].gone) \cup req[w].added]
    /\ pc' = [pc EXCEPT ![w] = "idle"]
    /\ req' = [v \in Worker |->
                 IF v = w THEN NoRequest
                 ELSE IF v \in Rivals(w)
                 THEN [req[v] EXCEPT !.seen = @ \ req[w].gone,
                                     !.late = (@ \ req[w].gone) \cup req[w].added]
                 ELSE req[v]]
    /\ UNCHANGED live

\* DeleteRole (Memberships) waits for the row; the grants of the role stay.
DeleteRole(r) ==
    /\ r \in live
    /\ \A w \in Worker : pc[w] = "touched" => req[w].role # r
    /\ live' = live \ {r}
    /\ UNCHANGED <<grants, pc, req>>

--------------------------------------------------------------------------
(* Specification *)

Init ==
    /\ live = Role
    /\ grants = [r \in Role |-> {}]
    /\ pc = [w \in Worker |-> "idle"]
    /\ req = [w \in Worker |-> NoRequest]

Next ==
    \/ \E w \in Worker :
        \/ \E r \in Role, keys \in BoundedSeq(Key, MaxKeys) : SetRolePermissions(w, r, keys)
        \/ DeleteFind(w) \/ DeleteRows(w) \/ Insert(w) \/ Touch(w) \/ Commit(w) \/ Fail(w)
    \/ \E r \in Role : DeleteRole(r)

Spec == Init /\ [][Next]_vars

--------------------------------------------------------------------------
(* Properties *)

\* Types of the tables and of the handlers' locals; a handler that has
\* answered keeps no row locked.
TypeOK ==
    /\ live \subseteq Role
    /\ grants \in [Role -> SUBSET Key]
    /\ pc \in [Worker -> {"idle", "delete", "delete_lock", "insert", "touched"}]
    /\ req \in [Worker -> Request]
    /\ \A w \in Worker : pc[w] = "idle" => req[w] = NoRequest

\* A request that is answered with success leaves the role every key it asked for.
GrantsAsAsked ==
    [][\A w \in Worker : Commit(w) => \A i \in DOMAIN req[w].keys :
            req[w].keys[i] \in grants'[req[w].role]]_vars

\* It replaces the keys: what else the role then has are the keys that other
\* requests have committed since its DELETE looked, all of them: requests that
\* overlap leave the union of their keys.
ReplacesExactly ==
    [][\A w \in Worker : Commit(w)
            => grants'[req[w].role] \ ToSet(req[w].keys) = req[w].late]_vars
=============================================================================
