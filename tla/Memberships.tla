----------------------------- MODULE Memberships -----------------------------
(***************************************************************************)
(* Who belongs to which tenant, and with what: tenants, tenant_memberships, *)
(* tenant_invitations and tenant_roles, as domain/auth and                 *)
(* domain/tenantroles change them.  As in Sessions, a handler reads first  *)
(* and acts on what it read in a transaction, and a failed transaction     *)
(* leaves no trace.  The transaction of CreateTenantInvitation is here     *)
(* statement by statement, because two of them may miss each other's row;  *)
(* the others commit in one step: an UPDATE with a condition checks it     *)
(* again on the rows it finds, an INSERT fails on a unique index.          *)
(*                                                                         *)
(* A user is identified with the email of the account.  Time is left out:  *)
(* an expired invitation is one that is never presented again.             *)
(***************************************************************************)
EXTENDS Naturals, FiniteSets

CONSTANTS
    User,          \* emails
    Tenant, Role, Invite,   \* ids a new row can get
    Invitable,     \* bound: the builtin roles that invitations are made with
    Worker,
    Nil

ASSUME MembershipConstants ==
    /\ Nil \notin User \cup Tenant \cup Role \cup Invite \cup {"owner", "admin", "member"}
    /\ Invitable \subseteq {"owner", "admin", "member"}

VARIABLES
    account,       \* table users: the emails that have an account
    tenant,        \* table tenants
    member,        \* table tenant_memberships: the builtin role of a user in a
                   \* tenant (Nil: no membership) and the custom role
    role,          \* table tenant_roles: the tenant of a role, soft-deleted or not
    invite,        \* table tenant_invitations
    pc, req        \* where each worker is in its handler, and what it read

vars == <<account, tenant, member, role, invite, pc, req>>

--------------------------------------------------------------------------
(* Types and helpers *)

Builtin == {"owner", "admin", "member"}

MemberRow == [builtin : Builtin \cup {Nil}, custom : Role \cup {Nil}]
RoleRow   == [tenant : Tenant \cup {Nil}, deleted : BOOLEAN]
InviteRow == [tenant : Tenant \cup {Nil}, email : User \cup {Nil}, builtin : Builtin \cup {Nil},
              custom : Role \cup {Nil}, accepted : BOOLEAN, revoked : BOOLEAN]

NoMember == [builtin |-> Nil, custom |-> Nil]
NoRole   == [tenant |-> Nil, deleted |-> FALSE]
NoInvite == [tenant |-> Nil, email |-> Nil, builtin |-> Nil, custom |-> Nil,
             accepted |-> FALSE, revoked |-> FALSE]

Request == [user : User \cup {Nil}, tenant : Tenant \cup {Nil}, role : Role \cup {Nil},
            builtin : Builtin \cup {Nil}, invite : Invite \cup {Nil}, known : BOOLEAN,
            sweep : SUBSET Invite, old : SUBSET Invite]

\* sweep: the invitations that the UPDATE of CreateTenantInvitation finds, then
\* has; old (history): those that were pending when it started.
NoRequest == [user |-> Nil, tenant |-> Nil, role |-> Nil, builtin |-> Nil,
              invite |-> Nil, known |-> FALSE, sweep |-> {}, old |-> {}]

IsMember(u, t) == member[<<u, t>>].builtin # Nil

\* Rows a query sees: gorm adds deleted_at IS NULL for tenant_roles.
LiveRole_AnyTenant(r, t) == role[r].tenant # Nil /\ ~role[r].deleted
LiveRole(r, t) == role[r].tenant = t /\ ~role[r].deleted

UsersOfRole(r) == {m \in User \X Tenant : member[m].custom = r}

\* FindValidTenantInvitationByHash.
ValidInvite(i) == invite[i].tenant # Nil /\ ~invite[i].accepted /\ ~invite[i].revoked

\* The rows of the partial unique index on (tenant_id, email).
PendingInvites(t, u) == {i \in Invite : ValidInvite(i) /\ invite[i].tenant = t /\ invite[i].email = u}

\* The row of the invitation is locked by the UPDATE of another transaction.
LockedInvite(i, w) ==
    \E v \in Worker \ {w} : pc[v] \in {"insert", "invited"} /\ i \in req[v].sweep

\* Another transaction has inserted an invitation that w's would duplicate.
RivalInserted(w) ==
    \E v \in Worker \ {w} : /\ pc[v] = "invited"
                            /\ req[v].tenant = req[w].tenant /\ req[v].user = req[w].user

\* The entries of the unique index, but for its own, that w's INSERT meets.
Clashing(w) == PendingInvites(req[w].tenant, req[w].user) \ req[w].sweep

--------------------------------------------------------------------------
(* Steps every handler is made of *)

Begin(w, label, r) ==
    /\ pc[w] = "idle"
    /\ pc' = [pc EXCEPT ![w] = label]
    /\ req' = [req EXCEPT ![w] = r]

Return(w) ==
    /\ pc' = [pc EXCEPT ![w] = "idle"]
    /\ req' = [req EXCEPT ![w] = NoRequest]

\* An error, an early return inside a transaction or the end of the process.
Fail(w) ==
    /\ pc[w] # "idle"
    /\ Return(w)
    /\ UNCHANGED <<account, tenant, member, role, invite>>

--------------------------------------------------------------------------
(* Signup, Register, CreateTenantWithPickToken *)

\* uni_users_email lets one of two go through.
Signup(u) ==
    /\ u \notin account
    /\ account' = account \cup {u}
    /\ UNCHANGED <<tenant, member, role, invite, pc, req>>

\* Register, and the seed of the platform tenant: an account that owns a tenant.
Register(u, t) ==
    /\ u \notin account
    /\ t \in Tenant \ tenant
    /\ account' = account \cup {u}
    /\ tenant' = tenant \cup {t}
    /\ member' = [member EXCEPT ![<<u, t>>] = [builtin |-> "owner", custom |-> Nil]]
    /\ UNCHANGED <<role, invite, pc, req>>

\* The user of the pick token must have no membership.
CreateTenant(w, u) ==
    /\ u \in account
    /\ \A t \in Tenant : ~IsMember(u, t)
    /\ Begin(w, "create_tenant", [NoRequest EXCEPT !.user = u])
    /\ UNCHANGED <<account, tenant, member, role, invite>>

CreateTenantCommit(w, t) ==
    /\ pc[w] = "create_tenant"
    /\ t \in Tenant \ tenant
    /\ tenant' = tenant \cup {t}
    /\ member' = [member EXCEPT ![<<req[w].user, t>>] = [builtin |-> "owner", custom |-> Nil]]
    /\ Return(w)
    /\ UNCHANGED <<account, role, invite>>

--------------------------------------------------------------------------
(* CreateTenantInvitation and AcceptInvite *)

\* An owner or admin of the tenant invites someone who is not a member of it.
CreateInvitation(w, actor, t, u, b, r) ==
    /\ t \in tenant
    /\ member[<<actor, t>>].builtin \in {"owner", "admin"}
    /\ ~IsMember(u, t)
    /\ r # Nil => LiveRole(r, t)
    /\ Begin(w, "invite", [NoRequest EXCEPT !.user = u, !.tenant = t, !.builtin = b, !.role = r])
    /\ UNCHANGED <<account, tenant, member, role, invite>>

InviteFind_Nothing(w) ==
    /\ pc[w] = "invite"
    /\ pc' = [pc EXCEPT ![w] = "sweep"]
    /\ req' = [req EXCEPT ![w].old = PendingInvites(req[w].tenant, req[w].user)]
    /\ UNCHANGED <<account, tenant, member, role, invite>>

\* BEGIN; the UPDATE of RevokePendingTenantInvitations takes its snapshot...
InviteFind(w) ==
    /\ pc[w] = "invite"
    /\ pc' = [pc EXCEPT ![w] = "sweep"]
    /\ LET found == PendingInvites(req[w].tenant, req[w].user)
       IN  req' = [req EXCEPT ![w] = [req[w] EXCEPT !.sweep = found, !.old = found]]
    /\ UNCHANGED <<account, tenant, member, role, invite>>

\* ... waits for the rows others have locked, and takes those still pending.
InviteSweep(w) ==
    /\ pc[w] = "sweep"
    /\ \A i \in req[w].sweep : ~LockedInvite(i, w)
    /\ pc' = [pc EXCEPT ![w] = "insert"]
    /\ req' = [req EXCEPT ![w].sweep =
                 req[w].sweep \cap PendingInvites(req[w].tenant, req[w].user)]
    /\ UNCHANGED <<account, tenant, member, role, invite>>

InviteInsert_NoIndex(w, i) ==
    /\ pc[w] = "insert"
    /\ invite[i] = NoInvite
    /\ \A v \in Worker : pc[v] = "invited" => req[v].invite # i
    /\ pc' = [pc EXCEPT ![w] = "invited"]
    /\ req' = [req EXCEPT ![w].invite = i]
    /\ UNCHANGED <<account, tenant, member, role, invite>>

\* The INSERT waits for whoever may still leave or take away a pending
\* invitation of the same tenant and email...
InviteInsert(w, i) ==
    /\ pc[w] = "insert"
    /\ ~RivalInserted(w)
    /\ Clashing(w) = {}
    /\ invite[i] = NoInvite
    /\ \A v \in Worker : pc[v] = "invited" => req[v].invite # i
    /\ pc' = [pc EXCEPT ![w] = "invited"]
    /\ req' = [req EXCEPT ![w].invite = i]
    /\ UNCHANGED <<account, tenant, member, role, invite>>

\* ... and fails on one its UPDATE did not see: an internal error, ROLLBACK.
InviteRefused(w) ==
    /\ pc[w] = "insert"
    /\ \E i \in Clashing(w) : ~LockedInvite(i, w)
    /\ Return(w)
    /\ UNCHANGED <<account, tenant, member, role, invite>>

\* COMMIT: the pending invitations that were found are revoked, the new one is there.
InviteCommit(w) ==
    /\ pc[w] = "invited"
    /\ invite' = [i \in Invite |->
                    IF i = req[w].invite
                    THEN [tenant |-> req[w].tenant, email |-> req[w].user,
                          builtin |-> req[w].builtin, custom |-> req[w].role,
                          accepted |-> FALSE, revoked |-> FALSE]
                    ELSE [invite[i] EXCEPT !.revoked = @ \/ i \in req[w].sweep]]
    /\ Return(w)
    /\ UNCHANGED <<account, tenant, member, role>>

\* The invitation is valid, and known says whether the email has an account.
AcceptInvite(w, i) ==
    /\ ValidInvite(i)
    /\ Begin(w, "accept", [NoRequest EXCEPT !.user = invite[i].email, !.tenant = invite[i].tenant,
                              !.builtin = invite[i].builtin, !.role = invite[i].custom,
                              !.invite = i, !.known = invite[i].email \in account])
    /\ UNCHANGED <<account, tenant, member, role, invite>>

AcceptInviteCommit_NoMark(w) ==
    /\ pc[w] = "accept"
    /\ req[w].user \in account <=> req[w].known
    /\ ~IsMember(req[w].user, req[w].tenant)
    /\ account' = account \cup {req[w].user}
    /\ member' = [member EXCEPT ![<<req[w].user, req[w].tenant>>] =
                    [builtin |-> req[w].builtin, custom |-> req[w].role]]
    /\ Return(w)
    /\ UNCHANGED <<tenant, role, invite>>

\* A new account must still be free (uni_users_email), and the user not yet a
\* member (the dup query, idx_tenant_memberships_active_user_tenant); the
\* invitation is marked by id, whatever became of it, when nobody locks it.
AcceptInviteCommit(w) ==
    /\ pc[w] = "accept"
    /\ ~LockedInvite(req[w].invite, w)
    /\ req[w].user \in account <=> req[w].known
    /\ ~IsMember(req[w].user, req[w].tenant)
    /\ account' = account \cup {req[w].user}
    /\ member' = [member EXCEPT ![<<req[w].user, req[w].tenant>>] =
                    [builtin |-> req[w].builtin, custom |-> req[w].role]]
    /\ invite' = [invite EXCEPT ![req[w].invite].accepted = TRUE]
    /\ Return(w)
    /\ UNCHANGED <<tenant, role>>

--------------------------------------------------------------------------
(* CreateRole, DeleteRole, AssignMembershipTenantRole *)

CreateRole(r, t) ==
    /\ t \in tenant
    /\ role[r] = NoRole
    /\ role' = [role EXCEPT ![r].tenant = t]
    /\ UNCHANGED <<account, tenant, member, invite, pc, req>>

DeleteRole(w, t, r) ==
    /\ t \in tenant
    /\ LiveRole(r, t)
    /\ Begin(w, "delete_count", [NoRequest EXCEPT !.tenant = t, !.role = r])
    /\ UNCHANGED <<account, tenant, member, role, invite>>

\* CountMembershipsUsingRole must be 0; pending invitations are not counted.
DeleteRoleCount(w) ==
    /\ pc[w] = "delete_count"
    /\ UsersOfRole(req[w].role) = {}
    /\ pc' = [pc EXCEPT ![w] = "delete"]
    /\ UNCHANGED <<account, tenant, member, role, invite, req>>

DeleteRoleWrite(w) ==
    /\ pc[w] = "delete"
    /\ role' = [role EXCEPT ![req[w].role].deleted = TRUE]
    /\ Return(w)
    /\ UNCHANGED <<account, tenant, member, invite>>

AssignRole_AnyTenant(w, u, t, r) ==
    /\ IsMember(u, t)
    /\ r # Nil => LiveRole_AnyTenant(r, t)
    /\ Begin(w, "assign", [NoRequest EXCEPT !.user = u, !.tenant = t, !.role = r])
    /\ UNCHANGED <<account, tenant, member, role, invite>>

\* r = Nil clears the custom role.
AssignRole(w, u, t, r) ==
    /\ IsMember(u, t)
    /\ r # Nil => LiveRole(r, t)
    /\ Begin(w, "assign", [NoRequest EXCEPT !.user = u, !.tenant = t, !.role = r])
    /\ UNCHANGED <<account, tenant, member, role, invite>>

AssignRoleWrite_Builtin(w) ==
    /\ pc[w] = "assign"
    /\ member' = [member EXCEPT ![<<req[w].user, req[w].tenant>>] =
                    [builtin |-> "member", custom |-> req[w].role]]
    /\ Return(w)
    /\ UNCHANGED <<account, tenant, role, invite>>

AssignRoleWrite(w) ==
    /\ pc[w] = "assign"
    /\ member' = [member EXCEPT ![<<req[w].user, req[w].tenant>>].custom = req[w].role]
    /\ Return(w)
    /\ UNCHANGED <<account, tenant, role, invite>>

--------------------------------------------------------------------------
(* Specification *)

Init ==
    /\ account = {}
    /\ tenant = {}
    /\ member = [m \in User \X Tenant |-> NoMember]
    /\ role = [r \in Role |-> NoRole]
    /\ invite = [i \in Invite |-> NoInvite]
    /\ pc = [w \in Worker |-> "idle"]
    /\ req = [w \in Worker |-> NoRequest]

Arrive(w) ==
    \/ \E u \in User : CreateTenant(w, u)
    \/ \E actor, u \in User, t \in Tenant, b \in Invitable, r \in Role \cup {Nil} :
           CreateInvitation(w, actor, t, u, b, r)
    \/ \E i \in Invite : AcceptInvite(w, i)
    \/ \E t \in Tenant, r \in Role : DeleteRole(w, t, r)
    \/ \E u \in User, t \in Tenant, r \in Role \cup {Nil} : AssignRole(w, u, t, r)

Step(w) ==
    \/ \E t \in Tenant : CreateTenantCommit(w, t)
    \/ InviteFind(w) \/ InviteSweep(w) \/ InviteRefused(w) \/ InviteCommit(w)
    \/ \E i \in Invite : InviteInsert(w, i)
    \/ AcceptInviteCommit(w)
    \/ DeleteRoleCount(w)
    \/ DeleteRoleWrite(w)
    \/ AssignRoleWrite(w)

Next ==
    \/ \E w \in Worker : Arrive(w) \/ Step(w) \/ Fail(w)
    \/ \E r \in Role, t \in Tenant : CreateRole(r, t)
    \/ \E u \in User : Signup(u) \/ \E t \in Tenant : Register(u, t)

Spec == Init /\ [][Next]_vars

--------------------------------------------------------------------------
(* Properties *)

PC == {"idle", "create_tenant", "invite", "sweep", "insert", "invited", "accept",
       "delete_count", "delete", "assign"}

\* Types of the tables and of the handlers' locals.
TypeOK ==
    /\ account \subseteq User
    /\ tenant \subseteq Tenant
    /\ member \in [User \X Tenant -> MemberRow]
    /\ role \in [Role -> RoleRow]
    /\ invite \in [Invite -> InviteRow]
    /\ pc \in [Worker -> PC]
    /\ req \in [Worker -> Request]

\* Tenants stay apart: a custom role reached through a membership, directly or
\* by way of an invitation, is a role of that same tenant.
CustomRoleOfTenant ==
    /\ \A u \in User, t \in Tenant :
           member[<<u, t>>].custom # Nil => role[member[<<u, t>>].custom].tenant = t
    /\ \A i \in Invite : invite[i].custom # Nil => role[invite[i].custom].tenant = invite[i].tenant

\* Every tenant keeps an owner, and only users with an account are members.
TenantHasOwner ==
    /\ \A t \in tenant : \E u \in User : member[<<u, t>>].builtin = "owner"
    /\ \A u \in User, t \in Tenant : IsMember(u, t) => u \in account /\ t \in tenant

\* At most one invitation of a tenant to an email can be accepted, although two
\* CreateTenantInvitation that overlap do not revoke each other's.
OnePendingInvite ==
    \A t \in Tenant, u \in User : \A i, j \in PendingInvites(t, u) : i = j

\* Inviting an email again works: CreateTenantInvitation is refused by the unique
\* index only for an invitation that was committed after its UPDATE started.
RefusedOnlyByRival ==
    [][\A w \in Worker : InviteRefused(w) => Clashing(w) \cap req[w].old = {}]_vars

\* A membership is a founder's or was given by an invitation to its user; an
\* invitation that is marked accepted has given one.
MembersWereInvited ==
    /\ \A t \in tenant : Cardinality({u \in User : IsMember(u, t)}) - 1
           <= Cardinality({i \in Invite : invite[i].tenant = t /\ invite[i].accepted})
    /\ \A i \in Invite : invite[i].accepted => IsMember(invite[i].email, invite[i].tenant)

\* A role is soft-deleted only when no membership references it.
DeletesUnreferenced ==
    [][\A r \in Role : ~role[r].deleted /\ role'[r].deleted => UsersOfRole(r) = {}]_vars
=============================================================================
