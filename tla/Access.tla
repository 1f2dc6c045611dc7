-------------------------------- MODULE Access --------------------------------
(***************************************************************************)
(* What a request may do is decided by the claims of its bearer token, a    *)
(* snapshot of a membership: pkg/jwtutil signs and parses the three kinds   *)
(* of token, the middlewares put the claims into the request, and           *)
(* CanManageTenantRoles reads them there.  Nothing recalls a token, so the  *)
(* roles and grants it was made from may have changed when it is used.      *)
(*                                                                         *)
(* The handlers of Memberships and RolePermissions appear with what decides *)
(* access; their races on rows are in those modules, so a handler whose     *)
(* stale reads matter only there is one step here.  An account is one that  *)
(* is verified and active.  Time is left out: an expired token is one that  *)
(* is never presented again.                                               *)
(***************************************************************************)
EXTENDS Naturals, FiniteSets

CONSTANTS
    User,
    Staff,         \* users with the role admin or system_manager
    Tenant, Role,
    Registry,      \* AllPermissions
    Invitable,     \* bound: the builtin roles that invitations are made with
    Grantable,     \* bound: the keys that are asked for a role
    Worker,
    MaxSigned,     \* bound on the different tokens that are made
    Nil

ASSUME AccessConstants ==
    /\ Staff \subseteq User
    /\ {"widgets.read", "roles.manage"} \subseteq Registry
    /\ Invitable \subseteq {"owner", "admin", "member"}
    /\ Grantable \subseteq Registry
    /\ Nil \notin User \cup Tenant \cup Role \cup {"owner", "admin", "member", "system_manager"}
    /\ MaxSigned \in Nat

VARIABLES
    account,       \* users that have an account
    member,        \* tenant_memberships: builtin and custom role of a user in a tenant
    role,          \* tenant_roles: the tenant of a role, soft-deleted or not
    grants,        \* tenant_role_permissions: the keys of a role
    gave,          \* history: the keys a role has ever had
    invite,        \* the tenant_invitations that can be accepted
    signed,        \* the claims of the tokens that were handed out
    pc, req        \* where each worker is, the claims in its context, what it read

vars == <<account, member, role, grants, gave, invite, signed, pc, req>>
rows == <<account, member, role, grants, gave, invite>>

--------------------------------------------------------------------------
(* Types and helpers *)

Builtin == {"owner", "admin", "member"}
Issuer  == {"access", "platform-access", "login-tenant-pick"}

MemberRow == [builtin : Builtin \cup {Nil}, custom : Role \cup {Nil}]
RoleRow   == [tenant : Tenant \cup {Nil}, deleted : BOOLEAN]
InviteRow == [tenant : Tenant, email : User, builtin : Builtin, custom : Role \cup {Nil}]

\* AccessClaims, PlatformAccessClaims and TenantPickClaims: a claim that a
\* kind of token does not have is Nil, as it is when it is parsed as another.
Claims == [issuer : Issuer \cup {Nil}, user : User \cup {Nil}, tenant : Tenant \cup {Nil},
           trole : Builtin \cup {Nil}, trid : Role \cup {Nil}, perms : SUBSET Registry,
           prole : {"system_manager", Nil}]

Request == [claims : Claims, user : User \cup {Nil}, tenant : Tenant \cup {Nil},
            m : MemberRow, role : Role \cup {Nil}, keys : SUBSET Registry]

NoMember == [builtin |-> Nil, custom |-> Nil]
NoRole   == [tenant |-> Nil, deleted |-> FALSE]
NoClaims == [issuer |-> Nil, user |-> Nil, tenant |-> Nil, trole |-> Nil, trid |-> Nil,
             perms |-> {}, prole |-> Nil]
NoRequest == [claims |-> NoClaims, user |-> Nil, tenant |-> Nil, m |-> NoMember,
              role |-> Nil, keys |-> {}]

IsMember(u, t) == member[<<u, t>>].builtin # Nil
LiveRole(r, t) == role[r].tenant = t /\ ~role[r].deleted
UsersOfRole(r) == {m \in User \X Tenant : member[m].custom = r}
UserRole(u)    == IF u \in Staff THEN "system_manager" ELSE Nil
IsPlatformStaff(r) == r = "system_manager"

--------------------------------------------------------------------------
(* Permissions of a membership *)

BuiltinPermissionKeys(b) ==
    CASE b = "owner"  -> Registry
      [] b = "admin"  -> Registry \ {"platform.read"}
      [] b = "member" -> {"widgets.read"}
      [] OTHER        -> {}

MergePermissionKeys(builtin, custom) == builtin \cup (custom \cap Registry)

\* From a membership that was read earlier and the grants of now; that the
\* role may be deleted is not asked.
EffectivePermissionKeys(m) ==
    IF m.custom = Nil THEN BuiltinPermissionKeys(m.builtin)
    ELSE MergePermissionKeys(BuiltinPermissionKeys(m.builtin), grants[m.custom])

--------------------------------------------------------------------------
(* jwtutil and the checks of the HTTP layer *)

SignAccess(u, t, m) ==
    [issuer |-> "access", user |-> u, tenant |-> t, trole |-> m.builtin, trid |-> m.custom,
     perms |-> EffectivePermissionKeys(m), prole |-> Nil]
SignPlatformAccess(u) ==
    [NoClaims EXCEPT !.issuer = "platform-access", !.user = u, !.prole = UserRole(u)]
SignTenantPick(u) == [NoClaims EXCEPT !.issuer = "login-tenant-pick", !.user = u]

ParseAccess(c)         == c.issuer = "access" /\ c.tenant # Nil
ParsePlatformAccess(c) == c.issuer = "platform-access" /\ c.prole # Nil
ParseTenantPick(c)     == c.issuer = "login-tenant-pick"

\* What the middlewares of /api/platform and of /api/widgets let through.
PlatformRequest(c) == ParsePlatformAccess(c) /\ IsPlatformStaff(c.prole)
WidgetRequest(c)   == ParseAccess(c) /\ "widgets.read" \in c.perms

CanManageTenantRoles(c) == c.trole \in {"owner", "admin"} \/ "roles.manage" \in c.perms

\* JWTAuthMiddleware, then the first check of each handler of tenantroles.
ManageRequest(c) == c \in signed /\ ParseAccess(c) /\ CanManageTenantRoles(c)

HandOut(tokens) ==
    /\ Cardinality(signed \cup tokens) <= MaxSigned
    /\ signed' = signed \cup tokens

--------------------------------------------------------------------------
(* Steps every handler is made of *)

Begin(w, label, r) ==
    /\ pc[w] = "idle"
    /\ pc' = [pc EXCEPT ![w] = label]
    /\ req' = [req EXCEPT ![w] = r]

Return(w) ==
    /\ pc' = [pc EXCEPT ![w] = "idle"]
    /\ req' = [req EXCEPT ![w] = NoRequest]

\* An error or the end of the process: the transaction leaves no trace.
Fail(w) ==
    /\ pc[w] # "idle"
    /\ Return(w)
    /\ UNCHANGED <<rows, signed>>

--------------------------------------------------------------------------
(* Accounts, login and tenants *)

\* Signup and VerifyEmail.
Signup(u) ==
    /\ u \notin account
    /\ account' = account \cup {u}
    /\ UNCHANGED <<member, role, grants, gave, invite, signed, pc, req>>

NewOwner(u, t) ==
    LET m == [builtin |-> "owner", custom |-> Nil] IN
    /\ \A v \in User : ~IsMember(v, t)
    /\ member' = [member EXCEPT ![<<u, t>>] = m]
    /\ HandOut({SignAccess(u, t, m)})

Register(u, t) ==
    /\ u \notin account
    /\ account' = account \cup {u}
    /\ NewOwner(u, t)
    /\ UNCHANGED <<role, grants, gave, invite, pc, req>>

Login(u) ==
    /\ u \in account
    /\ HandOut({SignTenantPick(u)} \cup
               (IF IsPlatformStaff(UserRole(u)) THEN {SignPlatformAccess(u)} ELSE {}))
    /\ UNCHANGED <<rows, pc, req>>

\* CreateTenantWithPickToken.
CreateTenant(c, t) ==
    /\ c \in signed /\ ParseTenantPick(c)
    /\ \A s \in Tenant : ~IsMember(c.user, s)
    /\ NewOwner(c.user, t)
    /\ UNCHANGED <<account, role, grants, gave, invite, pc, req>>

TenantSession_OtherTenant(w, c, t) ==
    /\ c \in signed /\ ParseTenantPick(c)
    /\ \E s \in Tenant :
         /\ IsMember(c.user, s)
         /\ Begin(w, "issue", [NoRequest EXCEPT !.user = c.user, !.tenant = t,
                                               !.m = member[<<c.user, s>>]])
    /\ UNCHANGED <<rows, signed>>

TenantSession(w, c, t) ==
    /\ c \in signed /\ ParseTenantPick(c)
    /\ IsMember(c.user, t)
    /\ Begin(w, "issue", [NoRequest EXCEPT !.user = c.user, !.tenant = t, !.m = member[<<c.user, t>>]])
    /\ UNCHANGED <<rows, signed>>

\* A refresh token was handed out with each access token, for the same user
\* and tenant; it carries no claims.  Its rotation is in Sessions, and the
\* refresh of a platform token makes one with the same claims.
Refresh(w, u, t) ==
    /\ \E c \in signed : c.issuer = "access" /\ c.user = u /\ c.tenant = t
    /\ IsMember(u, t)
    /\ Begin(w, "issue", [NoRequest EXCEPT !.user = u, !.tenant = t, !.m = member[<<u, t>>]])
    /\ UNCHANGED <<rows, signed>>

\* issueTokensTx: the membership is the one read before the transaction.
IssueTokens(w) ==
    /\ pc[w] = "issue"
    /\ HandOut({SignAccess(req[w].user, req[w].tenant, req[w].m)})
    /\ Return(w)
    /\ UNCHANGED rows

--------------------------------------------------------------------------
(* Invitations *)

\* The membership of the actor in the table decides, not the token's role.
CreateInvitation(c, u, b, r) ==
    LET t == c.tenant IN
    /\ c \in signed /\ ParseAccess(c)
    /\ member[<<c.user, t>>].builtin \in {"owner", "admin"}
    /\ ~IsMember(u, t)
    /\ r # Nil => LiveRole(r, t)
    /\ invite' = {i \in invite : i.tenant # t \/ i.email # u}
                     \cup {[tenant |-> t, email |-> u, builtin |-> b, custom |-> r]}
    /\ UNCHANGED <<account, member, role, grants, gave, signed, pc, req>>

AcceptInvite(i) ==
    LET m == [builtin |-> i.builtin, custom |-> i.custom] IN
    /\ i \in invite
    /\ ~IsMember(i.email, i.tenant)
    /\ account' = account \cup {i.email}
    /\ member' = [member EXCEPT ![<<i.email, i.tenant>>] = m]
    /\ invite' = invite \ {i}
    /\ HandOut({SignAccess(i.email, i.tenant, m)})
    /\ UNCHANGED <<role, grants, gave, pc, req>>

--------------------------------------------------------------------------
(* Handlers of tenantroles: the tenant is the one of the claims *)

CreateRole(w, c) ==
    /\ ManageRequest(c)
    /\ Begin(w, "create", [NoRequest EXCEPT !.claims = c, !.tenant = c.tenant])
    /\ UNCHANGED <<rows, signed>>

CreateRoleWrite(w, r) ==
    /\ pc[w] = "create"
    /\ role[r] = NoRole
    /\ role' = [role EXCEPT ![r].tenant = req[w].tenant]
    /\ Return(w)
    /\ UNCHANGED <<account, member, grants, gave, invite, signed>>

\* The role is one of the tenant and CountMembershipsUsingRole is 0.
DeleteRole(w, c, r) ==
    /\ ManageRequest(c)
    /\ LiveRole(r, c.tenant)
    /\ UsersOfRole(r) = {}
    /\ Begin(w, "delete", [NoRequest EXCEPT !.claims = c, !.tenant = c.tenant, !.role = r])
    /\ UNCHANGED <<rows, signed>>

DeleteRoleWrite(w) ==
    /\ pc[w] = "delete"
    /\ role' = [role EXCEPT ![req[w].role].deleted = TRUE]
    /\ Return(w)
    /\ UNCHANGED <<account, member, grants, gave, invite, signed>>

SetPermissions_AnyTenant(w, c, r, keys) ==
    /\ ManageRequest(c)
    /\ role[r].tenant # Nil /\ ~role[r].deleted
    /\ Begin(w, "grant", [NoRequest EXCEPT !.claims = c, !.tenant = c.tenant, !.role = r, !.keys = keys])
    /\ UNCHANGED <<rows, signed>>

\* Keys outside the registry are refused.
SetPermissions(w, c, r, keys) ==
    /\ ManageRequest(c)
    /\ LiveRole(r, c.tenant)
    /\ Begin(w, "grant", [NoRequest EXCEPT !.claims = c, !.tenant = c.tenant, !.role = r, !.keys = keys])
    /\ UNCHANGED <<rows, signed>>

\* ReplacePermissions; two at once for a role are in RolePermissions.
SetPermissionsWrite(w) ==
    LET r == req[w].role IN
    /\ pc[w] = "grant"
    /\ grants' = [grants EXCEPT ![r] = req[w].keys]
    /\ gave' = [gave EXCEPT ![r] = @ \cup req[w].keys]
    /\ Return(w)
    /\ UNCHANGED <<account, member, role, invite, signed>>

AssignMemberRole_AnyTenant(w, c, u, r) ==
    /\ ManageRequest(c)
    /\ IsMember(u, c.tenant)
    /\ r # Nil => role[r].tenant # Nil /\ ~role[r].deleted
    /\ Begin(w, "assign", [NoRequest EXCEPT !.claims = c, !.tenant = c.tenant, !.user = u, !.role = r])
    /\ UNCHANGED <<rows, signed>>

\* r = Nil clears the custom role.
AssignMemberRole(w, c, u, r) ==
    /\ ManageRequest(c)
    /\ IsMember(u, c.tenant)
    /\ r # Nil => LiveRole(r, c.tenant)
    /\ Begin(w, "assign", [NoRequest EXCEPT !.claims = c, !.tenant = c.tenant, !.user = u, !.role = r])
    /\ UNCHANGED <<rows, signed>>

AssignMemberRoleWrite(w) ==
    /\ pc[w] = "assign"
    /\ member' = [member EXCEPT ![<<req[w].user, req[w].tenant>>].custom = req[w].role]
    /\ Return(w)
    /\ UNCHANGED <<account, role, grants, gave, invite, signed>>

--------------------------------------------------------------------------
(* Specification *)

Init ==
    /\ account = {}
    /\ member = [m \in User \X Tenant |-> NoMember]
    /\ role = [r \in Role |-> NoRole]
    /\ grants = [r \in Role |-> {}]
    /\ gave = [r \in Role |-> {}]
    /\ invite = {}
    /\ signed = {}
    /\ pc = [w \in Worker |-> "idle"]
    /\ req = [w \in Worker |-> NoRequest]

Arrive(w) ==
    \/ \E u \in User, t \in Tenant : Refresh(w, u, t)
    \/ \E c \in signed :
         \/ \E t \in Tenant : TenantSession(w, c, t)
         \/ CreateRole(w, c)
         \/ \E r \in Role : DeleteRole(w, c, r)
         \/ \E r \in Role, keys \in SUBSET Grantable : SetPermissions(w, c, r, keys)
         \/ \E u \in User, r \in Role \cup {Nil} : AssignMemberRole(w, c, u, r)

Step(w) ==
    \/ IssueTokens(w)
    \/ \E r \in Role : CreateRoleWrite(w, r)
    \/ DeleteRoleWrite(w)
    \/ SetPermissionsWrite(w)
    \/ AssignMemberRoleWrite(w)

Next ==
    \/ \E w \in Worker : Arrive(w) \/ Step(w) \/ Fail(w)
    \/ \E u \in User : Signup(u) \/ Login(u) \/ \E t \in Tenant : Register(u, t)
    \/ \E c \in signed :
         \/ \E t \in Tenant : CreateTenant(c, t)
         \/ \E u \in User, b \in Invitable, r \in Role \cup {Nil} : CreateInvitation(c, u, b, r)
    \/ \E i \in invite : AcceptInvite(i)

Spec == Init /\ [][Next]_vars

--------------------------------------------------------------------------
(* Properties *)

\* Types of the tables, the claims and the handlers' locals.
TypeOK ==
    /\ account \subseteq User
    /\ member \in [User \X Tenant -> MemberRow]
    /\ role \in [Role -> RoleRow]
    /\ grants \in [Role -> SUBSET Registry]
    /\ gave \in [Role -> SUBSET Registry]
    /\ invite \subseteq InviteRow
    /\ signed \subseteq Claims
    /\ pc \in [Worker -> {"idle", "issue", "create", "delete", "grant", "assign"}]
    /\ req \in [Worker -> Request]

\* Each kind of token passes only where it is meant to, and only for users it
\* is meant for: the routes of a tenant for its members with the builtin role
\* they have in the table, the platform routes for staff.
TokensAreEntitled ==
    \A c \in signed :
        /\ WidgetRequest(c) \/ CanManageTenantRoles(c) =>
             IsMember(c.user, c.tenant) /\ c.trole = member[<<c.user, c.tenant>>].builtin
        /\ PlatformRequest(c) => c.user \in Staff
        /\ c.user \in account

\* A token without a custom role allows what its builtin role does.  What one
\* with a custom role allows beyond that are keys that role has had, and it is
\* a role of the token's own tenant: a membership that was stale when the
\* token was signed, or grants that were newer, give no more.
PermissionsAreBacked ==
    \A c \in {d \in signed : d.issuer = "access"} :
        /\ BuiltinPermissionKeys(c.trole) \subseteq c.perms
        /\ IF c.trid = Nil
           THEN c.perms = BuiltinPermissionKeys(c.trole)
           ELSE /\ role[c.trid].tenant = c.tenant
                /\ c.perms \subseteq BuiltinPermissionKeys(c.trole) \cup gave[c.trid]

\* The roles of a tenant and what they grant, deleted ones included.
RolesOf(t) == {<<r, role[r].deleted, grants[r]>> : r \in {s \in Role : role[s].tenant = t}}

\* Roles, grants and the memberships of members change only when a request
\* ends whose token is one of the same tenant and may manage its roles; a
\* token of one tenant moves nothing in another.
ManagedFromWithin ==
    [][\A t \in Tenant :
         \/ RolesOf(t)' # RolesOf(t)
         \/ \E u \in User : IsMember(u, t) /\ member'[<<u, t>>] # member[<<u, t>>]
         => \E w \in Worker :
              /\ pc[w] # "idle" /\ pc'[w] = "idle"
              /\ req[w].claims.tenant = t
              /\ CanManageTenantRoles(req[w].claims)]_vars
=============================================================================
