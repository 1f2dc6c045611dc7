---------------------------- MODULE AccessProofs ----------------------------
(* Theorems about Access, for any number of users, tenants, roles, tokens   *)
(* and workers.                                                             *)
EXTENDS Access, TLAPS

\* A custom role named next to a tenant is one of that tenant.
RoleFits(r, t) == r # Nil => r \in Role /\ role[r].tenant = t

\* Rows refer to rows that exist, in their own tenant.
RowsFit ==
    /\ \A u \in User, t \in Tenant : IsMember(u, t) =>
           u \in account /\ RoleFits(member[<<u, t>>].custom, t)
    /\ \A i \in invite : RoleFits(i.custom, i.tenant)
    /\ \A r \in Role : grants[r] \subseteq gave[r]

\* What a handler has read and still holds when it writes: the claims that
\* admitted it, and, however stale the rest of a membership, its builtin role
\* and the tenant of its custom role.
RequestsFit ==
    \A w \in Worker :
        /\ pc[w] # "idle" => req[w].tenant \in Tenant
        /\ pc[w] \in {"create", "delete", "grant", "assign"} =>
               req[w].claims.tenant = req[w].tenant /\ CanManageTenantRoles(req[w].claims)
        /\ pc[w] \in {"delete", "grant"} =>
               req[w].role \in Role /\ role[req[w].role].tenant = req[w].tenant
        /\ pc[w] \in {"issue", "assign"} =>
               req[w].user \in User /\ IsMember(req[w].user, req[w].tenant)
        /\ pc[w] = "assign" => RoleFits(req[w].role, req[w].tenant)
        /\ pc[w] = "issue" =>
               /\ req[w].m.builtin = member[<<req[w].user, req[w].tenant>>].builtin
               /\ RoleFits(req[w].m.custom, req[w].tenant)

\* A token without a tenant is of another kind and gives nothing in one.
TenantTokens ==
    \A c \in signed : c.tenant = Nil => c.issuer # "access" /\ c.trole = Nil /\ c.perms = {}

Inv ==
    /\ TypeOK
    /\ TenantTokens
    /\ RowsFit
    /\ RequestsFit
    /\ TokensAreEntitled
    /\ PermissionsAreBacked

--------------------------------------------------------------------------
(* Types *)

\* The rows and claims the handlers write are well typed.
LEMMA RowTypes ==
    /\ NoMember \in MemberRow /\ NoRole \in RoleRow /\ NoClaims \in Claims
    /\ NoRequest \in Request /\ Nil \notin Builtin
    /\ [builtin |-> "owner", custom |-> Nil] \in MemberRow
  <1>1. NoMember \in MemberRow /\ NoRole \in RoleRow /\ NoClaims \in Claims
    BY DEF NoMember, NoRole, NoClaims, MemberRow, RoleRow, Claims
  <1>2. NoRequest \in Request
    BY <1>1 DEF NoRequest, Request
  <1>3. Nil \notin Builtin /\ [builtin |-> "owner", custom |-> Nil] \in MemberRow
    BY AccessConstants DEF Builtin, MemberRow
  <1>. QED  BY <1>1, <1>2, <1>3

\* Permissions are keys of the registry.
LEMMA PermissionTypes ==
    ASSUME TypeOK, NEW m \in MemberRow
    PROVE  /\ BuiltinPermissionKeys(m.builtin) \subseteq Registry
           /\ EffectivePermissionKeys(m) \subseteq Registry
  <1>1. BuiltinPermissionKeys(m.builtin) \subseteq Registry
    BY AccessConstants DEF BuiltinPermissionKeys
  <1>2. MergePermissionKeys(BuiltinPermissionKeys(m.builtin), grants[m.custom]) \subseteq Registry
    BY <1>1 DEF MergePermissionKeys
  <1>. QED  BY <1>1, <1>2 DEF EffectivePermissionKeys

\* Tokens are well typed.
LEMMA TokenTypes ==
    ASSUME TypeOK, NEW u \in User
    PROVE  /\ SignTenantPick(u) \in Claims
           /\ SignPlatformAccess(u) \in Claims
           /\ \A t \in Tenant, m \in MemberRow : SignAccess(u, t, m) \in Claims
  <1>1. SignTenantPick(u) \in Claims /\ SignPlatformAccess(u) \in Claims
    BY RowTypes DEF SignTenantPick, SignPlatformAccess, UserRole, NoClaims, Claims, Issuer
  <1>2. ASSUME NEW t \in Tenant, NEW m \in MemberRow PROVE SignAccess(u, t, m) \in Claims
    <2>1. m.builtin \in Builtin \cup {Nil} /\ m.custom \in Role \cup {Nil}
      BY DEF MemberRow
    <2>2. EffectivePermissionKeys(m) \in SUBSET Registry
      BY PermissionTypes
    <2>. QED  BY <2>1, <2>2 DEF SignAccess, Claims, Issuer
  <1>. QED  BY <1>1, <1>2

\* Every step keeps the types.
LEMMA NextType == Inv /\ [Next]_vars => TypeOK'
  <1>. SUFFICES ASSUME Inv, [Next]_vars PROVE TypeOK'
    OBVIOUS
  <1>0. TypeOK
    BY DEF Inv
  <1>. USE RowTypes, TokenTypes, <1>0 DEF TypeOK
  <1>1. ASSUME NEW w \in Worker, Arrive(w) PROVE TypeOK'
    <2>1. ASSUME NEW u \in User, NEW t \in Tenant, Refresh(w, u, t) PROVE TypeOK'
      <3>1. [NoRequest EXCEPT !.user = u, !.tenant = t, !.m = member[<<u, t>>]] \in Request
        BY DEF NoRequest, Request
      <3>. QED  BY <2>1, <3>1 DEF Refresh, Begin, rows
    <2>2. ASSUME NEW c \in signed, NEW t \in Tenant, TenantSession(w, c, t) PROVE TypeOK'
      <3>1. c.user \in User
        BY <2>2 DEF TenantSession, Inv, TokensAreEntitled
      <3>2. [NoRequest EXCEPT !.user = c.user, !.tenant = t, !.m = member[<<c.user, t>>]] \in Request
        BY <3>1 DEF NoRequest, Request
      <3>. QED  BY <2>2, <3>2 DEF TenantSession, Begin, rows
    <2>3. ASSUME NEW c \in signed, CreateRole(w, c) PROVE TypeOK'
      <3>1. [NoRequest EXCEPT !.claims = c, !.tenant = c.tenant] \in Request
        BY DEF NoRequest, Request, Claims
      <3>. QED  BY <2>3, <3>1 DEF CreateRole, Begin, rows
    <2>4. ASSUME NEW c \in signed, NEW r \in Role, DeleteRole(w, c, r) PROVE TypeOK'
      <3>1. [NoRequest EXCEPT !.claims = c, !.tenant = c.tenant, !.role = r] \in Request
        BY DEF NoRequest, Request, Claims
      <3>. QED  BY <2>4, <3>1 DEF DeleteRole, Begin, rows
    <2>5. ASSUME NEW c \in signed, NEW r \in Role, NEW keys \in SUBSET Grantable,
                 SetPermissions(w, c, r, keys)
          PROVE  TypeOK'
      <3>1. [NoRequest EXCEPT !.claims = c, !.tenant = c.tenant, !.role = r, !.keys = keys] \in Request
        BY AccessConstants DEF NoRequest, Request, Claims
      <3>. QED  BY <2>5, <3>1 DEF SetPermissions, Begin, rows
    <2>6. ASSUME NEW c \in signed, NEW u \in User, NEW r \in Role \cup {Nil},
                 AssignMemberRole(w, c, u, r)
          PROVE  TypeOK'
      <3>1. [NoRequest EXCEPT !.claims = c, !.tenant = c.tenant, !.user = u, !.role = r] \in Request
        BY DEF NoRequest, Request, Claims
      <3>. QED  BY <2>6, <3>1 DEF AssignMemberRole, Begin, rows
    <2>. QED  BY <1>1, <2>1, <2>2, <2>3, <2>4, <2>5, <2>6 DEF Arrive
  <1>2. ASSUME NEW w \in Worker, Step(w) PROVE TypeOK'
    <2>1. ASSUME IssueTokens(w) PROVE TypeOK'
      <3>1. req[w].user \in User /\ req[w].tenant \in Tenant
        BY <2>1 DEF IssueTokens, Inv, RequestsFit
      <3>2. req[w].m \in MemberRow
        BY DEF Request
      <3>. QED  BY <2>1, <3>1, <3>2 DEF IssueTokens, HandOut, Return, rows
    <2>2. ASSUME NEW r \in Role, CreateRoleWrite(w, r) PROVE TypeOK'
      <3>1. role' \in [Role -> RoleRow]
        BY <2>2 DEF CreateRoleWrite, RoleRow, Request
      <3>. QED  BY <2>2, <3>1 DEF CreateRoleWrite, Return
    <2>3. ASSUME DeleteRoleWrite(w) PROVE TypeOK'
      <3>1. role' \in [Role -> RoleRow]
        BY <2>3 DEF DeleteRoleWrite, RoleRow
      <3>. QED  BY <2>3, <3>1 DEF DeleteRoleWrite, Return
    <2>4. ASSUME SetPermissionsWrite(w) PROVE TypeOK'
      <3>1. req[w].keys \in SUBSET Registry
        BY DEF Request
      <3>. QED  BY <2>4, <3>1 DEF SetPermissionsWrite, Return
    <2>5. ASSUME AssignMemberRoleWrite(w) PROVE TypeOK'
      <3>1. member' \in [User \X Tenant -> MemberRow]
        BY <2>5 DEF AssignMemberRoleWrite, MemberRow, Request
      <3>. QED  BY <2>5, <3>1 DEF AssignMemberRoleWrite, Return
    <2>. QED  BY <1>2, <2>1, <2>2, <2>3, <2>4, <2>5 DEF Step
  <1>3. ASSUME NEW w \in Worker, Fail(w) PROVE TypeOK'
    BY <1>3 DEF Fail, Return, rows
  <1>4. ASSUME NEW u \in User, Signup(u) PROVE TypeOK'
    BY <1>4 DEF Signup
  <1>5. ASSUME NEW u \in User, Login(u) PROVE TypeOK'
    BY <1>5 DEF Login, HandOut, rows
  <1>6. ASSUME NEW u \in User, NEW t \in Tenant, Register(u, t) PROVE TypeOK'
    BY <1>6 DEF Register, NewOwner, HandOut
  <1>7. ASSUME NEW c \in signed, NEW t \in Tenant, CreateTenant(c, t) PROVE TypeOK'
    <2>1. c.user \in User
      BY <1>7 DEF Inv, TokensAreEntitled
    <2>. QED  BY <1>7, <2>1 DEF CreateTenant, NewOwner, HandOut
  <1>8. ASSUME NEW c \in signed, NEW u \in User, NEW b \in Invitable, NEW r \in Role \cup {Nil},
               CreateInvitation(c, u, b, r)
        PROVE  TypeOK'
    <2>1. c.tenant \in Tenant
      BY <1>8 DEF CreateInvitation, ParseAccess, Claims
    <2>2. [tenant |-> c.tenant, email |-> u, builtin |-> b, custom |-> r] \in InviteRow
      BY <2>1, AccessConstants DEF InviteRow, Builtin
    <2>. QED  BY <1>8, <2>2 DEF CreateInvitation
  <1>9. ASSUME NEW i \in invite, AcceptInvite(i) PROVE TypeOK'
    <2>1. i.email \in User /\ i.tenant \in Tenant
          /\ [builtin |-> i.builtin, custom |-> i.custom] \in MemberRow
      BY DEF InviteRow, MemberRow
    <2>. QED  BY <1>9, <2>1 DEF AcceptInvite, HandOut
  <1>10. CASE UNCHANGED vars
    BY <1>10 DEF vars
  <1>. QED
    BY <1>1, <1>2, <1>3, <1>4, <1>5, <1>6, <1>7, <1>8, <1>9, <1>10 DEF Next

--------------------------------------------------------------------------
(* What never goes away, and what tokens are made from *)

\* Accounts, memberships with their builtin role, the tenant of a role, the
\* keys a role has had, and tokens.
Grows ==
    /\ account \subseteq account'
    /\ \A u \in User, t \in Tenant :
           IsMember(u, t) => member'[<<u, t>>].builtin = member[<<u, t>>].builtin
    /\ \A r \in Role : role[r].tenant # Nil => role'[r].tenant = role[r].tenant
    /\ \A r \in Role : gave[r] \subseteq gave'[r]

LEMMA NextGrows == Inv /\ [Next]_vars => Grows
  <1>. SUFFICES ASSUME Inv, [Next]_vars PROVE Grows
    OBVIOUS
  <1>. USE DEF Grows
  <1>0. TypeOK /\ RequestsFit
    BY DEF Inv
  <1>1. ASSUME NEW w \in Worker, Arrive(w) PROVE Grows
    BY <1>1 DEF Arrive, Refresh, TenantSession, CreateRole, DeleteRole, SetPermissions,
                AssignMemberRole, rows
  <1>2. ASSUME NEW w \in Worker, Step(w) PROVE Grows
    <2>1. CASE IssueTokens(w)
      BY <2>1 DEF IssueTokens, rows
    <2>2. ASSUME NEW r \in Role, CreateRoleWrite(w, r) PROVE Grows
      BY <2>2, <1>0 DEF CreateRoleWrite, TypeOK, NoRole, RoleRow
    <2>3. CASE DeleteRoleWrite(w)
      <3>1. \A r \in Role : role'[r].tenant = role[r].tenant
        BY <2>3, <1>0 DEF DeleteRoleWrite, TypeOK, RoleRow
      <3>. QED  BY <2>3, <3>1 DEF DeleteRoleWrite
    <2>4. CASE SetPermissionsWrite(w)
      BY <2>4, <1>0 DEF SetPermissionsWrite, TypeOK
    <2>5. CASE AssignMemberRoleWrite(w)
      <3>1. \A m \in User \X Tenant : member'[m].builtin = member[m].builtin
        BY <2>5, <1>0 DEF AssignMemberRoleWrite, TypeOK, MemberRow
      <3>. QED  BY <2>5, <3>1 DEF AssignMemberRoleWrite
    <2>. QED  BY <1>2, <2>1, <2>2, <2>3, <2>4, <2>5 DEF Step
  <1>3. ASSUME NEW w \in Worker, Fail(w) PROVE Grows
    BY <1>3 DEF Fail, rows
  <1>4. ASSUME NEW u \in User, Signup(u) \/ Login(u) PROVE Grows
    BY <1>4 DEF Signup, Login, rows
  <1>5. ASSUME NEW u \in User, NEW t \in Tenant, Register(u, t) PROVE Grows
    BY <1>5, <1>0 DEF Register, NewOwner, TypeOK, IsMember
  <1>6. ASSUME NEW c \in signed, NEW t \in Tenant, CreateTenant(c, t) PROVE Grows
    <2>1. c.user \in User
      BY <1>0 DEF Inv, TokensAreEntitled, TypeOK
    <2>. QED  BY <1>6, <1>0, <2>1 DEF CreateTenant, NewOwner, TypeOK, IsMember
  <1>7. ASSUME NEW c \in signed, NEW u \in User, NEW b \in Invitable, NEW r \in Role \cup {Nil},
               CreateInvitation(c, u, b, r)
        PROVE  Grows
    BY <1>7 DEF CreateInvitation
  <1>8. ASSUME NEW i \in invite, AcceptInvite(i) PROVE Grows
    <2>1. i.email \in User /\ i.tenant \in Tenant
      BY <1>0 DEF TypeOK, InviteRow
    <2>. QED  BY <1>8, <1>0, <2>1 DEF AcceptInvite, TypeOK, IsMember
  <1>9. CASE UNCHANGED vars
    BY <1>9 DEF vars
  <1>. QED
    BY <1>1, <1>2, <1>3, <1>4, <1>5, <1>6, <1>7, <1>8, <1>9 DEF Next

\* What a token for a tenant is made from: a membership that may be stale, but
\* whose builtin role is the one in the table and whose custom role is one of
\* the tenant.
MadeFrom(c, u, t, m) ==
    /\ c = SignAccess(u, t, m)
    /\ m.builtin \in Builtin
    /\ RoleFits(m.custom, t)
    /\ u \in account'
    /\ member'[<<u, t>>].builtin = m.builtin

NewToken(c) ==
    \/ \E u \in User, t \in Tenant, m \in MemberRow : MadeFrom(c, u, t, m)
    \/ \E u \in account' \cap User : c = SignTenantPick(u)
    \/ \E u \in account' \cap Staff : c = SignPlatformAccess(u)

LEMMA TokensAreMade == Inv /\ [Next]_vars => \A c \in signed' : c \in signed \/ NewToken(c)
  <1>. SUFFICES ASSUME Inv, [Next]_vars, NEW k \in signed', k \notin signed PROVE NewToken(k)
    OBVIOUS
  <1>0. TypeOK /\ RequestsFit /\ RowsFit
    BY DEF Inv
  <1>1. ASSUME NEW w \in Worker, Arrive(w) PROVE FALSE
    BY <1>1 DEF Arrive, Refresh, TenantSession, CreateRole, DeleteRole, SetPermissions,
                AssignMemberRole
  <1>2. ASSUME NEW w \in Worker, IssueTokens(w) PROVE NewToken(k)
    <2>1. /\ req[w].user \in User /\ req[w].tenant \in Tenant /\ req[w].m \in MemberRow
          /\ IsMember(req[w].user, req[w].tenant)
          /\ req[w].m.builtin = member[<<req[w].user, req[w].tenant>>].builtin
          /\ RoleFits(req[w].m.custom, req[w].tenant)
      BY <1>0, <1>2 DEF IssueTokens, RequestsFit, TypeOK, Request
    <2>2. req[w].m.builtin \in Builtin
      BY <2>1 DEF IsMember, MemberRow
    <2>3. req[w].user \in account
      BY <1>0, <2>1 DEF RowsFit
    <2>4. k = SignAccess(req[w].user, req[w].tenant, req[w].m)
      BY <1>2 DEF IssueTokens, HandOut
    <2>5. MadeFrom(k, req[w].user, req[w].tenant, req[w].m)
      BY <1>2, <2>1, <2>2, <2>3, <2>4 DEF MadeFrom, IssueTokens, rows
    <2>. QED  BY <2>1, <2>5 DEF NewToken
  <1>3. ASSUME NEW w \in Worker, Step(w), ~IssueTokens(w) PROVE FALSE
    BY <1>3 DEF Step, CreateRoleWrite, DeleteRoleWrite, SetPermissionsWrite, AssignMemberRoleWrite
  <1>4. ASSUME NEW w \in Worker, Fail(w) PROVE FALSE
    BY <1>4 DEF Fail
  <1>5. ASSUME NEW u \in User, Signup(u) PROVE FALSE
    BY <1>5 DEF Signup
  <1>6. ASSUME NEW u \in User, Login(u) PROVE NewToken(k)
    <2>1. u \in account'
      BY <1>6 DEF Login, rows
    <2>2. \/ k = SignTenantPick(u)
          \/ k = SignPlatformAccess(u) /\ IsPlatformStaff(UserRole(u))
      BY <1>6 DEF Login, HandOut
    <2>3. CASE k = SignTenantPick(u)
      BY <2>1, <2>3 DEF NewToken
    <2>4. CASE k = SignPlatformAccess(u) /\ u \in Staff
      BY <2>1, <2>4 DEF NewToken
    <2>5. IsPlatformStaff(UserRole(u)) => u \in Staff
      BY AccessConstants DEF IsPlatformStaff, UserRole
    <2>. QED  BY <2>2, <2>3, <2>4, <2>5
  <1>7. ASSUME NEW u \in User, NEW t \in Tenant, NewOwner(u, t), u \in account' PROVE NewToken(k)
    <2>. DEFINE m == [builtin |-> "owner", custom |-> Nil]
    <2>1. m \in MemberRow /\ m.builtin \in Builtin /\ RoleFits(m.custom, t)
      BY RowTypes DEF RoleFits, Builtin
    <2>2. k = SignAccess(u, t, m)
      BY <1>7 DEF NewOwner, HandOut
    <2>3. member'[<<u, t>>] = m
      BY <1>7, <1>0 DEF NewOwner, TypeOK
    <2>4. MadeFrom(k, u, t, m)
      BY <1>7, <2>1, <2>2, <2>3 DEF MadeFrom
    <2>. QED  BY <2>1, <2>4 DEF NewToken
  <1>8. ASSUME NEW u \in User, NEW t \in Tenant, Register(u, t) PROVE NewToken(k)
    BY <1>7, <1>8 DEF Register
  <1>9. ASSUME NEW c \in signed, NEW t \in Tenant, CreateTenant(c, t) PROVE NewToken(k)
    <2>1. c.user \in account /\ c.user \in User
      BY <1>0 DEF Inv, TokensAreEntitled, TypeOK
    <2>. QED  BY <1>7, <1>9, <2>1 DEF CreateTenant
  <1>10. ASSUME NEW c \in signed, NEW u \in User, NEW b \in Invitable, NEW r \in Role \cup {Nil},
               CreateInvitation(c, u, b, r)
        PROVE  FALSE
    BY <1>10 DEF CreateInvitation
  <1>11. ASSUME NEW i \in invite, AcceptInvite(i) PROVE NewToken(k)
    <2>. DEFINE m == [builtin |-> i.builtin, custom |-> i.custom]
    <2>1. /\ i.email \in User /\ i.tenant \in Tenant
          /\ m \in MemberRow /\ m.builtin \in Builtin
      BY <1>0 DEF TypeOK, InviteRow, MemberRow
    <2>2. RoleFits(m.custom, i.tenant)
      BY <1>0 DEF RowsFit
    <2>3. k = SignAccess(i.email, i.tenant, m) /\ i.email \in account'
      BY <1>11 DEF AcceptInvite, HandOut
    <2>4. member'[<<i.email, i.tenant>>] = m
      BY <1>11, <1>0, <2>1 DEF AcceptInvite, TypeOK
    <2>5. MadeFrom(k, i.email, i.tenant, m)
      BY <2>1, <2>2, <2>3, <2>4 DEF MadeFrom
    <2>. QED  BY <2>1, <2>5 DEF NewToken
  <1>12. CASE UNCHANGED vars
    BY <1>12 DEF vars
  <1>. QED
    BY <1>1, <1>2, <1>3, <1>4, <1>5, <1>6, <1>8, <1>9, <1>10, <1>11, <1>12 DEF Next

--------------------------------------------------------------------------
(* Rows and requests in flight *)

\* A role that fits a tenant goes on fitting it.
LEMMA StillFits ==
    ASSUME Grows, NEW r, NEW t \in Tenant, RoleFits(r, t)
    PROVE  RoleFits(r, t)'
  BY AccessConstants DEF Grows, RoleFits

\* A membership is there already, or is one of a founder or an invitee; its
\* custom role changes by an assignment only.
LEMMA NextMember ==
    ASSUME Inv, [Next]_vars, NEW u \in User, NEW t \in Tenant, IsMember(u, t)'
    PROVE  u \in account' /\ RoleFits(member[<<u, t>>].custom, t)'
  <1>0. TypeOK /\ RequestsFit /\ RowsFit /\ Grows
    BY NextGrows DEF Inv
  <1>. DEFINE Goal == u \in account' /\ RoleFits(member[<<u, t>>].custom, t)'
  <1>. SUFFICES Goal
    OBVIOUS
  <1>1. CASE member'[<<u, t>>] = member[<<u, t>>]
    <2>1. u \in account /\ RoleFits(member[<<u, t>>].custom, t)
      BY <1>0, <1>1 DEF RowsFit, IsMember
    <2>. QED  BY <1>0, <1>1, <2>1, AccessConstants DEF Grows, RoleFits
  <1>. HIDE DEF Goal
  <1>2. ASSUME NEW v \in User, NEW s \in Tenant, NewOwner(v, s), v \in account' PROVE Goal
    <2>1. CASE v = u /\ s = t
      <3>1. member'[<<u, t>>].custom = Nil
        BY <1>0, <1>2, <2>1 DEF NewOwner, TypeOK
      <3>. QED  BY <1>2, <2>1, <3>1 DEF RoleFits, Goal
    <2>2. CASE ~(v = u /\ s = t)
      <3>1. member'[<<u, t>>] = member[<<u, t>>]
        BY <1>0, <1>2, <2>2 DEF NewOwner, TypeOK
      <3>. QED  BY <1>1, <3>1
    <2>. QED  BY <2>1, <2>2
  <1>3. ASSUME NEW i \in invite, AcceptInvite(i) PROVE Goal
    <2>0. i.email \in User /\ i.tenant \in Tenant
      BY <1>0 DEF TypeOK, InviteRow
    <2>1. CASE i.email = u /\ i.tenant = t
      <3>1. member'[<<u, t>>].custom = i.custom /\ u \in account' /\ role' = role
        BY <1>0, <1>3, <2>0, <2>1 DEF AcceptInvite, TypeOK
      <3>2. RoleFits(i.custom, t)
        BY <1>0, <2>1 DEF RowsFit
      <3>. QED  BY <3>1, <3>2 DEF RoleFits, Goal
    <2>2. CASE ~(i.email = u /\ i.tenant = t)
      <3>1. member'[<<u, t>>] = member[<<u, t>>]
        BY <1>0, <1>3, <2>0, <2>2 DEF AcceptInvite, TypeOK
      <3>. QED  BY <1>1, <3>1
    <2>. QED  BY <2>1, <2>2
  <1>4. ASSUME NEW w \in Worker, AssignMemberRoleWrite(w) PROVE Goal
    <2>0. /\ req[w].user \in User /\ req[w].tenant \in Tenant
          /\ IsMember(req[w].user, req[w].tenant) /\ RoleFits(req[w].role, req[w].tenant)
      BY <1>0, <1>4 DEF AssignMemberRoleWrite, RequestsFit
    <2>1. CASE req[w].user = u /\ req[w].tenant = t
      <3>1. member'[<<u, t>>].custom = req[w].role /\ role' = role /\ account' = account
        BY <1>0, <1>4, <2>1 DEF AssignMemberRoleWrite, TypeOK, MemberRow
      <3>2. u \in account
        BY <1>0, <2>0, <2>1 DEF RowsFit
      <3>. QED  BY <2>0, <2>1, <3>1, <3>2 DEF RoleFits, Goal
    <2>2. CASE ~(req[w].user = u /\ req[w].tenant = t)
      <3>1. member'[<<u, t>>] = member[<<u, t>>]
        BY <1>0, <1>4, <2>0, <2>2 DEF AssignMemberRoleWrite, TypeOK
      <3>. QED  BY <1>1, <3>1
    <2>. QED  BY <2>1, <2>2
  <1>5. ASSUME NEW c \in signed, NEW s \in Tenant, CreateTenant(c, s) PROVE Goal
    <2>1. c.user \in account /\ c.user \in User
      BY <1>0 DEF Inv, TokensAreEntitled, TypeOK
    <2>. QED  BY <1>2, <1>5, <2>1 DEF CreateTenant
  <1>6. ASSUME NEW v \in User, NEW s \in Tenant, Register(v, s) PROVE Goal
    BY <1>2, <1>6 DEF Register
  <1>7. CASE UNCHANGED member
    BY <1>1, <1>7
  <1>. QED
    BY <1>3, <1>4, <1>5, <1>6, <1>7
       DEF Next, Arrive, Refresh, TenantSession, CreateRole, DeleteRole, SetPermissions,
           AssignMemberRole, Step, IssueTokens, CreateRoleWrite, DeleteRoleWrite,
           SetPermissionsWrite, Fail, Signup, Login, CreateInvitation, rows, vars

LEMMA NextRows == Inv /\ [Next]_vars => RowsFit'
  <1>. SUFFICES ASSUME Inv, [Next]_vars PROVE RowsFit'
    OBVIOUS
  <1>0. TypeOK /\ RowsFit /\ Grows
    BY NextGrows DEF Inv
  <1>1. ASSUME NEW u \in User, NEW t \in Tenant, IsMember(u, t)'
        PROVE  u \in account' /\ RoleFits(member[<<u, t>>].custom, t)'
    BY <1>1, NextMember
  <1>2. ASSUME NEW i \in invite' PROVE RoleFits(i.custom, i.tenant)'
    <2>1. CASE i \in invite
      <3>1. i.tenant \in Tenant /\ RoleFits(i.custom, i.tenant)
        BY <1>0, <2>1 DEF TypeOK, InviteRow, RowsFit
      <3>. QED  BY <1>0, <3>1, StillFits
    <2>2. ASSUME NEW c \in signed, NEW u \in User, NEW b \in Invitable, NEW r \in Role \cup {Nil},
                 CreateInvitation(c, u, b, r), i \notin invite
          PROVE  RoleFits(i.custom, i.tenant)'
      <3>1. i.tenant = c.tenant /\ i.custom = r /\ role' = role
        BY <2>2 DEF CreateInvitation
      <3>. QED  BY <2>2, <3>1 DEF CreateInvitation, LiveRole, RoleFits
    <2>. QED
      BY <2>1, <2>2
         DEF Next, Arrive, Refresh, TenantSession, CreateRole, DeleteRole, SetPermissions,
             AssignMemberRole, Step, IssueTokens, CreateRoleWrite, DeleteRoleWrite,
             SetPermissionsWrite, AssignMemberRoleWrite, Fail, Signup, Login, Register,
             CreateTenant, NewOwner, AcceptInvite, rows, vars
  <1>3. ASSUME NEW r \in Role PROVE (grants[r] \subseteq gave[r])'
    <2>1. CASE UNCHANGED <<grants, gave>>
      BY <1>0, <2>1 DEF RowsFit
    <2>2. ASSUME NEW w \in Worker, SetPermissionsWrite(w) PROVE (grants[r] \subseteq gave[r])'
      BY <1>0, <2>2 DEF SetPermissionsWrite, TypeOK, RowsFit
    <2>. QED
      BY <2>1, <2>2
         DEF Next, Arrive, Refresh, TenantSession, CreateRole, DeleteRole, SetPermissions,
             AssignMemberRole, Step, IssueTokens, CreateRoleWrite, DeleteRoleWrite,
             AssignMemberRoleWrite, Fail, Signup, Login, Register,
             CreateTenant, CreateInvitation, AcceptInvite, rows, vars
  <1>. QED  BY <1>1, <1>2, <1>3 DEF RowsFit

\* What one worker has read fits.
RequestFits(w) ==
    /\ pc[w] # "idle" => req[w].tenant \in Tenant
    /\ pc[w] \in {"create", "delete", "grant", "assign"} =>
           req[w].claims.tenant = req[w].tenant /\ CanManageTenantRoles(req[w].claims)
    /\ pc[w] \in {"delete", "grant"} =>
           req[w].role \in Role /\ role[req[w].role].tenant = req[w].tenant
    /\ pc[w] \in {"issue", "assign"} =>
           req[w].user \in User /\ IsMember(req[w].user, req[w].tenant)
    /\ pc[w] = "assign" => RoleFits(req[w].role, req[w].tenant)
    /\ pc[w] = "issue" =>
           /\ req[w].m.builtin = member[<<req[w].user, req[w].tenant>>].builtin
           /\ RoleFits(req[w].m.custom, req[w].tenant)

LEMMA NextRequests == Inv /\ [Next]_vars => RequestsFit'
  <1>. SUFFICES ASSUME Inv, [Next]_vars, NEW w \in Worker PROVE RequestFits(w)'
    BY DEF RequestsFit, RequestFits, CanManageTenantRoles
  <1>0. TypeOK /\ RowsFit /\ Grows /\ RequestFits(w)
    BY NextGrows DEF Inv, RequestsFit, RequestFits
  <1>1. CASE pc'[w] = pc[w] /\ req'[w] = req[w]
    <2>1. req[w].tenant \in Tenant /\ req[w].user \in User =>
             (IsMember(req[w].user, req[w].tenant) =>
                 member'[<<req[w].user, req[w].tenant>>].builtin
                     = member[<<req[w].user, req[w].tenant>>].builtin)
      BY <1>0 DEF Grows
    <2>2. \A r : req[w].tenant \in Tenant /\ RoleFits(r, req[w].tenant)
                    => (r # Nil => r \in Role /\ role'[r].tenant = req[w].tenant)
      BY <1>0, AccessConstants DEF Grows, RoleFits
    <2>3. pc[w] \in {"delete", "grant"} => role'[req[w].role].tenant = req[w].tenant
      BY <1>0, AccessConstants DEF Grows, RequestFits
    <2>. QED  BY <1>0, <1>1, <2>1, <2>2, <2>3 DEF RequestFits, IsMember, RoleFits
  <1>2. CASE pc'[w] = "idle"
    BY <1>2 DEF RequestFits
  <1>3. ASSUME NEW u \in User, NEW t \in Tenant, Refresh(w, u, t) PROVE RequestFits(w)'
    <2>1. /\ pc'[w] = "issue" /\ req'[w].tenant = t /\ req'[w].user = u
          /\ req'[w].m = member[<<u, t>>] /\ member' = member /\ role' = role
      BY <1>0, <1>3 DEF Refresh, Begin, TypeOK, rows, NoRequest
    <2>2. IsMember(u, t) /\ RoleFits(member[<<u, t>>].custom, t)
      BY <1>0, <1>3 DEF Refresh, RowsFit
    <2>. QED  BY <2>1, <2>2 DEF RequestFits, IsMember, RoleFits
  <1>4. ASSUME NEW c \in signed, NEW t \in Tenant, TenantSession(w, c, t) PROVE RequestFits(w)'
    <2>0. c.user \in User
      BY <1>0 DEF Inv, TokensAreEntitled, TypeOK
    <2>1. /\ pc'[w] = "issue" /\ req'[w].tenant = t /\ req'[w].user = c.user
          /\ req'[w].m = member[<<c.user, t>>] /\ member' = member /\ role' = role
      BY <1>0, <1>4 DEF TenantSession, Begin, TypeOK, rows, NoRequest
    <2>2. IsMember(c.user, t) /\ RoleFits(member[<<c.user, t>>].custom, t)
      BY <1>0, <1>4, <2>0 DEF TenantSession, RowsFit
    <2>. QED  BY <2>0, <2>1, <2>2 DEF RequestFits, IsMember, RoleFits
  <1>5. ASSUME NEW c \in signed, ManageRequest(c)
        PROVE  c.tenant \in Tenant /\ CanManageTenantRoles(c)
    BY <1>0, <1>5 DEF ManageRequest, ParseAccess, TypeOK, Claims
  <1>6. ASSUME NEW c \in signed, CreateRole(w, c) PROVE RequestFits(w)'
    <2>1. pc'[w] = "create" /\ req'[w].tenant = c.tenant /\ req'[w].claims = c
      BY <1>0, <1>6 DEF CreateRole, Begin, TypeOK, NoRequest
    <2>2. c.tenant \in Tenant /\ CanManageTenantRoles(c)
      BY <1>5, <1>6 DEF CreateRole
    <2>. QED  BY <2>1, <2>2 DEF RequestFits, CanManageTenantRoles
  <1>7. ASSUME NEW c \in signed, NEW r \in Role, DeleteRole(w, c, r) PROVE RequestFits(w)'
    <2>1. /\ pc'[w] = "delete" /\ req'[w].tenant = c.tenant /\ req'[w].claims = c
          /\ req'[w].role = r /\ role' = role
      BY <1>0, <1>7 DEF DeleteRole, Begin, TypeOK, rows, NoRequest
    <2>2. c.tenant \in Tenant /\ CanManageTenantRoles(c) /\ role[r].tenant = c.tenant
      BY <1>5, <1>7 DEF DeleteRole, LiveRole
    <2>. QED  BY <2>1, <2>2 DEF RequestFits, CanManageTenantRoles
  <1>8. ASSUME NEW c \in signed, NEW r \in Role, NEW keys \in SUBSET Grantable,
               SetPermissions(w, c, r, keys)
        PROVE  RequestFits(w)'
    <2>1. /\ pc'[w] = "grant" /\ req'[w].tenant = c.tenant /\ req'[w].claims = c
          /\ req'[w].role = r /\ role' = role
      BY <1>0, <1>8 DEF SetPermissions, Begin, TypeOK, rows, NoRequest
    <2>2. c.tenant \in Tenant /\ CanManageTenantRoles(c) /\ role[r].tenant = c.tenant
      BY <1>5, <1>8 DEF SetPermissions, LiveRole
    <2>. QED  BY <2>1, <2>2 DEF RequestFits, CanManageTenantRoles
  <1>9. ASSUME NEW c \in signed, NEW u \in User, NEW r \in Role \cup {Nil},
               AssignMemberRole(w, c, u, r)
        PROVE  RequestFits(w)'
    <2>1. /\ pc'[w] = "assign" /\ req'[w].tenant = c.tenant /\ req'[w].claims = c
          /\ req'[w].role = r /\ req'[w].user = u /\ role' = role /\ member' = member
      BY <1>0, <1>9 DEF AssignMemberRole, Begin, TypeOK, rows, NoRequest
    <2>2. c.tenant \in Tenant /\ CanManageTenantRoles(c) /\ IsMember(u, c.tenant)
      BY <1>5, <1>9 DEF AssignMemberRole
    <2>3. r # Nil => role[r].tenant = c.tenant
      BY <1>9 DEF AssignMemberRole, LiveRole
    <2>. QED  BY <2>1, <2>2, <2>3 DEF RequestFits, CanManageTenantRoles, IsMember, RoleFits
  <1>10. CASE Arrive(w)
    BY <1>3, <1>4, <1>6, <1>7, <1>8, <1>9, <1>10 DEF Arrive
  <1>11. CASE Step(w) \/ Fail(w)
    BY <1>0, <1>2, <1>11 DEF Step, IssueTokens, CreateRoleWrite, DeleteRoleWrite,
           SetPermissionsWrite, AssignMemberRoleWrite, Fail, Return, TypeOK
  <1>12. ASSUME NEW v \in Worker, v # w, Arrive(v) \/ Step(v) \/ Fail(v) PROVE RequestFits(w)'
    <2>1. pc'[w] = pc[w] /\ req'[w] = req[w]
      BY <1>0, <1>12
         DEF Arrive, Refresh, TenantSession, CreateRole, DeleteRole, SetPermissions,
             AssignMemberRole, Begin, Step, IssueTokens, CreateRoleWrite, DeleteRoleWrite,
             SetPermissionsWrite, AssignMemberRoleWrite, Fail, Return, TypeOK
    <2>. QED  BY <1>1, <2>1
  <1>13. CASE UNCHANGED <<pc, req>>
    BY <1>1, <1>13
  <1>. QED
    BY <1>10, <1>11, <1>12, <1>13
       DEF Next, Signup, Login, Register, CreateTenant, CreateInvitation, AcceptInvite, vars

--------------------------------------------------------------------------
(* Tokens *)

\* A token made from a membership of the table passes where its user may go.
LEMMA NewTokenFits ==
    ASSUME TypeOK, RowsFit, Grows, NEW c, NEW u \in User, NEW t \in Tenant, NEW m \in MemberRow,
           MadeFrom(c, u, t, m)
    PROVE  /\ c.issuer = "access" /\ c.user = u /\ c.tenant = t /\ c.trole = m.builtin
           /\ c.trid = m.custom
           /\ BuiltinPermissionKeys(c.trole) \subseteq c.perms
           /\ c.trid = Nil => c.perms = BuiltinPermissionKeys(c.trole)
           /\ c.trid # Nil =>
                  /\ c.trid \in Role /\ role'[c.trid].tenant = t
                  /\ c.perms \subseteq BuiltinPermissionKeys(c.trole) \cup gave'[c.trid]
  <1>1. /\ c.issuer = "access" /\ c.user = u /\ c.tenant = t /\ c.trole = m.builtin
        /\ c.trid = m.custom /\ c.perms = EffectivePermissionKeys(m)
    BY DEF MadeFrom, SignAccess
  <1>2. BuiltinPermissionKeys(c.trole) \subseteq c.perms
    BY <1>1 DEF EffectivePermissionKeys, MergePermissionKeys
  <1>3. c.trid = Nil => c.perms = BuiltinPermissionKeys(c.trole)
    BY <1>1 DEF EffectivePermissionKeys
  <1>4. ASSUME c.trid # Nil
        PROVE  /\ c.trid \in Role /\ role'[c.trid].tenant = t
               /\ c.perms \subseteq BuiltinPermissionKeys(c.trole) \cup gave'[c.trid]
    <2>1. c.trid \in Role /\ role[c.trid].tenant = t
      BY <1>1, <1>4 DEF MadeFrom, RoleFits
    <2>2. role'[c.trid].tenant = t
      BY <2>1, AccessConstants DEF Grows
    <2>3. grants[c.trid] \subseteq gave'[c.trid]
      BY <2>1 DEF RowsFit, Grows
    <2>4. c.perms \subseteq BuiltinPermissionKeys(c.trole) \cup grants[c.trid]
      BY <1>1, <1>4 DEF EffectivePermissionKeys, MergePermissionKeys
    <2>. QED  BY <2>1, <2>2, <2>3, <2>4
  <1>. QED  BY <1>1, <1>2, <1>3, <1>4

LEMMA NextEntitled == Inv /\ [Next]_vars => TokensAreEntitled'
  <1>. SUFFICES ASSUME Inv, [Next]_vars, NEW c \in signed'
                PROVE  /\ WidgetRequest(c) \/ CanManageTenantRoles(c) =>
                              /\ IsMember(c.user, c.tenant)'
                              /\ c.trole = member'[<<c.user, c.tenant>>].builtin
                       /\ PlatformRequest(c) => c.user \in Staff
                       /\ c.user \in account'
    BY DEF TokensAreEntitled, WidgetRequest, CanManageTenantRoles, PlatformRequest, ParseAccess,
           ParsePlatformAccess, IsPlatformStaff
  <1>0. TypeOK /\ RowsFit /\ TokensAreEntitled /\ Grows
    BY NextGrows DEF Inv
  <1>1. CASE c \in signed
    <2>1. c.user \in account /\ c.user \in User /\ (PlatformRequest(c) => c.user \in Staff)
      BY <1>0, <1>1 DEF TokensAreEntitled, TypeOK
    <2>2. ASSUME WidgetRequest(c) \/ CanManageTenantRoles(c)
          PROVE  IsMember(c.user, c.tenant)' /\ c.trole = member'[<<c.user, c.tenant>>].builtin
      <3>1. IsMember(c.user, c.tenant) /\ c.trole = member[<<c.user, c.tenant>>].builtin
        BY <1>0, <1>1, <2>2 DEF TokensAreEntitled
      <3>2. c.tenant \in Tenant
        BY <1>0, <1>1, <2>2, RowTypes
           DEF TypeOK, Claims, Inv, TenantTokens, WidgetRequest, CanManageTenantRoles, Builtin
      <3>. QED  BY <1>0, <2>1, <3>1, <3>2 DEF Grows, IsMember
    <2>. QED  BY <1>0, <2>1, <2>2 DEF Grows
  <1>2. ASSUME NEW u \in User, NEW t \in Tenant, NEW m \in MemberRow, MadeFrom(c, u, t, m)
        PROVE  /\ IsMember(c.user, c.tenant)' /\ c.trole = member'[<<c.user, c.tenant>>].builtin
               /\ ~PlatformRequest(c)
               /\ c.user \in account'
    BY <1>0, <1>2, NewTokenFits, RowTypes
       DEF MadeFrom, IsMember, PlatformRequest, ParsePlatformAccess
  <1>3. ASSUME NEW u \in account' \cap User, c = SignTenantPick(u)
        PROVE  /\ ~WidgetRequest(c) /\ ~CanManageTenantRoles(c) /\ ~PlatformRequest(c)
               /\ c.user \in account'
    BY <1>3, RowTypes DEF SignTenantPick, NoClaims, WidgetRequest, ParseAccess, PlatformRequest,
           ParsePlatformAccess, CanManageTenantRoles, Builtin
  <1>4. ASSUME NEW u \in account' \cap Staff, c = SignPlatformAccess(u)
        PROVE  /\ ~WidgetRequest(c) /\ ~CanManageTenantRoles(c)
               /\ c.user \in Staff /\ c.user \in account'
    BY <1>4, RowTypes DEF SignPlatformAccess, NoClaims, WidgetRequest, ParseAccess,
           CanManageTenantRoles, Builtin
  <1>5. c \in signed \/ NewToken(c)
    BY TokensAreMade
  <1>. QED  BY <1>1, <1>2, <1>3, <1>4, <1>5 DEF NewToken

LEMMA NextTenantTokens == Inv /\ [Next]_vars => TenantTokens'
  <1>. SUFFICES ASSUME Inv, [Next]_vars, NEW c \in signed', c.tenant = Nil
                PROVE  c.issuer # "access" /\ c.trole = Nil /\ c.perms = {}
    BY DEF TenantTokens
  <1>1. CASE c \in signed
    BY <1>1 DEF Inv, TenantTokens
  <1>2. ASSUME NEW u \in User, NEW t \in Tenant, NEW m \in MemberRow, MadeFrom(c, u, t, m)
        PROVE  FALSE
    BY <1>2, AccessConstants DEF MadeFrom, SignAccess
  <1>3. ASSUME NEW u, c = SignTenantPick(u) \/ c = SignPlatformAccess(u)
        PROVE  c.issuer # "access" /\ c.trole = Nil /\ c.perms = {}
    BY <1>3 DEF SignTenantPick, SignPlatformAccess, NoClaims
  <1>4. c \in signed \/ NewToken(c)
    BY TokensAreMade
  <1>. QED  BY <1>1, <1>2, <1>3, <1>4 DEF NewToken

LEMMA NextBacked == Inv /\ [Next]_vars => PermissionsAreBacked'
  <1>. SUFFICES ASSUME Inv, [Next]_vars, NEW c \in signed', c.issuer = "access"
                PROVE  /\ BuiltinPermissionKeys(c.trole) \subseteq c.perms
                       /\ c.trid = Nil => c.perms = BuiltinPermissionKeys(c.trole)
                       /\ c.trid # Nil =>
                              /\ role'[c.trid].tenant = c.tenant
                              /\ c.perms \subseteq BuiltinPermissionKeys(c.trole) \cup gave'[c.trid]
    BY DEF PermissionsAreBacked, BuiltinPermissionKeys
  <1>0. TypeOK /\ RowsFit /\ PermissionsAreBacked /\ Grows
    BY NextGrows DEF Inv
  <1>1. CASE c \in signed
    <2>1. /\ BuiltinPermissionKeys(c.trole) \subseteq c.perms
          /\ c.trid = Nil => c.perms = BuiltinPermissionKeys(c.trole)
          /\ c.trid # Nil =>
                 /\ role[c.trid].tenant = c.tenant
                 /\ c.perms \subseteq BuiltinPermissionKeys(c.trole) \cup gave[c.trid]
      BY <1>0, <1>1 DEF PermissionsAreBacked
    <2>2. c.trid \in Role \cup {Nil} /\ c.tenant # Nil
      BY <1>0, <1>1 DEF TypeOK, Claims, Inv, TenantTokens
    <2>. QED  BY <1>0, <2>1, <2>2 DEF Grows
  <1>2. ASSUME NEW u \in User, NEW t \in Tenant, NEW m \in MemberRow, MadeFrom(c, u, t, m)
        PROVE  /\ BuiltinPermissionKeys(c.trole) \subseteq c.perms
               /\ c.trid = Nil => c.perms = BuiltinPermissionKeys(c.trole)
               /\ c.trid # Nil =>
                      /\ role'[c.trid].tenant = c.tenant
                      /\ c.perms \subseteq BuiltinPermissionKeys(c.trole) \cup gave'[c.trid]
    BY <1>0, <1>2, NewTokenFits
  <1>3. ASSUME NEW u, c = SignTenantPick(u) \/ c = SignPlatformAccess(u) PROVE FALSE
    BY <1>3 DEF SignTenantPick, SignPlatformAccess, NoClaims
  <1>4. c \in signed \/ NewToken(c)
    BY TokensAreMade
  <1>. QED  BY <1>1, <1>2, <1>3, <1>4 DEF NewToken

--------------------------------------------------------------------------
(* Theorems *)

\* Inv is inductive.
LEMMA InitInv == Init => Inv
  <1>. SUFFICES ASSUME Init PROVE Inv
    OBVIOUS
  <1>1. TypeOK
    BY RowTypes DEF Init, TypeOK
  <1>2. RowsFit
    BY DEF Init, RowsFit, IsMember, NoMember
  <1>3. RequestsFit
    BY DEF Init, RequestsFit
  <1>4. TenantTokens /\ TokensAreEntitled /\ PermissionsAreBacked
    BY DEF Init, TenantTokens, TokensAreEntitled, PermissionsAreBacked
  <1>. QED  BY <1>1, <1>2, <1>3, <1>4 DEF Inv

LEMMA NextInv == Inv /\ [Next]_vars => Inv'
  BY NextType, NextRows, NextRequests, NextEntitled, NextBacked, NextTenantTokens DEF Inv

LEMMA InvHolds == Spec => []Inv
  BY InitInv, NextInv, PTL DEF Spec

\* The tables, the claims of tokens and the handlers' locals keep their types.
THEOREM TypeCorrect == Spec => []TypeOK
  <1>1. Inv => TypeOK
    BY DEF Inv
  <1>. QED  BY <1>1, InvHolds, PTL

\* However requests overlap and however old tokens are, each kind of token
\* passes only where it is meant to, for users it is meant for.
THEOREM TokensAreEntitledHolds == Spec => []TokensAreEntitled
  <1>1. Inv => TokensAreEntitled
    BY DEF Inv
  <1>. QED  BY <1>1, InvHolds, PTL

\* However requests overlap, no token allows more than its builtin role and a
\* custom role of its own tenant have allowed.
THEOREM PermissionsAreBackedHolds == Spec => []PermissionsAreBacked
  <1>1. Inv => PermissionsAreBacked
    BY DEF Inv
  <1>. QED  BY <1>1, InvHolds, PTL

\* A step that changes what a tenant's members may do is the end of a request
\* with a token of that tenant that may manage roles.
LEMMA NextManaged ==
    ASSUME Inv, [Next]_vars, NEW t \in Tenant,
           \/ RolesOf(t)' # RolesOf(t)
           \/ \E u \in User : IsMember(u, t) /\ member'[<<u, t>>] # member[<<u, t>>]
    PROVE  \E w \in Worker :
              /\ pc[w] # "idle" /\ pc'[w] = "idle"
              /\ req[w].claims.tenant = t
              /\ CanManageTenantRoles(req[w].claims)
  <1>0. TypeOK /\ RequestsFit
    BY DEF Inv
  <1>. DEFINE Goal == \E w \in Worker :
                        /\ pc[w] # "idle" /\ pc'[w] = "idle"
                        /\ req[w].claims.tenant = t
                        /\ CanManageTenantRoles(req[w].claims)
  <1>. SUFFICES Goal
    OBVIOUS
  <1>1. ASSUME NEW w \in Worker, pc[w] \in {"create", "delete", "grant", "assign"}, Return(w),
               req[w].tenant = t
        PROVE  Goal
    BY <1>0, <1>1 DEF Return, TypeOK, RequestsFit
  <1>. HIDE DEF Goal
  <1>2. ASSUME UNCHANGED <<role, grants>>,
               \A u \in User : IsMember(u, t) => member'[<<u, t>>] = member[<<u, t>>]
        PROVE  FALSE
    BY <1>2 DEF RolesOf
  <1>3. ASSUME \A r \in Role : (role[r].tenant = t \/ role'[r].tenant = t) =>
                                   role'[r] = role[r] /\ grants'[r] = grants[r],
               UNCHANGED member
        PROVE  FALSE
    BY <1>3 DEF RolesOf
  <1>4. ASSUME NEW w \in Worker, NEW r \in Role, CreateRoleWrite(w, r) PROVE Goal
    <2>1. CASE req[w].tenant = t
      BY <1>1, <1>4, <2>1 DEF CreateRoleWrite
    <2>2. CASE req[w].tenant # t
      <3>1. \A q \in Role : (role[q].tenant = t \/ role'[q].tenant = t) => role'[q] = role[q]
        BY <1>0, <1>4, <2>2, AccessConstants DEF CreateRoleWrite, TypeOK, RoleRow, NoRole
      <3>. QED  BY <1>3, <1>4, <3>1 DEF CreateRoleWrite
    <2>. QED  BY <2>1, <2>2
  <1>5. ASSUME NEW w \in Worker, DeleteRoleWrite(w) PROVE Goal
    <2>1. CASE req[w].tenant = t
      BY <1>1, <1>5, <2>1 DEF DeleteRoleWrite
    <2>2. CASE req[w].tenant # t
      <3>0. req[w].role \in Role /\ role[req[w].role].tenant # t
        BY <1>0, <1>5, <2>2 DEF DeleteRoleWrite, RequestsFit
      <3>1. \A q \in Role : (role[q].tenant = t \/ role'[q].tenant = t) => role'[q] = role[q]
        BY <1>0, <1>5, <3>0 DEF DeleteRoleWrite, TypeOK, RoleRow
      <3>. QED  BY <1>3, <1>5, <3>1 DEF DeleteRoleWrite
    <2>. QED  BY <2>1, <2>2
  <1>6. ASSUME NEW w \in Worker, SetPermissionsWrite(w) PROVE Goal
    <2>1. CASE req[w].tenant = t
      BY <1>1, <1>6, <2>1 DEF SetPermissionsWrite
    <2>2. CASE req[w].tenant # t
      <3>0. req[w].role \in Role /\ role[req[w].role].tenant # t
        BY <1>0, <1>6, <2>2 DEF SetPermissionsWrite, RequestsFit
      <3>1. \A q \in Role : role[q].tenant = t => grants'[q] = grants[q]
        BY <1>0, <1>6, <3>0 DEF SetPermissionsWrite, TypeOK
      <3>. QED  BY <1>3, <1>6, <3>1 DEF SetPermissionsWrite
    <2>. QED  BY <2>1, <2>2
  <1>7. ASSUME NEW w \in Worker, AssignMemberRoleWrite(w) PROVE Goal
    <2>1. CASE req[w].tenant = t
      BY <1>1, <1>7, <2>1 DEF AssignMemberRoleWrite
    <2>2. CASE req[w].tenant # t
      <3>1. \A u \in User : member'[<<u, t>>] = member[<<u, t>>]
        BY <1>0, <1>7, <2>2 DEF AssignMemberRoleWrite, TypeOK, RequestsFit
      <3>. QED  BY <1>2, <1>7, <3>1 DEF AssignMemberRoleWrite
    <2>. QED  BY <2>1, <2>2
  <1>8. ASSUME NEW v \in User, NEW s \in Tenant, NewOwner(v, s), UNCHANGED <<role, grants>> PROVE FALSE
    <2>1. \A u \in User : IsMember(u, t) => member'[<<u, t>>] = member[<<u, t>>]
      BY <1>0, <1>8 DEF NewOwner, TypeOK, IsMember
    <2>. QED  BY <1>2, <1>8, <2>1
  <1>9. ASSUME NEW c \in signed, NEW s \in Tenant, CreateTenant(c, s) PROVE FALSE
    <2>1. c.user \in User
      BY <1>0 DEF Inv, TokensAreEntitled, TypeOK
    <2>. QED  BY <1>8, <1>9, <2>1 DEF CreateTenant
  <1>10. ASSUME NEW v \in User, NEW s \in Tenant, Register(v, s) PROVE FALSE
    BY <1>8, <1>10 DEF Register
  <1>11. ASSUME NEW i \in invite, AcceptInvite(i) PROVE FALSE
    <2>0. i.email \in User /\ i.tenant \in Tenant
      BY <1>0 DEF TypeOK, InviteRow
    <2>1. \A u \in User : IsMember(u, t) => member'[<<u, t>>] = member[<<u, t>>]
      BY <1>0, <1>11, <2>0 DEF AcceptInvite, TypeOK, IsMember
    <2>. QED  BY <1>2, <1>11, <2>1 DEF AcceptInvite
  <1>12. CASE UNCHANGED <<role, grants, member>>
    BY <1>2, <1>12
  <1>. QED
    BY <1>4, <1>5, <1>6, <1>7, <1>9, <1>10, <1>11, <1>12
       DEF Next, Arrive, Refresh, TenantSession, CreateRole, DeleteRole, SetPermissions,
           AssignMemberRole, Step, IssueTokens, Fail, Signup, Login, CreateInvitation, rows, vars

\* What the members of a tenant may do is changed only from within the tenant,
\* by a request whose token may manage roles there.
THEOREM ManagedFromWithinHolds == Spec => ManagedFromWithin
  <1>1. Inv /\ [Next]_vars =>
          [\A t \in Tenant :
             \/ RolesOf(t)' # RolesOf(t)
             \/ \E u \in User : IsMember(u, t) /\ member'[<<u, t>>] # member[<<u, t>>]
             => \E w \in Worker :
                  /\ pc[w] # "idle" /\ pc'[w] = "idle"
                  /\ req[w].claims.tenant = t
                  /\ CanManageTenantRoles(req[w].claims)]_vars
    BY NextManaged
  <1>. QED  BY <1>1, InvHolds, PTL DEF Spec, ManagedFromWithin
=============================================================================
