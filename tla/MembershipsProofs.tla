------------------------- MODULE MembershipsProofs -------------------------
(* Theorems about Memberships, for any number of users, tenants, roles,     *)
(* invitations and workers.                                                 *)
EXTENDS Memberships, FiniteSetTheorems, TLAPS

\* A custom role named next to a tenant is one of that tenant.
RoleFits(r, t) == r # Nil => r \in Role /\ role[r].tenant = t

\* The positions of CreateTenantInvitation.
Inviting == {"invite", "sweep", "insert", "invited"}

\* What a handler has checked and still holds when it writes.
RequestsMakeSense ==
    \A w \in Worker :
        /\ pc[w] = "create_tenant" => req[w].user \in account
        /\ pc[w] \in Inviting \cup {"accept"} =>
               /\ req[w].user \in User /\ req[w].tenant \in tenant /\ req[w].builtin \in Builtin
               /\ RoleFits(req[w].role, req[w].tenant)
        /\ pc[w] = "accept" => req[w].invite \in Invite /\ invite[req[w].invite].tenant # Nil
        /\ pc[w] \in {"delete_count", "delete"} => req[w].role \in Role
        /\ pc[w] = "assign" =>
               /\ req[w].user \in User /\ req[w].tenant \in tenant
               /\ IsMember(req[w].user, req[w].tenant)
               /\ RoleFits(req[w].role, req[w].tenant)

\* Rows refer to rows that exist.
InvitesMakeSense ==
    \A i \in Invite :
        /\ invite[i].tenant # Nil =>
               /\ invite[i].tenant \in tenant /\ invite[i].email \in User
               /\ invite[i].builtin \in Builtin
               /\ RoleFits(invite[i].custom, invite[i].tenant)
        /\ invite[i].tenant = Nil => invite[i].custom = Nil

\* The id of an inserted invitation is nobody else's; the invitations that a
\* handler has found are rows.
InvitesReserved ==
    \A w \in Worker :
        /\ pc[w] \in {"sweep", "insert", "invited"} =>
               \A i \in req[w].sweep \cup req[w].old : invite[i].tenant # Nil
        /\ pc[w] = "invited" =>
               /\ req[w].invite \in Invite /\ invite[req[w].invite] = NoInvite
               /\ \A v \in Worker \ {w} : pc[v] = "invited" => req[v].invite # req[w].invite

Inv ==
    /\ TypeOK
    /\ RequestsMakeSense
    /\ InvitesReserved
    /\ InvitesMakeSense
    /\ CustomRoleOfTenant
    /\ TenantHasOwner

--------------------------------------------------------------------------
(* Types *)

\* The rows the handlers write are well typed.
LEMMA RowTypes ==
    /\ NoMember \in MemberRow /\ NoRole \in RoleRow /\ NoInvite \in InviteRow
    /\ NoRequest \in Request /\ Nil \notin Builtin
  BY MembershipConstants DEF NoMember, NoRole, NoInvite, NoRequest, MemberRow, RoleRow,
         InviteRow, Request, Builtin

\* What the commit of an invitation writes: its own row, and revoked in others.
LEMMA CommitRow ==
    ASSUME TypeOK, InvitesReserved, NEW w \in Worker, InviteCommit(w)
    PROVE  /\ invite' \in [Invite -> InviteRow]
           /\ req[w].invite \in Invite /\ invite[req[w].invite] = NoInvite
           /\ invite'[req[w].invite].tenant = req[w].tenant
           /\ invite'[req[w].invite].email = req[w].user
           /\ invite'[req[w].invite].builtin = req[w].builtin
           /\ invite'[req[w].invite].custom = req[w].role
           /\ ~invite'[req[w].invite].accepted
           /\ \A j \in Invite : j # req[w].invite =>
                  /\ invite'[j].tenant = invite[j].tenant /\ invite'[j].email = invite[j].email
                  /\ invite'[j].builtin = invite[j].builtin /\ invite'[j].custom = invite[j].custom
                  /\ invite'[j].accepted = invite[j].accepted
                  /\ invite'[j].revoked = (invite[j].revoked \/ j \in req[w].sweep)
  <1>. USE DEF TypeOK
  <1>. DEFINE n == req[w].invite
              row == [tenant |-> req[w].tenant, email |-> req[w].user, builtin |-> req[w].builtin,
                      custom |-> req[w].role, accepted |-> FALSE, revoked |-> FALSE]
              swept(j) == [invite[j] EXCEPT !.revoked = @ \/ j \in req[w].sweep]
  <1>1. n \in Invite /\ invite[n] = NoInvite
    BY DEF InviteCommit, InvitesReserved
  <1>2. row \in InviteRow
    BY DEF Request, InviteRow
  <1>3. \A j \in Invite : /\ swept(j) \in InviteRow
                          /\ swept(j).tenant = invite[j].tenant /\ swept(j).email = invite[j].email
                          /\ swept(j).builtin = invite[j].builtin /\ swept(j).custom = invite[j].custom
                          /\ swept(j).accepted = invite[j].accepted
                          /\ swept(j).revoked = (invite[j].revoked \/ j \in req[w].sweep)
    BY DEF InviteRow
  <1>4. invite' = [j \in Invite |-> IF j = n THEN row ELSE swept(j)]
    BY DEF InviteCommit
  <1>. HIDE DEF swept
  <1>5. \A j \in Invite : j # n => invite'[j] = swept(j)
    BY <1>4
  <1>6. invite'[n] = row
    BY <1>1, <1>4
  <1>7. invite' \in [Invite -> InviteRow]
    BY <1>2, <1>3, <1>4
  <1>. QED  BY <1>1, <1>3, <1>5, <1>6, <1>7

\* Every step keeps the types.
LEMMA NextType == Inv /\ [Next]_vars => TypeOK'
  <1>. SUFFICES ASSUME Inv, [Next]_vars PROVE TypeOK'
    OBVIOUS
  <1>. USE RowTypes, MembershipConstants DEF TypeOK, PC, Inv
  <1>1. ASSUME NEW w \in Worker, Arrive(w) PROVE TypeOK'
    <2>1. ASSUME NEW u \in User, CreateTenant(w, u) PROVE TypeOK'
      <3>1. [NoRequest EXCEPT !.user = u] \in Request
        BY DEF NoRequest, Request
      <3>. QED  BY <2>1, <3>1 DEF CreateTenant, Begin
    <2>2. ASSUME NEW actor \in User, NEW u \in User, NEW t \in Tenant, NEW b \in Invitable,
                 NEW r \in Role \cup {Nil}, CreateInvitation(w, actor, t, u, b, r)
          PROVE  TypeOK'
      <3>1. [NoRequest EXCEPT !.user = u, !.tenant = t, !.builtin = b, !.role = r] \in Request
        BY DEF NoRequest, Request, Builtin
      <3>. QED  BY <2>2, <3>1 DEF CreateInvitation, Begin
    <2>3. ASSUME NEW i \in Invite, AcceptInvite(w, i) PROVE TypeOK'
      <3>1. [NoRequest EXCEPT !.user = invite[i].email, !.tenant = invite[i].tenant,
                              !.builtin = invite[i].builtin, !.role = invite[i].custom,
                              !.invite = i, !.known = invite[i].email \in account] \in Request
        <4>1. invite[i] \in InviteRow
          OBVIOUS
        <4>2. (invite[i].email \in account) \in BOOLEAN
          OBVIOUS
        <4>. QED  BY <4>1, <4>2 DEF NoRequest, Request, InviteRow
      <3>. QED  BY <2>3, <3>1 DEF AcceptInvite, Begin
    <2>4. ASSUME NEW t \in Tenant, NEW r \in Role, DeleteRole(w, t, r) PROVE TypeOK'
      <3>1. [NoRequest EXCEPT !.tenant = t, !.role = r] \in Request
        BY DEF NoRequest, Request
      <3>. QED  BY <2>4, <3>1 DEF DeleteRole, Begin
    <2>5. ASSUME NEW u \in User, NEW t \in Tenant, NEW r \in Role \cup {Nil}, AssignRole(w, u, t, r)
          PROVE  TypeOK'
      <3>1. [NoRequest EXCEPT !.user = u, !.tenant = t, !.role = r] \in Request
        BY DEF NoRequest, Request
      <3>. QED  BY <2>5, <3>1 DEF AssignRole, Begin
    <2>. QED  BY <1>1, <2>1, <2>2, <2>3, <2>4, <2>5 DEF Arrive
  <1>2. ASSUME NEW w \in Worker, Step(w) PROVE TypeOK'
    <2>1. ASSUME NEW t \in Tenant, CreateTenantCommit(w, t) PROVE TypeOK'
      <3>1. [builtin |-> "owner", custom |-> Nil] \in MemberRow
        BY DEF MemberRow, Builtin
      <3>. QED  BY <2>1, <3>1 DEF CreateTenantCommit, Return
    <2>2. ASSUME InviteCommit(w) PROVE TypeOK'
      BY <2>2, CommitRow DEF InviteCommit, Return
    <2>3. ASSUME AcceptInviteCommit(w) PROVE TypeOK'
      <3>1. [builtin |-> req[w].builtin, custom |-> req[w].role] \in MemberRow
        BY DEF Request, MemberRow
      <3>2. req[w].user \in User
        BY <2>3 DEF AcceptInviteCommit, RequestsMakeSense
      <3>3. invite' \in [Invite -> InviteRow]
        <4>1. \A i \in Invite : [invite[i] EXCEPT !.accepted = TRUE] \in InviteRow
          BY DEF InviteRow
        <4>. QED  BY <2>3, <4>1 DEF AcceptInviteCommit
      <3>. QED  BY <2>3, <3>1, <3>2, <3>3 DEF AcceptInviteCommit, Return
    <2>4. ASSUME DeleteRoleCount(w) PROVE TypeOK'
      BY <2>4 DEF DeleteRoleCount
    <2>5. ASSUME DeleteRoleWrite(w) PROVE TypeOK'
      <3>1. role' \in [Role -> RoleRow]
        BY <2>5 DEF DeleteRoleWrite, RoleRow
      <3>. QED  BY <2>5, <3>1 DEF DeleteRoleWrite, Return
    <2>6. ASSUME AssignRoleWrite(w) PROVE TypeOK'
      <3>1. member' \in [User \X Tenant -> MemberRow]
        BY <2>6 DEF AssignRoleWrite, MemberRow, Request
      <3>. QED  BY <2>6, <3>1 DEF AssignRoleWrite, Return
    <2>7. ASSUME InviteFind(w) \/ InviteSweep(w) PROVE TypeOK'
      <3>1. ASSUME NEW found \in SUBSET Invite
            PROVE  /\ [req[w] EXCEPT !.sweep = found, !.old = found] \in Request
                   /\ [req[w] EXCEPT !.sweep = found] \in Request
        BY DEF Request
      <3>2. PendingInvites(req[w].tenant, req[w].user) \in SUBSET Invite
        BY DEF PendingInvites
      <3>3. (req[w].sweep \cap PendingInvites(req[w].tenant, req[w].user)) \in SUBSET Invite
        BY <3>2
      <3>4. CASE InviteFind(w)
        BY <3>1, <3>2, <3>4 DEF InviteFind
      <3>5. CASE InviteSweep(w)
        <4>1. [req[w] EXCEPT !.sweep = req[w].sweep \cap PendingInvites(req[w].tenant, req[w].user)]
                  \in Request
          BY <3>1, <3>3
        <4>. QED  BY <3>5, <4>1 DEF InviteSweep
      <3>. QED  BY <2>7, <3>4, <3>5
    <2>8. ASSUME NEW i \in Invite, InviteInsert(w, i) PROVE TypeOK'
      <3>1. [req[w] EXCEPT !.invite = i] \in Request
        BY DEF Request
      <3>. QED  BY <2>8, <3>1 DEF InviteInsert
    <2>9. ASSUME InviteRefused(w) PROVE TypeOK'
      BY <2>9 DEF InviteRefused, Return
    <2>. QED  BY <1>2, <2>1, <2>2, <2>3, <2>4, <2>5, <2>6, <2>7, <2>8, <2>9 DEF Step
  <1>3. ASSUME NEW w \in Worker, Fail(w) PROVE TypeOK'
    BY <1>3 DEF Fail, Return
  <1>4. ASSUME NEW r \in Role, NEW t \in Tenant, CreateRole(r, t) PROVE TypeOK'
    <2>1. role' \in [Role -> RoleRow]
      BY <1>4 DEF CreateRole, RoleRow
    <2>. QED  BY <1>4, <2>1 DEF CreateRole
  <1>5. ASSUME NEW u \in User, Signup(u) PROVE TypeOK'
    BY <1>5 DEF Signup
  <1>6. ASSUME NEW u \in User, NEW t \in Tenant, Register(u, t) PROVE TypeOK'
    <2>1. [builtin |-> "owner", custom |-> Nil] \in MemberRow
      BY DEF MemberRow, Builtin
    <2>. QED  BY <1>6, <2>1 DEF Register
  <1>7. CASE UNCHANGED vars
    BY <1>7 DEF vars
  <1>. QED  BY <1>1, <1>2, <1>3, <1>4, <1>5, <1>6, <1>7 DEF Next

--------------------------------------------------------------------------
(* Tenants stay apart and keep their owner *)

\* Nothing is ever taken away: accounts, tenants, memberships with their
\* builtin role, and the tenant a role or an invitation belongs to.
LEMMA NothingLost ==
    ASSUME Inv, [Next]_vars
    PROVE  /\ account \subseteq account' /\ tenant \subseteq tenant'
           /\ \A u \in User, t \in Tenant : IsMember(u, t) =>
                  member'[<<u, t>>].builtin = member[<<u, t>>].builtin
           /\ \A r \in Role : role[r].tenant # Nil => role'[r].tenant = role[r].tenant
           /\ \A i \in Invite : invite[i].tenant # Nil =>
                  /\ invite'[i].tenant = invite[i].tenant /\ invite'[i].email = invite[i].email
                  /\ invite'[i].builtin = invite[i].builtin /\ invite'[i].custom = invite[i].custom
  <1>. DEFINE Kept ==
           /\ account \subseteq account' /\ tenant \subseteq tenant'
           /\ \A u \in User, t \in Tenant : IsMember(u, t) =>
                  member'[<<u, t>>].builtin = member[<<u, t>>].builtin
           /\ \A r \in Role : role[r].tenant # Nil => role'[r].tenant = role[r].tenant
           /\ \A i \in Invite : invite[i].tenant # Nil =>
                  /\ invite'[i].tenant = invite[i].tenant /\ invite'[i].email = invite[i].email
                  /\ invite'[i].builtin = invite[i].builtin /\ invite'[i].custom = invite[i].custom
  <1>. USE DEF Inv, TypeOK
  <1>1. ASSUME NEW w \in Worker, NEW t \in Tenant, CreateTenantCommit(w, t) PROVE Kept
    BY <1>1 DEF CreateTenantCommit, TenantHasOwner, IsMember
  <1>2. ASSUME NEW w \in Worker, InviteCommit(w) PROVE Kept
    <2>1. invite[req[w].invite].tenant = Nil
      BY <1>2, CommitRow DEF NoInvite
    <2>2. \A i \in Invite : invite[i].tenant # Nil =>
             /\ invite'[i].tenant = invite[i].tenant /\ invite'[i].email = invite[i].email
             /\ invite'[i].builtin = invite[i].builtin /\ invite'[i].custom = invite[i].custom
      BY <1>2, <2>1, CommitRow
    <2>. QED  BY <1>2, <2>2 DEF InviteCommit
  <1>3. ASSUME NEW w \in Worker, AcceptInviteCommit(w) PROVE Kept
    <2>1. \A j \in Invite : invite'[j] = invite[j] \/ invite'[j] = [invite[j] EXCEPT !.accepted = TRUE]
      BY <1>3 DEF AcceptInviteCommit
    <2>. QED  BY <1>3, <2>1 DEF AcceptInviteCommit, IsMember, InviteRow
  <1>4. ASSUME NEW w \in Worker, DeleteRoleWrite(w) PROVE Kept
    <2>1. \A r \in Role : role'[r] = role[r] \/ role'[r] = [role[r] EXCEPT !.deleted = TRUE]
      BY <1>4 DEF DeleteRoleWrite
    <2>. QED  BY <1>4, <2>1 DEF DeleteRoleWrite, RoleRow
  <1>5. ASSUME NEW w \in Worker, AssignRoleWrite(w) PROVE Kept
    <2>1. \A m \in User \X Tenant : member'[m] = member[m] \/ member'[m] = [member[m] EXCEPT !.custom = req[w].role]
      BY <1>5 DEF AssignRoleWrite
    <2>2. \A m \in User \X Tenant : member'[m].builtin = member[m].builtin
      BY <2>1 DEF MemberRow
    <2>. QED  BY <1>5, <2>2 DEF AssignRoleWrite
  <1>6. ASSUME NEW r \in Role, NEW t \in Tenant, CreateRole(r, t) PROVE Kept
    BY <1>6 DEF CreateRole, NoRole
  <1>7. ASSUME NEW u \in User, NEW t \in Tenant, Register(u, t) PROVE Kept
    BY <1>7 DEF Register, TenantHasOwner, IsMember
  <1>8. ASSUME NEW u \in User, Signup(u) PROVE Kept
    BY <1>8 DEF Signup
  <1>9. ASSUME UNCHANGED <<account, tenant, member, role, invite>> PROVE Kept
    BY <1>9
  <1>. QED  BY <1>1, <1>2, <1>3, <1>4, <1>5, <1>6, <1>7, <1>8, <1>9 DEF Next, Arrive, Step, vars, CreateTenant,
                CreateInvitation, AcceptInvite, DeleteRole, AssignRole, DeleteRoleCount, Fail,
                InviteFind, InviteSweep, InviteInsert, InviteRefused

\* What a request names fits the tables when it is made, and keeps fitting.
LEMMA RequestsNext == Inv /\ [Next]_vars => RequestsMakeSense'
  <1>. SUFFICES ASSUME Inv, [Next]_vars PROVE RequestsMakeSense'
    OBVIOUS
  <1>. DEFINE Sense(v) ==
        /\ pc[v] = "create_tenant" => req[v].user \in account
        /\ pc[v] \in Inviting \cup {"accept"} =>
               /\ req[v].user \in User /\ req[v].tenant \in tenant /\ req[v].builtin \in Builtin
               /\ RoleFits(req[v].role, req[v].tenant)
        /\ pc[v] = "accept" => req[v].invite \in Invite /\ invite[req[v].invite].tenant # Nil
        /\ pc[v] \in {"delete_count", "delete"} => req[v].role \in Role
        /\ pc[v] = "assign" =>
               /\ req[v].user \in User /\ req[v].tenant \in tenant
               /\ IsMember(req[v].user, req[v].tenant)
               /\ RoleFits(req[v].role, req[v].tenant)
  <1>0. \A v \in Worker : Sense(v)
    BY DEF Inv, RequestsMakeSense
  <1>1. tenant \subseteq Tenant /\ Nil \notin Tenant /\ Nil \notin Builtin
    BY RowTypes, MembershipConstants DEF Inv, TypeOK
  <1>. USE DEF Inviting
  <1>2. \A r, t : t \in tenant /\ RoleFits(r, t) => RoleFits(r, t)'
    BY <1>1, NothingLost DEF RoleFits
  <1>3. \A u \in User, t \in Tenant : IsMember(u, t) => IsMember(u, t)'
    BY NothingLost DEF IsMember
  <1>4. ASSUME NEW v \in Worker, pc'[v] = pc[v] \/ (pc[v] = "delete_count" /\ pc'[v] = "delete"),
               req'[v] = req[v]
        PROVE  Sense(v)'
    BY <1>0, <1>1, <1>2, <1>3, <1>4, NothingLost
  <1>5. ASSUME NEW v \in Worker, pc'[v] = "idle" PROVE Sense(v)'
    BY <1>5
  <1>6. ASSUME NEW w \in Worker, NEW label, NEW r, Begin(w, label, r), NEW v \in Worker, v # w
        PROVE  Sense(v)'
    BY <1>6, <1>4 DEF Begin, Inv, TypeOK
  <1>7. ASSUME NEW w \in Worker, Return(w), NEW v \in Worker PROVE Sense(v)'
    BY <1>7, <1>4, <1>5 DEF Return, Inv, TypeOK
  <1>8. ASSUME NEW w \in Worker, NEW v \in Worker, Arrive(w) PROVE Sense(v)'
    <2>1. ASSUME NEW u \in User, CreateTenant(w, u) PROVE Sense(v)'
      <3>1. CASE v # w
        BY <2>1, <3>1, <1>6 DEF CreateTenant
      <3>2. CASE v = w
        BY <2>1, <3>2 DEF CreateTenant, Begin, NoRequest, Inv, TypeOK
      <3>. QED  BY <3>1, <3>2
    <2>2. ASSUME NEW actor \in User, NEW u \in User, NEW t \in Tenant, NEW b \in Invitable,
                 NEW r \in Role \cup {Nil}, CreateInvitation(w, actor, t, u, b, r)
          PROVE  Sense(v)'
      <3>1. CASE v # w
        BY <2>2, <3>1, <1>6 DEF CreateInvitation
      <3>2. CASE v = w
        <4>1. RoleFits(r, t)'
          BY <2>2 DEF CreateInvitation, LiveRole, RoleFits
        <4>2. pc'[w] = "invite" /\ req'[w].user = u /\ req'[w].tenant = t
              /\ req'[w].builtin = b /\ req'[w].role = r
          BY <2>2 DEF CreateInvitation, Begin, NoRequest, Inv, TypeOK
        <4>3. b \in Builtin
          BY MembershipConstants DEF Builtin
        <4>. QED  BY <2>2, <3>2, <4>1, <4>2, <4>3 DEF CreateInvitation
      <3>. QED  BY <3>1, <3>2
    <2>3. ASSUME NEW i \in Invite, AcceptInvite(w, i) PROVE Sense(v)'
      <3>1. CASE v # w
        BY <2>3, <3>1, <1>6 DEF AcceptInvite
      <3>2. CASE v = w
        <4>1. /\ invite[i].tenant # Nil /\ invite[i].tenant \in tenant /\ invite[i].email \in User
              /\ invite[i].builtin \in Builtin /\ RoleFits(invite[i].custom, invite[i].tenant)
          BY <2>3 DEF AcceptInvite, ValidInvite, Inv, InvitesMakeSense
        <4>2. pc'[w] = "accept" /\ req'[w].user = invite[i].email /\ req'[w].tenant = invite[i].tenant
              /\ req'[w].builtin = invite[i].builtin /\ req'[w].role = invite[i].custom
              /\ req'[w].invite = i
          BY <2>3 DEF AcceptInvite, Begin, NoRequest, Inv, TypeOK
        <4>3. tenant' = tenant /\ invite' = invite
          BY <2>3 DEF AcceptInvite
        <4>. QED  BY <3>2, <4>1, <4>2, <4>3, <1>2
      <3>. QED  BY <3>1, <3>2
    <2>4. ASSUME NEW t \in Tenant, NEW r \in Role, DeleteRole(w, t, r) PROVE Sense(v)'
      <3>1. CASE v # w
        BY <2>4, <3>1, <1>6 DEF DeleteRole
      <3>2. CASE v = w
        BY <2>4, <3>2 DEF DeleteRole, Begin, NoRequest, Inv, TypeOK
      <3>. QED  BY <3>1, <3>2
    <2>5. ASSUME NEW u \in User, NEW t \in Tenant, NEW r \in Role \cup {Nil}, AssignRole(w, u, t, r)
          PROVE  Sense(v)'
      <3>1. CASE v # w
        BY <2>5, <3>1, <1>6 DEF AssignRole
      <3>2. CASE v = w
        <4>1. RoleFits(r, t)' /\ IsMember(u, t)' /\ t \in tenant'
          BY <2>5 DEF AssignRole, LiveRole, RoleFits, IsMember, Inv, TenantHasOwner
        <4>2. pc'[w] = "assign" /\ req'[w].user = u /\ req'[w].tenant = t /\ req'[w].role = r
          BY <2>5 DEF AssignRole, Begin, NoRequest, Inv, TypeOK
        <4>. QED  BY <3>2, <4>1, <4>2 DEF IsMember
      <3>. QED  BY <3>1, <3>2
    <2>. QED  BY <1>8, <2>1, <2>2, <2>3, <2>4, <2>5 DEF Arrive
  <1>9. ASSUME NEW w \in Worker, NEW v \in Worker, DeleteRoleCount(w) PROVE Sense(v)'
    BY <1>9, <1>4 DEF DeleteRoleCount, Inv, TypeOK
  <1>10. ASSUME NEW v \in Worker, UNCHANGED <<pc, req>> PROVE Sense(v)'
    BY <1>10, <1>4
  <1>11. ASSUME NEW w \in Worker, NEW v \in Worker,
                InviteFind(w) \/ InviteSweep(w) \/ \E i \in Invite : InviteInsert(w, i)
         PROVE  Sense(v)'
    <2>1. CASE v # w
      BY <1>4, <1>11, <2>1 DEF InviteFind, InviteSweep, InviteInsert, Inv, TypeOK
    <2>2. CASE v = w
      <3>1. /\ pc[v] \in Inviting /\ pc'[v] \in Inviting
            /\ req'[v].user = req[v].user /\ req'[v].tenant = req[v].tenant
            /\ req'[v].builtin = req[v].builtin /\ req'[v].role = req[v].role
        <4>1. req \in [Worker -> Request] /\ pc \in [Worker -> PC]
          BY DEF Inv, TypeOK
        <4>2. CASE InviteFind(w)
          BY <2>2, <4>1, <4>2 DEF InviteFind, Request
        <4>3. CASE InviteSweep(w)
          BY <2>2, <4>1, <4>3 DEF InviteSweep, Request
        <4>4. ASSUME NEW i \in Invite, InviteInsert(w, i)
              PROVE  /\ pc[v] \in Inviting /\ pc'[v] \in Inviting
                     /\ req'[v].user = req[v].user /\ req'[v].tenant = req[v].tenant
                     /\ req'[v].builtin = req[v].builtin /\ req'[v].role = req[v].role
          BY <2>2, <4>1, <4>4 DEF InviteInsert, Request
        <4>. QED  BY <1>11, <4>2, <4>3, <4>4
      <3>. QED  BY <1>0, <1>1, <1>2, <3>1, NothingLost
    <2>. QED  BY <2>1, <2>2
  <1>12. \A v \in Worker : Sense(v)'
    BY <1>7, <1>8, <1>9, <1>10, <1>11 DEF Next, Step, vars, CreateTenantCommit, InviteCommit, InviteRefused,
           AcceptInviteCommit, DeleteRoleWrite, AssignRoleWrite, Fail, CreateRole,
           Signup, Register
  <1>. QED  BY <1>12 DEF RequestsMakeSense

\* Custom roles and tenants of rows that do not move still fit.
LEMMA FitsStable ==
    ASSUME Inv, [Next]_vars
    PROVE  \A r, t : t \in tenant /\ RoleFits(r, t) => RoleFits(r, t)'
  <1>1. tenant \subseteq Tenant /\ Nil \notin Tenant
    BY MembershipConstants DEF Inv, TypeOK
  <1>. QED  BY <1>1, NothingLost DEF RoleFits

\* How a handler gets, or stays, between the UPDATE and the COMMIT of
\* CreateTenantInvitation.
LEMMA InvitingStep ==
    ASSUME Inv, [Next]_vars, NEW v \in Worker, pc'[v] \in {"sweep", "insert", "invited"}
    PROVE  \/ pc'[v] = pc[v] /\ req'[v] = req[v]
           \/ InviteFind(v) \/ InviteSweep(v) \/ \E i \in Invite : InviteInsert(v, i)
  <1>. DEFINE Goal == \/ pc'[v] = pc[v] /\ req'[v] = req[v]
                      \/ InviteFind(v) \/ InviteSweep(v) \/ \E i \in Invite : InviteInsert(v, i)
  <1>. USE DEF Inv, TypeOK
  <1>1. ASSUME NEW w \in Worker, NEW label \in PC \ {"sweep", "insert", "invited"}, NEW r,
               Begin(w, label, r)
        PROVE  Goal
    BY <1>1 DEF Begin
  <1>2. ASSUME NEW w \in Worker, Return(w) PROVE Goal
    BY <1>2 DEF Return
  <1>3. ASSUME NEW w \in Worker, DeleteRoleCount(w) PROVE Goal
    BY <1>3 DEF DeleteRoleCount
  <1>4. ASSUME NEW w \in Worker, InviteFind(w) PROVE Goal
    BY <1>4 DEF InviteFind
  <1>5. ASSUME NEW w \in Worker, InviteSweep(w) PROVE Goal
    BY <1>5 DEF InviteSweep
  <1>6. ASSUME NEW w \in Worker, NEW i \in Invite, InviteInsert(w, i) PROVE Goal
    BY <1>6 DEF InviteInsert
  <1>7. CASE UNCHANGED <<pc, req>>
    BY <1>7
  <1>8. ASSUME NEW w \in Worker, Arrive(w) PROVE Goal
    BY <1>1, <1>8 DEF Arrive, CreateTenant, CreateInvitation, AcceptInvite, DeleteRole, AssignRole, PC
  <1>9. ASSUME NEW w \in Worker, Step(w) PROVE Goal
    BY <1>2, <1>3, <1>4, <1>5, <1>6, <1>9 DEF Step, CreateTenantCommit, InviteRefused, InviteCommit,
       AcceptInviteCommit, DeleteRoleWrite, AssignRoleWrite
  <1>. QED  BY <1>2, <1>7, <1>8, <1>9 DEF Next, vars, Fail, CreateRole, Signup, Register

\* Only the commit of its own handler fills a free row.
LEMMA FreeRow ==
    ASSUME Inv, [Next]_vars, NEW i \in Invite, invite[i] = NoInvite
    PROVE  invite'[i] = NoInvite \/ \E w \in Worker : InviteCommit(w) /\ req[w].invite = i
  <1>. DEFINE Goal == invite'[i] = NoInvite \/ \E w \in Worker : InviteCommit(w) /\ req[w].invite = i
  <1>. USE DEF Inv, TypeOK
  <1>0. invite[i].tenant = Nil
    BY DEF NoInvite
  <1>1. ASSUME NEW w \in Worker, InviteCommit(w) PROVE Goal
    <2>1. CASE req[w].invite = i
      BY <1>1, <2>1
    <2>2. CASE req[w].invite # i
      <3>1. i \notin req[w].sweep
        BY <1>0, <1>1 DEF InviteCommit, InvitesReserved
      <3>2. invite'[i] = [invite[i] EXCEPT !.revoked = invite[i].revoked \/ i \in req[w].sweep]
        BY <1>1, <2>2 DEF InviteCommit
      <3>3. (invite[i].revoked \/ i \in req[w].sweep) = FALSE
        BY <3>1 DEF NoInvite
      <3>4. invite'[i] = [NoInvite EXCEPT !.revoked = FALSE]
        BY <3>2, <3>3
      <3>. QED  BY <3>4 DEF NoInvite
    <2>. QED  BY <2>1, <2>2
  <1>2. ASSUME NEW w \in Worker, AcceptInviteCommit(w) PROVE Goal
    BY <1>0, <1>2 DEF AcceptInviteCommit, RequestsMakeSense
  <1>3. CASE UNCHANGED invite
    BY <1>3
  <1>. QED  BY <1>1, <1>2, <1>3 DEF Next, Arrive, Step, vars, CreateTenant, CreateInvitation,
                AcceptInvite, DeleteRole, AssignRole, DeleteRoleCount, Fail, CreateRole,
                CreateTenantCommit, DeleteRoleWrite, AssignRoleWrite, Signup, Register,
                InviteFind, InviteSweep, InviteInsert, InviteRefused

\* An invitation that was inserted keeps its id for itself until the commit.
LEMMA ReservedNext == Inv /\ [Next]_vars => InvitesReserved'
  <1>. SUFFICES ASSUME Inv, [Next]_vars PROVE InvitesReserved'
    OBVIOUS
  <1>. USE DEF Inv, TypeOK
  <1>1. \A i \in Invite : invite[i].tenant # Nil => invite'[i].tenant # Nil
    BY NothingLost
  <1>2. \A t, u : \A i \in PendingInvites(t, u) : i \in Invite /\ invite[i].tenant # Nil
    BY DEF PendingInvites, ValidInvite
  <1>3. ASSUME NEW v \in Worker, pc'[v] \in {"sweep", "insert", "invited"},
               NEW i \in req'[v].sweep \cup req'[v].old
        PROVE  invite'[i].tenant # Nil
    <2>1. i \in Invite /\ invite[i].tenant # Nil
      <3>1. CASE pc'[v] = pc[v] /\ req'[v] = req[v]
        <4>1. i \in req[v].sweep \cup req[v].old /\ req[v] \in Request
          BY <1>3, <3>1
        <4>. QED  BY <1>3, <3>1, <4>1 DEF InvitesReserved, Request
      <3>2. CASE InviteFind(v)
        <4>1. req'[v].sweep = PendingInvites(req[v].tenant, req[v].user)
              /\ req'[v].old = PendingInvites(req[v].tenant, req[v].user)
          BY <3>2 DEF InviteFind, Request
        <4>. QED  BY <1>2, <1>3, <4>1
      <3>3. CASE InviteSweep(v)
        <4>1. req'[v].sweep \subseteq req[v].sweep /\ req'[v].old = req[v].old
              /\ pc[v] = "sweep" /\ req[v] \in Request
          BY <3>3 DEF InviteSweep, Request
        <4>. QED  BY <1>3, <4>1 DEF InvitesReserved, Request
      <3>4. ASSUME NEW n \in Invite, InviteInsert(v, n) PROVE i \in Invite /\ invite[i].tenant # Nil
        <4>1. req'[v].sweep = req[v].sweep /\ req'[v].old = req[v].old
              /\ pc[v] = "insert" /\ req[v] \in Request
          BY <3>4 DEF InviteInsert, Request
        <4>. QED  BY <1>3, <4>1 DEF InvitesReserved, Request
      <3>. QED  BY <1>3, <3>1, <3>2, <3>3, <3>4, InvitingStep
    <2>. QED  BY <1>1, <2>1
  <1>4. ASSUME NEW v \in Worker, pc'[v] = "invited"
        PROVE  \/ pc[v] = "invited" /\ req'[v] = req[v]
               \/ InviteInsert(v, req'[v].invite) /\ req'[v].invite \in Invite
    <2>1. ~InviteFind(v) /\ ~InviteSweep(v)
      BY <1>4 DEF InviteFind, InviteSweep
    <2>2. ASSUME NEW i \in Invite, InviteInsert(v, i) PROVE req'[v].invite = i
      BY <2>2 DEF InviteInsert, Request
    <2>. QED  BY <1>4, <2>1, <2>2, InvitingStep
  <1>5. ASSUME NEW v \in Worker, pc'[v] = "invited"
        PROVE  req'[v].invite \in Invite /\ invite'[req'[v].invite] = NoInvite
    <2>1. CASE InviteInsert(v, req'[v].invite) /\ req'[v].invite \in Invite
      BY <2>1 DEF InviteInsert
    <2>2. CASE pc[v] = "invited" /\ req'[v] = req[v]
      <3>1. req[v].invite \in Invite /\ invite[req[v].invite] = NoInvite
        BY <2>2 DEF InvitesReserved
      <3>2. ASSUME NEW w \in Worker, InviteCommit(w), req[w].invite = req[v].invite PROVE FALSE
        <4>1. v # w /\ pc[w] = "invited"
          BY <1>5, <3>2 DEF InviteCommit, Return
        <4>. QED  BY <2>2, <3>2, <4>1 DEF InvitesReserved
      <3>. QED  BY <2>2, <3>1, <3>2, FreeRow
    <2>. QED  BY <1>4, <1>5, <2>1, <2>2
  <1>6. ASSUME NEW v \in Worker, NEW w \in Worker \ {v}, pc'[v] = "invited", pc'[w] = "invited"
        PROVE  req'[v].invite # req'[w].invite
    <2>1. CASE InviteInsert(v, req'[v].invite)
      BY <1>6, <2>1 DEF InviteInsert
    <2>2. CASE InviteInsert(w, req'[w].invite)
      BY <1>6, <2>2 DEF InviteInsert
    <2>3. CASE pc[v] = "invited" /\ req'[v] = req[v] /\ pc[w] = "invited" /\ req'[w] = req[w]
      BY <1>6, <2>3 DEF InvitesReserved
    <2>. QED  BY <1>4, <1>6, <2>1, <2>2, <2>3
  <1>. QED  BY <1>3, <1>5, <1>6 DEF InvitesReserved

\* An invitation is written by a handler that checked what it names.
LEMMA InvitesNext == Inv /\ [Next]_vars => InvitesMakeSense'
  <1>. SUFFICES ASSUME Inv, [Next]_vars, NEW i \in Invite
                PROVE  /\ invite'[i].tenant # Nil =>
                              /\ invite'[i].tenant \in tenant' /\ invite'[i].email \in User
                              /\ invite'[i].builtin \in Builtin
                              /\ RoleFits(invite[i].custom, invite[i].tenant)'
                       /\ invite'[i].tenant = Nil => invite'[i].custom = Nil
    BY DEF InvitesMakeSense
  <1>. DEFINE Goal == /\ invite'[i].tenant # Nil =>
                              /\ invite'[i].tenant \in tenant' /\ invite'[i].email \in User
                              /\ invite'[i].builtin \in Builtin
                              /\ RoleFits(invite[i].custom, invite[i].tenant)'
                      /\ invite'[i].tenant = Nil => invite'[i].custom = Nil
  <1>1. CASE invite[i].tenant # Nil
    <2>1. /\ invite[i].tenant \in tenant /\ invite[i].email \in User /\ invite[i].builtin \in Builtin
          /\ RoleFits(invite[i].custom, invite[i].tenant)
      BY <1>1 DEF Inv, InvitesMakeSense
    <2>. QED  BY <1>1, <2>1, NothingLost, FitsStable DEF RoleFits
  <1>2. CASE invite[i].tenant = Nil
    <2>0. ASSUME invite'[i].tenant = invite[i].tenant, invite'[i].custom = invite[i].custom
          PROVE  Goal
      BY <1>2, <2>0 DEF Inv, InvitesMakeSense
    <2>1. ASSUME NEW w \in Worker, InviteCommit(w) PROVE Goal
      <3>1. CASE i # req[w].invite
        BY <2>0, <2>1, <3>1, CommitRow DEF Inv
      <3>2. CASE i = req[w].invite
        <4>1. /\ req[w].user \in User /\ req[w].tenant \in tenant /\ req[w].builtin \in Builtin
              /\ RoleFits(req[w].role, req[w].tenant)
          BY <2>1 DEF InviteCommit, Inv, RequestsMakeSense, Inviting
        <4>2. role' = role /\ tenant' = tenant /\ tenant \subseteq Tenant /\ Nil \notin Tenant
          BY <2>1, MembershipConstants DEF InviteCommit, Inv, TypeOK
        <4>3. /\ invite'[i].tenant = req[w].tenant /\ invite'[i].email = req[w].user
              /\ invite'[i].builtin = req[w].builtin /\ invite'[i].custom = req[w].role
          BY <2>1, <3>2, CommitRow DEF Inv
        <4>. QED  BY <4>1, <4>2, <4>3 DEF RoleFits
      <3>. QED  BY <3>1, <3>2
    <2>2. ASSUME NEW w \in Worker, AcceptInviteCommit(w) PROVE Goal
      <3>1. invite'[i] = invite[i] \/ invite'[i] = [invite[i] EXCEPT !.accepted = TRUE]
        BY <2>2 DEF AcceptInviteCommit, Inv, TypeOK
      <3>. QED  BY <2>0, <3>1 DEF Inv, TypeOK, InviteRow
    <2>3. CASE UNCHANGED invite
      BY <2>0, <2>3
    <2>. QED  BY <2>1, <2>2, <2>3 DEF Next, Arrive, Step, vars, CreateTenant, CreateInvitation,
                  AcceptInvite, DeleteRole, AssignRole, DeleteRoleCount, Fail, CreateRole,
                  CreateTenantCommit, DeleteRoleWrite, AssignRoleWrite, Signup, Register,
                  InviteFind, InviteSweep, InviteInsert, InviteRefused
  <1>. QED  BY <1>1, <1>2

\* A membership gets its custom role from a handler that checked the tenant.
LEMMA CustomNext == Inv /\ [Next]_vars => CustomRoleOfTenant'
  <1>. SUFFICES ASSUME Inv, [Next]_vars PROVE CustomRoleOfTenant'
    OBVIOUS
  <1>1. ASSUME NEW i \in Invite, invite'[i].custom # Nil
        PROVE  role'[invite'[i].custom].tenant = invite'[i].tenant
    BY <1>1, InvitesNext DEF InvitesMakeSense, RoleFits
  <1>2. ASSUME NEW u \in User, NEW t \in Tenant, member'[<<u, t>>].custom # Nil
        PROVE  role'[member'[<<u, t>>].custom].tenant = t
    <2>. DEFINE Goal == role'[member'[<<u, t>>].custom].tenant = t
    <2>0. \A r \in Role : role[r].tenant = t => role'[r].tenant = t
      BY NothingLost, MembershipConstants
    <2>1. ASSUME member'[<<u, t>>].custom = member[<<u, t>>].custom PROVE Goal
      BY <1>2, <2>0, <2>1 DEF Inv, CustomRoleOfTenant, TypeOK, MemberRow
    <2>2. ASSUME NEW w \in Worker, NEW x \in Tenant, CreateTenantCommit(w, x) PROVE Goal
      BY <1>2, <2>1, <2>2 DEF CreateTenantCommit, Inv, TypeOK
    <2>3. ASSUME NEW w \in Worker, AcceptInviteCommit(w) PROVE Goal
      <3>1. CASE <<u, t>> = <<req[w].user, req[w].tenant>>
        <4>1. RoleFits(req[w].role, t)
          BY <2>3, <3>1 DEF AcceptInviteCommit, Inv, RequestsMakeSense
        <4>2. member'[<<u, t>>].custom = req[w].role
          BY <2>3, <3>1 DEF AcceptInviteCommit, Inv, TypeOK
        <4>. QED  BY <1>2, <2>0, <4>1, <4>2 DEF RoleFits
      <3>2. CASE <<u, t>> # <<req[w].user, req[w].tenant>>
        BY <2>1, <2>3, <3>2 DEF AcceptInviteCommit, Inv, TypeOK
      <3>. QED  BY <3>1, <3>2
    <2>4. ASSUME NEW w \in Worker, AssignRoleWrite(w) PROVE Goal
      <3>1. CASE <<u, t>> = <<req[w].user, req[w].tenant>>
        <4>1. RoleFits(req[w].role, t)
          BY <2>4, <3>1 DEF AssignRoleWrite, Inv, RequestsMakeSense
        <4>2. member'[<<u, t>>].custom = req[w].role
          BY <2>4, <3>1 DEF AssignRoleWrite, Inv, TypeOK, MemberRow
        <4>. QED  BY <1>2, <2>0, <4>1, <4>2 DEF RoleFits
      <3>2. CASE <<u, t>> # <<req[w].user, req[w].tenant>>
        BY <2>1, <2>4, <3>2 DEF AssignRoleWrite, Inv, TypeOK
      <3>. QED  BY <3>1, <3>2
    <2>5. ASSUME NEW v \in User, NEW x \in Tenant, Register(v, x) PROVE Goal
      BY <1>2, <2>1, <2>5 DEF Register, Inv, TypeOK
    <2>6. CASE UNCHANGED member
      BY <2>1, <2>6
    <2>. QED  BY <2>2, <2>3, <2>4, <2>5, <2>6 DEF Next, Arrive, Step, vars, CreateTenant, CreateInvitation,
                  AcceptInvite, DeleteRole, AssignRole, DeleteRoleCount, Fail, CreateRole,
                  InviteFind, InviteSweep, InviteInsert, InviteRefused, InviteCommit,
                  DeleteRoleWrite, Signup
  <1>. QED  BY <1>1, <1>2 DEF CustomRoleOfTenant

\* Members have accounts, and a tenant is founded with an owner who stays one.
LEMMA OwnerNext == Inv /\ [Next]_vars => TenantHasOwner'
  <1>. SUFFICES ASSUME Inv, [Next]_vars PROVE TenantHasOwner'
    OBVIOUS
  <1>. USE DEF Inv, TypeOK
  <1>0. Nil \notin Builtin
    BY RowTypes
  <1>1. \A t \in tenant : \E u \in User : member'[<<u, t>>].builtin = "owner"
    <2>. SUFFICES ASSUME NEW t \in tenant PROVE \E u \in User : member'[<<u, t>>].builtin = "owner"
      OBVIOUS
    <2>1. PICK u \in User : member[<<u, t>>].builtin = "owner"
      BY DEF TenantHasOwner
    <2>2. IsMember(u, t) /\ t \in Tenant
      BY <2>1, <1>0 DEF IsMember, Builtin
    <2>. QED  BY <2>1, <2>2, NothingLost
  <1>2. ASSUME NEW t \in tenant' \ tenant
        PROVE  \E u \in User : member'[<<u, t>>].builtin = "owner"
    <2>1. \/ \E w \in Worker, x \in Tenant : CreateTenantCommit(w, x)
          \/ \E u \in User, x \in Tenant : Register(u, x)
      BY <1>2 DEF Next, Arrive, Step, vars, CreateTenant, CreateInvitation,
             AcceptInvite, DeleteRole, AssignRole, DeleteRoleCount, Fail, CreateRole, Signup,
             InviteFind, InviteSweep, InviteInsert, InviteRefused, InviteCommit,
             DeleteRoleWrite, AcceptInviteCommit, AssignRoleWrite
    <2>2. ASSUME NEW w \in Worker, NEW x \in Tenant, CreateTenantCommit(w, x)
          PROVE  \E u \in User : member'[<<u, t>>].builtin = "owner"
      <3>1. t = x /\ req[w].user \in User
        BY <1>2, <2>2 DEF CreateTenantCommit, RequestsMakeSense
      <3>. QED  BY <2>2, <3>1 DEF CreateTenantCommit
    <2>3. ASSUME NEW u \in User, NEW x \in Tenant, Register(u, x)
          PROVE  \E v \in User : member'[<<v, t>>].builtin = "owner"
      BY <1>2, <2>3 DEF Register
    <2>. QED  BY <2>1, <2>2, <2>3
  <1>3. ASSUME NEW u \in User, NEW t \in Tenant, IsMember(u, t)'
        PROVE  u \in account' /\ t \in tenant'
    <2>1. CASE IsMember(u, t)
      BY <2>1, NothingLost DEF TenantHasOwner
    <2>2. CASE ~IsMember(u, t)
      <3>1. ASSUME NEW w \in Worker, NEW x \in Tenant, CreateTenantCommit(w, x)
            PROVE  u \in account' /\ t \in tenant'
        <4>1. req[w].user \in account
          BY <3>1 DEF CreateTenantCommit, RequestsMakeSense
        <4>. QED  BY <1>3, <2>2, <3>1, <4>1 DEF CreateTenantCommit, IsMember
      <3>2. ASSUME NEW w \in Worker, AcceptInviteCommit(w)
            PROVE  u \in account' /\ t \in tenant'
        <4>1. req[w].tenant \in tenant
          BY <3>2 DEF AcceptInviteCommit, RequestsMakeSense
        <4>. QED  BY <1>3, <2>2, <3>2, <4>1 DEF AcceptInviteCommit, IsMember
      <3>3. ASSUME NEW w \in Worker, AssignRoleWrite(w)
            PROVE  FALSE
        <4>1. member'[<<u, t>>].builtin = member[<<u, t>>].builtin
          BY <3>3 DEF AssignRoleWrite, MemberRow
        <4>. QED  BY <1>3, <2>2, <4>1 DEF IsMember
      <3>4. ASSUME NEW v \in User, NEW x \in Tenant, Register(v, x)
            PROVE  u \in account' /\ t \in tenant'
        BY <1>3, <2>2, <3>4 DEF Register, IsMember
      <3>5. CASE UNCHANGED member
        BY <1>3, <2>2, <3>5 DEF IsMember
      <3>. QED  BY <3>1, <3>2, <3>3, <3>4, <3>5 DEF Next, Arrive, Step, vars, CreateTenant,
                    CreateInvitation, AcceptInvite, DeleteRole, AssignRole, DeleteRoleCount, Fail,
                    CreateRole, InviteFind, InviteSweep, InviteInsert, InviteRefused,
                    InviteCommit, DeleteRoleWrite, Signup
    <2>. QED  BY <2>1, <2>2
  <1>. QED  BY <1>1, <1>2, <1>3 DEF TenantHasOwner

\* Empty tables fit.
LEMMA InitInv == Init => Inv
  <1>. SUFFICES ASSUME Init PROVE Inv
    OBVIOUS
  <1>1. TypeOK
    BY RowTypes DEF Init, TypeOK, PC
  <1>2. \A u \in User, t \in Tenant : ~IsMember(u, t) /\ member[<<u, t>>].custom = Nil
    BY DEF Init, IsMember, NoMember
  <1>3. \A i \in Invite : invite[i].tenant = Nil /\ invite[i].custom = Nil
    BY DEF Init, NoInvite
  <1>4. tenant = {} /\ \A w \in Worker : pc[w] = "idle"
    BY DEF Init
  <1>. QED  BY <1>1, <1>2, <1>3, <1>4 DEF Inv, RequestsMakeSense, InvitesMakeSense, Inviting,
                InvitesReserved, CustomRoleOfTenant, TenantHasOwner

\* The inductive invariant holds throughout.
THEOREM InvHolds == Spec => []Inv
  <1>1. Inv /\ [Next]_vars => Inv'
    BY NextType, RequestsNext, ReservedNext, InvitesNext, CustomNext, OwnerNext DEF Inv
  <1>. QED  BY <1>1, InitInv, PTL DEF Spec

\* The state stays in its types.
THEOREM TypeCorrect == Spec => []TypeOK
  <1>1. Inv => TypeOK
    BY DEF Inv
  <1>. QED  BY <1>1, InvHolds, PTL

\* No interleaving of handlers gives a member or an invitee the custom role of
\* another tenant.
THEOREM CustomRoleOfTenantHolds == Spec => []CustomRoleOfTenant
  <1>1. Inv => CustomRoleOfTenant
    BY DEF Inv
  <1>. QED  BY <1>1, InvHolds, PTL

\* No interleaving of handlers leaves a tenant without an owner.
THEOREM TenantHasOwnerHolds == Spec => []TenantHasOwner
  <1>1. Inv => TenantHasOwner
    BY DEF Inv
  <1>. QED  BY <1>1, InvHolds, PTL

--------------------------------------------------------------------------
(* Members and their invitations *)

MembersOf(t) == {u \in User : IsMember(u, t)}
AcceptedOf(t) == {i \in Invite : invite[i].tenant = t /\ invite[i].accepted}

\* An accept handler works on the invitation that it has read, and an accepted
\* invitation has given its email a membership.
AcceptsMakeSense ==
    /\ \A w \in Worker : pc[w] = "accept" =>
           LET i == req[w].invite
           IN  req[w].user = invite[i].email /\ req[w].tenant = invite[i].tenant
    /\ \A i \in Invite : invite[i].accepted =>
           invite[i].tenant # Nil /\ IsMember(invite[i].email, invite[i].tenant)

\* All members of a tenant but one have accepted an invitation to it.
MembersCounted ==
    \A t \in Tenant :
        /\ IsFiniteSet(MembersOf(t)) /\ IsFiniteSet(AcceptedOf(t))
        /\ t \in tenant => Cardinality(MembersOf(t)) - 1 <= Cardinality(AcceptedOf(t))

\* The UPDATE of CreateTenantInvitation keeps hold of the invitations that were
\* pending when it started; once the INSERT went through it has all of them, and
\* nobody else has inserted one for the same tenant and email.
ReplacesPending ==
    \A w \in Worker :
        LET pending == PendingInvites(req[w].tenant, req[w].user)
        IN  /\ pc[w] \in {"sweep", "insert"} => req[w].old \cap pending \subseteq req[w].sweep
            /\ pc[w] = "invited" =>
                   /\ pending \subseteq req[w].sweep
                   /\ \A v \in Worker \ {w} : pc[v] = "invited" =>
                          ~(req[v].tenant = req[w].tenant /\ req[v].user = req[w].user)

InviteInv ==
    /\ OnePendingInvite
    /\ ReplacesPending
    /\ AcceptsMakeSense
    /\ MembersCounted

\* An invitation becomes pending only by the commit of its handler, which
\* leaves none pending of those it has found.
LEMMA PendingChange ==
    ASSUME Inv, [Next]_vars, NEW t, NEW u, NEW i \in PendingInvites(t, u)'
    PROVE  /\ \/ i \in PendingInvites(t, u)
              \/ \E w \in Worker : /\ InviteCommit(w) /\ i = req[w].invite
                                    /\ t = req[w].tenant /\ u = req[w].user
           /\ \A w \in Worker : InviteCommit(w) => i \notin req[w].sweep
  <1>. DEFINE Mine(w) == InviteCommit(w) /\ i = req[w].invite
                         /\ t = req[w].tenant /\ u = req[w].user
  <1>. USE DEF Inv, TypeOK
  <1>0. /\ i \in Invite /\ invite'[i].tenant = t /\ invite'[i].email = u /\ t # Nil
        /\ ~invite'[i].accepted /\ ~invite'[i].revoked
    BY DEF PendingInvites, ValidInvite
  <1>1. ASSUME NEW w \in Worker, InviteCommit(w)
        PROVE  (i \in PendingInvites(t, u) \/ Mine(w)) /\ i \notin req[w].sweep
    <2>1. CASE i = req[w].invite
      <3>1. invite[i].tenant = Nil /\ pc[w] = "invited"
        <4>1. invite[i] = NoInvite
          BY <1>1, <2>1, CommitRow
        <4>. QED  BY <1>1, <4>1 DEF NoInvite, InviteCommit
      <3>2. i \notin req[w].sweep
        BY <3>1 DEF InvitesReserved
      <3>. QED  BY <1>0, <1>1, <2>1, <3>2, CommitRow
    <2>2. CASE i # req[w].invite
      <3>1. /\ invite'[i].tenant = invite[i].tenant /\ invite'[i].email = invite[i].email
            /\ invite'[i].accepted = invite[i].accepted
            /\ invite'[i].revoked = (invite[i].revoked \/ i \in req[w].sweep)
        BY <1>0, <1>1, <2>2, CommitRow
      <3>. QED  BY <1>0, <3>1 DEF PendingInvites, ValidInvite
    <2>. QED  BY <2>1, <2>2
  <1>2. CASE \E w \in Worker : InviteCommit(w)
    <2>1. PICK w \in Worker : InviteCommit(w)
      BY <1>2
    <2>. QED  BY <1>1, <2>1
  <1>3. CASE ~\E w \in Worker : InviteCommit(w)
    <2>1. ASSUME NEW w \in Worker, AcceptInviteCommit(w) PROVE i \in PendingInvites(t, u)
      <3>1. invite'[i] = invite[i] \/ invite'[i] = [invite[i] EXCEPT !.accepted = TRUE]
        BY <1>0, <2>1 DEF AcceptInviteCommit
      <3>. QED  BY <1>0, <3>1 DEF PendingInvites, ValidInvite, InviteRow
    <2>2. ASSUME UNCHANGED invite PROVE i \in PendingInvites(t, u)
      BY <1>0, <2>2 DEF PendingInvites, ValidInvite
    <2>3. ASSUME NEW w \in Worker, InviteCommit(w) PROVE FALSE
      BY <1>3, <2>3
    <2>4. i \in PendingInvites(t, u)
      BY <2>1, <2>2, <2>3 DEF Next, Arrive, Step, vars, CreateTenant, CreateInvitation,
         AcceptInvite, DeleteRole, AssignRole, DeleteRoleCount, Fail, CreateRole,
         CreateTenantCommit, DeleteRoleWrite, AssignRoleWrite, Signup, Register,
         InviteFind, InviteSweep, InviteInsert, InviteRefused
    <2>. QED  BY <1>3, <2>4
  <1>. QED  BY <1>2, <1>3

\* A new invitation of a tenant to an email replaces the pending ones, and
\* nothing makes an invitation pending again.
LEMMA OnePendingNext ==
    Inv /\ OnePendingInvite /\ ReplacesPending /\ [Next]_vars => OnePendingInvite'
  <1>. SUFFICES ASSUME Inv, OnePendingInvite, ReplacesPending, [Next]_vars,
                       NEW t \in Tenant, NEW u \in User,
                       NEW i \in PendingInvites(t, u)', NEW j \in PendingInvites(t, u)'
                PROVE  i = j
    BY DEF OnePendingInvite
  <1>1. ASSUME NEW w \in Worker, InviteCommit(w), t = req[w].tenant, u = req[w].user,
               NEW k \in PendingInvites(t, u)'
        PROVE  k \notin PendingInvites(t, u)
    <2>1. k \notin req[w].sweep
      BY <1>1, PendingChange
    <2>. QED  BY <1>1, <2>1 DEF ReplacesPending, InviteCommit
  <1>2. ASSUME NEW v \in Worker, InviteCommit(v), NEW w \in Worker, InviteCommit(w) PROVE v = w
    BY <1>2 DEF InviteCommit, Return, Inv, TypeOK
  <1>3. i \in Invite /\ j \in Invite
    BY DEF PendingInvites
  <1>4. CASE \E w \in Worker : /\ InviteCommit(w) /\ i = req[w].invite
                               /\ t = req[w].tenant /\ u = req[w].user
    BY <1>1, <1>2, <1>4, PendingChange
  <1>5. CASE \E w \in Worker : /\ InviteCommit(w) /\ j = req[w].invite
                               /\ t = req[w].tenant /\ u = req[w].user
    BY <1>1, <1>2, <1>5, PendingChange
  <1>6. CASE i \in PendingInvites(t, u) /\ j \in PendingInvites(t, u)
    BY <1>6 DEF OnePendingInvite
  <1>. QED  BY <1>4, <1>5, <1>6, PendingChange

\* What an UPDATE has found stays its own while other handlers go on.
LEMMA ReplacesNext == Inv /\ ReplacesPending /\ [Next]_vars => ReplacesPending'
  <1>. SUFFICES ASSUME Inv, ReplacesPending, [Next]_vars PROVE ReplacesPending'
    OBVIOUS
  <1>. USE DEF Inv, TypeOK
  <1>1. ASSUME NEW w \in Worker, pc'[w] \in {"sweep", "insert"}
        PROVE  req'[w].old \cap PendingInvites(req[w].tenant, req[w].user)' \subseteq req'[w].sweep
    <2>1. CASE pc'[w] = pc[w] /\ req'[w] = req[w]
      <3>. SUFFICES ASSUME NEW i \in PendingInvites(req[w].tenant, req[w].user)', i \in req[w].old
                    PROVE  i \in req[w].sweep
        BY <2>1
      <3>1. invite[i].tenant # Nil
        BY <1>1, <2>1 DEF InvitesReserved
      <3>2. PICK t, u : t = req[w].tenant /\ u = req[w].user
        OBVIOUS
      <3>3. i \in PendingInvites(t, u)'
        BY <2>1, <3>2 DEF PendingInvites, ValidInvite
      <3>4. ASSUME NEW v \in Worker, InviteCommit(v), i = req[v].invite PROVE FALSE
        <4>1. invite[i] = NoInvite
          BY <3>4, CommitRow
        <4>. QED  BY <3>1, <4>1 DEF NoInvite
      <3>5. i \in PendingInvites(t, u)
        BY <3>3, <3>4, PendingChange
      <3>. QED  BY <1>1, <2>1, <3>2, <3>5 DEF ReplacesPending
    <2>2. CASE InviteFind(w)
      BY <2>2 DEF InviteFind, Request
    <2>3. CASE InviteSweep(w)
      <3>1. /\ req'[w].tenant = req[w].tenant /\ req'[w].user = req[w].user
            /\ req'[w].old = req[w].old /\ pc[w] = "sweep" /\ invite' = invite
            /\ req'[w].sweep = req[w].sweep \cap PendingInvites(req[w].tenant, req[w].user)
        BY <2>3 DEF InviteSweep, Request
      <3>2. PendingInvites(req[w].tenant, req[w].user)' = PendingInvites(req[w].tenant, req[w].user)
        BY <3>1 DEF PendingInvites, ValidInvite
      <3>. QED  BY <3>1, <3>2 DEF ReplacesPending
    <2>4. ASSUME NEW i \in Invite, InviteInsert(w, i) PROVE FALSE
      BY <1>1, <2>4 DEF InviteInsert
    <2>. QED  BY <1>1, <2>1, <2>2, <2>3, <2>4, InvitingStep
  <1>2. ASSUME NEW w \in Worker, pc'[w] = "invited"
        PROVE  (pc[w] = "invited" /\ req'[w] = req[w]) \/ \E i \in Invite : InviteInsert(w, i)
    <2>1. ~InviteFind(w) /\ ~InviteSweep(w)
      BY <1>2 DEF InviteFind, InviteSweep
    <2>. QED  BY <1>2, <2>1, InvitingStep
  <1>3. ASSUME NEW w \in Worker, NEW n \in Invite, InviteInsert(w, n)
        PROVE  /\ PendingInvites(req[w].tenant, req[w].user)' \subseteq req'[w].sweep
               /\ \A v \in Worker \ {w} : pc'[v] = "invited" =>
                      ~(req'[v].tenant = req'[w].tenant /\ req'[v].user = req'[w].user)
    <2>1. /\ req'[w].tenant = req[w].tenant /\ req'[w].user = req[w].user
          /\ req'[w].sweep = req[w].sweep /\ invite' = invite
          /\ \A v \in Worker \ {w} : pc'[v] = pc[v] /\ req'[v] = req[v]
      BY <1>3 DEF InviteInsert, Request
    <2>2. PendingInvites(req[w].tenant, req[w].user)' = PendingInvites(req[w].tenant, req[w].user)
      BY <2>1 DEF PendingInvites, ValidInvite
    <2>. QED  BY <1>3, <2>1, <2>2 DEF InviteInsert, Clashing, RivalInserted
  <1>4. ASSUME NEW w \in Worker, pc'[w] = "invited"
        PROVE  PendingInvites(req[w].tenant, req[w].user)' \subseteq req'[w].sweep
    <2>1. CASE pc[w] = "invited" /\ req'[w] = req[w]
      <3>. SUFFICES ASSUME NEW i \in PendingInvites(req[w].tenant, req[w].user)'
                    PROVE  i \in req[w].sweep
        BY <2>1
      <3>1. PICK t, u : t = req[w].tenant /\ u = req[w].user
        OBVIOUS
      <3>2. i \in PendingInvites(t, u)'
        BY <2>1, <3>1 DEF PendingInvites, ValidInvite
      <3>3. ASSUME NEW v \in Worker, InviteCommit(v), t = req[v].tenant, u = req[v].user
            PROVE  FALSE
        <4>1. pc[v] = "invited" /\ v # w
          BY <1>4, <3>3 DEF InviteCommit, Return
        <4>. QED  BY <2>1, <3>1, <3>3, <4>1 DEF ReplacesPending
      <3>4. i \in PendingInvites(t, u)
        BY <3>2, <3>3, PendingChange
      <3>. QED  BY <2>1, <3>1, <3>4 DEF ReplacesPending
    <2>. QED  BY <1>2, <1>3, <1>4, <2>1
  <1>5. ASSUME NEW w \in Worker, NEW v \in Worker \ {w}, pc'[w] = "invited", pc'[v] = "invited"
        PROVE  ~(req'[v].tenant = req'[w].tenant /\ req'[v].user = req'[w].user)
    <2>1. CASE pc[w] = "invited" /\ req'[w] = req[w] /\ pc[v] = "invited" /\ req'[v] = req[v]
      BY <1>5, <2>1 DEF ReplacesPending
    <2>. QED  BY <1>2, <1>3, <1>5, <2>1
  <1>. QED  BY <1>1, <1>4, <1>5 DEF ReplacesPending

\* The invitation that AcceptInvite has read keeps its tenant and email, and is
\* marked in the step that writes the membership.
LEMMA AcceptsNext == Inv /\ AcceptsMakeSense /\ [Next]_vars => AcceptsMakeSense'
  <1>. SUFFICES ASSUME Inv, AcceptsMakeSense, [Next]_vars PROVE AcceptsMakeSense'
    OBVIOUS
  <1>. USE DEF Inv, TypeOK
  <1>1. ASSUME NEW w \in Worker, pc'[w] = "accept"
        PROVE  req'[w].user = invite'[req'[w].invite].email /\ req'[w].tenant = invite'[req'[w].invite].tenant
    <2>. DEFINE Goal == req'[w].user = invite'[req'[w].invite].email
                        /\ req'[w].tenant = invite'[req'[w].invite].tenant
    <2>1. ASSUME pc[w] = "accept", req'[w] = req[w] PROVE Goal
      <3>1. req[w].invite \in Invite /\ invite[req[w].invite].tenant # Nil
        BY <2>1 DEF RequestsMakeSense
      <3>. QED  BY <2>1, <3>1, NothingLost DEF AcceptsMakeSense
    <2>2. ASSUME NEW v \in Worker, NEW i \in Invite, AcceptInvite(v, i) PROVE Goal
      <3>1. CASE v = w
        <4>1. req'[w] = [NoRequest EXCEPT !.user = invite[i].email, !.tenant = invite[i].tenant,
                              !.builtin = invite[i].builtin, !.role = invite[i].custom,
                              !.invite = i, !.known = invite[i].email \in account]
              /\ invite' = invite
          BY <2>2, <3>1 DEF AcceptInvite, Begin
        <4>. QED  BY <4>1 DEF NoRequest
      <3>2. CASE v # w
        BY <1>1, <2>1, <2>2, <3>2 DEF AcceptInvite, Begin
      <3>. QED  BY <3>1, <3>2
    <2>3. ASSUME NEW v \in Worker, NEW label \in PC \ {"accept"}, NEW r, Begin(v, label, r) PROVE Goal
      BY <1>1, <2>1, <2>3 DEF Begin
    <2>4. ASSUME NEW v \in Worker, Return(v) PROVE Goal
      BY <1>1, <2>1, <2>4 DEF Return
    <2>5. ASSUME NEW v \in Worker, DeleteRoleCount(v) PROVE Goal
      BY <1>1, <2>1, <2>5 DEF DeleteRoleCount
    <2>6. CASE UNCHANGED <<pc, req>>
      BY <1>1, <2>1, <2>6
    <2>7. ASSUME NEW v \in Worker, InviteFind(v) \/ InviteSweep(v) \/ \E i \in Invite : InviteInsert(v, i)
          PROVE  Goal
      BY <1>1, <2>1, <2>7 DEF InviteFind, InviteSweep, InviteInsert
    <2>8. ASSUME NEW v \in Worker, Arrive(v) PROVE Goal
      BY <2>2, <2>3, <2>8 DEF Arrive, CreateTenant, CreateInvitation, DeleteRole, AssignRole, PC
    <2>. QED  BY <2>4, <2>5, <2>6, <2>7, <2>8 DEF Next, Step, vars, CreateTenantCommit,
                  InviteRefused, InviteCommit, AcceptInviteCommit, DeleteRoleWrite, AssignRoleWrite,
                  Fail, CreateRole, Signup, Register
  <1>2. ASSUME NEW i \in Invite, invite'[i].accepted
        PROVE  invite'[i].tenant # Nil /\ IsMember(invite[i].email, invite[i].tenant)'
    <2>. DEFINE Goal == invite'[i].tenant # Nil /\ IsMember(invite[i].email, invite[i].tenant)'
    <2>1. ASSUME invite[i].accepted PROVE Goal
      <3>1. invite[i].tenant # Nil /\ IsMember(invite[i].email, invite[i].tenant)
        BY <2>1 DEF AcceptsMakeSense
      <3>2. invite[i].email \in User /\ invite[i].tenant \in Tenant
        BY <3>1 DEF InvitesMakeSense, InviteRow
      <3>. QED  BY <3>1, <3>2, NothingLost DEF IsMember
    <2>2. ASSUME NEW w \in Worker, InviteCommit(w) PROVE Goal
      BY <1>2, <2>1, <2>2, CommitRow
    <2>3. ASSUME NEW w \in Worker, AcceptInviteCommit(w) PROVE Goal
      <3>1. CASE i = req[w].invite
        <4>1. /\ req[w].user = invite[i].email /\ req[w].tenant = invite[i].tenant
              /\ invite[i].tenant # Nil
              /\ req[w].user \in User /\ req[w].tenant \in Tenant /\ req[w].builtin \in Builtin
          BY <2>3, <3>1 DEF AcceptInviteCommit, RequestsMakeSense, AcceptsMakeSense
        <4>2. invite'[i] = [invite[i] EXCEPT !.accepted = TRUE]
          BY <2>3, <3>1 DEF AcceptInviteCommit
        <4>3. invite'[i].tenant = req[w].tenant /\ invite'[i].email = req[w].user
          BY <4>1, <4>2 DEF InviteRow
        <4>4. member'[<<req[w].user, req[w].tenant>>].builtin = req[w].builtin
          BY <2>3, <4>1 DEF AcceptInviteCommit
        <4>. QED  BY <4>1, <4>3, <4>4, RowTypes DEF IsMember
      <3>2. CASE i # req[w].invite
        BY <1>2, <2>1, <2>3, <3>2 DEF AcceptInviteCommit
      <3>. QED  BY <3>1, <3>2
    <2>4. CASE UNCHANGED invite
      BY <1>2, <2>1, <2>4
    <2>. QED  BY <2>2, <2>3, <2>4 DEF Next, Arrive, Step, vars, CreateTenant, CreateInvitation,
                  AcceptInvite, DeleteRole, AssignRole, DeleteRoleCount, Fail, CreateRole,
                  CreateTenantCommit, DeleteRoleWrite, AssignRoleWrite, Signup, Register,
                  InviteFind, InviteSweep, InviteInsert, InviteRefused
  <1>. QED  BY <1>1, <1>2 DEF AcceptsMakeSense

\* Who is a member and which invitations are accepted change together.
LEMMA MembersChange ==
    ASSUME Inv, AcceptsMakeSense, [Next]_vars, NEW t \in Tenant
    PROVE  \/ /\ MembersOf(t)' = MembersOf(t) /\ AcceptedOf(t)' = AcceptedOf(t)
              /\ t \in tenant' => t \in tenant
           \/ \E u : MembersOf(t)' = {u} /\ AcceptedOf(t)' = AcceptedOf(t)
           \/ \E u, i : /\ t \in tenant
                        /\ u \notin MembersOf(t) /\ MembersOf(t)' = MembersOf(t) \cup {u}
                        /\ i \notin AcceptedOf(t) /\ AcceptedOf(t)' = AcceptedOf(t) \cup {i}
  <1>. DEFINE Same == MembersOf(t)' = MembersOf(t) /\ AcceptedOf(t)' = AcceptedOf(t)
                      /\ (t \in tenant' => t \in tenant)
              Founded == \E u : MembersOf(t)' = {u} /\ AcceptedOf(t)' = AcceptedOf(t)
              Joined == \E u, i : /\ t \in tenant
                                  /\ u \notin MembersOf(t) /\ MembersOf(t)' = MembersOf(t) \cup {u}
                                  /\ i \notin AcceptedOf(t) /\ AcceptedOf(t)' = AcceptedOf(t) \cup {i}
  <1>. USE DEF Inv, TypeOK
  <1>0. Nil \notin Tenant /\ Nil \notin Builtin
    BY RowTypes, MembershipConstants
  <1>1. ASSUME member' = member, invite' = invite, tenant' = tenant PROVE Same
    BY <1>1 DEF MembersOf, AcceptedOf, IsMember
  <1>2. ASSUME NEW u \in User, NEW x \in Tenant \ tenant, tenant' = tenant \cup {x},
               member' = [member EXCEPT ![<<u, x>>] = [builtin |-> "owner", custom |-> Nil]],
               invite' = invite
        PROVE  Same \/ Founded
    <2>1. AcceptedOf(t)' = AcceptedOf(t)
      BY <1>2 DEF AcceptedOf
    <2>2. CASE t = x
      <3>1. \A v \in User : ~IsMember(v, t)
        BY <1>2, <2>2 DEF TenantHasOwner
      <3>2. \A v \in User : IsMember(v, t)' <=> v = u
        <4>. TAKE v \in User
        <4>1. v # u => member'[<<v, t>>] = member[<<v, t>>]
          BY <1>2
        <4>2. member'[<<u, t>>].builtin = "owner"
          BY <1>2, <2>2
        <4>. QED  BY <1>0, <3>1, <4>1, <4>2 DEF IsMember, Builtin
      <3>. QED  BY <2>1, <3>2 DEF MembersOf
    <2>3. CASE t # x
      <3>1. \A v \in User : member'[<<v, t>>] = member[<<v, t>>]
        BY <1>2, <2>3
      <3>. QED  BY <1>2, <2>1, <2>3, <3>1 DEF MembersOf, IsMember
    <2>. QED  BY <2>2, <2>3
  <1>3. ASSUME NEW w \in Worker, NEW x \in Tenant, CreateTenantCommit(w, x) PROVE Same \/ Founded
    <2>1. req[w].user \in User
      BY <1>3 DEF CreateTenantCommit, RequestsMakeSense
    <2>. QED  BY <1>2, <1>3, <2>1 DEF CreateTenantCommit
  <1>4. ASSUME NEW u \in User, NEW x \in Tenant, Register(u, x) PROVE Same \/ Founded
    BY <1>2, <1>4 DEF Register
  <1>5. ASSUME NEW w \in Worker, InviteCommit(w) PROVE Same
    <2>1. MembersOf(t)' = MembersOf(t) /\ tenant' = tenant
      BY <1>5 DEF InviteCommit, MembersOf, IsMember
    <2>2. ~invite[req[w].invite].accepted
      BY <1>5, CommitRow DEF NoInvite
    <2>. QED  BY <1>5, <2>1, <2>2, CommitRow DEF AcceptedOf
  <1>6. ASSUME NEW w \in Worker, AcceptInviteCommit(w) PROVE Same \/ Joined
    <2>. DEFINE i == req[w].invite
                u == req[w].user
    <2>1. /\ i \in Invite /\ u \in User /\ req[w].tenant \in tenant /\ req[w].builtin \in Builtin
          /\ u = invite[i].email /\ req[w].tenant = invite[i].tenant
      BY <1>6 DEF AcceptInviteCommit, RequestsMakeSense, AcceptsMakeSense
    <2>2. ~IsMember(u, req[w].tenant) /\ ~invite[i].accepted
      BY <1>6, <2>1 DEF AcceptInviteCommit, AcceptsMakeSense
    <2>3. \A v \in User : IsMember(v, t)' <=> IsMember(v, t) \/ (v = u /\ t = req[w].tenant)
      <3>. TAKE v \in User
      <3>1. <<v, t>> # <<u, req[w].tenant>> => member'[<<v, t>>] = member[<<v, t>>]
        BY <1>6 DEF AcceptInviteCommit
      <3>2. member'[<<u, req[w].tenant>>].builtin = req[w].builtin
        BY <1>6, <2>1 DEF AcceptInviteCommit
      <3>. QED  BY <1>0, <2>1, <3>1, <3>2 DEF IsMember
    <2>4. invite'[i].tenant = req[w].tenant /\ invite'[i].accepted
      BY <1>6, <2>1 DEF AcceptInviteCommit, InviteRow
    <2>5. \A j \in Invite : j # i => invite'[j] = invite[j]
      BY <1>6 DEF AcceptInviteCommit
    <2>6. CASE t = req[w].tenant
      <3>1. u \notin MembersOf(t) /\ MembersOf(t)' = MembersOf(t) \cup {u}
        BY <2>1, <2>2, <2>3, <2>6 DEF MembersOf
      <3>2. i \notin AcceptedOf(t) /\ AcceptedOf(t)' = AcceptedOf(t) \cup {i}
        BY <2>1, <2>2, <2>4, <2>5, <2>6 DEF AcceptedOf
      <3>. QED  BY <2>1, <2>6, <3>1, <3>2
    <2>7. CASE t # req[w].tenant
      <3>1. MembersOf(t)' = MembersOf(t)
        BY <2>3, <2>7 DEF MembersOf
      <3>2. AcceptedOf(t)' = AcceptedOf(t)
        BY <2>1, <2>4, <2>5, <2>7 DEF AcceptedOf
      <3>. QED  BY <1>6, <3>1, <3>2 DEF AcceptInviteCommit
    <2>. QED  BY <2>6, <2>7
  <1>7. ASSUME NEW w \in Worker, AssignRoleWrite(w) PROVE Same
    <2>1. \A v \in User : member'[<<v, t>>].builtin = member[<<v, t>>].builtin
      BY <1>7 DEF AssignRoleWrite, MemberRow
    <2>. QED  BY <1>7, <2>1 DEF AssignRoleWrite, MembersOf, AcceptedOf, IsMember
  <1>. HIDE DEF Same, Founded, Joined
  <1>8. Same \/ Founded \/ Joined
    BY <1>1, <1>3, <1>4, <1>5, <1>6, <1>7 DEF Next, Arrive, Step, vars, CreateTenant,
       CreateInvitation, AcceptInvite, DeleteRole, AssignRole, DeleteRoleCount, Fail, CreateRole,
       DeleteRoleWrite, Signup, InviteFind, InviteSweep, InviteInsert, InviteRefused
  <1>. QED  BY <1>8 DEF Same, Founded, Joined

\* A founder is the one member without an invitation; every other brings one.
LEMMA CountedNext == Inv /\ AcceptsMakeSense /\ MembersCounted /\ [Next]_vars => MembersCounted'
  <1>. SUFFICES ASSUME Inv, AcceptsMakeSense, MembersCounted, [Next]_vars, NEW t \in Tenant
                PROVE  /\ IsFiniteSet(MembersOf(t))' /\ IsFiniteSet(AcceptedOf(t))'
                       /\ t \in tenant' =>
                              Cardinality(MembersOf(t)') - 1 <= Cardinality(AcceptedOf(t)')
    BY DEF MembersCounted
  <1>. DEFINE Goal == /\ IsFiniteSet(MembersOf(t)') /\ IsFiniteSet(AcceptedOf(t)')
                      /\ t \in tenant' =>
                             Cardinality(MembersOf(t)') - 1 <= Cardinality(AcceptedOf(t)')
  <1>1. /\ IsFiniteSet(MembersOf(t)) /\ IsFiniteSet(AcceptedOf(t))
        /\ t \in tenant => Cardinality(MembersOf(t)) - 1 <= Cardinality(AcceptedOf(t))
    BY DEF MembersCounted
  <1>2. Cardinality(MembersOf(t)) \in Nat /\ Cardinality(AcceptedOf(t)) \in Nat
    BY <1>1, FS_CardinalityType
  <1>3. CASE MembersOf(t)' = MembersOf(t) /\ AcceptedOf(t)' = AcceptedOf(t)
             /\ (t \in tenant' => t \in tenant)
    BY <1>1, <1>3
  <1>4. ASSUME NEW u, MembersOf(t)' = {u}, AcceptedOf(t)' = AcceptedOf(t) PROVE Goal
    <2>1. IsFiniteSet({u}) /\ Cardinality({u}) = 1
      BY FS_Singleton
    <2>. QED  BY <1>1, <1>2, <1>4, <2>1
  <1>5. ASSUME NEW u, NEW i, t \in tenant,
               u \notin MembersOf(t), MembersOf(t)' = MembersOf(t) \cup {u},
               i \notin AcceptedOf(t), AcceptedOf(t)' = AcceptedOf(t) \cup {i}
        PROVE  Goal
    <2>1. IsFiniteSet(MembersOf(t)') /\ Cardinality(MembersOf(t)') = Cardinality(MembersOf(t)) + 1
      BY <1>1, <1>5, FS_AddElement
    <2>2. IsFiniteSet(AcceptedOf(t)') /\ Cardinality(AcceptedOf(t)') = Cardinality(AcceptedOf(t)) + 1
      BY <1>1, <1>5, FS_AddElement
    <2>. QED  BY <1>1, <1>2, <1>5, <2>1, <2>2
  <1>. QED  BY <1>3, <1>4, <1>5, MembersChange

\* Nobody is a member and nobody is invited at first.
LEMMA InitInviteInv == Init => InviteInv
  <1>. SUFFICES ASSUME Init PROVE InviteInv
    OBVIOUS
  <1>1. \A i \in Invite : ~invite[i].accepted /\ invite[i].tenant = Nil
    BY DEF Init, NoInvite
  <1>2. \A u \in User, t \in Tenant : ~IsMember(u, t)
    BY DEF Init, IsMember, NoMember
  <1>3. tenant = {} /\ \A w \in Worker : pc[w] = "idle"
    BY DEF Init
  <1>4. \A t \in Tenant : MembersOf(t) = {} /\ AcceptedOf(t) = {}
    BY <1>1, <1>2 DEF MembersOf, AcceptedOf
  <1>5. MembersCounted
    BY <1>3, <1>4, FS_EmptySet DEF MembersCounted
  <1>6. OnePendingInvite /\ AcceptsMakeSense
    BY <1>1, <1>3 DEF OnePendingInvite, PendingInvites, ValidInvite, AcceptsMakeSense
  <1>7. ReplacesPending
    BY <1>3 DEF ReplacesPending
  <1>. QED  BY <1>5, <1>6, <1>7 DEF InviteInv

\* The invariant of invitations holds throughout.
THEOREM InviteInvHolds == Spec => []InviteInv
  <1>1. Inv /\ InviteInv /\ [Next]_vars => InviteInv'
    BY OnePendingNext, ReplacesNext, AcceptsNext, CountedNext DEF InviteInv
  <1>. QED  BY <1>1, InvHolds, InitInviteInv, PTL DEF Spec

\* Two handlers that invite the same email at once leave one invitation that
\* can be accepted.
THEOREM OnePendingInviteHolds == Spec => []OnePendingInvite
  <1>1. InviteInv => OnePendingInvite
    BY DEF InviteInv
  <1>. QED  BY <1>1, InviteInvHolds, PTL

\* An invitation that was pending before the UPDATE is never the reason why a
\* new one is refused.
THEOREM RefusedOnlyByRivalHolds == Spec => RefusedOnlyByRival
  <1>1. InviteInv /\ [Next]_vars
            => [\A w \in Worker : InviteRefused(w) => Clashing(w) \cap req[w].old = {}]_vars
    BY DEF InviteInv, ReplacesPending, InviteRefused, Clashing
  <1>. QED  BY <1>1, InviteInvHolds, PTL DEF Spec, RefusedOnlyByRival

\* No interleaving of handlers makes somebody a member who did not found the
\* tenant and accepted no invitation, or spends an invitation on nobody.
THEOREM MembersWereInvitedHolds == Spec => []MembersWereInvited
  <1>1. Inv /\ InviteInv => MembersWereInvited
    BY DEF Inv, TypeOK, InviteInv, MembersCounted, AcceptsMakeSense, MembersWereInvited,
           MembersOf, AcceptedOf
  <1>. QED  BY <1>1, InvHolds, InviteInvHolds, PTL
=============================================================================
