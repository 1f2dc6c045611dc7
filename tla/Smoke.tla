------------------------------- MODULE Smoke -------------------------------
(***************************************************************************)
(* scripts/api_smoke_test against the API: a client that goes through one  *)
(* fixed sequence of requests, keeps what the answers carry and stops at   *)
(* the first answer that is not the expected one, while visitors found     *)
(* tenants and processes of the API start and seed the administrator.      *)
(* Register, create-tenant and POST tenant-roles are the transactions of   *)
(* Founding; every other request is one step.  Names and emails of the     *)
(* script carry a random tag, so nobody else uses them.  Tokens are named  *)
(* by the step of the script that issued them; none expires in a run.      *)
(***************************************************************************)
EXTENDS Founding, FiniteSets

CONSTANTS
    Client,        \* the worker that serves the script
    Visitor,       \* those that serve other clients
    Boot,          \* the starting processes
    VisitorEmail, VisitorName,
    MaxVisits      \* bound on the requests of visitors and the starts

Actor == {"owner", "invitee", "resend", "signup", "forgot"}

ASSUME SmokeConstants ==
    /\ Worker = {Client} \cup Visitor \cup Boot
    /\ Client \notin Visitor \cup Boot /\ Visitor \cap Boot = {}
    /\ Email = Actor \cup VisitorEmail /\ Actor \cap VisitorEmail = {}
    /\ AdminEmail \in VisitorEmail
    /\ Nil \notin {"old", "new", "role"}
    /\ Name = VisitorName \cup {<<u>> : u \in Actor} \cup {<<"smoke">>}

\* What the names of its users' tenants become, each with the tag.
OwnSlug == {<<u>> : u \in Actor}

\* A name of others: with no number either is it one of the script's.
Foreign(base) == \A i \in 0 .. TenantTries - 1 : Candidate(base, i) \notin OwnSlug

ASSUME ScriptNamesOwn == \A name \in VisitorName \ {<<>>} : Foreign(name)

VARIABLES
    config,        \* is ENVIRONMENT local, does the script know ADMIN_EMAIL
    at, verdict,   \* the step the script is at, and its outcome
    kept,          \* what the script has kept of the answers
    account,       \* of the actors: password, verification and membership
    live,          \* their refresh tokens that are not revoked
    pending,       \* their one-time tokens neither used nor revoked
    visits

svars == <<config, at, verdict, kept, account, live, pending>>
vars  == <<fvars, svars, visits>>

--------------------------------------------------------------------------
(* The script: operation, actor, the password or role it sends, the status *)
(* it expects, and what it skips the step without                          *)

Call(op, who, arg, code) == [op |-> op, who |-> who, arg |-> arg, code |-> code, given |-> "always"]
If(given, op, who, arg, code) == [op |-> op, who |-> who, arg |-> arg, code |-> code, given |-> given]

Registration == <<
    Call("health", "owner", Nil, 200),
    Call("register", "owner", "old", 201) >>

Reading == <<
    Call("me", "owner", Nil, 200),
    Call("get_user", "owner", Nil, 200),
    Call("update_me", "owner", Nil, 200),
    Call("widgets", "owner", Nil, 200),
    Call("roles", "owner", Nil, 200) >>

RoleEditing == <<
    Call("create_role", "owner", Nil, 201),
    Call("update_role", "owner", Nil, 200),
    Call("set_permissions", "owner", Nil, 204) >>

Inviting == <<
    Call("invite", "invitee", Nil, 201),
    Call("accept_invite", "invitee", "old", 200),
    Call("assign_role", "invitee", "role", 204),
    Call("assign_role", "invitee", Nil, 204),
    Call("delete_role", "owner", Nil, 204) >>

SessionRenewal == <<
    Call("refresh", "owner", Nil, 200),
    Call("logout", "owner", Nil, 204),
    Call("login", "owner", "old", 200),
    Call("tenant_session", "owner", Nil, 200),
    Call("change_password", "owner", "old", 204),
    Call("login", "owner", "new", 200) >>

SigningUp == <<
    Call("signup", "resend", "old", 201),
    Call("resend_verification", "resend", Nil, 200),
    Call("signup", "signup", "old", 201),
    If("verify", "verify_email", "signup", Nil, 204),
    If("verify", "login", "signup", "old", 200),
    If("verify", "create_tenant", "signup", Nil, 201) >>

Forgetting == <<
    Call("register", "forgot", "old", 201),
    Call("forgot_password", "forgot", Nil, 200),
    If("reset", "reset_password", "forgot", "new", 204) >>

PlatformRoutes == <<
    If("admin", "admin_login", AdminEmail, Nil, 200),
    If("admin", "platform_health", AdminEmail, Nil, 200),
    If("admin", "tenants_summary", AdminEmail, Nil, 200) >>

Script == Registration \o Reading \o RoleEditing \o Inviting \o SessionRenewal
          \o SigningUp \o Forgetting \o PlatformRoutes

--------------------------------------------------------------------------
(* The client *)

Step == Script[at]

NoToken   == [kind |-> "none", user |-> Nil, tenant |-> Nil, step |-> 0]
NoSession == [user |-> Nil, tenant |-> Nil]

Given == CASE Step.given = "always" -> TRUE
           [] Step.given = "admin"  -> config.admin
           [] OTHER                 -> kept.token.kind = Step.given

Doing(op) == verdict = "running" /\ Given /\ Step.op = op

Asks(who, op) == Doing(op) /\ Step.who = who

Advance ==
    /\ at' = IF at < Len(Script) THEN at + 1 ELSE at
    /\ verdict' = IF at < Len(Script) THEN "running" ELSE "passed"

\* The script stops at the first answer that is not good.
Judge(good, k) ==
    /\ IF good
       THEN Advance /\ kept' = k
       ELSE verdict' = "failed" /\ UNCHANGED <<at, kept>>
    /\ UNCHANGED config

Reply(code, k) == Judge(code = Step.code, k)

Skip == verdict = "running" /\ ~Given /\ Advance /\ UNCHANGED <<fvars, config, kept, account, live, pending>>

--------------------------------------------------------------------------
(* The handlers *)

Refresh(u) == [user |-> u, step |-> at]

Ticket(kind, u, tenant) == [kind |-> kind, user |-> u, tenant |-> tenant, step |-> at]

\* Tokens of links are in the answer only in the local environment.
Shown(token) == IF config.local THEN token ELSE NoToken

Bearer == kept.access

IsMember(s) == s.user # Nil /\ account[s.user].tenant = s.tenant

Health ==
    /\ Doing("health")
    /\ Reply(200, kept)
    /\ UNCHANGED <<fvars, account, live, pending>>

Me ==
    /\ Doing("me")
    /\ Reply(IF IsMember(Bearer) THEN 200 ELSE 404, kept)
    /\ UNCHANGED <<fvars, account, live, pending>>

\* Profile columns are left out.
UpdateMe ==
    /\ Doing("update_me")
    /\ Reply(IF IsMember(Bearer) THEN 200 ELSE 404, kept)
    /\ UNCHANGED <<fvars, account, live, pending>>

GetUserByID ==
    /\ Doing("get_user")
    /\ Reply(IF users[Step.who] # Nil THEN 200 ELSE 404, kept)
    /\ UNCHANGED <<fvars, account, live, pending>>

\* The lists need a token only; what they return is Widgets.
Lists ==
    /\ Doing("widgets") \/ Doing("roles")
    /\ Reply(IF Bearer.user # Nil THEN 200 ELSE 401, kept)
    /\ UNCHANGED <<fvars, account, live, pending>>

Role == {r \in rows : r.scope = Bearer.tenant /\ Slug(r) = kept.role}

\* A new name leaves the slug.
UpdateRole ==
    /\ Doing("update_role")
    /\ Reply(IF Role # {} THEN 200 ELSE 404, kept)
    /\ UNCHANGED <<fvars, account, live, pending>>

\* The grants themselves are in RolePermissions.
SetPermissions ==
    /\ Doing("set_permissions")
    /\ Reply(IF Role # {} THEN 204 ELSE 404, kept)
    /\ UNCHANGED <<fvars, account, live, pending>>

\* An answer without the token is no good for the script.
CreateTenantInvite ==
    LET who == Step.who   ticket == Ticket("invite", who, Bearer.tenant) IN
    /\ Doing("invite")
    /\ IF account[who].tenant = Bearer.tenant
       THEN Reply(409, kept) /\ UNCHANGED pending
       ELSE /\ Judge(config.local, [kept EXCEPT !.token = ticket])
            /\ pending' = {t \in pending : t.kind # "invite" \/ t.user # who} \cup {ticket}
    /\ UNCHANGED <<fvars, account, live>>

\* The invitee of the script has no account.
AcceptInvite == \E who \in Actor :
    /\ Asks(who, "accept_invite")
    /\ IF kept.token \notin pending
       THEN Reply(401, kept) /\ UNCHANGED <<fvars, account, live, pending>>
       ELSE /\ Enrol(who, TRUE)
            /\ account' = [account EXCEPT ![who] = [password |-> Step.arg, verified |-> TRUE,
                                                    tenant |-> kept.token.tenant, role |-> Nil]]
            /\ live' = live \cup {Refresh(who)}
            /\ pending' = pending \ {kept.token}
            /\ Reply(200, kept)

AssignMemberRole_NilIgnored ==
    LET who == Step.who IN
    /\ Doing("assign_role")
    /\ account' = [account EXCEPT ![who].role = IF Step.arg = "role" THEN kept.role ELSE @]
    /\ Reply(204, kept)
    /\ UNCHANGED <<fvars, live, pending>>

AssignMemberRole ==
    LET who == Step.who IN
    /\ Doing("assign_role")
    /\ IF account[who].tenant # Bearer.tenant
       THEN Reply(404, kept) /\ UNCHANGED account
       ELSE IF Step.arg = "role" /\ Role = {}
       THEN Reply(400, kept) /\ UNCHANGED account
       ELSE /\ account' = [account EXCEPT ![who].role = IF Step.arg = "role" THEN kept.role ELSE Nil]
            /\ Reply(204, kept)
    /\ UNCHANGED <<fvars, live, pending>>

InUse == \E u \in Actor : account[u].tenant = Bearer.tenant /\ account[u].role = kept.role

Delete ==
    /\ Doing("delete_role")
    /\ IF Role = {} THEN Reply(404, kept) /\ UNCHANGED fvars
       ELSE IF InUse THEN Reply(409, kept) /\ UNCHANGED fvars
       ELSE Reply(204, kept) /\ \E r \in Role : DeleteRole(r)
    /\ UNCHANGED <<account, live, pending>>

RefreshTokens ==
    /\ Doing("refresh")
    /\ IF kept.refresh \notin live
       THEN Reply(401, kept) /\ UNCHANGED live
       ELSE /\ live' = (live \ {kept.refresh}) \cup {Refresh(kept.refresh.user)}
            /\ Reply(200, [kept EXCEPT !.refresh = Refresh(kept.refresh.user)])
    /\ UNCHANGED <<fvars, account, pending>>

Logout ==
    /\ Doing("logout")
    /\ live' = live \ {kept.refresh}
    /\ Reply(204, kept)
    /\ UNCHANGED <<fvars, account, pending>>

Login ==
    LET who == Step.who   row == account[who] IN
    /\ Doing("login")
    /\ Reply(IF row.password # Step.arg THEN 401 ELSE IF ~row.verified THEN 403 ELSE 200,
             [kept EXCEPT !.pick = [user |-> who, tenant |-> row.tenant]])
    /\ UNCHANGED <<fvars, account, live, pending>>

TenantSession ==
    LET s == kept.pick IN
    /\ Doing("tenant_session")
    /\ IF ~IsMember(s) \/ s.tenant = Nil
       THEN Reply(404, kept) /\ UNCHANGED live
       ELSE /\ live' = live \cup {Refresh(s.user)}
            /\ Reply(200, [kept EXCEPT !.access = s, !.refresh = Refresh(s.user)])
    /\ UNCHANGED <<fvars, account, pending>>

ChangePassword_SessionsStay ==
    LET who == Bearer.user IN
    /\ Doing("change_password")
    /\ account' = [account EXCEPT ![who].password = "new"]
    /\ Reply(204, kept)
    /\ UNCHANGED <<fvars, live, pending>>

ChangePassword ==
    LET who == Bearer.user IN
    /\ Doing("change_password")
    /\ IF account[who].password # Step.arg
       THEN Reply(401, kept) /\ UNCHANGED <<account, live>>
       ELSE /\ account' = [account EXCEPT ![who].password = "new"]
            /\ live' = {t \in live : t.user # who}
            /\ Reply(204, kept)
    /\ UNCHANGED <<fvars, pending>>

Signup == \E who \in Actor :
    LET ticket == Ticket("verify", who, Nil) IN
    /\ Asks(who, "signup")
    /\ IF users[who] # Nil
       THEN Reply(409, kept) /\ UNCHANGED <<fvars, account, pending>>
       ELSE /\ Enrol(who, FALSE)
            /\ account' = [account EXCEPT ![who].password = Step.arg]
            /\ pending' = pending \cup {ticket}
            /\ Reply(201, [kept EXCEPT !.token = Shown(ticket)])
    /\ UNCHANGED live

\* It answers 200 whether or not there is an account to verify.
ResendVerification ==
    LET who == Step.who   ticket == Ticket("verify", who, Nil) IN
    /\ Doing("resend_verification")
    /\ pending' = IF users[who] # Nil /\ ~account[who].verified
                  THEN {t \in pending : t.kind # "verify" \/ t.user # who} \cup {ticket}
                  ELSE pending
    /\ Reply(200, kept)
    /\ UNCHANGED <<fvars, account, live>>

VerifyEmail ==
    LET u == kept.token.user IN
    /\ Doing("verify_email")
    /\ IF kept.token \notin pending
       THEN Reply(401, kept) /\ UNCHANGED <<account, pending>>
       ELSE /\ account' = [account EXCEPT ![u].verified = TRUE]
            /\ pending' = {t \in pending : t.kind # "verify" \/ t.user # u}
            /\ Reply(204, kept)
    /\ UNCHANGED <<fvars, live>>

ForgotPassword ==
    LET who == Step.who   ticket == Ticket("reset", who, Nil) IN
    /\ Doing("forgot_password")
    /\ IF users[who] = Nil
       THEN Reply(200, [kept EXCEPT !.token = NoToken]) /\ UNCHANGED pending
       ELSE /\ pending' = {t \in pending : t.kind # "reset" \/ t.user # who} \cup {ticket}
            /\ Reply(200, [kept EXCEPT !.token = Shown(ticket)])
    /\ UNCHANGED <<fvars, account, live>>

ResetPassword ==
    LET u == kept.token.user IN
    /\ Doing("reset_password")
    /\ IF kept.token \notin pending
       THEN Reply(401, kept) /\ UNCHANGED <<account, live, pending>>
       ELSE /\ account' = [account EXCEPT ![u].password = Step.arg]
            /\ live' = {t \in live : t.user # u}
            /\ pending' = pending \ {kept.token}
            /\ Reply(204, kept)
    /\ UNCHANGED fvars

\* The seed hashes the ADMIN_PASSWORD that the script sends; who has
\* registered the email otherwise has another password.
AdminLogin ==
    /\ Doing("admin_login")
    /\ Reply(IF users[AdminEmail] = "system_manager" THEN 200 ELSE 401, [kept EXCEPT !.platform = TRUE])
    /\ UNCHANGED <<fvars, account, live, pending>>

PlatformRoute ==
    /\ Doing("platform_health") \/ Doing("tenants_summary")
    /\ Reply(IF kept.platform THEN 200 ELSE 401, kept)
    /\ UNCHANGED <<fvars, account, live, pending>>

--------------------------------------------------------------------------
(* The requests that are transactions of Founding *)

Send == verdict' = "waiting" /\ UNCHANGED <<config, at, kept, account, live, pending>>

SendRegister ==
    \E who \in Actor : Asks(who, "register") /\ Register(Client, who, <<who>>) /\ Send

\* The pick token must be of a verified user.
SendTenant ==
    \E who \in Actor :
        /\ Asks(who, "create_tenant")
        /\ IF kept.pick.user = who /\ account[who].verified
           THEN CreateTenant(Client, who, <<who>>) /\ Send
           ELSE Reply(401, kept) /\ UNCHANGED <<fvars, account, live, pending>>

SendRole ==
    \E who \in Actor, tenant \in Taken(Tenants) :
        /\ Doing("create_role") /\ Bearer = [user |-> who, tenant |-> tenant]
        /\ CreateRole(Client, who, tenant, <<"smoke">>) /\ Send

\* Whatever is not a 201 is the same to the script.
Answered ==
    LET r == req[Client]   code == IF answer[Client] = "ok" THEN 201 ELSE 500 IN
    /\ verdict = "waiting" /\ pc[Client] = "idle"
    /\ Reply(code, CASE r.kind = "register" -> [kept EXCEPT !.access = [user |-> r.email, tenant |-> Slug(r)],
                                                            !.refresh = Refresh(r.email)]
                     [] r.kind = "role"     -> [kept EXCEPT !.role = Slug(r)]
                     [] OTHER               -> kept)
    /\ UNCHANGED <<fvars, account, live, pending>>

\* The password, the membership and a refresh token are in the transaction.
CommitOfClient ==
    LET r == req[Client]   row == account[r.email] IN
    /\ Commit(Client)
    /\ IF r.kind = "role" THEN UNCHANGED <<account, live>>
       ELSE /\ account' = [account EXCEPT ![r.email] = [row EXCEPT
                  !.verified = TRUE, !.tenant = Slug(r), !.password = IF Founds(Client) THEN "old" ELSE row.password]]
            /\ live' = live \cup {Refresh(r.email)}
    /\ UNCHANGED <<config, at, verdict, kept, pending>>

StatementOf(w) ==
    \/ w = Client /\ CommitOfClient
    \/ w # Client /\ Commit(w) /\ UNCHANGED svars
    \/ /\ CountFree(w) \/ CountTaken(w) \/ InsertUser(w) \/ InsertTooLong(w) \/ InsertRow(w)
       /\ UNCHANGED svars

--------------------------------------------------------------------------
(* Everybody else *)

Visit ==
    /\ visits < MaxVisits /\ visits' = visits + 1
    /\ \/ \E w \in Visitor, e \in VisitorEmail, name \in VisitorName : Register(w, e, name) \/ CreateTenant(w, e, name)
       \/ \E w \in Visitor, e \in member \cap VisitorEmail, name \in VisitorName :
              \E r \in {x \in rows : x.scope = Tenants /\ x.by = e} : CreateRole(w, e, Slug(r), name)
       \/ \E r \in rows : r.by \in VisitorEmail /\ DeleteRole(r)
       \/ \E w \in Boot : Seed(w)
    /\ UNCHANGED svars

Handler ==
    \/ Health \/ Me \/ UpdateMe \/ GetUserByID \/ Lists \/ UpdateRole \/ SetPermissions
    \/ CreateTenantInvite \/ AcceptInvite \/ AssignMemberRole \/ Delete
    \/ RefreshTokens \/ Logout \/ Login \/ TenantSession \/ ChangePassword
    \/ Signup \/ ResendVerification \/ VerifyEmail \/ ForgotPassword \/ ResetPassword
    \/ AdminLogin \/ PlatformRoute

ClientStep == Skip \/ Handler \/ SendRegister \/ SendTenant \/ SendRole \/ Answered

\* What the process does by itself.  A run has finitely many visits, so it
\* has finitely many steps, and that the process goes on while it can is as
\* much as fairness to each of its goroutines.
Serve == ClientStep \/ \E w \in Worker : StatementOf(w)

NoAccount == [password |-> Nil, verified |-> FALSE, tenant |-> Nil, role |-> Nil]

Init ==
    /\ Init_F
    /\ config \in [local : BOOLEAN, admin : BOOLEAN]
    /\ at = 1 /\ verdict = "running"
    /\ kept = [access |-> NoSession, pick |-> NoSession, refresh |-> [user |-> Nil, step |-> 0],
               role |-> Nil, token |-> NoToken, platform |-> FALSE]
    /\ account = [u \in Actor |-> NoAccount]
    /\ live = {} /\ pending = {} /\ visits = 0

Next ==
    \/ Serve /\ UNCHANGED visits
    \/ \E w \in Worker : Abort(w) /\ UNCHANGED <<svars, visits>>
    \/ Visit

Spec == Init /\ [][Next]_vars /\ WF_vars(Serve /\ UNCHANGED visits)

--------------------------------------------------------------------------
(* Properties *)

\* The script fails only where its header says it may: at the invitation when
\* the environment is not local, at the login of the administrator when the
\* seed has not made one; or when the database fails one of its requests.
\* Nothing that visitors and starting processes do makes it fail.
FailsOnlyIf == [][
    verdict # "failed" /\ verdict' = "failed" =>
        \/ Step.op = "invite" /\ ~config.local
        \/ Step.op = "admin_login" /\ users[AdminEmail] # "system_manager"
        \/ verdict = "waiting" /\ answer[Client] = "error"]_vars

\* When the script has passed, no session of the owner and of the user who
\* forgot the password is left, their old passwords are dead, each account
\* has at most one pending token of a kind and none to verify it if it is
\* verified, and nobody has a role that is gone.
RunLeavesConsistent == verdict = "passed" =>
    /\ {t.user : t \in live} = {"invitee", "signup"}
    /\ \A u \in {"owner", "forgot"} : account[u].password = "new"
    /\ \A t, t2 \in pending : t.user = t2.user /\ t.kind = t2.kind => t = t2
    /\ \A t \in pending : t.kind = "verify" => ~account[t.user].verified
    /\ \A u \in Actor : account[u].role # Nil =>
           \E r \in rows : r.scope = account[u].tenant /\ Slug(r) = account[u].role

\* The script comes to an end, and everybody who founds a tenant or a role is
\* answered, however they wait for the rows that others have inserted.
SmokeEnds == <>[](verdict \in {"passed", "failed"} /\ \A w \in Worker : pc[w] = "idle")
=============================================================================
