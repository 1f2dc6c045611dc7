------------------------------ MODULE Sessions ------------------------------
(***************************************************************************)
(* Credentials and sessions of domain/auth: passwords, refresh tokens and  *)
(* password reset tokens, as the request handlers of service.go change     *)
(* them.  A handler reads on pooled connections in autocommit mode, then   *)
(* opens one READ COMMITTED transaction that acts on what it read; so each *)
(* handler is a worker with a program counter and a local record of what   *)
(* it read, and every database statement that others can observe, or that  *)
(* can wait for a row lock, is a step of its own.                          *)
(*                                                                         *)
(* Row locks are not a variable: which rows a transaction holds follows    *)
(* from its program counter (LockedUser, LockedReset, LockedRefresh).      *)
(* A statement that only inserts a row nobody can see yet is part of the   *)
(* commit that publishes it.                                               *)
(*                                                                         *)
(* Time is left out.  That a token is past its expires_at only keeps the   *)
(* handlers from accepting it, which a client may also achieve by not      *)
(* presenting it: every behaviour with expiry is one without.              *)
(***************************************************************************)
EXTENDS Naturals, FiniteSets

CONSTANTS
    User,          \* rows of users: registered, email verified
    Staff,         \* the users whose users.role is a platform role
    Tenant,        \* ids of tenants
    Member,        \* the memberships, pairs <<user, tenant>>; never removed
    Platform,      \* the scope of a refresh row whose tenant_id is NULL
    Password,      \* passwords a client can present
    Token,         \* refresh tokens (random; a row is stored by its hash)
    Reset,         \* password reset tokens
    Worker,        \* goroutines serving requests
    Nil            \* no row, no user, nothing presented

ASSUME SessionConstants ==
    /\ Staff \subseteq User
    /\ Member \subseteq User \X Tenant
    /\ Platform \notin Tenant
    /\ Token \cap Reset = {} /\ Token \cap Worker = {}
    /\ Nil \notin User \cup Token \cup Reset \cup Password \cup Tenant \cup {Platform}

VARIABLES
    pw,            \* users.password_hash
    active,        \* users.is_active
    lateLogin,     \* users whose row a Login read unverified and past its
                   \* deadline, and has not yet written is_active = false
    picks,         \* users for whom a pick-tenant JWT has been signed
    refresh,       \* table refresh_tokens
    reset,         \* table password_reset_tokens
    pc,            \* where each worker is in its handler
    req,           \* what its handler has read so far
    parent,        \* history: the token a refresh token was exchanged for
    outdated       \* history: the tokens, and the requests under way, that
                   \* were begun before the last password change of their user

vars == <<pw, active, lateLogin, picks, refresh, reset, pc, req, parent, outdated>>

--------------------------------------------------------------------------
(* Types and helpers *)

Scope == Tenant \cup {Platform}

RefreshRow == [user : User \cup {Nil}, scope : Scope \cup {Nil}, revoked : BOOLEAN]

ResetRow == [user : User \cup {Nil}, used : BOOLEAN]

NoRefresh == [user |-> Nil, scope |-> Nil, revoked |-> FALSE]
NoReset   == [user |-> Nil, used |-> FALSE]

Request == [user : User \cup {Nil}, scope : Scope \cup {Nil},
            token : Token \cup {Nil}, reset : Reset \cup {Nil},
            new : Password \cup {Nil}, sweep : SUBSET (Token \cup Reset),
            earlier : SUBSET (Token \cup Reset)]

\* sweep: the rows an UPDATE has found; earlier (history): the refresh tokens,
\* or the reset tokens, that were there when the request began.
NoRequest == [user |-> Nil, scope |-> Nil, token |-> Nil, reset |-> Nil,
              new |-> Nil, sweep |-> {}, earlier |-> {}]

Issued == {t \in Token : refresh[t].user # Nil}
Sent   == {r \in Reset : reset[r].user # Nil}

ValidRefresh_IgnoresRevoked(t) == t \in Issued

\* FindValidRefreshByHash.
ValidRefresh(t) == t \in Issued /\ ~refresh[t].revoked

\* FindValidPasswordResetByHash.
ValidReset(r) == r \in Sent /\ ~reset[r].used

ActiveRefreshOf_TenantOnly(u) ==
    {t \in Issued : refresh[t].user = u /\ refresh[t].scope # Platform}

\* The rows the UPDATE of RevokeAllRefreshTokensForUser finds in its snapshot.
ActiveRefreshOf(u) == {t \in Issued : refresh[t].user = u /\ ~refresh[t].revoked}

\* The rows the UPDATE of InvalidatePendingPasswordResets finds in its snapshot.
PendingResetsOf(u) == {r \in Sent : reset[r].user = u /\ ~reset[r].used}

\* Row locks held by the open transaction of some worker other than w.
UpdatesUser(v, u) == pc[v] \in {"mark", "sweep", "commit"} /\ req[v].user = u
LockedUser(u, w) == \E v \in Worker \ {w} : UpdatesUser(v, u)
LockedReset(r, w) ==
    \E v \in Worker \ {w} : pc[v] \in {"sweep", "commit"} /\ req[v].reset = r
LockedRefresh(t, w) ==
    \E v \in Worker \ {w} : pc[v] = "refresh_issue" /\ req[v].token = t

\* Bounds of the model: a request that ends in a new row starts only while
\* a token is left for every request of its kind under way.
Issuing == {"session", "login", "refresh_user", "refresh_revoke", "refresh_issue"}
TokenLeft == Cardinality({v \in Worker : pc[v] \in Issuing}) < Cardinality(Token \ Issued)
ResetLeft == Cardinality({v \in Worker : pc[v] \in {"forgot", "forgot_create"}})
                 < Cardinality(Reset \ Sent)

--------------------------------------------------------------------------
(* Steps every handler is made of *)

Begin(w, label, r) ==
    /\ pc[w] = "idle"
    /\ pc' = [pc EXCEPT ![w] = label]
    /\ req' = [req EXCEPT ![w] = r]

Goto(w, from, to) ==
    /\ pc[w] = from
    /\ pc' = [pc EXCEPT ![w] = to]

Return(w) ==
    /\ pc' = [pc EXCEPT ![w] = "idle"]
    /\ req' = [req EXCEPT ![w] = NoRequest]

\* INSERT INTO refresh_tokens for the user and scope of w's request, in the
\* table tbl its transaction has updated so far; p is the token exchanged.
CreateRefreshToken(w, tbl, n, p) ==
    /\ n \in Token \ Issued
    /\ refresh' = [tbl EXCEPT ![n] = [user |-> req[w].user, scope |-> req[w].scope,
                                      revoked |-> FALSE]]
    /\ parent' = [parent EXCEPT ![n] = p]
    /\ outdated' = (outdated \ {w}) \cup (IF w \in outdated THEN {n} ELSE {})

--------------------------------------------------------------------------
(* Login and TenantSession *)

\* Login up to the check of the password and of is_active.
Login(w, u, p) ==
    /\ TokenLeft
    /\ p = pw[u]
    /\ active[u]
    /\ Begin(w, "login", [NoRequest EXCEPT !.user = u, !.scope = Platform])
    /\ UNCHANGED <<pw, active, lateLogin, picks, refresh, reset, parent, outdated>>

\* Platform staff get a platform session in a transaction of its own...
LoginStaff(w, n) ==
    /\ pc[w] = "login"
    /\ req[w].user \in Staff
    /\ CreateRefreshToken(w, refresh, n, Nil)
    /\ picks' = picks \cup {req[w].user}
    /\ Return(w)
    /\ UNCHANGED <<pw, active, lateLogin, reset>>

\* ... everybody else only the pick-tenant token.
LoginUser(w) ==
    /\ pc[w] = "login"
    /\ req[w].user \notin Staff
    /\ picks' = picks \cup {req[w].user}
    /\ outdated' = outdated \ {w}
    /\ Return(w)
    /\ UNCHANGED <<pw, active, lateLogin, refresh, reset, parent>>

\* The is_active = false a Login writes from a row it read earlier.
LoginDeactivate(u) ==
    /\ u \in lateLogin
    /\ ~\E v \in Worker : UpdatesUser(v, u)
    /\ active' = [active EXCEPT ![u] = FALSE]
    /\ lateLogin' = lateLogin \ {u}
    /\ UNCHANGED <<pw, picks, refresh, reset, pc, req, parent, outdated>>

\* The is_active = true of VerifyEmail, ResendVerification and AcceptInvite.
Reactivate(u) ==
    /\ ~active[u]
    /\ ~\E v \in Worker : UpdatesUser(v, u)
    /\ active' = [active EXCEPT ![u] = TRUE]
    /\ UNCHANGED <<pw, lateLogin, picks, refresh, reset, pc, req, parent, outdated>>

\* What the handlers of Accounts do to the row of a user.
ActiveChange(u) == LoginDeactivate(u) \/ Reactivate(u)

TenantSession_AnyTenant(w, u, t) ==
    /\ TokenLeft
    /\ u \in picks
    /\ active[u]
    /\ Begin(w, "session", [NoRequest EXCEPT !.user = u, !.scope = t])
    /\ UNCHANGED <<pw, active, lateLogin, picks, refresh, reset, parent, outdated>>

\* TenantSession up to the transaction: the pick token, the user it names and
\* the membership in the chosen tenant.  The pick token is not consumed.
TenantSession(w, u, t) ==
    /\ TokenLeft
    /\ u \in picks
    /\ active[u]
    /\ <<u, t>> \in Member
    /\ Begin(w, "session", [NoRequest EXCEPT !.user = u, !.scope = t])
    /\ UNCHANGED <<pw, active, lateLogin, picks, refresh, reset, parent, outdated>>

TenantSessionIssue(w, n) ==
    /\ pc[w] = "session"
    /\ CreateRefreshToken(w, refresh, n, Nil)
    /\ Return(w)
    /\ UNCHANGED <<pw, active, lateLogin, picks, reset>>

--------------------------------------------------------------------------
(* Refresh and Logout *)

RefreshRead_PlatformOnly(w, t) ==
    /\ TokenLeft
    /\ ValidRefresh(t)
    /\ Begin(w, "refresh_user", [NoRequest EXCEPT !.user = refresh[t].user,
                                    !.scope = Platform, !.token = t])
    /\ UNCHANGED <<pw, active, lateLogin, picks, refresh, reset, parent, outdated>>

RefreshRead(w, t) ==
    /\ TokenLeft
    /\ ValidRefresh(t)
    /\ Begin(w, "refresh_user", [NoRequest EXCEPT !.user = refresh[t].user,
                                    !.scope = refresh[t].scope, !.token = t])
    /\ UNCHANGED <<pw, active, lateLogin, picks, refresh, reset, parent, outdated>>

\* The user must be active and still be entitled to the row's scope.
Entitled(u, s) == IF s = Platform THEN u \in Staff ELSE <<u, s>> \in Member

RefreshCheckUser(w) ==
    /\ Goto(w, "refresh_user", "refresh_revoke")
    /\ active[req[w].user]
    /\ Entitled(req[w].user, req[w].scope)
    /\ UNCHANGED <<pw, active, lateLogin, picks, refresh, reset, req, parent, outdated>>

\* BEGIN; UPDATE ... WHERE id = row.ID: waits for the row, does not look at
\* revoked_at again.
RefreshRevoke(w) ==
    /\ Goto(w, "refresh_revoke", "refresh_issue")
    /\ ~LockedRefresh(req[w].token, w)
    /\ UNCHANGED <<pw, active, lateLogin, picks, refresh, reset, req, parent, outdated>>

RefreshIssue_KeepsOld(w, n) ==
    /\ pc[w] = "refresh_issue"
    /\ CreateRefreshToken(w, refresh, n, req[w].token)
    /\ Return(w)
    /\ UNCHANGED <<pw, active, lateLogin, picks, reset>>

RefreshIssue_UpdatesUser(w, n) ==
    /\ pc[w] = "refresh_issue"
    /\ ~LockedUser(req[w].user, w)
    /\ CreateRefreshToken(w, [refresh EXCEPT ![req[w].token].revoked = TRUE], n, req[w].token)
    /\ Return(w)
    /\ UNCHANGED <<pw, active, lateLogin, picks, reset>>

RefreshIssue(w, n) ==
    /\ pc[w] = "refresh_issue"
    /\ CreateRefreshToken(w, [refresh EXCEPT ![req[w].token].revoked = TRUE], n, req[w].token)
    /\ Return(w)
    /\ UNCHANGED <<pw, active, lateLogin, picks, reset>>

LogoutRead(w, t) ==
    /\ ValidRefresh(t)
    /\ Begin(w, "logout", [NoRequest EXCEPT !.user = refresh[t].user, !.token = t])
    /\ UNCHANGED <<pw, active, lateLogin, picks, refresh, reset, parent, outdated>>

LogoutRevoke(w) ==
    /\ pc[w] = "logout"
    /\ ~LockedRefresh(req[w].token, w)
    /\ refresh' = [refresh EXCEPT ![req[w].token].revoked = TRUE]
    /\ outdated' = outdated \ {w}
    /\ Return(w)
    /\ UNCHANGED <<pw, active, lateLogin, picks, reset, parent>>

--------------------------------------------------------------------------
(* ForgotPassword, ResetPassword, ChangePassword *)

ForgotPassword(w, u) ==
    /\ ResetLeft
    /\ active[u]
    /\ Begin(w, "forgot", [NoRequest EXCEPT !.user = u, !.earlier = Sent])
    /\ UNCHANGED <<pw, active, lateLogin, picks, refresh, reset, parent, outdated>>

ForgotInvalidate_Skipped(w) ==
    /\ Goto(w, "forgot", "forgot_create")
    /\ UNCHANGED <<pw, active, lateLogin, picks, refresh, reset, req, parent, outdated>>

\* The UPDATE takes its snapshot...
ForgotInvalidate(w) ==
    /\ Goto(w, "forgot", "forgot_create")
    /\ req' = [req EXCEPT ![w].sweep = PendingResetsOf(req[w].user)]
    /\ UNCHANGED <<pw, active, lateLogin, picks, refresh, reset, parent, outdated>>

\* ... and is applied once no row of it is locked; INSERT; COMMIT.
ForgotCreate(w, r) ==
    /\ pc[w] = "forgot_create"
    /\ r \in Reset \ Sent
    /\ \A x \in req[w].sweep : ~LockedReset(x, w)
    /\ reset' = [x \in Reset |->
                    CASE x = r -> [user |-> req[w].user, used |-> FALSE]
                      [] x \in req[w].sweep -> [reset[x] EXCEPT !.used = TRUE]
                      [] OTHER -> reset[x]]
    /\ outdated' = outdated \ {w}
    /\ Return(w)
    /\ UNCHANGED <<pw, active, lateLogin, picks, refresh, parent>>

ResetRead(w, r, new) ==
    /\ ValidReset(r)
    /\ Begin(w, "reset_user", [NoRequest EXCEPT !.user = reset[r].user, !.reset = r,
                                  !.new = new, !.earlier = Issued])
    /\ UNCHANGED <<pw, active, lateLogin, picks, refresh, reset, parent, outdated>>

ResetCheckUser(w) ==
    /\ Goto(w, "reset_user", "update")
    /\ active[req[w].user]
    /\ UNCHANGED <<pw, active, lateLogin, picks, refresh, reset, req, parent, outdated>>

\* An authenticated user, active or not, presents the current password.
ChangePassword(w, u, current, new) ==
    /\ current = pw[u]
    /\ Begin(w, "update", [NoRequest EXCEPT !.user = u, !.new = new, !.earlier = Issued])
    /\ UNCHANGED <<pw, active, lateLogin, picks, refresh, reset, parent, outdated>>

\* BEGIN; UPDATE users waits for the row of the user...
UpdateUser(w) ==
    /\ Goto(w, "update", IF req[w].reset = Nil THEN "sweep" ELSE "mark")
    /\ ~LockedUser(req[w].user, w)
    /\ UNCHANGED <<pw, active, lateLogin, picks, refresh, reset, req, parent, outdated>>

\* ... and for ResetPassword MarkPasswordResetUsed, by id, for the row of the token.
MarkReset(w) ==
    /\ Goto(w, "mark", "sweep")
    /\ ~LockedReset(req[w].reset, w)
    /\ UNCHANGED <<pw, active, lateLogin, picks, refresh, reset, req, parent, outdated>>

\* RevokeAllRefreshTokensForUser takes its snapshot...
RevokeAllSnapshot(w) ==
    /\ Goto(w, "sweep", "commit")
    /\ req' = [req EXCEPT ![w].sweep = ActiveRefreshOf(req[w].user)]
    /\ UNCHANGED <<pw, active, lateLogin, picks, refresh, reset, parent, outdated>>

\* ... and is applied once no row of it is locked; COMMIT.
CommitPassword(w) ==
    LET u == req[w].user IN
    /\ pc[w] = "commit"
    /\ \A t \in req[w].sweep : ~LockedRefresh(t, w)
    /\ pw' = [pw EXCEPT ![u] = req[w].new]
    /\ refresh' = [t \in Token |-> IF t \in req[w].sweep
                                   THEN [refresh[t] EXCEPT !.revoked = TRUE]
                                   ELSE refresh[t]]
    /\ reset' = [r \in Reset |-> IF r = req[w].reset
                                 THEN [reset[r] EXCEPT !.used = TRUE]
                                 ELSE reset[r]]
    /\ outdated' = (outdated \cup {t \in Issued : refresh[t].user = u}
                             \cup {v \in Worker : pc[v] # "idle" /\ req[v].user = u}) \ {w}
    /\ Return(w)
    /\ UNCHANGED <<active, lateLogin, picks, parent>>

--------------------------------------------------------------------------
(* Failures *)

\* An early return, a database error or the end of the process: an open
\* transaction is rolled back and the handler ends with nothing written.
Fail(w) ==
    /\ pc[w] # "idle"
    /\ outdated' = outdated \ {w}
    /\ Return(w)
    /\ UNCHANGED <<pw, active, lateLogin, picks, refresh, reset, parent>>

\* The early returns of Refresh and ResetPassword.
Reject(w) ==
    /\ \/ pc[w] = "refresh_user" /\ ~(active[req[w].user] /\ Entitled(req[w].user, req[w].scope))
       \/ pc[w] = "reset_user" /\ ~active[req[w].user]
    /\ Fail(w)

--------------------------------------------------------------------------
(* Specification *)

Init ==
    /\ pw \in [User -> Password]
    /\ active = [u \in User |-> TRUE]
    /\ lateLogin \in SUBSET User
    /\ picks = {}
    /\ refresh = [t \in Token |-> NoRefresh]
    /\ reset = [r \in Reset |-> NoReset]
    /\ pc = [w \in Worker |-> "idle"]
    /\ req = [w \in Worker |-> NoRequest]
    /\ parent = [t \in Token |-> Nil]
    /\ outdated = {}

\* A client request arrives at an idle worker.
Arrive(w) ==
    \/ \E u \in User, p \in Password : Login(w, u, p)
    \/ \E u \in User, t \in Tenant : TenantSession(w, u, t)
    \/ \E t \in Token : RefreshRead(w, t) \/ LogoutRead(w, t)
    \/ \E u \in User : ForgotPassword(w, u)
    \/ \E r \in Reset, new \in Password : ResetRead(w, r, new)
    \/ \E u \in User, current, new \in Password : ChangePassword(w, u, current, new)

\* The steps of a handler under way that wait for nobody...
Step(w) ==
    \/ LoginUser(w)
    \/ \E n \in Token : LoginStaff(w, n) \/ TenantSessionIssue(w, n) \/ RefreshIssue(w, n)
    \/ RefreshCheckUser(w) \/ ResetCheckUser(w) \/ Reject(w)
    \/ ForgotInvalidate(w)
    \/ RevokeAllSnapshot(w)

\* ... and the statements that may wait for a row lock.
LockingStep(w) ==
    \/ RefreshRevoke(w)
    \/ LogoutRevoke(w)
    \/ \E r \in Reset : ForgotCreate(w, r)
    \/ UpdateUser(w)
    \/ MarkReset(w)
    \/ CommitPassword(w)

Next ==
    \/ \E w \in Worker : Arrive(w) \/ Step(w) \/ LockingStep(w) \/ Fail(w)
    \/ \E u \in User : ActiveChange(u)

Spec == Init /\ [][Next]_vars

\* A goroutine that can run does run; PostgreSQL queues the waiters of a row
\* lock in order, so one that keeps getting free is granted in the end.
FairSpec == Spec /\ \A w \in Worker : WF_vars(Step(w)) /\ SF_vars(LockingStep(w))

--------------------------------------------------------------------------
(* Properties *)

PC == {"idle", "login", "session", "refresh_user", "refresh_revoke", "refresh_issue",
       "logout", "forgot", "forgot_create", "reset_user", "update", "mark",
       "sweep", "commit"}

\* Types of the tables, of the handlers' locals and of the history variables.
TypeOK ==
    /\ pw \in [User -> Password]
    /\ active \in [User -> BOOLEAN]
    /\ lateLogin \subseteq User
    /\ picks \subseteq User
    /\ refresh \in [Token -> RefreshRow]
    /\ reset \in [Reset -> ResetRow]
    /\ pc \in [Worker -> PC]
    /\ req \in [Worker -> Request]
    /\ parent \in [Token -> Token \cup {Nil}]
    /\ outdated \subseteq Token \cup Worker

\* What the worker w has read still holds of the tables.
ReadRight(w) ==
    /\ pc[w] # "idle" => req[w].user \in User
    /\ pc[w] \in {"reset_user", "update", "mark", "sweep", "commit"} => req[w].new \in Password
    /\ pc[w] \in {"login", "session", "refresh_user", "refresh_revoke", "refresh_issue"} =>
           req[w].scope \in Scope
    /\ pc[w] = "login" => req[w].scope = Platform
    /\ pc[w] = "session" => Entitled(req[w].user, req[w].scope)
    /\ pc[w] \in {"refresh_user", "refresh_revoke", "refresh_issue", "logout"} =>
           req[w].token \in Issued /\ refresh[req[w].token].user = req[w].user
    /\ pc[w] \in {"refresh_user", "refresh_revoke", "refresh_issue"} =>
           refresh[req[w].token].scope = req[w].scope

\* What a handler has read stays true of the tables until it ends, in the parts
\* nobody rewrites: whose row it is and for which scope.  Every handler acts on
\* rows it read before its transaction.
HandlersReadRight == \A w \in Worker : ReadRight(w)

\* However requests overlap, a token obtained by Refresh belongs to the user
\* and scope of the token it was exchanged for, and that one is revoked: a
\* token that still works has no ancestor that does.
Lineage ==
    \A c \in Issued : parent[c] # Nil =>
        /\ parent[c] \in Issued
        /\ refresh[parent[c]].revoked
        /\ refresh[c].user = refresh[parent[c]].user
        /\ refresh[c].scope = refresh[parent[c]].scope

\* A platform session (tenant_id NULL) is only ever held by platform staff and
\* a tenant session only by a member of the tenant, whatever Refresh, Login and
\* TenantSession do at the same time.
ScopeJustified == \A t \in Issued : Entitled(refresh[t].user, refresh[t].scope)

\* A password change ends every session: a refresh token that still works comes
\* from a request begun after the last change of its user's password.
LiveSincePasswordChange ==
    \A t \in Issued : ~refresh[t].revoked => t \notin outdated

\* A password change or reset ends the sessions its user had when the request
\* began, of every scope, even if a Refresh of one overlaps it and commits or
\* rolls back; only tokens issued later may survive.
ChangeEndsEarlier ==
    [][\A w \in Worker : CommitPassword(w) =>
            \A t \in req[w].earlier : refresh[t].user = req[w].user => refresh'[t].revoked]_vars

\* ForgotPassword spends the reset tokens its user had when the request began,
\* though it leaves those that overlapping requests have made.
ForgotEndsEarlier ==
    [][\A w \in Worker, n \in Reset : ForgotCreate(w, n) =>
            \A r \in req[w].earlier : reset[r].user = req[w].user => reset'[r].used]_vars

\* No request waits for ever: row locks are taken in an order (users, then
\* password_reset_tokens, then refresh_tokens) in which nobody can deadlock.
RequestsFinish == \A w \in Worker : pc[w] # "idle" ~> pc[w] = "idle"
--------------------------------------------------------------------------
(* The promise: sessions are chains of tokens, however requests overlap. *)

TokenStatus(t) ==
    IF t \notin Issued THEN "unborn" ELSE IF refresh[t].revoked THEN "dead" ELSE "live"

\* The tokens a handler has found live and is about to revoke.
Held(w) ==
    CASE pc[w] \in {"refresh_user", "refresh_revoke", "refresh_issue", "logout"} -> {req[w].token}
      [] pc[w] = "commit" -> req[w].sweep
      [] OTHER -> {}

Chains == INSTANCE SessionChains WITH
    status <- [t \in Token |-> TokenStatus(t)],
    holder <- [t \in Token |-> refresh[t].user],
    from   <- parent,
    hold   <- [w \in Worker |-> Held(w)]

\* The handlers implement the chains: every commit of Login, TenantSession,
\* Refresh, Logout, ResetPassword and ChangePassword, and every read of tokens
\* they rest on, is one step of SessionChains, and nothing else is seen of them.
ChainsSpec == Chains!Spec
=============================================================================
