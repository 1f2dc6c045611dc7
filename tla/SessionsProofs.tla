--------------------------- MODULE SessionsProofs ---------------------------
(* Theorems about Sessions, for any number of users, passwords, tokens and  *)
(* workers, and so however many requests overlap: what the rows and the     *)
(* locals of the handlers keep, what a password change and ForgotPassword   *)
(* end, and the refinement of SessionChains.                                *)
EXTENDS Sessions, TLAPS

--------------------------------------------------------------------------
(* Types *)

\* What the building blocks of the handlers leave in pc, req and the tables.
LEMMA BlockTypes ==
    ASSUME TypeOK, NEW w \in Worker
    PROVE  /\ \A label \in PC, r \in Request :
                  Begin(w, label, r) => pc' \in [Worker -> PC] /\ req' \in [Worker -> Request]
           /\ \A from \in PC, to \in PC : Goto(w, from, to) => pc' \in [Worker -> PC]
           /\ Return(w) => pc' \in [Worker -> PC] /\ req' \in [Worker -> Request]
  <1>1. NoRequest \in Request
    BY DEF NoRequest, Request
  <1>2. "idle" \in PC
    BY DEF PC
  <1>. QED  BY <1>1, <1>2 DEF TypeOK, Begin, Goto, Return

\* A row inserted for a request with a user and a scope keeps the table typed.
LEMMA CreateTypes ==
    ASSUME TypeOK, NEW w \in Worker, NEW n \in Token, NEW p \in Token \cup {Nil},
           NEW tbl \in [Token -> RefreshRow],
           CreateRefreshToken(w, tbl, n, p)
    PROVE  /\ refresh' \in [Token -> RefreshRow]
           /\ parent' \in [Token -> Token \cup {Nil}]
           /\ outdated' \subseteq Token \cup Worker
  <1>1. req[w].user \in User \cup {Nil} /\ req[w].scope \in Scope \cup {Nil}
    BY DEF TypeOK, Request
  <1>. QED  BY <1>1 DEF TypeOK, CreateRefreshToken, RefreshRow

\* The initial state is typed.
LEMMA InitType == Init => TypeOK
  BY DEF Init, TypeOK, NoRefresh, NoReset, NoRequest, RefreshRow, ResetRow, Request, PC

\* Every step keeps the types.
LEMMA NextType == TypeOK /\ HandlersReadRight /\ [Next]_vars => TypeOK'
  <1>. SUFFICES ASSUME TypeOK, HandlersReadRight, [Next]_vars PROVE TypeOK'
    OBVIOUS
  <1>. USE DEF TypeOK
  <1>r. NoRequest \in Request
    BY DEF NoRequest, Request
  <1>1. ASSUME NEW w \in Worker, Arrive(w) PROVE TypeOK'
    <2>1. ASSUME NEW u \in User, NEW p \in Password, Login(w, u, p) PROVE TypeOK'
      <3>1. [NoRequest EXCEPT !.user = u, !.scope = Platform] \in Request
        BY DEF NoRequest, Request, Scope
      <3>. QED  BY <2>1, <3>1, BlockTypes DEF Login, PC
    <2>2. ASSUME NEW u \in User, NEW t \in Tenant, TenantSession(w, u, t) PROVE TypeOK'
      <3>1. [NoRequest EXCEPT !.user = u, !.scope = t] \in Request
        BY DEF NoRequest, Request, Scope
      <3>. QED  BY <2>2, <3>1, BlockTypes DEF TenantSession, PC
    <2>3. ASSUME NEW t \in Token, RefreshRead(w, t) PROVE TypeOK'
      <3>1. [NoRequest EXCEPT !.user = refresh[t].user, !.scope = refresh[t].scope,
                              !.token = t] \in Request
        BY DEF NoRequest, Request, RefreshRow
      <3>. QED  BY <2>3, <3>1, BlockTypes DEF RefreshRead, PC
    <2>4. ASSUME NEW t \in Token, LogoutRead(w, t) PROVE TypeOK'
      <3>1. [NoRequest EXCEPT !.user = refresh[t].user, !.token = t] \in Request
        BY DEF NoRequest, Request, RefreshRow
      <3>. QED  BY <2>4, <3>1, BlockTypes DEF LogoutRead, PC
    <2>5. ASSUME NEW u \in User, ForgotPassword(w, u) PROVE TypeOK'
      <3>1. [NoRequest EXCEPT !.user = u, !.earlier = Sent] \in Request
        BY DEF NoRequest, Request, Sent
      <3>. QED  BY <2>5, <3>1, BlockTypes DEF ForgotPassword, PC
    <2>6. ASSUME NEW r \in Reset, NEW new \in Password, ResetRead(w, r, new) PROVE TypeOK'
      <3>1. [NoRequest EXCEPT !.user = reset[r].user, !.reset = r, !.new = new,
                              !.earlier = Issued] \in Request
        BY DEF NoRequest, Request, ResetRow, Issued
      <3>. QED  BY <2>6, <3>1, BlockTypes DEF ResetRead, PC
    <2>7. ASSUME NEW u \in User, NEW current \in Password, NEW new \in Password,
                 ChangePassword(w, u, current, new)
          PROVE  TypeOK'
      <3>1. [NoRequest EXCEPT !.user = u, !.new = new, !.earlier = Issued] \in Request
        BY DEF NoRequest, Request, Issued
      <3>. QED  BY <2>7, <3>1, BlockTypes DEF ChangePassword, PC
    <2>. QED  BY <1>1, <2>1, <2>2, <2>3, <2>4, <2>5, <2>6, <2>7 DEF Arrive
  <1>2. ASSUME NEW w \in Worker, Step(w) PROVE TypeOK'
    <2>1. CASE LoginUser(w)
      BY <2>1, BlockTypes DEF LoginUser, HandlersReadRight, ReadRight
    <2>2. ASSUME NEW n \in Token, LoginStaff(w, n) PROVE TypeOK'
      BY <2>2, BlockTypes, CreateTypes DEF LoginStaff, HandlersReadRight, ReadRight
    <2>3. ASSUME NEW n \in Token, TenantSessionIssue(w, n) PROVE TypeOK'
      BY <2>3, BlockTypes, CreateTypes DEF TenantSessionIssue
    <2>4. ASSUME NEW n \in Token, RefreshIssue(w, n) PROVE TypeOK'
      <3>1. [refresh EXCEPT ![req[w].token].revoked = TRUE] \in [Token -> RefreshRow]
        BY DEF RefreshRow
      <3>2. req[w].token \in Token \cup {Nil}
        BY DEF Request
      <3>. QED  BY <2>4, <3>1, <3>2, BlockTypes, CreateTypes DEF RefreshIssue
    <2>5. CASE RefreshCheckUser(w)
      BY <2>5, BlockTypes DEF RefreshCheckUser, PC
    <2>6. CASE ResetCheckUser(w)
      BY <2>6, BlockTypes DEF ResetCheckUser, PC
    <2>7. CASE Reject(w)
      BY <2>7, BlockTypes DEF Reject, Fail
    <2>8. CASE ForgotInvalidate(w)
      <3>1. [req[w] EXCEPT !.sweep = PendingResetsOf(req[w].user)] \in Request
        BY DEF Request, PendingResetsOf, Sent
      <3>. QED  BY <2>8, <3>1, BlockTypes DEF ForgotInvalidate, PC
    <2>9. CASE RevokeAllSnapshot(w)
      <3>1. [req[w] EXCEPT !.sweep = ActiveRefreshOf(req[w].user)] \in Request
        BY DEF Request, ActiveRefreshOf, Issued
      <3>. QED  BY <2>9, <3>1, BlockTypes DEF RevokeAllSnapshot, PC
    <2>. QED  BY <1>2, <2>1, <2>2, <2>3, <2>4, <2>5, <2>6, <2>7, <2>8, <2>9 DEF Step
  <1>3. ASSUME NEW w \in Worker, LockingStep(w) PROVE TypeOK'
    <2>1. CASE RefreshRevoke(w)
      BY <2>1, BlockTypes DEF RefreshRevoke, PC
    <2>2. CASE LogoutRevoke(w)
      BY <2>2, BlockTypes DEF LogoutRevoke, RefreshRow
    <2>3. ASSUME NEW r \in Reset, ForgotCreate(w, r) PROVE TypeOK'
      <3>1. req[w].user \in User \cup {Nil}
        BY DEF Request
      <3>2. reset' \in [Reset -> ResetRow]
        BY <2>3, <3>1 DEF ForgotCreate, ResetRow
      <3>. QED  BY <2>3, <3>2, BlockTypes DEF ForgotCreate
    <2>4. CASE UpdateUser(w)
      BY <2>4, BlockTypes DEF UpdateUser, PC
    <2>6. CASE MarkReset(w)
      BY <2>6, BlockTypes DEF MarkReset, PC
    <2>5. CASE CommitPassword(w)
      <3>1. req[w].new \in Password /\ req[w].user \in User
        BY <2>5 DEF CommitPassword, HandlersReadRight, ReadRight
      <3>2. refresh' \in [Token -> RefreshRow] /\ reset' \in [Reset -> ResetRow]
        <4>1. \A t \in Token : [refresh[t] EXCEPT !.revoked = TRUE] \in RefreshRow
          BY DEF RefreshRow
        <4>2. \A r \in Reset : [reset[r] EXCEPT !.used = TRUE] \in ResetRow
          BY DEF ResetRow
        <4>. QED  BY <2>5, <4>1, <4>2 DEF CommitPassword
      <3>3. outdated' \subseteq Token \cup Worker
        BY <2>5 DEF CommitPassword, Issued
      <3>. QED  BY <2>5, <3>1, <3>2, <3>3, BlockTypes DEF CommitPassword
    <2>. QED  BY <1>3, <2>1, <2>2, <2>3, <2>4, <2>5, <2>6 DEF LockingStep
  <1>4. ASSUME NEW w \in Worker, Fail(w) PROVE TypeOK'
    BY <1>4, BlockTypes DEF Fail
  <1>5. ASSUME NEW u \in User, ActiveChange(u) PROVE TypeOK'
    BY <1>5 DEF ActiveChange, LoginDeactivate, Reactivate
  <1>6. CASE UNCHANGED vars
    BY <1>6 DEF vars
  <1>. QED  BY <1>1, <1>2, <1>3, <1>4, <1>5, <1>6 DEF Next
--------------------------------------------------------------------------
(* Rows, and what the handlers know of them *)

\* A row keeps its user, its scope and its parent, and once revoked stays so.
LEMMA RowsStable ==
    ASSUME TypeOK, HandlersReadRight, [Next]_vars, NEW t \in Token, t \in Issued
    PROVE  /\ t \in Issued'
           /\ refresh'[t].user = refresh[t].user
           /\ refresh'[t].scope = refresh[t].scope
           /\ refresh[t].revoked => refresh'[t].revoked
           /\ parent'[t] = parent[t]
  <1>. USE DEF TypeOK, Issued
  <1>1. ASSUME NEW w \in Worker, NEW n \in Token, NEW p \in Token \cup {Nil},
               CreateRefreshToken(w, refresh, n, p)
        PROVE  refresh'[t] = refresh[t] /\ parent'[t] = parent[t]
    BY <1>1 DEF CreateRefreshToken
  <1>2. ASSUME NEW w \in Worker, NEW n \in Token, RefreshIssue(w, n)
        PROVE  /\ refresh'[t].user = refresh[t].user
               /\ refresh'[t].scope = refresh[t].scope
               /\ refresh[t].revoked => refresh'[t].revoked
               /\ parent'[t] = parent[t]
    BY <1>2 DEF RefreshIssue, CreateRefreshToken, RefreshRow
  <1>3. ASSUME NEW w \in Worker, LogoutRevoke(w) \/ CommitPassword(w)
        PROVE  /\ refresh'[t].user = refresh[t].user
               /\ refresh'[t].scope = refresh[t].scope
               /\ refresh[t].revoked => refresh'[t].revoked
               /\ parent'[t] = parent[t]
    BY <1>3 DEF LogoutRevoke, CommitPassword, RefreshRow
  <1>4. ASSUME NEW w \in Worker, Arrive(w) PROVE UNCHANGED <<refresh, parent>>
    BY <1>4 DEF Arrive, Login, TenantSession, RefreshRead, LogoutRead, ForgotPassword,
                ResetRead, ChangePassword
  <1>5. ASSUME NEW w \in Worker, NEW n \in Token, LoginStaff(w, n) \/ TenantSessionIssue(w, n)
        PROVE  refresh'[t] = refresh[t] /\ parent'[t] = parent[t]
    BY <1>5, <1>1 DEF LoginStaff, TenantSessionIssue
  <1>6. ASSUME NEW w \in Worker,
               \/ LoginUser(w) \/ RefreshCheckUser(w) \/ ResetCheckUser(w) \/ Reject(w)
               \/ ForgotInvalidate(w) \/ RevokeAllSnapshot(w)
               \/ RefreshRevoke(w) \/ UpdateUser(w) \/ MarkReset(w) \/ Fail(w)
               \/ \E r \in Reset : ForgotCreate(w, r)
        PROVE  UNCHANGED <<refresh, parent>>
    BY <1>6 DEF LoginUser, RefreshCheckUser, ResetCheckUser, Reject, ForgotInvalidate,
                RevokeAllSnapshot, RefreshRevoke, UpdateUser, MarkReset, Fail, ForgotCreate
  <1>7. ASSUME NEW u \in User, ActiveChange(u) PROVE UNCHANGED <<refresh, parent>>
    BY <1>7 DEF ActiveChange, LoginDeactivate, Reactivate
  <1>8. CASE UNCHANGED vars
    BY <1>8 DEF vars
  <1>. QED  BY <1>2, <1>3, <1>4, <1>5, <1>6, <1>7, <1>8 DEF Next, Step, LockingStep

\* A worker that takes no step still knows right what it has read.
LEMMA BystanderReadRight ==
    ASSUME TypeOK, HandlersReadRight, [Next]_vars, NEW v \in Worker,
           pc'[v] = pc[v], req'[v] = req[v]
    PROVE  ReadRight(v)'
  <1>1. ReadRight(v)
    BY DEF HandlersReadRight
  <1>2. \A t \in Issued : t \in Issued' /\ refresh'[t].user = refresh[t].user
                                        /\ refresh'[t].scope = refresh[t].scope
    BY RowsStable DEF Issued
  <1>. QED  BY <1>1, <1>2 DEF ReadRight, Entitled

\* A step leaves its worker with locals that hold of the tables, too.
LEMMA NextReadRight ==
    TypeOK /\ HandlersReadRight /\ ScopeJustified /\ [Next]_vars => HandlersReadRight'
  <1>. SUFFICES ASSUME TypeOK, HandlersReadRight, ScopeJustified, [Next]_vars
                PROVE  HandlersReadRight'
    OBVIOUS
  <1>1. \A t \in Issued : t \in Issued' /\ refresh'[t].user = refresh[t].user
                                        /\ refresh'[t].scope = refresh[t].scope
    BY RowsStable DEF Issued
  <1>2. \A t \in Issued : refresh[t].user \in User /\ refresh[t].scope \in Scope
    <2>. SUFFICES ASSUME NEW t \in Issued
                  PROVE  refresh[t].user \in User /\ refresh[t].scope \in Scope
      OBVIOUS
    <2>1. CASE refresh[t].scope = Platform
      BY <2>1, SessionConstants DEF ScopeJustified, Entitled, Scope
    <2>2. CASE refresh[t].scope # Platform
      <3>1. <<refresh[t].user, refresh[t].scope>> \in User \X Tenant
        BY <2>2, SessionConstants DEF ScopeJustified, Entitled
      <3>. QED  BY <3>1 DEF Scope
    <2>. QED  BY <2>1, <2>2
  <1>o. ASSUME NEW w \in Worker,
               \A v \in Worker \ {w} : pc'[v] = pc[v] /\ req'[v] = req[v],
               ReadRight(w)'
        PROVE  HandlersReadRight'
    BY <1>o, BystanderReadRight DEF HandlersReadRight
  <1>r. ASSUME NEW w \in Worker, Return(w) PROVE HandlersReadRight'
    <2>1. pc'[w] = "idle"
      BY <1>r DEF Return, TypeOK
    <2>2. \A v \in Worker \ {w} : pc'[v] = pc[v] /\ req'[v] = req[v]
      BY <1>r DEF Return, TypeOK
    <2>. QED  BY <2>1, <2>2, <1>o DEF ReadRight
  <1>g. ASSUME NEW w \in Worker, NEW from \in PC, NEW to \in PC, Goto(w, from, to),
               \/ UNCHANGED req
               \/ \E x \in SUBSET (Token \cup Reset) : req' = [req EXCEPT ![w].sweep = x]
        PROVE  /\ \A v \in Worker \ {w} : pc'[v] = pc[v] /\ req'[v] = req[v]
               /\ pc[w] = from /\ pc'[w] = to
               /\ req'[w].user = req[w].user /\ req'[w].scope = req[w].scope
               /\ req'[w].token = req[w].token /\ req'[w].new = req[w].new
    BY <1>g DEF Goto, TypeOK, Request
  <1>b. ASSUME NEW w \in Worker, NEW label, NEW r, Begin(w, label, r)
        PROVE  /\ \A v \in Worker \ {w} : pc'[v] = pc[v] /\ req'[v] = req[v]
               /\ pc'[w] = label /\ req'[w] = r
    BY <1>b DEF Begin, TypeOK
  <1>3. ASSUME NEW w \in Worker, Arrive(w) PROVE HandlersReadRight'
    <2>1. ASSUME NEW u \in User, NEW p \in Password, Login(w, u, p) PROVE ReadRight(w)'
      <3>. DEFINE r == [NoRequest EXCEPT !.user = u, !.scope = Platform]
      <3>1. pc'[w] = "login" /\ req'[w] = r
        BY <2>1, <1>b DEF Login
      <3>. QED  BY <3>1 DEF ReadRight, NoRequest, Scope
    <2>2. ASSUME NEW u \in User, NEW t \in Tenant, TenantSession(w, u, t) PROVE ReadRight(w)'
      <3>. DEFINE r == [NoRequest EXCEPT !.user = u, !.scope = t]
      <3>1. pc'[w] = "session" /\ req'[w] = r
        BY <2>2, <1>b DEF TenantSession
      <3>. QED  BY <2>2, <3>1, SessionConstants
                DEF ReadRight, NoRequest, Scope, Entitled, TenantSession
    <2>3. ASSUME NEW t \in Token, RefreshRead(w, t) PROVE ReadRight(w)'
      <3>. DEFINE r == [NoRequest EXCEPT !.user = refresh[t].user,
                                         !.scope = refresh[t].scope, !.token = t]
      <3>1. pc'[w] = "refresh_user" /\ req'[w] = r /\ t \in Issued
        BY <2>3, <1>b DEF RefreshRead, ValidRefresh
      <3>. QED  BY <3>1, <1>1, <1>2 DEF ReadRight, NoRequest
    <2>4. ASSUME NEW t \in Token, LogoutRead(w, t) PROVE ReadRight(w)'
      <3>. DEFINE r == [NoRequest EXCEPT !.user = refresh[t].user, !.token = t]
      <3>1. pc'[w] = "logout" /\ req'[w] = r /\ t \in Issued
        BY <2>4, <1>b DEF LogoutRead, ValidRefresh
      <3>. QED  BY <3>1, <1>1, <1>2 DEF ReadRight, NoRequest
    <2>5. ASSUME NEW u \in User, ForgotPassword(w, u) PROVE ReadRight(w)'
      <3>. DEFINE r == [NoRequest EXCEPT !.user = u, !.earlier = Sent]
      <3>1. pc'[w] = "forgot" /\ req'[w] = r
        BY <2>5, <1>b DEF ForgotPassword
      <3>. QED  BY <3>1 DEF ReadRight, NoRequest
    <2>6. ASSUME NEW x \in Reset, NEW new \in Password, ResetRead(w, x, new)
          PROVE  ReadRight(w)'
      <3>. DEFINE r == [NoRequest EXCEPT !.user = reset[x].user, !.reset = x, !.new = new,
                                         !.earlier = Issued]
      <3>1. pc'[w] = "reset_user" /\ req'[w] = r /\ x \in Sent
        BY <2>6, <1>b DEF ResetRead, ValidReset
      <3>2. reset[x].user \in User
        BY <3>1 DEF Sent, TypeOK, ResetRow
      <3>. QED  BY <3>1, <3>2 DEF ReadRight, NoRequest
    <2>7. ASSUME NEW u \in User, NEW current \in Password, NEW new \in Password,
                 ChangePassword(w, u, current, new)
          PROVE  ReadRight(w)'
      <3>. DEFINE r == [NoRequest EXCEPT !.user = u, !.new = new, !.earlier = Issued]
      <3>1. pc'[w] = "update" /\ req'[w] = r
        BY <2>7, <1>b DEF ChangePassword
      <3>. QED  BY <3>1 DEF ReadRight, NoRequest
    <2>8. \E label, r : Begin(w, label, r)
      BY <1>3 DEF Arrive, Login, TenantSession, RefreshRead, LogoutRead, ForgotPassword,
                  ResetRead, ChangePassword
    <2>9. \A v \in Worker \ {w} : pc'[v] = pc[v] /\ req'[v] = req[v]
      BY <2>8, <1>b
    <2>. QED  BY <1>3, <2>1, <2>2, <2>3, <2>4, <2>5, <2>6, <2>7, <2>9, <1>o DEF Arrive
  <1>4. ASSUME NEW w \in Worker, Step(w) PROVE HandlersReadRight'
    <2>1. CASE \/ LoginUser(w) \/ Reject(w)
               \/ \E n \in Token : LoginStaff(w, n) \/ TenantSessionIssue(w, n)
                                                    \/ RefreshIssue(w, n)
      BY <2>1, <1>r DEF LoginUser, Reject, Fail, LoginStaff, TenantSessionIssue, RefreshIssue
    <2>2. CASE RefreshCheckUser(w)
      <3>1. Goto(w, "refresh_user", "refresh_revoke") /\ UNCHANGED <<req, refresh>>
        BY <2>2 DEF RefreshCheckUser
      <3>2. ReadRight(w)'
        BY <3>1, <1>g, <1>1 DEF HandlersReadRight, ReadRight, PC
      <3>. QED  BY <3>1, <3>2, <1>g, <1>o DEF PC
    <2>3. CASE ResetCheckUser(w)
      <3>1. Goto(w, "reset_user", "update") /\ UNCHANGED <<req, refresh>>
        BY <2>3 DEF ResetCheckUser
      <3>2. ReadRight(w)'
        BY <3>1, <1>g, <1>1 DEF HandlersReadRight, ReadRight, PC
      <3>. QED  BY <3>1, <3>2, <1>g, <1>o DEF PC
    <2>4. CASE ForgotInvalidate(w)
      <3>1. Goto(w, "forgot", "forgot_create") /\ UNCHANGED refresh
        BY <2>4 DEF ForgotInvalidate
      <3>2. \E x \in SUBSET (Token \cup Reset) : req' = [req EXCEPT ![w].sweep = x]
        BY <2>4 DEF ForgotInvalidate, PendingResetsOf, Sent
      <3>3. ReadRight(w)'
        BY <3>1, <3>2, <1>g, <1>1 DEF HandlersReadRight, ReadRight, PC
      <3>. QED  BY <3>1, <3>2, <3>3, <1>g, <1>o DEF PC
    <2>5. CASE RevokeAllSnapshot(w)
      <3>1. Goto(w, "sweep", "commit") /\ UNCHANGED refresh
        BY <2>5 DEF RevokeAllSnapshot
      <3>2. \E x \in SUBSET (Token \cup Reset) : req' = [req EXCEPT ![w].sweep = x]
        BY <2>5 DEF RevokeAllSnapshot, ActiveRefreshOf, Issued
      <3>3. ReadRight(w)'
        BY <3>1, <3>2, <1>g, <1>1 DEF HandlersReadRight, ReadRight, PC
      <3>. QED  BY <3>1, <3>2, <3>3, <1>g, <1>o DEF PC
    <2>. QED  BY <1>4, <2>1, <2>2, <2>3, <2>4, <2>5 DEF Step
  <1>5. ASSUME NEW w \in Worker, LockingStep(w) PROVE HandlersReadRight'
    <2>1. CASE LogoutRevoke(w) \/ CommitPassword(w) \/ \E r \in Reset : ForgotCreate(w, r)
      BY <2>1, <1>r DEF LogoutRevoke, CommitPassword, ForgotCreate
    <2>2. CASE RefreshRevoke(w)
      <3>1. Goto(w, "refresh_revoke", "refresh_issue") /\ UNCHANGED <<req, refresh>>
        BY <2>2 DEF RefreshRevoke
      <3>2. ReadRight(w)'
        BY <3>1, <1>g, <1>1 DEF HandlersReadRight, ReadRight, PC
      <3>. QED  BY <3>1, <3>2, <1>g, <1>o DEF PC
    <2>3. CASE UpdateUser(w) \/ MarkReset(w)
      <3>1. PICK from \in {"update", "mark"}, to \in {"mark", "sweep"} : Goto(w, from, to)
        BY <2>3 DEF UpdateUser, MarkReset
      <3>2. UNCHANGED <<req, refresh>>
        BY <2>3 DEF UpdateUser, MarkReset
      <3>3. from \in PC /\ to \in PC
        BY DEF PC
      <3>4. ReadRight(w)'
        BY <3>1, <3>2, <3>3, <1>g, <1>1 DEF HandlersReadRight, ReadRight
      <3>. QED  BY <3>1, <3>2, <3>3, <3>4, <1>g, <1>o
    <2>. QED  BY <1>5, <2>1, <2>2, <2>3 DEF LockingStep
  <1>6. ASSUME NEW w \in Worker, Fail(w) PROVE HandlersReadRight'
    BY <1>6, <1>r DEF Fail
  <1>7. CASE (\E u \in User : ActiveChange(u)) \/ UNCHANGED vars
    <2>1. UNCHANGED <<pc, req>>
      BY <1>7 DEF ActiveChange, LoginDeactivate, Reactivate, vars
    <2>. QED  BY <2>1, BystanderReadRight DEF HandlersReadRight
  <1>. QED  BY <1>3, <1>4, <1>5, <1>6, <1>7 DEF Next
--------------------------------------------------------------------------
(* Lineage and scope, for any number of workers *)

\* Every row of the next state was there before, or is the one a request
\* inserts: with the user and scope it read, in exchange for the token it read,
\* which the same commit revokes.
LEMMA NewRow ==
    ASSUME TypeOK, HandlersReadRight, [Next]_vars, NEW n \in Token, n \in Issued', n \notin Issued
    PROVE  \E w \in Worker :
               /\ refresh'[n].user = req[w].user
               /\ refresh'[n].scope = req[w].scope
               /\ \/ /\ parent'[n] = Nil
                     /\ \/ pc[w] = "session"
                        \/ pc[w] = "login" /\ req[w].user \in Staff
                  \/ /\ pc[w] = "refresh_issue"
                     /\ parent'[n] = req[w].token
                     /\ refresh'[req[w].token].revoked
               /\ \A m \in Token : m \in Issued' /\ m \notin Issued => m = n
  <1>. USE DEF TypeOK
  <1>0. ASSUME UNCHANGED refresh PROVE FALSE
    BY <1>0 DEF Issued
  <1>1. ASSUME NEW w \in Worker, NEW m \in Token, NEW tbl \in [Token -> RefreshRow],
               NEW p \in Token \cup {Nil}, CreateRefreshToken(w, tbl, m, p),
               \A t \in Token : tbl[t].user = refresh[t].user
        PROVE  /\ m = n
               /\ refresh'[n].user = req[w].user /\ refresh'[n].scope = req[w].scope
               /\ parent'[n] = p
               /\ \A x \in Token : x \in Issued' /\ x \notin Issued => x = n
    BY <1>1 DEF CreateRefreshToken, Issued
  <1>2. ASSUME NEW w \in Worker, LogoutRevoke(w) \/ CommitPassword(w) PROVE FALSE
    BY <1>2 DEF LogoutRevoke, CommitPassword, Issued, RefreshRow
  <1>3. ASSUME NEW w \in Worker, Arrive(w) PROVE UNCHANGED refresh
    BY <1>3 DEF Arrive, Login, TenantSession, RefreshRead, LogoutRead, ForgotPassword,
                ResetRead, ChangePassword
  <1>4. ASSUME NEW w \in Worker,
               \/ LoginUser(w) \/ RefreshCheckUser(w) \/ ResetCheckUser(w) \/ Reject(w)
               \/ ForgotInvalidate(w) \/ RevokeAllSnapshot(w)
               \/ RefreshRevoke(w) \/ UpdateUser(w) \/ MarkReset(w) \/ Fail(w)
               \/ \E r \in Reset : ForgotCreate(w, r)
        PROVE  UNCHANGED refresh
    BY <1>4 DEF LoginUser, RefreshCheckUser, ResetCheckUser, Reject, ForgotInvalidate,
                RevokeAllSnapshot, RefreshRevoke, UpdateUser, MarkReset, Fail, ForgotCreate
  <1>5. ASSUME (\E u \in User : ActiveChange(u)) \/ UNCHANGED vars PROVE FALSE
    BY <1>5, <1>0 DEF ActiveChange, LoginDeactivate, Reactivate, vars
  <1>6. PICK w \in Worker : \E m \in Token :
               LoginStaff(w, m) \/ TenantSessionIssue(w, m) \/ RefreshIssue(w, m)
    BY <1>0, <1>2, <1>3, <1>4, <1>5 DEF Next, Step, LockingStep
  <1>7. CASE \E m \in Token : LoginStaff(w, m)
    BY <1>7, <1>1 DEF LoginStaff
  <1>8. CASE \E m \in Token : TenantSessionIssue(w, m)
    BY <1>8, <1>1 DEF TenantSessionIssue
  <1>9. ASSUME NEW m \in Token, RefreshIssue(w, m)
        PROVE  /\ pc[w] = "refresh_issue"
               /\ refresh'[n].user = req[w].user /\ refresh'[n].scope = req[w].scope
               /\ parent'[n] = req[w].token
               /\ refresh'[req[w].token].revoked
               /\ \A x \in Token : x \in Issued' /\ x \notin Issued => x = n
    <2>. DEFINE tbl == [refresh EXCEPT ![req[w].token].revoked = TRUE]
    <2>1. pc[w] = "refresh_issue" /\ CreateRefreshToken(w, tbl, m, req[w].token)
      BY <1>9 DEF RefreshIssue
    <2>2. req[w].token \in Issued
      BY <2>1 DEF HandlersReadRight, ReadRight
    <2>3. tbl \in [Token -> RefreshRow] /\ \A t \in Token : tbl[t].user = refresh[t].user
      BY DEF RefreshRow
    <2>4. req[w].token \in Token /\ req[w].token # m
      BY <2>1, <2>2 DEF Issued, CreateRefreshToken
    <2>5. refresh'[req[w].token].revoked
      BY <2>1, <2>4 DEF CreateRefreshToken, RefreshRow
    <2>. HIDE DEF tbl
    <2>. QED  BY <2>1, <2>3, <2>4, <2>5, <1>1
  <1>. QED  BY <1>6, <1>7, <1>8, <1>9
\* The inductive invariant: types, what handlers know, and the two properties.
Inv == TypeOK /\ HandlersReadRight /\ ScopeJustified /\ Lineage

\* The invariant holds before the first sign-in.
LEMMA InitInv == Init => Inv
  <1>. SUFFICES ASSUME Init PROVE Inv
    OBVIOUS
  <1>1. TypeOK
    BY InitType
  <1>2. Issued = {}
    BY DEF Init, Issued, NoRefresh
  <1>3. HandlersReadRight
    BY DEF Init, HandlersReadRight, ReadRight
  <1>. QED  BY <1>1, <1>2, <1>3 DEF Inv, ScopeJustified, Lineage

\* A new row has the scope its handler found its user entitled to.
LEMMA NextScope == TypeOK /\ HandlersReadRight /\ ScopeJustified /\ [Next]_vars => ScopeJustified'
  <1>. SUFFICES ASSUME TypeOK, HandlersReadRight, ScopeJustified, [Next]_vars,
                       NEW n \in Token, n \in Issued'
                PROVE  Entitled(refresh'[n].user, refresh'[n].scope)
    BY DEF ScopeJustified, Issued, Entitled
  <1>1. CASE n \in Issued
    BY <1>1, RowsStable DEF ScopeJustified
  <1>2. CASE n \notin Issued
    <2>1. PICK w \in Worker :
               /\ refresh'[n].user = req[w].user /\ refresh'[n].scope = req[w].scope
               /\ \/ pc[w] = "session"
                  \/ pc[w] = "login" /\ req[w].user \in Staff
                  \/ pc[w] = "refresh_issue"
      BY <1>2, NewRow
    <2>2. ReadRight(w)
      BY DEF HandlersReadRight
    <2>3. CASE pc[w] = "refresh_issue"
      BY <2>1, <2>2, <2>3 DEF ReadRight, ScopeJustified
    <2>4. CASE pc[w] # "refresh_issue"
      BY <2>1, <2>2, <2>4 DEF ReadRight, Entitled
    <2>. QED  BY <2>3, <2>4
  <1>. QED  BY <1>1, <1>2

\* A new row has the user and scope of the row that its commit revokes.
LEMMA NextLineage == TypeOK /\ HandlersReadRight /\ Lineage /\ [Next]_vars => Lineage'
  <1>. SUFFICES ASSUME TypeOK, HandlersReadRight, Lineage, [Next]_vars,
                       NEW c \in Token, c \in Issued', parent'[c] # Nil
                PROVE  /\ parent'[c] \in Issued'
                       /\ refresh'[parent'[c]].revoked
                       /\ refresh'[c].user = refresh'[parent'[c]].user
                       /\ refresh'[c].scope = refresh'[parent'[c]].scope
    BY DEF Lineage, Issued
  <1>1. CASE c \in Issued
    <2>1. parent'[c] = parent[c] /\ parent[c] \in Issued /\ refresh[parent[c]].revoked
          /\ refresh[c].user = refresh[parent[c]].user
          /\ refresh[c].scope = refresh[parent[c]].scope
      BY <1>1, RowsStable DEF Lineage
    <2>2. parent[c] \in Token
      BY <2>1 DEF Issued
    <2>. QED  BY <1>1, <2>1, <2>2, RowsStable
  <1>2. CASE c \notin Issued
    <2>1. PICK w \in Worker :
               /\ refresh'[c].user = req[w].user /\ refresh'[c].scope = req[w].scope
               /\ pc[w] = "refresh_issue"
               /\ parent'[c] = req[w].token
               /\ refresh'[req[w].token].revoked
      BY <1>2, NewRow
    <2>2. /\ req[w].token \in Issued
          /\ refresh[req[w].token].user = req[w].user
          /\ refresh[req[w].token].scope = req[w].scope
      BY <2>1 DEF HandlersReadRight, ReadRight
    <2>3. req[w].token \in Token
      BY <2>2 DEF Issued
    <2>. QED  BY <2>1, <2>2, <2>3, RowsStable
  <1>. QED  BY <1>1, <1>2

\* The invariant is inductive.
LEMMA NextInv == Inv /\ [Next]_vars => Inv'
  BY NextType, NextReadRight, NextScope, NextLineage DEF Inv

\* The inductive invariant holds throughout.
THEOREM InvHolds == Spec => []Inv
  BY InitInv, NextInv, PTL DEF Spec

\* Every table and every local of a handler keeps its type.
THEOREM TypeCorrect == Spec => []TypeOK
  BY InvHolds, PTL DEF Inv

\* Whatever requests overlap, a refresh token that works has no ancestor that
\* works, and keeps the user and scope the chain started with.
THEOREM LineageHolds == Spec => []Lineage
  BY InvHolds, PTL DEF Inv

\* Whatever requests overlap, a session's scope is one its user is entitled to.
THEOREM ScopeHolds == Spec => []ScopeJustified
  BY InvHolds, PTL DEF Inv

\* Whatever requests overlap, what a handler has read of a row - whose it is, and
\* for which scope - still holds when it writes.
THEOREM ReadRightHolds == Spec => []HandlersReadRight
  BY InvHolds, PTL DEF Inv

--------------------------------------------------------------------------
(* What a password change and ForgotPassword end.  MCSessionsSessionSurvives *)
(* shows the tokens a password change leaves usable.                         *)

\* A step is one of a handler; what the other workers have read it leaves alone.
LEMMA OwnStep ==
    ASSUME TypeOK, [Next]_vars, NEW v \in Worker
    PROVE  \/ pc'[v] = pc[v] /\ req'[v] = req[v]
           \/ Arrive(v) \/ Step(v) \/ LockingStep(v) \/ Fail(v)
  <1>. USE DEF TypeOK
  <1>1. ASSUME NEW w \in Worker, w # v, NEW label, NEW r, Begin(w, label, r)
        PROVE  pc'[v] = pc[v] /\ req'[v] = req[v]
    BY <1>1 DEF Begin
  <1>2. ASSUME NEW w \in Worker, w # v, NEW from, NEW to, Goto(w, from, to)
        PROVE  pc'[v] = pc[v]
    BY <1>2 DEF Goto
  <1>3. ASSUME NEW w \in Worker, w # v, Return(w) PROVE pc'[v] = pc[v] /\ req'[v] = req[v]
    BY <1>3 DEF Return
  <1>4. ASSUME NEW w \in Worker, w # v, Arrive(w) PROVE pc'[v] = pc[v] /\ req'[v] = req[v]
    BY <1>1, <1>4 DEF Arrive, Login, TenantSession, RefreshRead, LogoutRead, ForgotPassword,
                      ResetRead, ChangePassword
  <1>5. ASSUME NEW w \in Worker, w # v, Step(w) PROVE pc'[v] = pc[v] /\ req'[v] = req[v]
    <2>1. CASE RefreshCheckUser(w) \/ ResetCheckUser(w) \/ ForgotInvalidate(w) \/ RevokeAllSnapshot(w)
      BY <1>2, <1>5, <2>1
      DEF RefreshCheckUser, ResetCheckUser, ForgotInvalidate, RevokeAllSnapshot
    <2>2. CASE \/ LoginUser(w) \/ Reject(w)
               \/ \E n \in Token : LoginStaff(w, n) \/ TenantSessionIssue(w, n)
                                                    \/ RefreshIssue(w, n)
      BY <1>3, <1>5, <2>2 DEF LoginUser, Reject, Fail, LoginStaff, TenantSessionIssue, RefreshIssue
    <2>. QED  BY <1>5, <2>1, <2>2 DEF Step
  <1>6. ASSUME NEW w \in Worker, w # v, LockingStep(w) \/ Fail(w)
        PROVE  pc'[v] = pc[v] /\ req'[v] = req[v]
    <2>1. CASE RefreshRevoke(w) \/ UpdateUser(w) \/ MarkReset(w)
      BY <1>2, <1>6, <2>1 DEF RefreshRevoke, UpdateUser, MarkReset
    <2>2. CASE \/ LogoutRevoke(w) \/ CommitPassword(w) \/ Fail(w)
               \/ \E r \in Reset : ForgotCreate(w, r)
      BY <1>3, <1>6, <2>2 DEF LogoutRevoke, CommitPassword, Fail, ForgotCreate
    <2>. QED  BY <1>6, <2>1, <2>2 DEF LockingStep
  <1>7. ASSUME (\E u \in User : ActiveChange(u)) \/ UNCHANGED vars PROVE UNCHANGED <<pc, req>>
    BY <1>7 DEF ActiveChange, LoginDeactivate, Reactivate, vars
  <1>8. CASE \E w \in Worker : Arrive(w) \/ Step(w) \/ LockingStep(w) \/ Fail(w)
    BY <1>4, <1>5, <1>6, <1>8
  <1>. QED  BY <1>7, <1>8 DEF Next

\* A reset token keeps its user, and once used stays so.
LEMMA ResetsStable ==
    ASSUME TypeOK, HandlersReadRight, [Next]_vars, NEW r \in Reset, r \in Sent
    PROVE  /\ r \in Sent'
           /\ reset'[r].user = reset[r].user
           /\ reset[r].used => reset'[r].used
  <1>. USE DEF TypeOK, Sent
  <1>1. ASSUME NEW w \in Worker, NEW n \in Reset, ForgotCreate(w, n)
        PROVE  reset'[r].user = reset[r].user /\ (reset[r].used => reset'[r].used)
    BY <1>1 DEF ForgotCreate, ResetRow
  <1>2. ASSUME NEW w \in Worker, CommitPassword(w)
        PROVE  reset'[r].user = reset[r].user /\ (reset[r].used => reset'[r].used)
    BY <1>2 DEF CommitPassword, ResetRow
  <1>3. ASSUME NEW w \in Worker, Arrive(w) PROVE UNCHANGED reset
    BY <1>3 DEF Arrive, Login, TenantSession, RefreshRead, LogoutRead, ForgotPassword,
                ResetRead, ChangePassword
  <1>4. ASSUME NEW w \in Worker, Step(w) PROVE UNCHANGED reset
    BY <1>4 DEF Step, LoginUser, LoginStaff, TenantSessionIssue, RefreshIssue, RefreshCheckUser,
                ResetCheckUser, Reject, Fail, ForgotInvalidate, RevokeAllSnapshot
  <1>5. ASSUME NEW w \in Worker,
               RefreshRevoke(w) \/ LogoutRevoke(w) \/ UpdateUser(w) \/ MarkReset(w) \/ Fail(w)
        PROVE  UNCHANGED reset
    BY <1>5 DEF RefreshRevoke, LogoutRevoke, UpdateUser, MarkReset, Fail
  <1>6. ASSUME (\E u \in User : ActiveChange(u)) \/ UNCHANGED vars PROVE UNCHANGED reset
    BY <1>6 DEF ActiveChange, LoginDeactivate, Reactivate, vars
  <1>. QED  BY <1>1, <1>2, <1>3, <1>4, <1>5, <1>6 DEF Next, LockingStep

\* A password change under way: the tokens there were when it began are in the
\* table, and once it has taken its snapshot those of its user are revoked, or in it.
Ending(w) ==
    /\ pc[w] \in {"reset_user", "update", "mark", "sweep", "commit"} => req[w].earlier \subseteq Issued
    /\ pc[w] = "commit" =>
           /\ req[w].sweep \subseteq Issued
           /\ \A t \in req[w].earlier :
                  refresh[t].user = req[w].user => refresh[t].revoked \/ t \in req[w].sweep

\* The same of a ForgotPassword and the reset tokens.
Forgetting(w) ==
    /\ pc[w] \in {"forgot", "forgot_create"} => req[w].earlier \subseteq Sent
    /\ pc[w] = "forgot_create" =>
           \A r \in req[w].earlier :
               reset[r].user = req[w].user => reset[r].used \/ r \in req[w].sweep

\* A token that was not issued has no parent.
UnbornHasNone == \A t \in Token : t \notin Issued => parent[t] = Nil

EndInv ==
    /\ Inv
    /\ UnbornHasNone
    /\ \A w \in Worker : Ending(w) /\ Forgetting(w)

\* The invariant holds before the first sign-in.
LEMMA InitEnd == Init => EndInv
  <1>. SUFFICES ASSUME Init PROVE EndInv
    OBVIOUS
  <1>1. \A w \in Worker : Ending(w) /\ Forgetting(w)
    BY DEF Init, Ending, Forgetting
  <1>2. UnbornHasNone
    BY DEF Init, UnbornHasNone
  <1>. QED  BY <1>1, <1>2, InitInv DEF EndInv

\* The tables only move towards what a handler waits to end.
LEMMA BystanderEnding ==
    ASSUME EndInv, [Next]_vars, NEW v \in Worker, pc'[v] = pc[v], req'[v] = req[v]
    PROVE  Ending(v)' /\ Forgetting(v)'
  <1>1. Ending(v) /\ Forgetting(v)
    BY DEF EndInv
  <1>2. \A t \in Issued : /\ t \in Issued' /\ refresh'[t].user = refresh[t].user
                          /\ refresh[t].revoked => refresh'[t].revoked
    BY RowsStable DEF Issued, EndInv, Inv
  <1>3. \A r \in Sent : /\ r \in Sent' /\ reset'[r].user = reset[r].user
                        /\ reset[r].used => reset'[r].used
    BY ResetsStable DEF Sent, EndInv, Inv
  <1>4. Ending(v)'
    BY <1>1, <1>2 DEF Ending
  <1>5. Forgetting(v)'
    BY <1>1, <1>3 DEF Forgetting
  <1>. QED  BY <1>4, <1>5

\* A handler that has ended, or is at a statement of another kind, ends nothing.
LEMMA ElsewhereEnding ==
    ASSUME NEW v \in Worker,
           pc'[v] \notin {"forgot", "forgot_create", "reset_user", "update", "mark", "sweep", "commit"}
    PROVE  Ending(v)' /\ Forgetting(v)'
  BY DEF Ending, Forgetting

\* Each step of a password change and of ForgotPassword leaves it so.
LEMMA NextEnding ==
    ASSUME EndInv, [Next]_vars, NEW v \in Worker
    PROVE  Ending(v)' /\ Forgetting(v)'
  <1>. USE DEF EndInv, Inv, TypeOK
  <1>0. Ending(v) /\ Forgetting(v)
    OBVIOUS
  <1>b. ASSUME NEW label, NEW r, Begin(v, label, r) PROVE pc'[v] = label /\ req'[v] = r
    BY <1>b DEF Begin
  <1>g. ASSUME NEW from, NEW to, Goto(v, from, to) PROVE pc[v] = from /\ pc'[v] = to
    BY <1>g DEF Goto
  <1>r. ASSUME Return(v) PROVE Ending(v)' /\ Forgetting(v)'
    <2>1. pc'[v] = "idle"
      BY <1>r DEF Return
    <2>. QED  BY <2>1, ElsewhereEnding
  <1>1. ASSUME Arrive(v) PROVE Ending(v)' /\ Forgetting(v)'
    <2>1. ASSUME NEW u \in User, ForgotPassword(v, u) PROVE Ending(v)' /\ Forgetting(v)'
      <3>. DEFINE r == [NoRequest EXCEPT !.user = u, !.earlier = Sent]
      <3>1. pc'[v] = "forgot" /\ req'[v] = r /\ UNCHANGED reset
        BY <2>1, <1>b DEF ForgotPassword
      <3>2. req'[v].earlier = Sent'
        BY <3>1 DEF NoRequest, Sent
      <3>. QED  BY <3>1, <3>2 DEF Ending, Forgetting
    <2>2. ASSUME NEW x \in Reset, NEW new \in Password, ResetRead(v, x, new)
          PROVE  Ending(v)' /\ Forgetting(v)'
      <3>. DEFINE r == [NoRequest EXCEPT !.user = reset[x].user, !.reset = x, !.new = new,
                                         !.earlier = Issued]
      <3>1. pc'[v] = "reset_user" /\ req'[v] = r /\ UNCHANGED refresh
        BY <2>2, <1>b DEF ResetRead
      <3>2. req'[v].earlier = Issued'
        BY <3>1 DEF NoRequest, Issued
      <3>. QED  BY <3>1, <3>2 DEF Ending, Forgetting
    <2>3. ASSUME NEW u \in User, NEW current \in Password, NEW new \in Password,
                 ChangePassword(v, u, current, new)
          PROVE  Ending(v)' /\ Forgetting(v)'
      <3>. DEFINE r == [NoRequest EXCEPT !.user = u, !.new = new, !.earlier = Issued]
      <3>1. pc'[v] = "update" /\ req'[v] = r /\ UNCHANGED refresh
        BY <2>3, <1>b DEF ChangePassword
      <3>2. req'[v].earlier = Issued'
        BY <3>1 DEF NoRequest, Issued
      <3>. QED  BY <3>1, <3>2 DEF Ending, Forgetting
    <2>4. ASSUME \/ \E u \in User, p \in Password : Login(v, u, p)
                 \/ \E u \in User, t \in Tenant : TenantSession(v, u, t)
                 \/ \E t \in Token : RefreshRead(v, t) \/ LogoutRead(v, t)
          PROVE  Ending(v)' /\ Forgetting(v)'
      <3>1. pc'[v] \in {"login", "session", "refresh_user", "logout"}
        BY <2>4, <1>b DEF Login, TenantSession, RefreshRead, LogoutRead
      <3>. QED  BY <3>1, ElsewhereEnding
    <2>. QED  BY <1>1, <2>1, <2>2, <2>3, <2>4 DEF Arrive
  <1>2. ASSUME Step(v) PROVE Ending(v)' /\ Forgetting(v)'
    <2>1. CASE \/ LoginUser(v) \/ Reject(v)
               \/ \E n \in Token : LoginStaff(v, n) \/ TenantSessionIssue(v, n)
                                                    \/ RefreshIssue(v, n)
      BY <2>1, <1>r DEF LoginUser, Reject, Fail, LoginStaff, TenantSessionIssue, RefreshIssue
    <2>2. CASE RefreshCheckUser(v)
      <3>1. pc'[v] = "refresh_revoke"
        BY <2>2, <1>g DEF RefreshCheckUser
      <3>. QED  BY <3>1, ElsewhereEnding
    <2>3. CASE ResetCheckUser(v)
      <3>1. pc[v] = "reset_user" /\ pc'[v] = "update" /\ UNCHANGED <<req, refresh>>
        BY <2>3, <1>g DEF ResetCheckUser
      <3>. QED  BY <1>0, <3>1 DEF Ending, Forgetting, Issued
    <2>4. CASE ForgotInvalidate(v)
      <3>1. pc[v] = "forgot" /\ pc'[v] = "forgot_create" /\ UNCHANGED reset
        BY <2>4, <1>g DEF ForgotInvalidate
      <3>2. /\ req'[v].sweep = PendingResetsOf(req[v].user)
            /\ req'[v].user = req[v].user /\ req'[v].earlier = req[v].earlier
        BY <2>4 DEF ForgotInvalidate, Request
      <3>3. req[v].earlier \subseteq Sent /\ Sent' = Sent
        BY <1>0, <3>1 DEF Forgetting, Sent
      <3>4. \A r \in Sent : reset[r].user = req[v].user =>
                                reset[r].used \/ r \in PendingResetsOf(req[v].user)
        BY DEF PendingResetsOf
      <3>. QED  BY <3>1, <3>2, <3>3, <3>4 DEF Ending, Forgetting
    <2>5. CASE RevokeAllSnapshot(v)
      <3>1. pc[v] = "sweep" /\ pc'[v] = "commit" /\ UNCHANGED refresh
        BY <2>5, <1>g DEF RevokeAllSnapshot
      <3>2. /\ req'[v].sweep = ActiveRefreshOf(req[v].user)
            /\ req'[v].user = req[v].user /\ req'[v].earlier = req[v].earlier
        BY <2>5 DEF RevokeAllSnapshot, Request
      <3>3. req[v].earlier \subseteq Issued /\ Issued' = Issued
        BY <1>0, <3>1 DEF Ending, Issued
      <3>4. \A t \in Issued : refresh[t].user = req[v].user =>
                                  refresh[t].revoked \/ t \in ActiveRefreshOf(req[v].user)
        BY DEF ActiveRefreshOf
      <3>5. ActiveRefreshOf(req[v].user) \subseteq Issued
        BY DEF ActiveRefreshOf
      <3>. QED  BY <3>1, <3>2, <3>3, <3>4, <3>5 DEF Ending, Forgetting
    <2>. QED  BY <1>2, <2>1, <2>2, <2>3, <2>4, <2>5 DEF Step
  <1>3. ASSUME LockingStep(v) PROVE Ending(v)' /\ Forgetting(v)'
    <2>1. CASE LogoutRevoke(v) \/ CommitPassword(v) \/ \E r \in Reset : ForgotCreate(v, r)
      BY <2>1, <1>r DEF LogoutRevoke, CommitPassword, ForgotCreate
    <2>2. CASE RefreshRevoke(v)
      <3>1. pc'[v] = "refresh_issue"
        BY <2>2, <1>g DEF RefreshRevoke
      <3>. QED  BY <3>1, ElsewhereEnding
    <2>3. CASE UpdateUser(v) \/ MarkReset(v)
      <3>1. /\ pc[v] \in {"update", "mark"} /\ pc'[v] \in {"mark", "sweep"}
            /\ UNCHANGED <<req, refresh>>
        BY <2>3, <1>g DEF UpdateUser, MarkReset
      <3>. QED  BY <1>0, <3>1 DEF Ending, Forgetting, Issued
    <2>. QED  BY <1>3, <2>1, <2>2, <2>3 DEF LockingStep
  <1>4. ASSUME Fail(v) PROVE Ending(v)' /\ Forgetting(v)'
    BY <1>4, <1>r DEF Fail
  <1>. QED  BY <1>1, <1>2, <1>3, <1>4, OwnStep, BystanderEnding

\* A token without a row was exchanged for nothing.
LEMMA NextUnborn ==
    ASSUME EndInv, [Next]_vars PROVE UnbornHasNone'
  <1>. USE DEF EndInv, Inv
  <1>. SUFFICES ASSUME NEW t \in Token, t \notin Issued' PROVE parent'[t] = Nil
    BY DEF UnbornHasNone
  <1>0. t \notin Issued /\ parent[t] = Nil
    BY RowsStable DEF UnbornHasNone
  <1>1. ASSUME NEW w \in Worker, NEW n \in Token, NEW p, NEW tbl \in [Token -> RefreshRow],
               CreateRefreshToken(w, tbl, n, p), req[w].user # Nil
        PROVE  parent'[t] = Nil
    BY <1>0, <1>1 DEF CreateRefreshToken, Issued, TypeOK
  <1>2. ASSUME NEW w \in Worker, Step(w) PROVE parent'[t] = Nil
    <2>1. ASSUME NEW n \in Token,
                 LoginStaff(w, n) \/ TenantSessionIssue(w, n) \/ RefreshIssue(w, n)
          PROVE  parent'[t] = Nil
      <3>1. [refresh EXCEPT ![req[w].token].revoked = TRUE] \in [Token -> RefreshRow]
        BY DEF TypeOK, RefreshRow
      <3>2. req[w].user # Nil
        BY <2>1, SessionConstants
        DEF HandlersReadRight, ReadRight, LoginStaff, TenantSessionIssue, RefreshIssue
      <3>. QED  BY <2>1, <3>1, <3>2, <1>1
                DEF LoginStaff, TenantSessionIssue, RefreshIssue, TypeOK
    <2>. QED  BY <1>0, <1>2, <2>1
              DEF Step, LoginUser, RefreshCheckUser, ResetCheckUser, Reject, Fail,
                  ForgotInvalidate, RevokeAllSnapshot
  <1>3. ASSUME NEW w \in Worker, Arrive(w) \/ LockingStep(w) \/ Fail(w) PROVE UNCHANGED parent
    BY <1>3 DEF Arrive, Login, TenantSession, RefreshRead, LogoutRead, ForgotPassword,
                ResetRead, ChangePassword, LockingStep, RefreshRevoke, LogoutRevoke,
                UpdateUser, MarkReset, CommitPassword, ForgotCreate, Fail
  <1>4. ASSUME (\E u \in User : ActiveChange(u)) \/ UNCHANGED vars PROVE UNCHANGED parent
    BY <1>4 DEF ActiveChange, LoginDeactivate, Reactivate, vars
  <1>. QED  BY <1>0, <1>2, <1>3, <1>4 DEF Next

\* The invariant is inductive.
LEMMA NextEnd == EndInv /\ [Next]_vars => EndInv'
  <1>. SUFFICES ASSUME EndInv, [Next]_vars PROVE EndInv'
    OBVIOUS
  <1>1. Inv'
    BY NextInv DEF EndInv
  <1>. QED  BY <1>1, NextEnding, NextUnborn DEF EndInv

\* The strengthened invariant holds throughout.
LEMMA EndInvHolds == Spec => []EndInv
  BY InitEnd, NextEnd, PTL DEF Spec

\* However requests overlap, a password change or reset ends the sessions its user
\* had when the request began.
THEOREM ChangeEndsEarlierHolds == Spec => ChangeEndsEarlier
  <1>. DEFINE Ends == \A w \in Worker : CommitPassword(w) =>
                  \A t \in req[w].earlier : refresh[t].user = req[w].user => refresh'[t].revoked
  <1>1. EndInv /\ [Next]_vars => [Ends]_vars
    <2>. SUFFICES ASSUME EndInv, NEW w \in Worker, CommitPassword(w),
                         NEW t \in req[w].earlier, refresh[t].user = req[w].user
                  PROVE  refresh'[t].revoked
      OBVIOUS
    <2>1. t \in Issued /\ (refresh[t].revoked \/ t \in req[w].sweep)
      BY DEF EndInv, Ending, CommitPassword
    <2>2. t \in Token /\ refresh[t] \in RefreshRow
      BY <2>1 DEF Issued, EndInv, Inv, TypeOK
    <2>3. refresh'[t] = IF t \in req[w].sweep THEN [refresh[t] EXCEPT !.revoked = TRUE]
                                              ELSE refresh[t]
      BY <2>2 DEF CommitPassword
    <2>. QED  BY <2>1, <2>2, <2>3 DEF RefreshRow
  <1>. QED  BY <1>1, EndInvHolds, PTL DEF Spec, ChangeEndsEarlier

\* However requests overlap, ForgotPassword spends the reset tokens its user had
\* when the request began.
THEOREM ForgotEndsEarlierHolds == Spec => ForgotEndsEarlier
  <1>. DEFINE Ends == \A w \in Worker, n \in Reset : ForgotCreate(w, n) =>
                  \A r \in req[w].earlier : reset[r].user = req[w].user => reset'[r].used
  <1>1. EndInv /\ [Next]_vars => [Ends]_vars
    <2>. SUFFICES ASSUME EndInv, NEW w \in Worker, NEW n \in Reset, ForgotCreate(w, n),
                         NEW r \in req[w].earlier, reset[r].user = req[w].user
                  PROVE  reset'[r].used
      OBVIOUS
    <2>1. r \in Sent /\ (reset[r].used \/ r \in req[w].sweep)
      BY DEF EndInv, Forgetting, ForgotCreate
    <2>2. r \in Reset /\ r # n /\ reset[r] \in ResetRow
      BY <2>1 DEF Sent, ForgotCreate, EndInv, Inv, TypeOK
    <2>3. CASE r \in req[w].sweep
      <3>1. reset'[r] = [reset[r] EXCEPT !.used = TRUE]
        BY <2>2, <2>3 DEF ForgotCreate
      <3>. QED  BY <2>2, <3>1 DEF ResetRow
    <2>4. CASE r \notin req[w].sweep
      <3>1. reset'[r] = reset[r]
        BY <2>2, <2>4 DEF ForgotCreate
      <3>. QED  BY <2>1, <2>4, <3>1
    <2>. QED  BY <2>3, <2>4
  <1>. QED  BY <1>1, EndInvHolds, PTL DEF Spec, ForgotEndsEarlier

--------------------------------------------------------------------------
(* Refinement *)

\* What a handler holds, by where it is.
LEMMA HeldIs ==
    ASSUME NEW w \in Worker
    PROVE  /\ pc[w] \in {"refresh_user", "refresh_revoke", "refresh_issue", "logout"}
                  => Held(w) = {req[w].token}
           /\ pc[w] = "commit" => Held(w) = req[w].sweep
           /\ pc[w] \notin {"refresh_user", "refresh_revoke", "refresh_issue", "logout", "commit"}
                  => Held(w) = {}
           /\ pc'[w] \in {"refresh_user", "refresh_revoke", "refresh_issue", "logout"}
                  => Held(w)' = {req'[w].token}
           /\ pc'[w] = "commit" => Held(w)' = req'[w].sweep
           /\ pc'[w] \notin {"refresh_user", "refresh_revoke", "refresh_issue", "logout", "commit"}
                  => Held(w)' = {}
  BY DEF Held

\* The steps of one handler leave what the others hold alone.
LEMMA OthersHold ==
    ASSUME NEW w \in Worker, \A v \in Worker \ {w} : pc'[v] = pc[v] /\ req'[v] = req[v]
    PROVE  \A v \in Worker \ {w} : Held(v)' = Held(v)
  BY DEF Held

\* No token has a row: all chains are still to begin.
LEMMA InitChains == Init => Chains!Init
  <1>. SUFFICES ASSUME Init PROVE Chains!Init
    OBVIOUS
  <1>1. \A t \in Token : TokenStatus(t) = "unborn" /\ refresh[t].user = Nil
    BY DEF Init, TokenStatus, Issued, NoRefresh
  <1>2. \A w \in Worker : Held(w) = {}
    BY HeldIs DEF Init
  <1>. QED  BY <1>1, <1>2 DEF Init, Chains!Init

\* A step that writes no refresh token and takes hold of none is invisible.
LEMMA Invisible ==
    ASSUME UNCHANGED <<refresh, parent>>, \A w \in Worker : Held(w)' = Held(w)
    PROVE  UNCHANGED Chains!vars
  BY DEF Chains!vars, TokenStatus, Issued

\* Where a handler goes next, and that it leaves the others where they are.
LEMMA Moves ==
    ASSUME TypeOK, NEW w \in Worker
    PROVE  /\ \A label, r : Begin(w, label, r) =>
                  /\ pc[w] = "idle" /\ pc'[w] = label /\ req'[w] = r
                  /\ \A v \in Worker \ {w} : pc'[v] = pc[v] /\ req'[v] = req[v]
           /\ \A from, to : Goto(w, from, to) =>
                  /\ pc[w] = from /\ pc'[w] = to
                  /\ \A v \in Worker \ {w} : pc'[v] = pc[v]
           /\ Return(w) =>
                  /\ pc'[w] = "idle"
                  /\ \A v \in Worker \ {w} : pc'[v] = pc[v] /\ req'[v] = req[v]
  BY DEF TypeOK, Begin, Goto, Return

\* The read of Refresh or Logout takes hold of the token it finds valid.
LEMMA TakeOneStep ==
    ASSUME EndInv, NEW w \in Worker, NEW t \in Token, RefreshRead(w, t) \/ LogoutRead(w, t)
    PROVE  Chains!TakeOne(w, t)
  <1>. USE DEF EndInv, Inv
  <1>1. /\ pc[w] = "idle" /\ pc'[w] \in {"refresh_user", "logout"} /\ req'[w].token = t
        /\ \A v \in Worker \ {w} : pc'[v] = pc[v] /\ req'[v] = req[v]
    <2>b. ASSUME NEW label, NEW r, Begin(w, label, r)
          PROVE  /\ pc[w] = "idle" /\ pc'[w] = label /\ req'[w] = r
                 /\ \A v \in Worker \ {w} : pc'[v] = pc[v] /\ req'[v] = req[v]
      BY <2>b, Moves
    <2>1. CASE RefreshRead(w, t)
      <3>. DEFINE r == [NoRequest EXCEPT !.user = refresh[t].user,
                                         !.scope = refresh[t].scope, !.token = t]
      <3>1. Begin(w, "refresh_user", r)
        BY <2>1 DEF RefreshRead
      <3>2. r.token = t
        BY DEF NoRequest
      <3>. HIDE DEF r
      <3>. QED  BY <3>1, <3>2, <2>b
    <2>2. CASE LogoutRead(w, t)
      <3>. DEFINE r == [NoRequest EXCEPT !.user = refresh[t].user, !.token = t]
      <3>1. Begin(w, "logout", r)
        BY <2>2 DEF LogoutRead
      <3>2. r.token = t
        BY DEF NoRequest
      <3>. HIDE DEF r
      <3>. QED  BY <3>1, <3>2, <2>b
    <2>. QED  BY <2>1, <2>2
  <1>2. UNCHANGED <<refresh, parent>> /\ ValidRefresh(t)
    BY DEF RefreshRead, LogoutRead
  <1>3. Held(w) = {} /\ Held(w)' = {t}
    BY <1>1, HeldIs
  <1>4. \A v \in Worker \ {w} : Held(v)' = Held(v)
    BY <1>1, OthersHold
  <1>5. \A x \in Token : TokenStatus(x)' = TokenStatus(x)
    BY <1>2 DEF TokenStatus, Issued
  <1>6. t \in Chains!Live
    BY <1>2 DEF Chains!Live, ValidRefresh, TokenStatus
  <1>7. Chains!Take(w, {t})
    BY <1>2, <1>3, <1>4, <1>5 DEF Chains!Take
  <1>. QED  BY <1>6, <1>7 DEF Chains!TakeOne

\* The snapshot of a password change takes hold of all tokens of the user that work.
LEMMA TakeAllStep ==
    ASSUME EndInv, NEW w \in Worker, RevokeAllSnapshot(w)
    PROVE  Chains!TakeAll(w, req[w].user)
  <1>. USE DEF EndInv, Inv, TypeOK
  <1>. DEFINE A == ActiveRefreshOf(req[w].user)
  <1>1. /\ pc[w] = "sweep" /\ pc'[w] = "commit" /\ req'[w].sweep = A
        /\ \A v \in Worker \ {w} : pc'[v] = pc[v] /\ req'[v] = req[v]
    BY Moves DEF RevokeAllSnapshot, Request
  <1>2. UNCHANGED <<refresh, parent>>
    BY DEF RevokeAllSnapshot
  <1>3. Held(w) = {} /\ Held(w)' = A
    BY <1>1, HeldIs
  <1>4. \A v \in Worker \ {w} : Held(v)' = Held(v)
    BY <1>1, OthersHold
  <1>5. \A x \in Token : TokenStatus(x)' = TokenStatus(x)
    BY <1>2 DEF TokenStatus, Issued
  <1>6. A = {t \in Chains!Live : refresh[t].user = req[w].user}
    BY DEF Chains!Live, ActiveRefreshOf, TokenStatus, Issued
  <1>7. Chains!Take(w, A)
    BY <1>2, <1>3, <1>4, <1>5 DEF Chains!Take
  <1>8. A = {t \in Chains!Live : [x \in Token |-> refresh[x].user][t] = req[w].user}
    BY <1>6 DEF Chains!Live
  <1>. HIDE DEF A
  <1>. QED  BY <1>7, <1>8 DEF Chains!TakeAll

\* A commit that inserts row n without exchanging a token opens a chain.
LEMMA OpenStep ==
    ASSUME EndInv, NEW w \in Worker, NEW n \in Token, LoginStaff(w, n) \/ TenantSessionIssue(w, n)
    PROVE  Chains!Open(req[w].user, n) /\ req[w].user \in User
  <1>. USE DEF EndInv, Inv, TypeOK
  <1>0. CreateRefreshToken(w, refresh, n, Nil) /\ Return(w) /\ pc[w] \in {"login", "session"}
    BY DEF LoginStaff, TenantSessionIssue
  <1>1. n \notin Issued /\ req[w].user \in User /\ req[w].user # Nil
    BY <1>0, SessionConstants DEF CreateRefreshToken, HandlersReadRight, ReadRight
  <1>2. /\ TokenStatus(n)' = "live" /\ refresh'[n].user = req[w].user
        /\ \A t \in Token \ {n} : TokenStatus(t)' = TokenStatus(t) /\ refresh'[t] = refresh[t]
    BY <1>0, <1>1 DEF CreateRefreshToken, TokenStatus, Issued
  <1>3. UNCHANGED parent
    BY <1>0, <1>1 DEF CreateRefreshToken, UnbornHasNone
  <1>4. Held(w) = {} /\ Held(w)' = {}
    BY <1>0, HeldIs, Moves
  <1>5. \A v \in Worker \ {w} : Held(v)' = Held(v)
    BY <1>0, Moves, OthersHold
  <1>6. \A v \in Worker : Held(v)' = Held(v)
    BY <1>4, <1>5
  <1>7. Chains!Open(req[w].user, n)
    BY <1>1, <1>2, <1>3, <1>6 DEF Chains!Open, TokenStatus
  <1>. QED  BY <1>1, <1>7

\* The commit of Refresh rotates a chain, from a token that may be dead by now.
LEMMA RotateStep ==
    ASSUME EndInv, NEW w \in Worker, NEW n \in Token, RefreshIssue(w, n)
    PROVE  \E p \in Token : Chains!Rotate(w, p, n)
  <1>. USE DEF EndInv, Inv, TypeOK
  <1>1. req[w].token \in Token
    BY DEF RefreshIssue, HandlersReadRight, ReadRight, Issued
  <1>2. PICK p \in Token : p = req[w].token
    BY <1>1
  <1>. DEFINE tbl == [refresh EXCEPT ![p].revoked = TRUE]
  <1>3. /\ p \in Issued /\ refresh[p].user = req[w].user
        /\ req[w].user \in User /\ n \notin Issued
        /\ pc[w] = "refresh_issue" /\ Return(w)
    BY <1>2 DEF RefreshIssue, HandlersReadRight, ReadRight, CreateRefreshToken
  <1>4. p # n /\ req[w].user # Nil
    BY <1>3, SessionConstants
  <1>5. refresh' = [tbl EXCEPT ![n] = [user |-> req[w].user, scope |-> req[w].scope,
                                       revoked |-> FALSE]]
        /\ parent' = [parent EXCEPT ![n] = p]
    BY <1>2 DEF RefreshIssue, CreateRefreshToken
  <1>6. /\ refresh'[n].user = req[w].user /\ ~refresh'[n].revoked
        /\ refresh'[p].user = refresh[p].user /\ refresh'[p].revoked
        /\ \A t \in Token \ {n, p} : refresh'[t] = refresh[t]
    BY <1>4, <1>5 DEF RefreshRow
  <1>7. /\ TokenStatus(p)' = "dead"
        /\ TokenStatus(n) = "unborn" /\ TokenStatus(n)' = "live"
        /\ \A t \in Token \ {n, p} : TokenStatus(t)' = TokenStatus(t)
    BY <1>3, <1>4, <1>6 DEF TokenStatus, Issued
  <1>8. Held(w) = {p} /\ Held(w)' = {}
    BY <1>2, <1>3, HeldIs, Moves
  <1>9. \A v \in Worker \ {w} : Held(v)' = Held(v)
    BY <1>3, Moves, OthersHold
  <1>10. [t \in Token |-> TokenStatus(t)'] =
            [[t \in Token |-> TokenStatus(t)] EXCEPT ![p] = "dead", ![n] = "live"]
    BY <1>4, <1>7
  <1>11. [t \in Token |-> refresh'[t].user] =
            [[t \in Token |-> refresh[t].user] EXCEPT ![n] = refresh[p].user]
    BY <1>3, <1>4, <1>6
  <1>12. [v \in Worker |-> Held(v)'] = [[v \in Worker |-> Held(v)] EXCEPT ![w] = {}]
    BY <1>8, <1>9
  <1>13. Chains!Rotate(w, p, n)
    BY <1>5, <1>7, <1>8, <1>10, <1>11, <1>12 DEF Chains!Rotate
  <1>. QED  BY <1>13

\* The commit of Logout, or of a password change, ends what it holds.
LEMMA CloseStep ==
    ASSUME EndInv, NEW w \in Worker, LogoutRevoke(w) \/ CommitPassword(w)
    PROVE  Chains!Close(w)
  <1>. USE DEF EndInv, Inv, TypeOK
  <1>1. Held(w) \subseteq Issued /\ pc'[w] = "idle" /\ UNCHANGED parent
    BY HeldIs, Moves DEF LogoutRevoke, CommitPassword, HandlersReadRight, ReadRight, Ending
  <1>2. \A t \in Token : refresh'[t] = IF t \in Held(w) THEN [refresh[t] EXCEPT !.revoked = TRUE]
                                                        ELSE refresh[t]
    <2>1. CASE LogoutRevoke(w)
      <3>1. Held(w) = {req[w].token}
        BY <2>1, HeldIs DEF LogoutRevoke
      <3>. QED  BY <2>1, <3>1 DEF LogoutRevoke
    <2>2. CASE CommitPassword(w)
      <3>1. Held(w) = req[w].sweep
        BY <2>2, HeldIs DEF CommitPassword
      <3>. QED  BY <2>2, <3>1 DEF CommitPassword
    <2>. QED  BY <2>1, <2>2
  <1>3. \A t \in Token : /\ refresh'[t].user = refresh[t].user
                         /\ refresh'[t].revoked = (t \in Held(w) \/ refresh[t].revoked)
    BY <1>2 DEF RefreshRow
  <1>4. \A t \in Token : TokenStatus(t)' = IF t \in Held(w) THEN "dead" ELSE TokenStatus(t)
    BY <1>1, <1>3 DEF TokenStatus, Issued
  <1>5. Held(w)' = {} /\ \A v \in Worker \ {w} : Held(v)' = Held(v)
    BY <1>1, HeldIs, Moves, OthersHold DEF LogoutRevoke, CommitPassword
  <1>. QED  BY <1>1, <1>3, <1>4, <1>5 DEF Chains!Close

\* A handler that fails, whatever it held, lets go of it.
LEMMA DropStep ==
    ASSUME EndInv, NEW w \in Worker, Fail(w)
    PROVE  Chains!Drop(w)
  <1>. USE DEF EndInv, Inv
  <1>1. UNCHANGED <<refresh, parent>> /\ Return(w)
    BY DEF Fail
  <1>2. Held(w)' = {} /\ \A v \in Worker \ {w} : Held(v)' = Held(v)
    BY <1>1, HeldIs, Moves, OthersHold
  <1>3. \A x \in Token : TokenStatus(x)' = TokenStatus(x)
    BY <1>1 DEF TokenStatus, Issued
  <1>. QED  BY <1>1, <1>2, <1>3 DEF Chains!Drop

\* The other steps of a handler take hold of nothing and end nothing.
LEMMA QuietStep ==
    ASSUME EndInv, NEW w \in Worker,
           \/ \E u \in User, p \in Password : Login(w, u, p)
           \/ \E u \in User, t \in Tenant : TenantSession(w, u, t)
           \/ \E u \in User : ForgotPassword(w, u)
           \/ \E r \in Reset, new \in Password : ResetRead(w, r, new)
           \/ \E u \in User, current, new \in Password : ChangePassword(w, u, current, new)
           \/ LoginUser(w) \/ RefreshCheckUser(w) \/ ResetCheckUser(w) \/ ForgotInvalidate(w)
           \/ RefreshRevoke(w) \/ UpdateUser(w) \/ MarkReset(w)
           \/ \E r \in Reset : ForgotCreate(w, r)
    PROVE  UNCHANGED Chains!vars
  <1>. USE DEF EndInv, Inv
  <1>. DEFINE None == {"idle", "login", "session", "forgot", "forgot_create", "reset_user",
                       "update", "mark", "sweep"}
  <1>1. UNCHANGED <<refresh, parent>>
    BY DEF Login, TenantSession, ForgotPassword, ResetRead, ChangePassword, LoginUser,
           RefreshCheckUser, ResetCheckUser, ForgotInvalidate, RefreshRevoke, UpdateUser,
           MarkReset, ForgotCreate
  <1>2. ASSUME \/ \E u \in User, p \in Password : Login(w, u, p)
               \/ \E u \in User, t \in Tenant : TenantSession(w, u, t)
               \/ \E u \in User : ForgotPassword(w, u)
               \/ \E r \in Reset, new \in Password : ResetRead(w, r, new)
               \/ \E u \in User, current, new \in Password : ChangePassword(w, u, current, new)
        PROVE  /\ pc[w] \in None /\ pc'[w] \in None
               /\ \A v \in Worker \ {w} : pc'[v] = pc[v] /\ req'[v] = req[v]
    <2>1. PICK label \in {"login", "session", "forgot", "reset_user", "update"} :
              \E r : Begin(w, label, r)
      BY <1>2 DEF Login, TenantSession, ForgotPassword, ResetRead, ChangePassword
    <2>. QED  BY <2>1, Moves
  <1>3. ASSUME LoginUser(w) \/ \E r \in Reset : ForgotCreate(w, r)
        PROVE  /\ pc[w] \in None /\ pc'[w] \in None
               /\ \A v \in Worker \ {w} : pc'[v] = pc[v] /\ req'[v] = req[v]
    BY <1>3, Moves DEF LoginUser, ForgotCreate
  <1>4. ASSUME ResetCheckUser(w) \/ UpdateUser(w) \/ MarkReset(w)
        PROVE  /\ pc[w] \in None /\ pc'[w] \in None
               /\ \A v \in Worker \ {w} : pc'[v] = pc[v] /\ req'[v] = req[v]
    BY <1>4, Moves DEF ResetCheckUser, UpdateUser, MarkReset
  <1>5. ASSUME ForgotInvalidate(w)
        PROVE  /\ pc[w] \in None /\ pc'[w] \in None
               /\ \A v \in Worker \ {w} : pc'[v] = pc[v] /\ req'[v] = req[v]
    BY <1>5, Moves DEF ForgotInvalidate, TypeOK
  <1>6. CASE RefreshCheckUser(w) \/ RefreshRevoke(w)
    <2>1. /\ pc[w] \in {"refresh_user", "refresh_revoke"}
          /\ pc'[w] \in {"refresh_revoke", "refresh_issue"}
          /\ UNCHANGED req
          /\ \A v \in Worker \ {w} : pc'[v] = pc[v]
      BY <1>6, Moves DEF RefreshCheckUser, RefreshRevoke
    <2>2. Held(w)' = Held(w)
      BY <2>1, HeldIs
    <2>3. \A v \in Worker \ {w} : Held(v)' = Held(v)
      BY <2>1, OthersHold
    <2>. QED  BY <1>1, <2>2, <2>3, Invisible
  <1>7. ASSUME /\ pc[w] \in None /\ pc'[w] \in None
               /\ \A v \in Worker \ {w} : pc'[v] = pc[v] /\ req'[v] = req[v]
        PROVE  UNCHANGED Chains!vars
    <2>1. Held(w)' = Held(w)
      BY <1>7, HeldIs
    <2>2. \A v \in Worker \ {w} : Held(v)' = Held(v)
      BY <1>7, OthersHold
    <2>. QED  BY <1>1, <2>1, <2>2, Invisible
  <1>. HIDE DEF None
  <1>. QED  BY <1>2, <1>3, <1>4, <1>5, <1>6, <1>7

\* Every step of a handler is a step of one chain, or invisible.
LEMMA NextChains == EndInv /\ [Next]_vars => [Chains!Next]_(Chains!vars)
  <1>. SUFFICES ASSUME EndInv, [Next]_vars PROVE Chains!Next \/ UNCHANGED Chains!vars
    OBVIOUS
  <1>. USE DEF EndInv, Inv
  <1>1. ASSUME NEW w \in Worker, Arrive(w) PROVE Chains!Next \/ UNCHANGED Chains!vars
    <2>1. ASSUME NEW t \in Token, RefreshRead(w, t) \/ LogoutRead(w, t) PROVE Chains!Next
      BY <2>1, TakeOneStep DEF Chains!Next
    <2>. QED  BY <1>1, <2>1, QuietStep DEF Arrive
  <1>2. ASSUME NEW w \in Worker, Step(w) PROVE Chains!Next \/ UNCHANGED Chains!vars
    <2>1. ASSUME NEW n \in Token, LoginStaff(w, n) \/ TenantSessionIssue(w, n) PROVE Chains!Next
      BY <2>1, OpenStep DEF Chains!Next
    <2>2. ASSUME NEW n \in Token, RefreshIssue(w, n) PROVE Chains!Next
      BY <2>2, RotateStep DEF Chains!Next
    <2>3. ASSUME RevokeAllSnapshot(w) PROVE Chains!Next
      <3>1. req[w].user \in User
        BY <2>3 DEF RevokeAllSnapshot, Goto, HandlersReadRight, ReadRight
      <3>. QED  BY <2>3, <3>1, TakeAllStep DEF Chains!Next
    <2>4. ASSUME Reject(w) PROVE Chains!Next
      BY <2>4, DropStep DEF Reject, Chains!Next
    <2>. QED  BY <1>2, <2>1, <2>2, <2>3, <2>4, QuietStep DEF Step
  <1>3. ASSUME NEW w \in Worker, LockingStep(w) PROVE Chains!Next \/ UNCHANGED Chains!vars
    <2>1. ASSUME LogoutRevoke(w) \/ CommitPassword(w) PROVE Chains!Next
      BY <2>1, CloseStep DEF Chains!Next
    <2>. QED  BY <1>3, <2>1, QuietStep DEF LockingStep
  <1>4. ASSUME NEW w \in Worker, Fail(w) PROVE Chains!Next
    BY <1>4, DropStep DEF Chains!Next
  <1>5. ASSUME (\E u \in User : ActiveChange(u)) \/ UNCHANGED vars PROVE UNCHANGED Chains!vars
    <2>1. UNCHANGED <<refresh, parent, pc, req>>
      BY <1>5 DEF ActiveChange, LoginDeactivate, Reactivate, vars
    <2>2. \A w \in Worker : Held(w)' = Held(w)
      BY <2>1 DEF Held
    <2>. QED  BY <2>1, <2>2, Invisible
  <1>. QED  BY <1>1, <1>2, <1>3, <1>4, <1>5 DEF Next

\* However requests overlap, the handlers implement sessions as chains of tokens: a
\* token that works is exchanged or ended by the requests that found it working,
\* and one that has stopped working never works again.
THEOREM ImplementsChains == Spec => ChainsSpec
  <1>1. Init => Chains!Init
    BY InitChains
  <1>2. EndInv /\ [Next]_vars => [Chains!Next]_(Chains!vars)
    BY NextChains
  <1>. QED  BY <1>1, <1>2, EndInvHolds, PTL DEF Spec, ChainsSpec, Chains!Spec
=============================================================================
