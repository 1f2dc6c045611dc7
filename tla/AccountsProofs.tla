--------------------------- MODULE AccountsProofs ---------------------------
(* Theorems about Accounts, for any number of users, tokens and workers. *)
EXTENDS Accounts, TLAPS

\* What a handler knows of its request: the account exists as an email, the
\* deadline it computed lies within a TTL of now, and it swept tokens of that
\* account only.
RequestsMakeSense ==
    \A w \in Worker :
        /\ pc[w] # "idle" => req[w].user \in User
        /\ pc[w] \in {"signup", "resend", "resend_write"} => req[w].deadline \in 0 .. now + TTL
        /\ \A t \in req[w].sweep : token[t].user = req[w].user /\ req[w].user \in User

Inv == TypeOK /\ RequestsMakeSense /\ TokenOutlivesWindow

--------------------------------------------------------------------------
(* Types *)

\* The rows the handlers write and the empty request are well typed.
LEMMA RowTypes ==
    /\ Verified \in UserRow /\ NoUser \in UserRow /\ Legacy \in UserRow
    /\ NoToken \in TokenRow
    /\ NoRequest \in Request
  BY AccountConstants DEF Verified, NoUser, Legacy, NoToken, NoRequest,
         UserRow, TokenRow, Request, Time

\* A time within a TTL of now is a time of the model.
LEMMA TimeTypes == ASSUME TypeOK PROVE 0 .. now + TTL \subseteq Time /\ now + TTL \in Time
  BY AccountConstants DEF TypeOK, Time

\* Sweeping changes nothing but used.
LEMMA SweptTypes ==
    ASSUME TypeOK, NEW w \in Worker
    PROVE  /\ Swept(w) \in [Token -> TokenRow]
           /\ \A t \in Token : /\ Swept(w)[t].user = token[t].user
                               /\ ~Swept(w)[t].used => ~token[t].used /\ t \notin req[w].sweep
                               /\ Swept(w)[t].expires = token[t].expires
                               /\ t \notin req[w].sweep => Swept(w)[t] = token[t]
  BY DEF TypeOK, Swept, TokenRow

\* The initial state is typed.
LEMMA InitType == Init => TypeOK
  BY RowTypes, AccountConstants DEF Init, TypeOK, PC

\* Every step keeps the types.
LEMMA NextType == TypeOK /\ RequestsMakeSense /\ [Next]_vars => TypeOK'
  <1>. SUFFICES ASSUME TypeOK, RequestsMakeSense, [Next]_vars PROVE TypeOK'
    OBVIOUS
  <1>. USE RowTypes, TimeTypes, AccountConstants DEF TypeOK, PC
  <1>1. ASSUME NEW w \in Worker, Arrive(w) PROVE TypeOK'
    <2>1. ASSUME NEW u \in User, Signup(w, u) \/ ResendVerification(w, u) PROVE TypeOK'
      <3>1. [NoRequest EXCEPT !.user = u, !.deadline = now + TTL] \in Request
        BY DEF Request, NoRequest
      <3>. QED  BY <2>1, <3>1 DEF Signup, ResendVerification, Begin
    <2>2. ASSUME NEW u \in User, Login(w, u) \/ AcceptInvite(w, u) PROVE TypeOK'
      <3>1. [NoRequest EXCEPT !.user = u, !.row = user[u]] \in Request
        BY DEF Request, NoRequest
      <3>. QED  BY <2>2, <3>1 DEF Login, AcceptInvite, Begin
    <2>3. ASSUME NEW t \in Token, VerifyEmail(w, t) PROVE TypeOK'
      <3>1. [NoRequest EXCEPT !.user = token[t].user, !.token = t] \in Request
        BY DEF Request, NoRequest, TokenRow
      <3>2. token[t].user \in User
        BY <2>3 DEF VerifyEmail, ValidToken, TokenRow
      <3>3. overlap' \subseteq User
        BY <2>3, <3>2 DEF VerifyEmail, Begin, NoRequest
      <3>. QED  BY <2>3, <3>1, <3>3 DEF VerifyEmail, Begin
    <2>. QED  BY <1>1, <2>1, <2>2, <2>3 DEF Arrive
  <1>2. ASSUME NEW w \in Worker, Step(w) PROVE TypeOK'
    <2>1. ASSUME NEW t \in Token, SignupCommit(w, t) PROVE TypeOK'
      <3>1. req[w].user \in User /\ req[w].deadline \in Time
        BY <2>1 DEF SignupCommit, RequestsMakeSense
      <3>2. user' \in [User -> UserRow]
        BY <2>1, <3>1 DEF SignupCommit, UserRow
      <3>3. token' \in [Token -> TokenRow]
        BY <2>1, <3>1 DEF SignupCommit, TokenRow
      <3>. QED  BY <2>1, <3>2, <3>3 DEF SignupCommit, Return
    <2>2. ASSUME NEW t \in Token, ResendCommit(w, t) PROVE TypeOK'
      <3>1. req[w].user \in User /\ req[w].deadline \in Time
        BY <2>2 DEF ResendCommit, RequestsMakeSense
      <3>2. user' \in [User -> UserRow]
        BY <2>2, <3>1 DEF ResendCommit, UserRow
      <3>3. token' \in [Token -> TokenRow]
        BY <2>2, <3>1, SweptTypes DEF ResendCommit, TokenRow
      <3>. QED  BY <2>2, <3>2, <3>3 DEF ResendCommit, Return
    <2>3. ASSUME Sweep(w) PROVE TypeOK'
      <3>1. req' \in [Worker -> Request]
        BY <2>3 DEF Sweep, Request, Pending
      <3>. QED  BY <2>3, <3>1 DEF Sweep
    <2>4. ASSUME VerifyCommit(w) PROVE TypeOK'
      BY <2>4, SweptTypes DEF VerifyCommit, Return
    <2>5. ASSUME LoginDeactivate(w) PROVE TypeOK'
      <3>1. user' \in [User -> UserRow]
        BY <2>5 DEF LoginDeactivate, UserRow
      <3>. QED  BY <2>5, <3>1 DEF LoginDeactivate, Return
    <2>6. ASSUME AcceptInviteCommit(w) PROVE TypeOK'
      BY <2>6 DEF AcceptInviteCommit, Return
    <2>. QED  BY <1>2, <2>1, <2>2, <2>3, <2>4, <2>5, <2>6 DEF Step
  <1>3. ASSUME NEW w \in Worker, Fail(w) PROVE TypeOK'
    BY <1>3 DEF Fail, Return
  <1>4. ASSUME NEW u \in User, Register(u) PROVE TypeOK'
    BY <1>4 DEF Register
  <1>5. CASE Tick
    BY <1>5 DEF Tick
  <1>6. CASE UNCHANGED vars
    BY <1>6 DEF vars
  <1>. QED  BY <1>1, <1>2, <1>3, <1>4, <1>5, <1>6 DEF Next

--------------------------------------------------------------------------
(* The window and the tokens *)

\* A token that belongs to someone belongs to them for good.
LEMMA OwnersStable ==
    ASSUME TypeOK, [Next]_vars, NEW t \in Token, token[t].user \in User
    PROVE  token'[t].user = token[t].user
  <1>1. token[t] # NoToken
    BY AccountConstants DEF NoToken
  <1>2. ASSUME NEW w \in Worker, Step(w) PROVE token'[t].user = token[t].user
    BY <1>1, <1>2, SweptTypes DEF Step, SignupCommit, ResendCommit, Sweep, VerifyCommit,
           LoginDeactivate, AcceptInviteCommit, TypeOK, TokenRow
  <1>3. CASE UNCHANGED token
    BY <1>3
  <1>. QED  BY <1>2, <1>3 DEF Next, vars, Arrive, Signup, ResendVerification, Login,
                AcceptInvite, VerifyEmail, Fail, Register, Tick

\* The locals of a handler whose worker does not move keep making sense.
LEMMA RequestsNext == TypeOK /\ RequestsMakeSense /\ [Next]_vars => RequestsMakeSense'
  <1>. SUFFICES ASSUME TypeOK, RequestsMakeSense, [Next]_vars PROVE RequestsMakeSense'
    OBVIOUS
  <1>0. TypeOK'
    BY NextType
  <1>. DEFINE Sense(v) ==
           /\ pc[v] # "idle" => req[v].user \in User
           /\ pc[v] \in {"signup", "resend", "resend_write"} => req[v].deadline \in 0 .. now + TTL
           /\ \A t \in req[v].sweep : token[t].user = req[v].user /\ req[v].user \in User
  <1>1. now' \in Nat /\ now \in Nat /\ now <= now'
    <2>1. now' = now \/ now' = now + 1
      BY DEF Next, vars, Arrive, Step, Signup, ResendVerification, Login, AcceptInvite,
             VerifyEmail, Fail, Register, Tick, SignupCommit, ResendCommit, Sweep,
             VerifyCommit, LoginDeactivate, AcceptInviteCommit
    <2>. QED  BY <1>0, <2>1, AccountConstants DEF TypeOK
  <1>2. ASSUME NEW v \in Worker, pc'[v] = pc[v], req'[v] = req[v] PROVE Sense(v)'
    <2>1. \A t \in req[v].sweep : t \in Token /\ token'[t].user = token[t].user
      BY OwnersStable DEF RequestsMakeSense, TypeOK, Request
    <2>. QED  BY <1>1, <1>2, <2>1, AccountConstants DEF RequestsMakeSense
  <1>3. ASSUME NEW v \in Worker, pc'[v] = "idle", req'[v] = NoRequest PROVE Sense(v)'
    BY <1>3 DEF NoRequest
  <1>4. ASSUME NEW w \in Worker, Arrive(w), NEW v \in Worker PROVE Sense(v)'
    <2>1. CASE v # w
      BY <2>1, <1>2, <1>4 DEF Arrive, Signup, ResendVerification, Login, AcceptInvite,
             VerifyEmail, Begin, TypeOK
    <2>2. CASE v = w
      <3>1. ASSUME NEW u \in User, Signup(w, u) \/ ResendVerification(w, u) PROVE Sense(w)'
        <4>1. /\ req'[w] = [NoRequest EXCEPT !.user = u, !.deadline = now + TTL]
              /\ now' = now
          BY <3>1 DEF Signup, ResendVerification, Begin, TypeOK
        <4>2. now + TTL \in 0 .. now' + TTL
          BY <4>1, AccountConstants DEF TypeOK
        <4>. QED  BY <4>1, <4>2 DEF NoRequest
      <3>2. ASSUME NEW u \in User, Login(w, u) \/ AcceptInvite(w, u) PROVE Sense(w)'
        <4>1. /\ req'[w] = [NoRequest EXCEPT !.user = u, !.row = user[u]]
              /\ pc'[w] \in {"login", "accept"}
          BY <3>2 DEF Login, AcceptInvite, Begin, TypeOK
        <4>. QED  BY <4>1 DEF NoRequest
      <3>3. ASSUME NEW t \in Token, VerifyEmail(w, t) PROVE Sense(w)'
        <4>1. token[t].user \in User
          BY <3>3 DEF VerifyEmail, ValidToken, TypeOK, TokenRow
        <4>. QED  BY <3>3, <4>1 DEF VerifyEmail, Begin, NoRequest, TypeOK
      <3>. QED  BY <1>4, <2>2, <3>1, <3>2, <3>3 DEF Arrive
    <2>. QED  BY <2>1, <2>2
  <1>5. ASSUME NEW w \in Worker, Sweep(w), NEW v \in Worker PROVE Sense(v)'
    <2>1. CASE v # w
      BY <2>1, <1>2, <1>5 DEF Sweep, TypeOK
    <2>2. CASE v = w
      <3>1. /\ req'[w].user = req[w].user /\ req'[w].deadline = req[w].deadline
            /\ req'[w].sweep = Pending(req[w].user)
            /\ now' = now /\ token' = token
        BY <1>5 DEF Sweep, TypeOK, Request
      <3>2. /\ req[w].user \in User
            /\ pc'[w] = "resend_write" => pc[w] = "resend"
            /\ pc'[w] \in {"verify_write", "resend_write"}
        BY <1>5 DEF Sweep, TypeOK, RequestsMakeSense
      <3>. QED  BY <2>2, <3>1, <3>2 DEF RequestsMakeSense, Pending
    <2>. QED  BY <2>1, <2>2
  <1>6. ASSUME NEW w \in Worker, Return(w), NEW v \in Worker PROVE Sense(v)'
    <2>1. CASE v # w
      BY <2>1, <1>2, <1>6 DEF Return, TypeOK
    <2>2. CASE v = w
      BY <2>2, <1>3, <1>6 DEF Return, TypeOK
    <2>. QED  BY <2>1, <2>2
  <1>7. CASE UNCHANGED <<pc, req>>
    BY <1>7, <1>2 DEF RequestsMakeSense
  <1>8. (\A v \in Worker : Sense(v)') => RequestsMakeSense'
    BY DEF RequestsMakeSense
  <1>. QED  BY <1>4, <1>5, <1>6, <1>7, <1>8 DEF Next, vars, Step, SignupCommit, ResendCommit,
                VerifyCommit, LoginDeactivate, AcceptInviteCommit, Fail, Register, Tick

\* A commit that sweeps tokens of one account only leaves the others theirs.
LEMMA SweepSparesOthers ==
    ASSUME Inv, NEW w \in Worker, NEW u \in User, u # req[w].user,
           NEW t \in Pending(u)
    PROVE  Swept(w)[t] = token[t] /\ token[t] # NoToken
  <1>1. t \in Token /\ token[t].user = u
    BY DEF Pending
  <1>2. t \notin req[w].sweep
    BY <1>1 DEF Inv, RequestsMakeSense
  <1>. QED  BY <1>1, <1>2, SweptTypes, AccountConstants DEF Inv, NoToken

\* Whatever was swept meanwhile, a commit that leaves an account unverified
\* leaves it a token that lasts to its deadline.
LEMMA WindowNext == Inv /\ [Next]_vars => TokenOutlivesWindow'
  <1>. SUFFICES ASSUME Inv, [Next]_vars,
                       NEW u \in User, user'[u].known, ~user'[u].verified, user'[u].deadline # Nil
                PROVE  \E t \in Token : /\ token'[t].user = u /\ ~token'[t].used
                                       /\ token'[t].expires >= user'[u].deadline
    BY DEF TokenOutlivesWindow, Pending
  <1>. DEFINE Goal == \E t \in Token : /\ token'[t].user = u /\ ~token'[t].used
                                      /\ token'[t].expires >= user'[u].deadline
  <1>. USE DEF Inv
  <1>1. ASSUME user'[u] = user[u],
               \A t \in Pending(u) : token'[t] = token[t]
        PROVE  Goal
    BY <1>1 DEF TokenOutlivesWindow, Pending
  <1>2. ASSUME NEW w \in Worker, NEW t \in Token, SignupCommit(w, t) PROVE Goal
    <2>1. CASE u = req[w].user
      <3>1. user'[u].deadline = req[w].deadline /\ req[w].deadline \in 0 .. now + TTL
        BY <1>2, <2>1 DEF SignupCommit, TypeOK, RequestsMakeSense
      <3>2. token'[t] = [user |-> u, used |-> FALSE, expires |-> now + TTL]
        BY <1>2, <2>1 DEF SignupCommit, TypeOK
      <3>. QED  BY <3>1, <3>2, AccountConstants DEF TypeOK
    <2>2. CASE u # req[w].user
      <3>1. \A x \in Pending(u) : token[x] # NoToken
        BY <2>2, SweepSparesOthers
      <3>. QED  BY <1>1, <1>2, <2>2, <3>1 DEF SignupCommit, TypeOK, Pending
    <2>. QED  BY <2>1, <2>2
  <1>3. ASSUME NEW w \in Worker, NEW t \in Token, ResendCommit(w, t) PROVE Goal
    <2>0. Swept(w) \in [Token -> TokenRow]
      BY SweptTypes
    <2>1. CASE u = req[w].user
      <3>1. user'[u].deadline = req[w].deadline /\ req[w].deadline \in 0 .. now + TTL
        BY <1>3, <2>1 DEF ResendCommit, TypeOK, UserRow, RequestsMakeSense
      <3>2. token'[t] = [user |-> u, used |-> FALSE, expires |-> now + TTL]
        BY <1>3, <2>0, <2>1 DEF ResendCommit
      <3>. QED  BY <3>1, <3>2, AccountConstants DEF TypeOK
    <2>2. CASE u # req[w].user
      <3>1. \A x \in Pending(u) : x \in Token /\ token[x] # NoToken /\ Swept(w)[x] = token[x]
        BY <2>2, SweepSparesOthers DEF Pending
      <3>2. \A x \in Pending(u) : token'[x] = token[x]
        BY <1>3, <2>0, <3>1 DEF ResendCommit
      <3>3. user'[u] = user[u]
        BY <1>3, <2>2 DEF ResendCommit, TypeOK
      <3>. QED  BY <1>1, <3>2, <3>3
    <2>. QED  BY <2>1, <2>2
  <1>4. ASSUME NEW w \in Worker, VerifyCommit(w) PROVE Goal
    <2>1. u # req[w].user
      BY <1>4 DEF VerifyCommit, Verified, TypeOK
    <2>2. \A x \in Pending(u) : token'[x] = token[x]
      BY <1>4, <2>1, SweepSparesOthers DEF VerifyCommit
    <2>. QED  BY <1>1, <1>4, <2>1, <2>2 DEF VerifyCommit, TypeOK
  <1>5. ASSUME NEW w \in Worker, LoginDeactivate(w) PROVE Goal
    <2>1. token' = token /\ user'[u].deadline = user[u].deadline
          /\ user'[u].known = user[u].known /\ user'[u].verified = user[u].verified
      BY <1>5 DEF LoginDeactivate, TypeOK, UserRow
    <2>. QED  BY <2>1 DEF TokenOutlivesWindow, Pending
  <1>6. ASSUME NEW w \in Worker, AcceptInviteCommit(w) PROVE Goal
    <2>1. u # req[w].user
      BY <1>6 DEF AcceptInviteCommit, Verified, TypeOK
    <2>. QED  BY <1>1, <1>6, <2>1 DEF AcceptInviteCommit, TypeOK
  <1>7. ASSUME NEW x \in User, Register(x) PROVE Goal
    <2>1. u # x
      BY <1>7 DEF Register, Verified, TypeOK
    <2>. QED  BY <1>1, <1>7, <2>1 DEF Register, TypeOK
  <1>8. CASE UNCHANGED <<user, token>>
    BY <1>1, <1>8
  <1>. QED  BY <1>2, <1>3, <1>4, <1>5, <1>6, <1>7, <1>8 DEF Next, vars, Step, Arrive, Signup,
                ResendVerification, Login, AcceptInvite, VerifyEmail, Sweep, Fail, Tick

\* Nobody is at work and no account has a deadline to begin with.
LEMMA InitInv == Init => Inv
  <1>. SUFFICES ASSUME Init PROVE Inv
    OBVIOUS
  <1>1. RequestsMakeSense
    BY DEF Init, RequestsMakeSense, NoRequest
  <1>2. \A u \in User : user[u].deadline = Nil
    BY DEF Init, NoUser, Legacy
  <1>. QED  BY InitType, <1>1, <1>2 DEF Inv, TokenOutlivesWindow

\* The inductive invariant holds throughout.
THEOREM InvHolds == Spec => []Inv
  <1>1. Inv /\ [Next]_vars => Inv'
    BY NextType, RequestsNext, WindowNext DEF Inv
  <1>. QED  BY <1>1, InitInv, PTL DEF Spec

\* The state stays in its types.
THEOREM TypeCorrect == Spec => []TypeOK
  <1>1. Inv => TypeOK
    BY DEF Inv
  <1>. QED  BY <1>1, InvHolds, PTL

\* Within the window an unverified account can be verified, however many
\* handlers issue, sweep and use its tokens at a time.
THEOREM TokenOutlivesWindowHolds == Spec => []TokenOutlivesWindow
  <1>1. Inv => TokenOutlivesWindow
    BY DEF Inv
  <1>. QED  BY <1>1, InvHolds, PTL

--------------------------------------------------------------------------
(* One request at a time for an account *)

\* Two handlers at work on one account are remembered in overlap.
OverlapSeen ==
    \A v, w \in Worker :
        v # w /\ pc[v] # "idle" /\ pc[w] # "idle" /\ req[v].user = req[w].user
            => req[w].user \in overlap

\* The row that login works on is the row of the table.
LoginNotStale ==
    \A w \in Worker : pc[w] = "login" /\ req[w].user \notin overlap
                        => user[req[w].user] = req[w].row /\ req[w].row.known

\* Whoever has a token, or is verified or sent another, has a row.
KnownAccounts ==
    /\ \A t \in Token : token[t].user \in User => user[token[t].user].known
    /\ \A w \in Worker : pc[w] \in {"verify", "verify_write", "resend", "resend_write"}
                            => user[req[w].user].known

\* The tokens of an account are swept as they are, and the token of a
\* verification is still unused.
TokensNotStale ==
    \A w \in Worker : req[w].user \notin overlap =>
        /\ pc[w] \in {"verify_write", "resend_write"} => Pending(req[w].user) \subseteq req[w].sweep
        /\ pc[w] \in {"verify", "verify_write"} => req[w].token \in Pending(req[w].user)

SeqInv == /\ Inv /\ OverlapSeen /\ KnownAccounts /\ LoginNotStale /\ TokensNotStale
          /\ InactiveOnlyAfterDeadline /\ OnePendingVerification

\* A handler that begins makes its account an overlap if another is at work on it.
LEMMA OverlapNext == Inv /\ OverlapSeen /\ [Next]_vars => OverlapSeen' /\ overlap \subseteq overlap'
  <1>. SUFFICES ASSUME Inv, OverlapSeen, [Next]_vars PROVE OverlapSeen' /\ overlap \subseteq overlap'
    OBVIOUS
  <1>. USE DEF Inv
  <1>1. ASSUME NEW w \in Worker, NEW label, label # "idle", NEW r, Begin(w, label, r)
        PROVE  OverlapSeen' /\ overlap \subseteq overlap'
    <2>1. \A v \in Worker : v # w => pc'[v] = pc[v] /\ req'[v] = req[v]
      BY <1>1 DEF Begin, TypeOK
    <2>2. req'[w] = r
      BY <1>1 DEF Begin, TypeOK
    <2>3. overlap \subseteq overlap' /\ (AtWorkOn(r.user) => r.user \in overlap')
      BY <1>1 DEF Begin
    <2>. QED  BY <2>1, <2>2, <2>3 DEF OverlapSeen, AtWorkOn
  <1>2. ASSUME NEW w \in Worker, Arrive(w)
        PROVE  OverlapSeen' /\ overlap \subseteq overlap'
    BY <1>1, <1>2 DEF Arrive, Signup, ResendVerification, Login, AcceptInvite, VerifyEmail
  <1>3. ASSUME NEW w \in Worker, Return(w) PROVE OverlapSeen' /\ overlap \subseteq overlap'
    <2>1. pc'[w] = "idle" /\ overlap' = overlap
      BY <1>3 DEF Return, TypeOK
    <2>2. \A v \in Worker : v # w => pc'[v] = pc[v] /\ req'[v] = req[v]
      BY <1>3 DEF Return, TypeOK
    <2>. QED  BY <2>1, <2>2 DEF OverlapSeen
  <1>4. ASSUME NEW w \in Worker, Sweep(w) PROVE OverlapSeen' /\ overlap \subseteq overlap'
    <2>1. /\ \A v \in Worker : req'[v].user = req[v].user
          /\ \A v \in Worker : pc'[v] # "idle" => pc[v] # "idle"
          /\ overlap' = overlap
      BY <1>4 DEF Sweep, TypeOK, Request
    <2>. QED  BY <2>1 DEF OverlapSeen
  <1>5. CASE UNCHANGED <<pc, req, overlap>>
    BY <1>5 DEF OverlapSeen
  <1>. QED  BY <1>2, <1>3, <1>4, <1>5 DEF Next, vars, Step, SignupCommit, ResendCommit,
                VerifyCommit, LoginDeactivate, AcceptInviteCommit, Fail, Register, Tick

\* While a handler that does not move is alone at work on an account, nobody
\* changes its row or its tokens.
LEMMA Undisturbed ==
    ASSUME Inv, OverlapSeen, [Next]_vars, NEW v \in Worker, pc[v] # "idle",
           req[v].user \notin overlap, user[req[v].user].known,
           pc'[v] = pc[v], req'[v] = req[v]
    PROVE  /\ user'[req[v].user] = user[req[v].user]
           /\ Pending(req[v].user)' = Pending(req[v].user)
  <1>. DEFINE u == req[v].user
              Goal == user'[u] = user[u] /\ Pending(u)' = Pending(u)
  <1>. USE DEF Inv
  <1>0. u \in User
    BY DEF RequestsMakeSense
  <1>1. ASSUME user'[u] = user[u],
               \A t \in Token : token[t].user = u \/ token'[t].user = u => token'[t] = token[t]
        PROVE  Goal
    BY <1>1 DEF Pending
  <1>2. ASSUME NEW w \in Worker, pc[w] # "idle", pc'[w] = "idle" PROVE req[w].user # u
    BY <1>2 DEF OverlapSeen
  <1>3. ASSUME NEW w \in Worker, NEW t \in Token, SignupCommit(w, t) PROVE Goal
    <2>1. req[w].user # u
      BY <1>3 DEF SignupCommit
    <2>2. user'[u] = user[u]
      BY <1>3, <2>1 DEF SignupCommit, TypeOK
    <2>3. \A x \in Token : x # t => token'[x] = token[x]
      BY <1>3 DEF SignupCommit, TypeOK
    <2>4. token[t].user # u /\ token'[t].user # u
      BY <1>3, <2>1, <1>0, AccountConstants DEF SignupCommit, TypeOK, NoToken
    <2>. QED  BY <1>1, <2>2, <2>3, <2>4
  <1>4. ASSUME NEW w \in Worker, req[w].user # u, NEW x \in Token, token[x].user = u
        PROVE  Swept(w)[x] = token[x]
    BY <1>4, <1>0, SweptTypes DEF RequestsMakeSense
  <1>5. ASSUME NEW w \in Worker, NEW t \in Token, ResendCommit(w, t) PROVE Goal
    <2>0. pc[w] # "idle" /\ pc'[w] = "idle"
      BY <1>5 DEF ResendCommit, Return, TypeOK
    <2>1. req[w].user # u
      BY <1>2, <2>0
    <2>2. user'[u] = user[u]
      BY <1>0, <1>5, <2>1 DEF ResendCommit, TypeOK
    <2>3. \A x \in Token : x # t => token'[x] = Swept(w)[x] /\ Swept(w)[x].user = token[x].user
      BY <1>5, SweptTypes DEF ResendCommit, TypeOK
    <2>4. token[t].user # u /\ token'[t].user # u
      BY <1>5, <2>1, <1>0, AccountConstants, SweptTypes DEF ResendCommit, TypeOK, NoToken
    <2>. QED  BY <1>1, <1>4, <2>1, <2>2, <2>3, <2>4
  <1>6. ASSUME NEW w \in Worker, VerifyCommit(w) PROVE Goal
    <2>1. req[w].user # u
      BY <1>2, <1>6 DEF VerifyCommit, Return, TypeOK
    <2>2. user'[u] = user[u]
      BY <1>6, <2>1 DEF VerifyCommit, TypeOK
    <2>3. \A x \in Token : token'[x] = Swept(w)[x] /\ Swept(w)[x].user = token[x].user
      BY <1>6, SweptTypes DEF VerifyCommit
    <2>. QED  BY <1>1, <1>4, <2>1, <2>2, <2>3
  <1>7. ASSUME NEW w \in Worker, LoginDeactivate(w) \/ AcceptInviteCommit(w) PROVE Goal
    <2>0. pc[w] # "idle" /\ pc'[w] = "idle"
      BY <1>7 DEF LoginDeactivate, AcceptInviteCommit, Return, TypeOK
    <2>1. req[w].user # u
      BY <1>2, <2>0
    <2>. QED  BY <1>0, <1>1, <1>7, <2>1 DEF LoginDeactivate, AcceptInviteCommit, TypeOK
  <1>8. ASSUME NEW x \in User, Register(x) PROVE Goal
    BY <1>1, <1>8 DEF Register, TypeOK
  <1>9. CASE UNCHANGED <<user, token>>
    BY <1>1, <1>9
  <1>. QED  BY <1>3, <1>5, <1>6, <1>7, <1>8, <1>9 DEF Next, vars, Step, Arrive, Signup,
                ResendVerification, Login, AcceptInvite, VerifyEmail, Sweep, Fail, Tick

\* A handler moves by beginning, sweeping or returning; the others stay.
LEMMA Moves ==
    ASSUME TypeOK, [Next]_vars, NEW v \in Worker
    PROVE  \/ pc'[v] = pc[v] /\ req'[v] = req[v]
           \/ Arrive(v)
           \/ Sweep(v)
           \/ pc'[v] = "idle" /\ req'[v] = NoRequest
  <1>. USE DEF TypeOK
  <1>1. ASSUME NEW w \in Worker, Arrive(w), w # v PROVE pc'[v] = pc[v] /\ req'[v] = req[v]
    BY <1>1 DEF Arrive, Signup, ResendVerification, Login, AcceptInvite, VerifyEmail, Begin
  <1>2. ASSUME NEW w \in Worker, Sweep(w), w # v PROVE pc'[v] = pc[v] /\ req'[v] = req[v]
    BY <1>2 DEF Sweep
  <1>3. ASSUME NEW w \in Worker, Return(w)
        PROVE  (pc'[v] = pc[v] /\ req'[v] = req[v]) \/ (pc'[v] = "idle" /\ req'[v] = NoRequest)
    <2>1. CASE v = w
      BY <1>3, <2>1 DEF Return
    <2>2. CASE v # w
      BY <1>3, <2>2 DEF Return
    <2>. QED  BY <2>1, <2>2
  <1>. QED  BY <1>1, <1>2, <1>3 DEF Next, vars, Step, SignupCommit, ResendCommit, VerifyCommit,
                LoginDeactivate, AcceptInviteCommit, Fail, Register, Tick

\* The row login read does not change while login is alone at work.
LEMMA LoginNext == SeqInv /\ [Next]_vars => LoginNotStale'
  <1>. SUFFICES ASSUME SeqInv, [Next]_vars, NEW v \in Worker, pc'[v] = "login",
                       req'[v].user \notin overlap'
                PROVE  user'[req'[v].user] = req'[v].row /\ req'[v].row.known
    BY DEF LoginNotStale
  <1>. USE DEF SeqInv, Inv
  <1>1. CASE pc'[v] = pc[v] /\ req'[v] = req[v]
    <2>1. req[v].user \notin overlap
      BY <1>1, OverlapNext
    <2>2. user[req[v].user] = req[v].row /\ req[v].row.known
      BY <1>1, <2>1 DEF LoginNotStale
    <2>. QED  BY <1>1, <2>1, <2>2, Undisturbed
  <1>2. CASE Arrive(v)
    <2>1. ASSUME NEW u \in User, Login(v, u)
          PROVE  user'[req'[v].user] = req'[v].row /\ req'[v].row.known
      <3>1. req'[v] = [NoRequest EXCEPT !.user = u, !.row = user[u]] /\ user' = user
        BY <2>1 DEF Login, Begin, TypeOK
      <3>. QED  BY <2>1, <3>1 DEF Login, NoRequest
    <2>2. ASSUME NEW u \in User, Signup(v, u) \/ ResendVerification(v, u) \/ AcceptInvite(v, u)
          PROVE  FALSE
      BY <2>2 DEF Signup, ResendVerification, AcceptInvite, Begin, TypeOK
    <2>3. ASSUME NEW t \in Token, VerifyEmail(v, t) PROVE FALSE
      BY <2>3 DEF VerifyEmail, Begin, TypeOK
    <2>. QED  BY <1>2, <2>1, <2>2, <2>3 DEF Arrive
  <1>3. CASE Sweep(v)
    BY <1>3 DEF Sweep, TypeOK
  <1>. QED  BY <1>1, <1>2, <1>3, Moves

\* No account loses its row, and tokens are made for accounts.
LEMMA KnownNext == Inv /\ KnownAccounts /\ [Next]_vars => KnownAccounts'
  <1>. SUFFICES ASSUME Inv, KnownAccounts, [Next]_vars PROVE KnownAccounts'
    OBVIOUS
  <1>. USE DEF Inv
  <1>1. ASSUME NEW u \in User, user[u].known PROVE user'[u].known
    <2>1. ASSUME NEW w \in Worker, NEW t \in Token, SignupCommit(w, t) \/ ResendCommit(w, t)
          PROVE  user'[u].known
      BY <1>1, <2>1 DEF SignupCommit, ResendCommit, TypeOK, UserRow
    <2>2. ASSUME NEW w \in Worker, VerifyCommit(w) \/ AcceptInviteCommit(w) PROVE user'[u].known
      BY <1>1, <2>2 DEF VerifyCommit, AcceptInviteCommit, Verified, TypeOK
    <2>3. ASSUME NEW w \in Worker, LoginDeactivate(w) PROVE user'[u].known
      BY <1>1, <2>3 DEF LoginDeactivate, TypeOK, UserRow
    <2>4. ASSUME NEW x \in User, Register(x) PROVE user'[u].known
      BY <1>1, <2>4 DEF Register, Verified, TypeOK
    <2>5. CASE UNCHANGED user
      BY <1>1, <2>5
    <2>. QED  BY <2>1, <2>2, <2>3, <2>4, <2>5 DEF Next, vars, Step, Arrive, Signup,
                  ResendVerification, Login, AcceptInvite, VerifyEmail, Sweep, Fail, Tick
  <1>2. ASSUME NEW t \in Token, token'[t].user \in User PROVE user'[token'[t].user].known
    <2>1. CASE token[t].user = token'[t].user
      BY <1>1, <1>2, <2>1 DEF KnownAccounts
    <2>2. ASSUME NEW w \in Worker, NEW x \in Token, SignupCommit(w, x)
          PROVE  token[t].user = token'[t].user \/ user'[token'[t].user].known
      <3>1. req[w].user \in User
        BY <2>2 DEF SignupCommit, RequestsMakeSense
      <3>. QED  BY <2>2, <3>1 DEF SignupCommit, TypeOK
    <2>3. ASSUME NEW w \in Worker, NEW x \in Token, ResendCommit(w, x)
          PROVE  token[t].user = token'[t].user \/ user'[token'[t].user].known
      <3>1. req[w].user \in User /\ user[req[w].user].known
        BY <2>3 DEF ResendCommit, RequestsMakeSense, KnownAccounts
      <3>2. t # x => token'[t] = Swept(w)[t]
        BY <2>3, SweptTypes DEF ResendCommit
      <3>3. token'[x].user = req[w].user
        BY <2>3, SweptTypes DEF ResendCommit
      <3>. QED  BY <1>1, <3>1, <3>2, <3>3, SweptTypes
    <2>4. ASSUME NEW w \in Worker, VerifyCommit(w) PROVE token[t].user = token'[t].user
      BY <2>4, SweptTypes DEF VerifyCommit
    <2>5. CASE UNCHANGED token
      BY <2>1, <2>5
    <2>. QED  BY <2>1, <2>2, <2>3, <2>4, <2>5 DEF Next, vars, Step, Arrive, Signup,
                  ResendVerification, Login, AcceptInvite, VerifyEmail, Sweep, Fail, Tick,
                  LoginDeactivate, AcceptInviteCommit, Register
  <1>3. ASSUME NEW v \in Worker, pc'[v] \in {"verify", "verify_write", "resend", "resend_write"}
        PROVE  user'[req'[v].user].known
    <2>1. CASE pc'[v] = pc[v] /\ req'[v] = req[v]
      BY <1>1, <1>3, <2>1 DEF KnownAccounts, RequestsMakeSense
    <2>2. CASE Sweep(v)
      <3>1. req'[v].user = req[v].user /\ user' = user /\ pc[v] \in {"verify", "resend"}
        BY <2>2 DEF Sweep, TypeOK, Request
      <3>. QED  BY <3>1 DEF KnownAccounts
    <2>3. CASE Arrive(v)
      <3>1. ASSUME NEW u \in User, ResendVerification(v, u) PROVE user'[req'[v].user].known
        BY <3>1 DEF ResendVerification, Begin, NoRequest, TypeOK
      <3>2. ASSUME NEW t \in Token, VerifyEmail(v, t) PROVE user'[req'[v].user].known
        BY <3>2 DEF VerifyEmail, ValidToken, Begin, NoRequest, TypeOK, TokenRow, KnownAccounts
      <3>3. ASSUME NEW u \in User, Signup(v, u) \/ Login(v, u) \/ AcceptInvite(v, u) PROVE FALSE
        BY <1>3, <3>3 DEF Signup, Login, AcceptInvite, Begin, TypeOK
      <3>. QED  BY <2>3, <3>1, <3>2, <3>3 DEF Arrive
    <2>. QED  BY <1>3, <2>1, <2>2, <2>3, Moves
  <1>. QED  BY <1>2, <1>3 DEF KnownAccounts

\* What a resend or a verification swept, and the token it was given, stay
\* what they are while it is alone at work.
LEMMA TokensNext == SeqInv /\ [Next]_vars => TokensNotStale'
  <1>. SUFFICES ASSUME SeqInv, [Next]_vars, NEW v \in Worker, req'[v].user \notin overlap'
                PROVE  /\ pc'[v] \in {"verify_write", "resend_write"}
                              => Pending(req[v].user)' \subseteq req'[v].sweep
                       /\ pc'[v] \in {"verify", "verify_write"}
                              => req'[v].token \in Pending(req[v].user)'
    BY DEF TokensNotStale
  <1>. USE DEF SeqInv, Inv
  <1>0. req'[v].user \notin overlap
    BY OverlapNext
  <1>1. CASE pc'[v] = pc[v] /\ req'[v] = req[v]
    <2>1. CASE pc[v] \in {"verify", "verify_write", "resend_write"}
      <3>1. user[req[v].user].known /\ pc[v] # "idle" /\ req[v].user \notin overlap
        BY <1>0, <1>1, <2>1 DEF KnownAccounts
      <3>2. Pending(req[v].user)' = Pending(req[v].user)
        BY <1>1, <3>1, Undisturbed
      <3>. QED  BY <1>0, <1>1, <3>2 DEF TokensNotStale
    <2>. QED  BY <1>1, <2>1
  <1>2. CASE Sweep(v)
    <2>1. /\ req'[v].user = req[v].user /\ req'[v].token = req[v].token
          /\ req'[v].sweep = Pending(req[v].user)
          /\ token' = token
          /\ pc'[v] = "verify_write" => pc[v] = "verify"
      BY <1>2 DEF Sweep, TypeOK, Request
    <2>2. pc'[v] \in {"verify_write", "resend_write"}
      BY <1>2 DEF Sweep, TypeOK
    <2>. QED  BY <1>0, <2>1, <2>2 DEF TokensNotStale, Pending
  <1>3. CASE Arrive(v)
    <2>1. ASSUME NEW t \in Token, VerifyEmail(v, t)
          PROVE  pc'[v] = "verify" /\ req'[v].token \in Pending(req[v].user)'
      BY <2>1 DEF VerifyEmail, ValidToken, Begin, NoRequest, Pending, TypeOK
    <2>2. ASSUME NEW u \in User,
                 Signup(v, u) \/ ResendVerification(v, u) \/ Login(v, u) \/ AcceptInvite(v, u)
          PROVE  pc'[v] \in {"signup", "resend", "login", "accept"}
      BY <2>2 DEF Signup, ResendVerification, Login, AcceptInvite, Begin, TypeOK
    <2>. QED  BY <1>3, <2>1, <2>2 DEF Arrive
  <1>. QED  BY <1>1, <1>2, <1>3, Moves

\* A commit that leaves a new token swept all the others.
LEMMA OnePendingNext == SeqInv /\ [Next]_vars => OnePendingVerification'
  <1>. SUFFICES ASSUME SeqInv, [Next]_vars, NEW u \in User, u \notin overlap'
                PROVE  \A s, t \in Pending(u)' : s = t
    BY DEF OnePendingVerification
  <1>. USE DEF SeqInv, Inv
  <1>0. u \notin overlap
    BY OverlapNext
  <1>1. ASSUME Pending(u)' \subseteq Pending(u) PROVE \A s, t \in Pending(u)' : s = t
    BY <1>0, <1>1 DEF OnePendingVerification
  <1>2. ASSUME NEW w \in Worker, NEW x \in Token, SignupCommit(w, x)
        PROVE  \A s, t \in Pending(u)' : s = t
    <2>1. CASE u = req[w].user
      <3>1. Pending(u) = {}
        BY <1>2, <2>1 DEF SignupCommit, KnownAccounts, Pending
      <3>2. \A t \in Token : t # x => token'[t] = token[t]
        BY <1>2 DEF SignupCommit, TypeOK
      <3>. QED  BY <3>1, <3>2 DEF Pending
    <2>2. CASE u # req[w].user
      BY <1>1, <1>2, <2>2 DEF SignupCommit, Pending, TypeOK
    <2>. QED  BY <2>1, <2>2
  <1>3. ASSUME NEW w \in Worker, NEW x \in Token, ResendCommit(w, x)
        PROVE  \A s, t \in Pending(u)' : s = t
    <2>1. /\ \A t \in Token : t # x => token'[t] = Swept(w)[t]
          /\ token'[x].user = req[w].user
      BY <1>3, SweptTypes DEF ResendCommit
    <2>2. CASE u = req[w].user
      <3>1. Pending(u) \subseteq req[w].sweep
        BY <1>0, <1>3, <2>2 DEF ResendCommit, TokensNotStale
      <3>2. \A t \in Token : t # x => t \notin Pending(u)'
        BY <2>1, <3>1, SweptTypes DEF Pending
      <3>. QED  BY <3>2 DEF Pending
    <2>3. CASE u # req[w].user
      <3>1. Pending(u)' \subseteq Pending(u)
        BY <2>1, <2>3, SweptTypes DEF Pending
      <3>. QED  BY <1>1, <3>1
    <2>. QED  BY <2>2, <2>3
  <1>4. ASSUME NEW w \in Worker, VerifyCommit(w) PROVE Pending(u)' \subseteq Pending(u)
    BY <1>4, SweptTypes DEF VerifyCommit, Pending
  <1>5. CASE UNCHANGED token
    BY <1>1, <1>5 DEF Pending
  <1>. QED  BY <1>1, <1>2, <1>3, <1>4, <1>5 DEF Next, vars, Step, Arrive, Signup,
                ResendVerification, Login, AcceptInvite, VerifyEmail, Sweep, Fail, Tick,
                LoginDeactivate, AcceptInviteCommit, Register

\* Login deactivates by the row it read; every other commit opens the account.
LEMMA InactiveNext == SeqInv /\ [Next]_vars => InactiveOnlyAfterDeadline'
  <1>. SUFFICES ASSUME SeqInv, [Next]_vars, NEW u \in User, u \notin overlap',
                       user'[u].known \/ user'[u].verified, ~user'[u].active
                PROVE  ~user'[u].verified /\ Expired(user[u])'
    BY DEF InactiveOnlyAfterDeadline, ActiveWithinWindow
  <1>. USE DEF SeqInv, Inv
  <1>0. u \notin overlap
    BY OverlapNext
  <1>1. ASSUME user'[u] = user[u] PROVE ~user'[u].verified /\ Expired(user[u])'
    <2>1. (user[u].known \/ user[u].verified) /\ ~user[u].active
      BY <1>1
    <2>2. ~user[u].verified /\ Expired(user[u])
      BY <1>0, <2>1 DEF InactiveOnlyAfterDeadline, ActiveWithinWindow
    <2>3. now' = now \/ now' = now + 1
      BY DEF Next, vars, Arrive, Step, Signup, ResendVerification, Login, AcceptInvite,
             VerifyEmail, Fail, Register, Tick, SignupCommit, ResendCommit, Sweep,
             VerifyCommit, LoginDeactivate, AcceptInviteCommit
    <2>4. EffectiveDeadline(user[u]) \in Nat
      BY AccountConstants DEF EffectiveDeadline, TypeOK, UserRow, Time
    <2>. QED  BY <1>1, <2>2, <2>3, <2>4, AccountConstants DEF Expired, EffectiveDeadline, TypeOK
  <1>2. ASSUME NEW w \in Worker, LoginDeactivate(w)
        PROVE  ~user'[u].verified /\ Expired(user[u])'
    <2>1. CASE u # req[w].user
      BY <1>1, <1>2, <2>1 DEF LoginDeactivate, TypeOK
    <2>2. CASE u = req[w].user
      <3>1. user[u] = req[w].row
        BY <1>0, <1>2, <2>2 DEF LoginDeactivate, LoginNotStale
      <3>2. /\ user'[u].verified = user[u].verified /\ user'[u].deadline = user[u].deadline
            /\ now' = now
        BY <1>2, <2>2 DEF LoginDeactivate, TypeOK, UserRow
      <3>. QED  BY <1>2, <3>1, <3>2 DEF LoginDeactivate, Expired, EffectiveDeadline
    <2>. QED  BY <2>1, <2>2
  <1>3. ASSUME NEW w \in Worker, NEW t \in Token, SignupCommit(w, t) \/ ResendCommit(w, t)
        PROVE  user'[u] = user[u]
    BY <1>3 DEF SignupCommit, ResendCommit, TypeOK, UserRow
  <1>4. ASSUME NEW w \in Worker, VerifyCommit(w) \/ AcceptInviteCommit(w) PROVE user'[u] = user[u]
    BY <1>4 DEF VerifyCommit, AcceptInviteCommit, Verified, TypeOK
  <1>5. ASSUME NEW x \in User, Register(x) PROVE user'[u] = user[u]
    BY <1>5 DEF Register, Verified, TypeOK
  <1>6. CASE UNCHANGED user
    BY <1>1, <1>6
  <1>. QED  BY <1>1, <1>2, <1>3, <1>4, <1>5, <1>6 DEF Next, vars, Step, Arrive, Signup,
                ResendVerification, Login, AcceptInvite, VerifyEmail, Sweep, Fail, Tick

\* The invariant holds of the first accounts.
LEMMA InitSeqInv == Init => SeqInv
  <1>. SUFFICES ASSUME Init PROVE SeqInv
    OBVIOUS
  <1>1. \A u \in User : user[u] \in {NoUser, Legacy}
    BY DEF Init
  <1>2. InactiveOnlyAfterDeadline
    <2>. SUFFICES ASSUME NEW u \in User
                  PROVE  ~user[u].verified /\ (user[u].known => user[u].active)
      BY <1>1 DEF InactiveOnlyAfterDeadline, ActiveWithinWindow, NoUser, Legacy
    <2>. QED  BY <1>1 DEF NoUser, Legacy
  <1>3. \A t \in Token : token[t].user \notin User
    BY AccountConstants DEF Init, NoToken
  <1>4. OnePendingVerification /\ KnownAccounts
    BY <1>3 DEF OnePendingVerification, KnownAccounts, Pending, Init
  <1>5. OverlapSeen /\ LoginNotStale /\ TokensNotStale
    BY DEF OverlapSeen, LoginNotStale, TokensNotStale, Init
  <1>. QED  BY InitInv, <1>2, <1>4, <1>5 DEF SeqInv

\* It is inductive.
LEMMA NextSeqInv == SeqInv /\ [Next]_vars => SeqInv'
  BY NextType, RequestsNext, WindowNext, OverlapNext, KnownNext, LoginNext, TokensNext,
     OnePendingNext, InactiveNext DEF SeqInv, Inv

\* Unless requests for it overlap, an account is closed by login only after
\* its window, and verification or a resend opens it for good.
THEOREM InactiveOnlyAfterDeadlineHolds == Spec => []InactiveOnlyAfterDeadline
  <1>1. SeqInv => InactiveOnlyAfterDeadline
    BY DEF SeqInv
  <1>. QED  BY <1>1, InitSeqInv, NextSeqInv, PTL DEF Spec

\* Unless requests for it overlap, an account has one usable token at most.
THEOREM OnePendingVerificationHolds == Spec => []OnePendingVerification
  <1>1. SeqInv => OnePendingVerification
    BY DEF SeqInv
  <1>. QED  BY <1>1, InitSeqInv, NextSeqInv, PTL DEF Spec
=============================================================================
