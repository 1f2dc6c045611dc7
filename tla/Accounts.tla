------------------------------ MODULE Accounts ------------------------------
(***************************************************************************)
(* How an account comes to be, is verified and is deactivated: Signup,     *)
(* VerifyEmail, ResendVerification, the deactivation in Login, Register    *)
(* and the part of AcceptInvite that concerns the account.  Handlers read  *)
(* a row, work on the copy and write some columns back.  A transaction     *)
(* runs at READ COMMITTED: its UPDATE of the pending tokens changes the    *)
(* tokens that were committed when it ran (sweep), and everything is seen  *)
(* by others when it commits.  The deadline of an account is computed      *)
(* before the transaction and the expiry of its token inside.              *)
(***************************************************************************)
EXTENDS Naturals

CONSTANTS
    User,          \* emails
    Token,         \* verification tokens a handler can draw
    Worker,
    TTL,           \* EMAIL_VERIFICATION_TTL_MINUTES
    MaxNow,        \* bound on the clock
    Nil

ASSUME AccountConstants ==
    /\ TTL \in Nat \ {0}
    /\ MaxNow \in Nat
    /\ Nil \notin User \cup Token \cup Nat

VARIABLES
    now,
    user,          \* table users
    token,         \* table email_verification_tokens
    pc, req,       \* where each worker is in its handler, and its locals
    overlap        \* history: accounts that two handlers worked on at a time

vars == <<now, user, token, pc, req, overlap>>

--------------------------------------------------------------------------
(* Types and helpers *)

Time == 0 .. MaxNow + TTL

UserRow  == [known : BOOLEAN, active : BOOLEAN, verified : BOOLEAN, deadline : Time \cup {Nil}]
TokenRow == [user : User \cup {Nil}, used : BOOLEAN, expires : Time]
Request  == [user : User \cup {Nil}, row : UserRow, token : Token \cup {Nil},
             deadline : Time \cup {Nil}, sweep : SUBSET Token]

NoUser    == [known |-> FALSE, active |-> FALSE, verified |-> FALSE, deadline |-> Nil]
Verified  == [known |-> TRUE, active |-> TRUE, verified |-> TRUE, deadline |-> Nil]
Legacy    == [known |-> TRUE, active |-> TRUE, verified |-> FALSE, deadline |-> Nil]
NoToken   == [user |-> Nil, used |-> FALSE, expires |-> 0]
NoRequest == [user |-> Nil, row |-> NoUser, token |-> Nil, deadline |-> Nil, sweep |-> {}]

Pending(u) == {t \in Token : token[t].user = u /\ ~token[t].used}

\* FindValidEmailVerificationByHash.
ValidToken(t) == token[t].user # Nil /\ ~token[t].used /\ token[t].expires > now

\* Only rows older than the column have no deadline; they were created at
\* time 0 or before.
EffectiveDeadline(row) == IF row.deadline # Nil THEN row.deadline ELSE TTL

Expired(row) == now > EffectiveDeadline(row)

--------------------------------------------------------------------------
(* Steps every handler is made of *)

AtWorkOn(u) == \E v \in Worker : pc[v] # "idle" /\ req[v].user = u

Begin(w, label, r) ==
    /\ pc[w] = "idle"
    /\ pc' = [pc EXCEPT ![w] = label]
    /\ req' = [req EXCEPT ![w] = r]
    /\ overlap' = IF AtWorkOn(r.user) THEN overlap \cup {r.user} ELSE overlap

Return(w) ==
    /\ pc' = [pc EXCEPT ![w] = "idle"]
    /\ req' = [req EXCEPT ![w] = NoRequest]
    /\ UNCHANGED overlap

\* An early return, an error that rolls back, or the end of the process.
Fail(w) ==
    /\ pc[w] # "idle"
    /\ Return(w)
    /\ UNCHANGED <<now, user, token>>

\* The tokens with which the transaction of w leaves those it swept.
Swept_Nothing(w) == token

Swept(w) == [t \in Token |-> [token[t] EXCEPT !.used = @ \/ t \in req[w].sweep]]

--------------------------------------------------------------------------
(* Signup and Register *)

Signup(w, u) ==
    /\ ~user[u].known
    /\ Begin(w, "signup", [NoRequest EXCEPT !.user = u, !.deadline = now + TTL])
    /\ UNCHANGED <<now, user, token>>

\* uni_users_email refuses a second account.
SignupCommit(w, t) ==
    LET u == req[w].user IN
    /\ pc[w] = "signup"
    /\ ~user[u].known
    /\ token[t] = NoToken
    /\ user' = [user EXCEPT ![u] = [known |-> TRUE, active |-> TRUE, verified |-> FALSE,
                                    deadline |-> req[w].deadline]]
    /\ token' = [token EXCEPT ![t] = [user |-> u, used |-> FALSE, expires |-> now + TTL]]
    /\ Return(w)
    /\ UNCHANGED now

Register(u) ==
    /\ ~user[u].known
    /\ user' = [user EXCEPT ![u] = Verified]
    /\ UNCHANGED <<now, token, pc, req, overlap>>

--------------------------------------------------------------------------
(* VerifyEmail and ResendVerification *)

VerifyEmail(w, t) ==
    /\ ValidToken(t)
    /\ Begin(w, "verify", [NoRequest EXCEPT !.user = token[t].user, !.token = t])
    /\ UNCHANGED <<now, user, token>>

\* A verified account is answered and left alone.
ResendVerification(w, u) ==
    /\ user[u].known
    /\ ~user[u].verified
    /\ Begin(w, "resend", [NoRequest EXCEPT !.user = u, !.deadline = now + TTL])
    /\ UNCHANGED <<now, user, token>>

\* InvalidatePendingEmailVerifications, the first statement of both.
Sweep(w) ==
    /\ \/ pc[w] = "verify" /\ pc' = [pc EXCEPT ![w] = "verify_write"]
       \/ pc[w] = "resend" /\ pc' = [pc EXCEPT ![w] = "resend_write"]
    /\ req' = [req EXCEPT ![w].sweep = Pending(req[w].user)]
    /\ UNCHANGED <<now, user, token, overlap>>

VerifyCommit_KeepsUnverified(w) ==
    /\ pc[w] = "verify_write"
    /\ user' = [user EXCEPT ![req[w].user].active = TRUE]
    /\ token' = Swept(w)
    /\ Return(w)
    /\ UNCHANGED now

VerifyCommit(w) ==
    /\ pc[w] = "verify_write"
    /\ user' = [user EXCEPT ![req[w].user] = Verified]
    /\ token' = Swept(w)
    /\ Return(w)
    /\ UNCHANGED now

\* The new token, then three columns of the account, whatever it has become.
ResendCommit(w, t) ==
    LET u == req[w].user IN
    /\ pc[w] = "resend_write"
    /\ token[t] = NoToken
    /\ token' = [Swept(w) EXCEPT ![t] = [user |-> u, used |-> FALSE, expires |-> now + TTL]]
    /\ user' = [user EXCEPT ![u].active = TRUE, ![u].deadline = req[w].deadline]
    /\ Return(w)
    /\ UNCHANGED now

--------------------------------------------------------------------------
(* Login, as far as it changes the account, and AcceptInvite *)

\* The row is read; the password is compared before the row is looked at.
Login(w, u) ==
    /\ user[u].known
    /\ Begin(w, "login", [NoRequest EXCEPT !.user = u, !.row = user[u]])
    /\ UNCHANGED <<now, user, token>>

LoginDeactivate_Always(w) ==
    /\ pc[w] = "login"
    /\ ~req[w].row.verified /\ req[w].row.active
    /\ user' = [user EXCEPT ![req[w].user].active = FALSE]
    /\ Return(w)
    /\ UNCHANGED <<now, token>>

\* Outside a transaction, on the strength of the row that was read.
LoginDeactivate(w) ==
    /\ pc[w] = "login"
    /\ ~req[w].row.verified /\ req[w].row.active
    /\ Expired(req[w].row)
    /\ user' = [user EXCEPT ![req[w].user].active = FALSE]
    /\ Return(w)
    /\ UNCHANGED <<now, token>>

\* The email of a valid invitation; known records whether there is an account.
AcceptInvite(w, u) ==
    /\ Begin(w, "accept", [NoRequest EXCEPT !.user = u, !.row = user[u]])
    /\ UNCHANGED <<now, user, token>>

\* A new account, which uni_users_email may refuse, or the verified columns of
\* the old one.  Its verification tokens stay as they are.
AcceptInviteCommit(w) ==
    /\ pc[w] = "accept"
    /\ user[req[w].user].known <=> req[w].row.known
    /\ user' = [user EXCEPT ![req[w].user] = Verified]
    /\ Return(w)
    /\ UNCHANGED <<now, token>>

--------------------------------------------------------------------------
(* Specification *)

Tick ==
    /\ now < MaxNow
    /\ now' = now + 1
    /\ UNCHANGED <<user, token, pc, req, overlap>>

\* No account, or one from before the migration that added the deadline.
Init ==
    /\ now = 0
    /\ user \in [User -> {NoUser, Legacy}]
    /\ token = [t \in Token |-> NoToken]
    /\ pc = [w \in Worker |-> "idle"]
    /\ req = [w \in Worker |-> NoRequest]
    /\ overlap = {}

Arrive(w) ==
    \/ \E u \in User : Signup(w, u) \/ ResendVerification(w, u) \/ Login(w, u) \/ AcceptInvite(w, u)
    \/ \E t \in Token : VerifyEmail(w, t)

Step(w) ==
    \/ \E t \in Token : SignupCommit(w, t) \/ ResendCommit(w, t)
    \/ Sweep(w)
    \/ VerifyCommit(w)
    \/ LoginDeactivate(w)
    \/ AcceptInviteCommit(w)

Next ==
    \/ \E w \in Worker : Arrive(w) \/ Step(w) \/ Fail(w)
    \/ \E u \in User : Register(u)
    \/ Tick

Spec == Init /\ [][Next]_vars

--------------------------------------------------------------------------
(* Properties *)

PC == {"idle", "signup", "verify", "verify_write", "resend", "resend_write", "login", "accept"}

\* Types of the clock, the tables and the handlers' locals.
TypeOK ==
    /\ now \in 0 .. MaxNow
    /\ user \in [User -> UserRow]
    /\ token \in [Token -> TokenRow]
    /\ pc \in [Worker -> PC]
    /\ req \in [Worker -> Request]
    /\ overlap \subseteq User

\* An account that waits for verification has a token it can be verified with
\* to the end of the window in which login asks for it, whatever transactions
\* swept its tokens meanwhile.
TokenOutlivesWindow ==
    \A u \in User :
        user[u].known /\ ~user[u].verified /\ user[u].deadline # Nil
            => \E t \in Pending(u) : token[t].expires >= user[u].deadline

\* Inside the window that signup or the last resend opened, an account that
\* waits for verification is active.
ActiveWithinWindow(u) == user[u].known /\ ~user[u].verified /\ ~Expired(user[u]) => user[u].active

\* If its requests do not overlap, an account is deactivated only while it is
\* unverified and past its deadline; verifying it or extending the deadline
\* opens it again.
InactiveOnlyAfterDeadline ==
    \A u \in User \ overlap : ActiveWithinWindow(u) /\ (user[u].verified => user[u].active)

\* If the requests of an account do not overlap, a new token replaces the
\* pending ones.
OnePendingVerification == \A u \in User \ overlap : \A s, t \in Pending(u) : s = t
=============================================================================
