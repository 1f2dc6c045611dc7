---------------------------- MODULE SessionChains ----------------------------
(***************************************************************************)
(* What domain/auth keeps of the promise of its comments - "Refresh rotates *)
(* refresh token and returns new pair", "Logout revokes a refresh token",   *)
(* "RevokeAllRefreshTokensForUser revokes every active refresh token for    *)
(* the user" - when requests overlap.  A session is a chain of tokens.  A   *)
(* request takes hold of tokens that work, one of them or all of a user,    *)
(* and later ends them, once, whatever others have done to them meanwhile;  *)
(* ending one it may go on with a new token.  So a chain forks only where   *)
(* two requests had hold of its last token at once, and a token that has    *)
(* stopped working never comes back and is never the start of a request.    *)
(***************************************************************************)
CONSTANTS Token, User, Worker, Nil

VARIABLES
    status,      \* "unborn", "live" or "dead"
    holder,      \* the user a token was issued to
    from,        \* the token it was exchanged for
    hold         \* the tokens a request has found live and not yet ended

vars == <<status, holder, from, hold>>

Live == {t \in Token : status[t] = "live"}

Init ==
    /\ status = [t \in Token |-> "unborn"]
    /\ holder = [t \in Token |-> Nil]
    /\ from = [t \in Token |-> Nil]
    /\ hold = [w \in Worker |-> {}]

\* A user signs in.
Open(u, t) ==
    /\ status[t] = "unborn"
    /\ status' = [status EXCEPT ![t] = "live"]
    /\ holder' = [holder EXCEPT ![t] = u]
    /\ UNCHANGED <<from, hold>>

Take(w, tokens) ==
    /\ hold[w] = {}
    /\ hold' = [hold EXCEPT ![w] = tokens]
    /\ UNCHANGED <<status, holder, from>>

TakeOne(w, p) == p \in Live /\ Take(w, {p})

TakeAll(w, u) == Take(w, {t \in Live : holder[t] = u})

\* The held token is exchanged; it dies in the same step.
Rotate(w, p, t) ==
    /\ hold[w] = {p}
    /\ status[t] = "unborn"
    /\ status' = [status EXCEPT ![p] = "dead", ![t] = "live"]
    /\ holder' = [holder EXCEPT ![t] = holder[p]]
    /\ from' = [from EXCEPT ![t] = p]
    /\ hold' = [hold EXCEPT ![w] = {}]

Close(w) ==
    /\ status' = [t \in Token |-> IF t \in hold[w] THEN "dead" ELSE status[t]]
    /\ hold' = [hold EXCEPT ![w] = {}]
    /\ UNCHANGED <<holder, from>>

\* A request fails.
Drop(w) ==
    /\ hold' = [hold EXCEPT ![w] = {}]
    /\ UNCHANGED <<status, holder, from>>

Next ==
    \/ \E u \in User, t \in Token : Open(u, t)
    \/ \E w \in Worker :
        \/ \E p \in Token : TakeOne(w, p)
        \/ \E u \in User : TakeAll(w, u)
        \/ \E p, t \in Token : Rotate(w, p, t)
        \/ Close(w)
        \/ Drop(w)

Spec == Init /\ [][Next]_vars
=============================================================================
