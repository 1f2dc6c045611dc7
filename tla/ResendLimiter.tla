---------------------------- MODULE ResendLimiter ----------------------------
(***************************************************************************)
(* recordResend: a process remembers, per email and client address, when   *)
(* it let a resend through within the last hour, and lets no more than     *)
(* three through.  The map is guarded by a mutex, so a call is one step;   *)
(* it lives in memory, so a restart forgets it.                            *)
(*                                                                         *)
(* The slice of times of a key is only filtered, counted and appended to,  *)
(* so it is a set.  A hit is the time of a call that was let through; n,   *)
(* how many of its key came before it, tells hits of the same time apart,  *)
(* and life is the number of restarts before it.  granted is history: all  *)
(* hits there ever were.                                                   *)
(***************************************************************************)
EXTENDS Integers, FiniteSets

CONSTANTS
    Key,           \* email "||" client address
    MaxPerWindow,
    Window,
    MaxNow,        \* bound on the clock
    MaxRestarts    \* bound on restarts

ASSUME LimiterConstants ==
    /\ {MaxPerWindow, Window} \subseteq Nat \ {0}
    /\ {MaxNow, MaxRestarts} \subseteq Nat

VARIABLES
    now,
    resendHits,
    granted,
    refused,       \* the key of the call refused last, if the last step refused one
    restarts

vars == <<now, resendHits, granted, refused, restarts>>

--------------------------------------------------------------------------

Life == 0 .. MaxRestarts

Hit == [at : 0 .. MaxNow, life : Life, n : Nat]

NewHit(k) == [at |-> now, life |-> restarts, n |-> Cardinality(granted[k])]

\* now.Sub(ts) < window
Recent_Inclusive(ts) == now - ts <= Window
Recent(ts) == now - ts < Window

Kept(k) == {h \in resendHits[k] : Recent(h.at)}

Grant_OneMore(k) ==
    /\ Cardinality(Kept(k)) <= MaxPerWindow
    /\ resendHits' = [resendHits EXCEPT ![k] = Kept(k) \cup {NewHit(k)}]
    /\ granted' = [granted EXCEPT ![k] = @ \cup {NewHit(k)}]
    /\ refused' = {}
    /\ UNCHANGED <<now, restarts>>

Grant(k) ==
    /\ Cardinality(Kept(k)) < MaxPerWindow
    /\ resendHits' = [resendHits EXCEPT ![k] = Kept(k) \cup {NewHit(k)}]
    /\ granted' = [granted EXCEPT ![k] = @ \cup {NewHit(k)}]
    /\ refused' = {}
    /\ UNCHANGED <<now, restarts>>

Refuse_Counts(k) ==
    /\ Cardinality(Kept(k)) >= MaxPerWindow
    /\ resendHits' = [resendHits EXCEPT ![k] = Kept(k) \cup {NewHit(k)}]
    /\ refused' = {k}
    /\ UNCHANGED <<now, granted, restarts>>

\* A refused call is not recorded, and what is out of date stays in the map.
Refuse(k) ==
    /\ Cardinality(Kept(k)) >= MaxPerWindow
    /\ refused' = {k}
    /\ UNCHANGED <<now, resendHits, granted, restarts>>

Restart ==
    /\ restarts < MaxRestarts
    /\ restarts' = restarts + 1
    /\ resendHits' = [k \in Key |-> {}]
    /\ refused' = {}
    /\ UNCHANGED <<now, granted>>

Tick ==
    /\ now < MaxNow
    /\ now' = now + 1
    /\ refused' = {}
    /\ UNCHANGED <<resendHits, granted, restarts>>

Init ==
    /\ now = 0
    /\ resendHits = [k \in Key |-> {}]
    /\ granted = [k \in Key |-> {}]
    /\ refused = {}
    /\ restarts = 0

Next == Tick \/ Restart \/ \E k \in Key : Grant(k) \/ Refuse(k)

Spec == Init /\ [][Next]_vars

--------------------------------------------------------------------------
(* Properties *)

GrantedIn(k, from, to, lives) == {h \in granted[k] : h.at \in from .. to /\ h.life \in lives}

\* Types, and the bound on what the map keeps of a key.
TypeOK ==
    /\ now \in 0 .. MaxNow
    /\ restarts \in Life
    /\ granted \in [Key -> SUBSET Hit]
    /\ resendHits \in [Key -> SUBSET Hit]
    /\ \A k \in Key : Cardinality(resendHits[k]) <= MaxPerWindow
    /\ refused \subseteq Key

\* No window of an hour, wherever it begins, has more resends of a key than
\* one life of the process allows.
AtMostMaxPerWindow ==
    \A k \in Key, t \in 0 .. MaxNow, life \in Life :
        Cardinality(GrantedIn(k, t, t + Window - 1, {life})) <= MaxPerWindow

\* A resend is refused only when as many as allowed have been let through in
\* the hour that ends now, so a client that waits is served.
RefusedOnlyWhenFull ==
    \A k \in refused : Cardinality(GrantedIn(k, (now + 1) - Window, now, Life)) >= MaxPerWindow
=============================================================================
