------------------------------ MODULE ConnPool ------------------------------
(***************************************************************************)
(* The connections of the process (pkg/infrastructure/db.go opens at most  *)
(* five) and the handlers that share them.  A query made on the repository *)
(* takes a connection and gives it back; a transaction keeps one until it  *)
(* ends.  issueTokensTx runs inside a transaction, but for a membership    *)
(* with a custom role it asks EffectivePermissionKeys, which queries the    *)
(* repository and not the transaction: the handler then waits for a second *)
(* connection while it holds the first.  No query has a deadline.          *)
(***************************************************************************)
EXTENDS Naturals, FiniteSets

CONSTANTS
    Worker,        \* the requests served at a time
    CustomRole,    \* those of members with a custom role
    MaxOpen,       \* SetMaxOpenConns
    MaxReads       \* bound on the queries of a handler before its transaction

ASSUME PoolConstants ==
    /\ IsFiniteSet(Worker)
    /\ CustomRole \subseteq Worker
    /\ MaxOpen \in Nat \ {0}
    /\ MaxReads \in Nat \ {0}

VARIABLES
    held,          \* connections in use: who holds them, and for what
    pc,            \* where each handler is
    reads          \* the queries it still has to make

vars == <<held, pc, reads>>

Free == Cardinality(held) < MaxOpen

Acquire(w, use) ==
    /\ Free
    /\ <<w, use>> \notin held
    /\ held' = held \cup {<<w, use>>}

Goto(w, label) == pc' = [pc EXCEPT ![w] = label]

--------------------------------------------------------------------------
(* A handler *)

\* The list of widgets makes no query before its transaction (n = 0); handlers
\* that issue tokens do.
Arrive(w, n) ==
    /\ pc[w] = "idle"
    /\ w \in CustomRole => n > 0
    /\ Goto(w, IF n = 0 THEN "begin" ELSE "read")
    /\ reads' = [reads EXCEPT ![w] = n]
    /\ UNCHANGED held

StartQuery(w) ==
    /\ pc[w] = "read"
    /\ Acquire(w, "query")
    /\ UNCHANGED <<pc, reads>>

EndQuery_OneMore(w) ==
    /\ pc[w] = "read"
    /\ <<w, "query">> \in held
    /\ held' = held \ {<<w, "query">>}
    /\ reads' = [reads EXCEPT ![w] = @ - 1]
    /\ \/ reads[w] >= 0 /\ UNCHANGED pc
       \/ reads[w] = 1 /\ (Goto(w, "idle") \/ Goto(w, "begin"))

\* After the last query the handler answers, or goes on to a transaction.
EndQuery(w) ==
    /\ pc[w] = "read"
    /\ <<w, "query">> \in held
    /\ held' = held \ {<<w, "query">>}
    /\ reads' = [reads EXCEPT ![w] = @ - 1]
    /\ \/ reads[w] > 1 /\ UNCHANGED pc
       \/ reads[w] = 1 /\ (Goto(w, "idle") \/ Goto(w, "begin"))

BeginTx_PermsFirst(w) ==
    /\ pc[w] = "begin"
    /\ Acquire(w, "tx")
    /\ Goto(w, "perms")
    /\ UNCHANGED reads

\* Only tokens of a membership with a custom role need the second connection.
BeginTx(w) ==
    /\ pc[w] = "begin"
    /\ Acquire(w, "tx")
    /\ \/ w \in CustomRole /\ Goto(w, "perms")
       \/ Goto(w, "write")
    /\ UNCHANGED reads

StartPerms(w) ==
    /\ pc[w] = "perms"
    /\ Acquire(w, "perms")
    /\ UNCHANGED <<pc, reads>>

\* The list of keys, or an error that rolls the transaction back.
EndPerms(w) ==
    /\ pc[w] = "perms"
    /\ <<w, "perms">> \in held
    /\ \/ held' = held \ {<<w, "perms">>} /\ Goto(w, "write")
       \/ held' = held \ {<<w, "perms">>, <<w, "tx">>} /\ Goto(w, "idle")
    /\ UNCHANGED reads

EndTx_KeepsConn(w) ==
    /\ pc[w] = "write"
    /\ Goto(w, "idle")
    /\ UNCHANGED <<held, reads>>

\* The rest of the transaction, then COMMIT or ROLLBACK.
EndTx(w) ==
    /\ pc[w] = "write"
    /\ held' = held \ {<<w, "tx">>}
    /\ Goto(w, "idle")
    /\ UNCHANGED reads

--------------------------------------------------------------------------
(* Specification *)

Init ==
    /\ held = {}
    /\ pc = [w \in Worker |-> "idle"]
    /\ reads = [w \in Worker |-> 0]

Wait(w) == StartQuery(w) \/ BeginTx(w) \/ StartPerms(w)
Run(w)  == EndQuery(w) \/ EndPerms(w) \/ EndTx(w)

Next == \E w \in Worker : Wait(w) \/ Run(w) \/ \E n \in 0 .. MaxReads : Arrive(w, n)

Spec == Init /\ [][Next]_vars

\* The database answers, and a connection that keeps becoming free reaches
\* every waiter (database/sql serves one of them at random).
FairSpec == Spec /\ \A w \in Worker : WF_vars(Run(w)) /\ SF_vars(Wait(w))

--------------------------------------------------------------------------
(* Properties *)

\* Types of the pool and of the handlers' positions.
TypeOK ==
    /\ held \subseteq Worker \X {"query", "tx", "perms"}
    /\ pc \in [Worker -> {"idle", "read", "begin", "perms", "write"}]
    /\ reads \in [Worker -> 0 .. MaxReads]

\* A connection is in use exactly as long as the handler needs it: none is
\* kept by a handler that has answered, and a transaction keeps its own.
ConnectionsAccountedFor ==
    \A w \in Worker :
        /\ <<w, "query">> \in held => pc[w] = "read"
        /\ <<w, "tx">> \in held <=> pc[w] \in {"perms", "write"}
        /\ <<w, "perms">> \in held => pc[w] = "perms"

Starving(w) == pc[w] = "perms" /\ <<w, "perms">> \notin held

\* The pool is never wholly held by transactions that each wait for another
\* connection of it.
NotStuck == Free \/ \E c \in held : ~Starving(c[1])

\* Every request is answered.
RequestsFinish == \A w \in Worker : pc[w] # "idle" ~> pc[w] = "idle"
=============================================================================
