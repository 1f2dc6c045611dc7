------------------------------ MODULE Widgets ------------------------------
(***************************************************************************)
(* GET /api/widgets on the connections of ConnPool.  A list is one         *)
(* transaction (tenancy.WithTenant): it sets app.current_tenant_id on its  *)
(* connection, counts the widgets of the tenant and finds one page.  Row   *)
(* level security shows a statement the rows of the tenant its connection  *)
(* is set to.  The isolation is READ COMMITTED: each statement sees what   *)
(* is committed when it runs.  The process itself writes no widgets; they  *)
(* are inserted from outside.                                              *)
(***************************************************************************)
EXTENDS ConnPool, Pagination, Sequences

CONSTANTS
    Conn,          \* the connections, MaxOpen of them
    Lister,        \* the requests that list widgets
    Tenant,
    Asked(_),      \* what the clients of a lister ask for: [tenant, page, limit]
    MaxRows,       \* bound on the widgets
    None

ASSUME WidgetConstants ==
    /\ IsFiniteSet(Conn) /\ Cardinality(Conn) = MaxOpen
    /\ Lister \subseteq Worker \ CustomRole
    /\ None \notin Tenant
    /\ \A w \in Lister : Asked(w) \subseteq [tenant : Tenant, page : Nat, limit : Nat]

VARIABLES
    conn,          \* the connection behind each use in held
    setting,       \* app.current_tenant_id of each connection
    table,         \* widgets in order of creation: the tenant of each
    list,          \* where each lister is in its transaction, and whose token asked
    found          \* its other locals: what was asked for and what was found

wvars == <<held, pc, reads, conn, setting, table, list, found>>

Tx(w) == <<w, "tx">>

\* A new use of the pool gets a connection that nobody else uses.
Dispatch ==
    /\ conn' \in [held' -> Conn]
    /\ \A u \in held \cap held' : conn'[u] = conn[u]
    /\ \A u, v \in held' : conn'[u] = conn'[v] => u = v

--------------------------------------------------------------------------
(* A list *)

NoList == [step |-> "none", tenant |-> None]
NoPage == [p |-> BuildPagination(0, 0), total |-> 0, items |-> <<>>, stale |-> FALSE]

\* The permission comes from the token; the JWT middleware makes no query.
List(w, ask) ==
    /\ Arrive(w, 0)
    /\ list' = [list EXCEPT ![w] = [step |-> "set", tenant |-> ask.tenant]]
    /\ found' = [found EXCEPT ![w].p = BuildPagination(ask.page, ask.limit)]
    /\ UNCHANGED <<conn, setting, table>>

SetTenant(w) ==
    /\ pc[w] = "write" /\ list[w].step = "set"
    /\ setting' = [setting EXCEPT ![conn[Tx(w)]] = list[w].tenant]
    /\ list' = [list EXCEPT ![w].step = "count"]
    /\ UNCHANGED <<vars, conn, table, found>>

\* The rows a statement of w sees, by row level security and by dbscope.
RowVisible(w, i) == table[i] = setting[conn[Tx(w)]] /\ table[i] = list[w].tenant

\* Newest first.
Visible(w) ==
    LET n == Len(table)
        newest == [i \in 1 .. n |-> n + 1 - i]
    IN  SelectSeq(newest, LAMBDA i : RowVisible(w, i))

Count(w) ==
    /\ pc[w] = "write" /\ list[w].step = "count"
    /\ list' = [list EXCEPT ![w].step = "find"]
    /\ found' = [found EXCEPT ![w].total = Len(Visible(w))]
    /\ UNCHANGED <<vars, conn, setting, table>>

Page(s, p) == SubSeq(s, SqlOffset(p) + 1,
                     IF SqlOffset(p) + p.limit < Len(s) THEN SqlOffset(p) + p.limit
                                                        ELSE Len(s))

Find(w) ==
    /\ pc[w] = "write" /\ list[w].step = "find"
    /\ list' = [list EXCEPT ![w].step = "done"]
    /\ found' = [found EXCEPT ![w].items = Page(Visible(w), found[w].p)]
    /\ UNCHANGED <<vars, conn, setting, table>>

\* COMMIT, or ROLLBACK after a statement that failed.
EndList_SettingStays(w) ==
    /\ EndTx(w)
    /\ Dispatch
    /\ list' = [list EXCEPT ![w] = NoList]
    /\ found' = [found EXCEPT ![w] = NoPage]
    /\ UNCHANGED <<setting, table>>

\* The setting is local to the transaction.
EndList(w) ==
    /\ EndTx(w)
    /\ Dispatch
    /\ setting' = [setting EXCEPT ![conn[Tx(w)]] = None]
    /\ list' = [list EXCEPT ![w] = NoList]
    /\ found' = [found EXCEPT ![w] = NoPage]
    /\ UNCHANGED table

--------------------------------------------------------------------------
(* The rest *)

\* Somebody else's transaction commits a widget.
InsertWidget(t) ==
    /\ Len(table) < MaxRows
    /\ table' = Append(table, t)
    /\ found' = [w \in Lister |-> [found[w] EXCEPT
                    !.stale = @ \/ (list[w].tenant = t /\ list[w].step = "find")]]
    /\ UNCHANGED <<vars, conn, setting, list>>

Init_W ==
    /\ Init
    /\ conn = <<>>
    /\ setting = [c \in Conn |-> None]
    /\ table = <<>>
    /\ list = [w \in Lister |-> NoList]
    /\ found = [w \in Lister |-> NoPage]

WaitFor(w) == Wait(w) /\ Dispatch /\ UNCHANGED <<setting, table, list, found>>

RunOther(w) == /\ w \notin Lister
               /\ Run(w)
               /\ Dispatch
               /\ UNCHANGED <<setting, table, list, found>>

RunList(w) == SetTenant(w) \/ Count(w) \/ Find(w) \/ EndList(w)

Step(w) == RunOther(w) \/ (w \in Lister /\ RunList(w))

Next_W ==
    \/ \E w \in Worker : WaitFor(w) \/ Step(w)
    \/ \E w \in Worker \ Lister, n \in 1 .. MaxReads :
           Arrive(w, n) /\ UNCHANGED <<conn, setting, table, list, found>>
    \/ \E w \in Lister : \E ask \in Asked(w) : List(w, ask)
    \/ \E t \in Tenant : InsertWidget(t)

Spec_W == Init_W /\ [][Next_W]_wvars

\* As in ConnPool: statements are answered, waiters are reached.
FairSpec_W == Spec_W /\ \A w \in Worker : WF_wvars(Step(w)) /\ SF_wvars(WaitFor(w))

--------------------------------------------------------------------------
(* Properties *)

\* Types of the connections' settings, the table and the listers' locals.
TypeOK_W ==
    /\ TypeOK
    /\ conn \in [held -> Conn]
    /\ setting \in [Conn -> Tenant \cup {None}]
    /\ table \in Seq(Tenant)
    /\ list \in [Lister -> [step : {"none", "set", "count", "find", "done"},
                            tenant : Tenant \cup {None}]]
    /\ DOMAIN found = Lister

\* A connection is set to a tenant exactly while it runs the statements of a
\* list for that tenant: nothing is left on it for the next request.
SettingEndsWithTransaction ==
    \A c \in Conn : setting[c] # None =>
        \E w \in Lister :
            /\ Tx(w) \in held /\ conn[Tx(w)] = c
            /\ list[w].step # "set"
            /\ list[w].tenant = setting[c]

\* The rows of tenant t that have k newer ones of t, k in ks.
Ranked(t, ks) ==
    {i \in DOMAIN table :
        /\ table[i] = t
        /\ Cardinality({j \in DOMAIN table : j > i /\ table[j] = t}) \in ks}

\* If no widget of the tenant came in between the count and the page, the
\* answer is consistent: the total is the number of the tenant's widgets, the
\* page holds those whose rank it covers, newest first, and has_next says
\* whether older ones remain - for every page whose end fits an int.
PageIsRight ==
    [][\A w \in Lister :
         LET t == list[w].tenant  r == found'[w]
             from == (r.p.page - 1) * r.p.limit  to == r.p.page * r.p.limit
         IN  list[w].step = "find" /\ list'[w].step = "done" /\ ~r.stale /\ to <= IntMax =>
                /\ r.total = Cardinality(Ranked(t, Nat))
                /\ {r.items[k] : k \in DOMAIN r.items} = Ranked(t, from .. to - 1)
                /\ \A k \in 2 .. Len(r.items) : r.items[k] < r.items[k - 1]
                /\ HasNext(r.total, r.p) <=> Ranked(t, to .. MaxRows) # {}
                /\ r.items # <<>> => r.p.page <= TotalPages(r.total, r.p)
      ]_wvars
=============================================================================
