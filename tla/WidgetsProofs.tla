---------------------------- MODULE WidgetsProofs ----------------------------
(* Theorems about ConnPool and about Widgets, which implements it, for any  *)
(* number of requests, connections, tenants and widgets; and about pages at *)
(* any width of an int.                                                     *)
EXTENDS Widgets, FiniteSetTheorems, TLAPS

--------------------------------------------------------------------------
(* The pool *)

\* Only a handler that serves a custom role waits for a second connection.
OnlyCustomNeedsTwo == \A w \in Worker : pc[w] = "perms" => w \in CustomRole

Inv == TypeOK /\ ConnectionsAccountedFor /\ OnlyCustomNeedsTwo

\* A handler that starts to read has at least one query to make.
LEMMA ReadsTyped ==
    ASSUME TypeOK, NEW w \in Worker, pc[w] = "read", EndQuery(w)
    PROVE  reads[w] - 1 \in 0 .. MaxReads
  BY PoolConstants DEF TypeOK, EndQuery

\* The process starts with no connection in use and no handler at work.
LEMMA InitInv == Init => Inv
  BY PoolConstants DEF Init, Inv, TypeOK, ConnectionsAccountedFor, OnlyCustomNeedsTwo

\* Every step of a handler keeps the accounts of the pool.
LEMMA NextInv == Inv /\ [Next]_vars => Inv'
  <1>. SUFFICES ASSUME Inv, [Next]_vars PROVE Inv'
    OBVIOUS
  <1>. USE DEF Inv, TypeOK, ConnectionsAccountedFor, OnlyCustomNeedsTwo
  <1>1. ASSUME NEW w \in Worker, NEW n \in 0 .. MaxReads, Arrive(w, n) PROVE Inv'
    BY <1>1, PoolConstants DEF Arrive, Goto
  <1>2. ASSUME NEW w \in Worker, StartQuery(w) PROVE Inv'
    BY <1>2 DEF StartQuery, Acquire
  <1>3. ASSUME NEW w \in Worker, EndQuery(w) PROVE Inv'
    BY <1>3, ReadsTyped DEF EndQuery, Goto
  <1>4. ASSUME NEW w \in Worker, BeginTx(w) PROVE Inv'
    BY <1>4 DEF BeginTx, Acquire, Goto
  <1>5. ASSUME NEW w \in Worker, StartPerms(w) PROVE Inv'
    BY <1>5 DEF StartPerms, Acquire
  <1>6. ASSUME NEW w \in Worker, EndPerms(w) PROVE Inv'
    BY <1>6 DEF EndPerms, Goto
  <1>7. ASSUME NEW w \in Worker, EndTx(w) PROVE Inv'
    BY <1>7 DEF EndTx, Goto
  <1>8. CASE UNCHANGED vars
    BY <1>8 DEF vars
  <1>. QED  BY <1>1, <1>2, <1>3, <1>4, <1>5, <1>6, <1>7, <1>8 DEF Next, Wait, Run

\* The inductive invariant holds throughout.
THEOREM InvHolds == Spec => []Inv
  BY InitInv, NextInv, PTL DEF Spec

\* The state stays in its types.
THEOREM TypeCorrect == Spec => []TypeOK
  <1>1. Inv => TypeOK
    BY DEF Inv
  <1>. QED  BY <1>1, InvHolds, PTL

\* No handler leaks a connection or lets one go too early.
THEOREM AccountsHold == Spec => []ConnectionsAccountedFor
  <1>1. Inv => ConnectionsAccountedFor
    BY DEF Inv
  <1>. QED  BY <1>1, InvHolds, PTL

\* A starving handler holds the connection of its transaction and no other.
LEMMA StarvingHoldsOne ==
    ASSUME Inv, NEW c \in held, Starving(c[1])
    PROVE  c = <<c[1], "tx">> /\ c[1] \in CustomRole
  <1>1. c \in Worker \X {"query", "tx", "perms"}
    BY DEF Inv, TypeOK
  <1>2. PICK w \in Worker, use \in {"query", "tx", "perms"} : c = <<w, use>>
    BY <1>1
  <1>3. pc[w] = "perms" /\ <<w, "perms">> \notin held
    BY <1>2 DEF Starving
  <1>4. use = "tx"
    BY <1>2, <1>3 DEF Inv, ConnectionsAccountedFor
  <1>. QED  BY <1>2, <1>3, <1>4 DEF Inv, OnlyCustomNeedsTwo

\* With fewer requests of members with a custom role than connections, some
\* connection always comes free again.
LEMMA FewCustomNotStuck ==
    ASSUME Cardinality(CustomRole) < MaxOpen, Inv
    PROVE  NotStuck
  <1>. SUFFICES ASSUME \A c \in held : Starving(c[1]) PROVE Free
    BY DEF NotStuck
  <1>. DEFINE f == [c \in held |-> c[1]]
  <1>1. f \in Injection(held, CustomRole)
    <2>1. f \in [held -> CustomRole]
      BY StarvingHoldsOne
    <2>2. ASSUME NEW c \in held, NEW d \in held, f[c] = f[d] PROVE c = d
      BY <2>2, StarvingHoldsOne
    <2>3. DOMAIN f = held
      BY <2>1
    <2>. HIDE DEF f
    <2>. QED  BY <2>1, <2>2, <2>3 DEF Injection, IsInjective
  <1>2. IsFiniteSet(CustomRole)
    BY FS_Subset, PoolConstants
  <1>3. IsFiniteSet(held) /\ Cardinality(held) <= Cardinality(CustomRole)
    BY ONLY <1>1, <1>2, FS_Injection
  <1>4. Cardinality(held) \in Nat /\ Cardinality(CustomRole) \in Nat
    BY <1>2, <1>3, FS_CardinalityType
  <1>. QED  BY <1>3, <1>4, PoolConstants DEF Free

\* The pool does not lock up if fewer requests of members with a custom role
\* are served at a time than the pool has connections.
THEOREM NotStuckHolds ==
    ASSUME Cardinality(CustomRole) < MaxOpen
    PROVE  Spec => []NotStuck
  <1>1. Inv => NotStuck
    BY FewCustomNotStuck
  <1>. QED  BY <1>1, InvHolds, PTL

--------------------------------------------------------------------------
(* Lists of widgets *)

\* A use has one connection and a connection one use.
OneUse == \A u, v \in held : conn[u] = conn[v] => u = v

\* Where the transaction of a lister is, by its place in the handler.
ListsInOrder ==
    \A w \in Lister :
        /\ pc[w] \in {"idle", "begin", "write"}
        /\ pc[w] = "idle" => list[w].step = "none"
        /\ pc[w] = "begin" => list[w].step = "set"
        /\ pc[w] = "write" => list[w].step # "none"

Inv_W == Inv /\ TypeOK_W /\ OneUse /\ ListsInOrder /\ SettingEndsWithTransaction

--------------------------------------------------------------------------
(* A list is a request of ConnPool *)

\* The statements of a list change nothing in ConnPool.
LEMMA StepImplements == ASSUME Next_W PROVE [Next]_vars
  <1>1. ASSUME NEW w \in Worker, WaitFor(w) \/ Step(w) PROVE [Next]_vars
    <2>1. Wait(w) \/ Run(w) \/ UNCHANGED vars
      BY <1>1 DEF WaitFor, Step, RunOther, RunList, SetTenant, Count, Find, EndList, Run
    <2>. QED  BY <2>1 DEF Next
  <1>2. ASSUME NEW w \in Worker \ Lister, NEW n \in 1 .. MaxReads, Arrive(w, n) PROVE Next
    BY <1>2 DEF Next
  <1>3. ASSUME NEW w \in Lister, NEW ask \in Asked(w), List(w, ask) PROVE Next
    <2>1. Arrive(w, 0) /\ 0 \in 0 .. MaxReads /\ w \in Worker
      BY <1>3, WidgetConstants, PoolConstants DEF List
    <2>. QED  BY <2>1 DEF Next
  <1>4. ASSUME NEW t \in Tenant, InsertWidget(t) PROVE UNCHANGED vars
    BY <1>4 DEF InsertWidget
  <1>. QED  BY <1>1, <1>2, <1>3, <1>4 DEF Next_W

\* Widgets implements ConnPool, so what is proved of the pool holds with lists.
THEOREM ImplementsConnPool == Spec_W => Spec
  <1>1. Init_W => Init
    BY DEF Init_W
  <1>2. [Next_W]_wvars => [Next]_vars
    BY StepImplements DEF wvars, vars
  <1>. QED  BY <1>1, <1>2, PTL DEF Spec_W, Spec

--------------------------------------------------------------------------
(* The settings of the connections *)

\* No connection is in use and none is set.
LEMMA InitInv_W == Init_W => Inv_W
  <1>. SUFFICES ASSUME Init_W PROVE Inv_W
    OBVIOUS
  <1>1. Inv
    BY InitInv DEF Init_W
  <1>2. TypeOK_W
    BY <1>1 DEF Init_W, Init, TypeOK_W, Inv, NoList
  <1>. QED  BY <1>1, <1>2, WidgetConstants DEF Inv_W, OneUse, ListsInOrder, SettingEndsWithTransaction,
                Init_W, Init, NoList

\* Dispatch keeps the accounts of the connections.
LEMMA DispatchKeeps ==
    ASSUME Dispatch
    PROVE  (conn \in [held -> Conn])' /\ OneUse'
  BY DEF Dispatch, OneUse

\* A step after which nothing is newly set, and every lister that had set its
\* connection still has it, keeps the property.
LEMMA SettingKept ==
    ASSUME SettingEndsWithTransaction, setting' = setting, list' = list,
           \A w \in Lister : Tx(w) \in held => Tx(w) \in held' /\ conn'[Tx(w)] = conn[Tx(w)]
    PROVE  SettingEndsWithTransaction'
  BY DEF SettingEndsWithTransaction

\* A request that waits gets its connection.
LEMMA WaitKeeps ==
    ASSUME Inv_W, NEW w \in Worker, WaitFor(w)
    PROVE  Inv_W'
  <1>. USE DEF Inv_W, TypeOK_W
  <1>1. Inv' /\ (conn \in [held -> Conn])' /\ OneUse'
    BY DispatchKeeps, NextInv DEF WaitFor, Next
  <1>2. held \subseteq held' /\ \A u \in held : conn'[u] = conn[u]
    BY DEF WaitFor, Dispatch, Wait, StartQuery, BeginTx, StartPerms, Acquire
  <1>3. SettingEndsWithTransaction'
    BY <1>2, SettingKept DEF WaitFor
  <1>4. ListsInOrder'
    <2>1. /\ \A v \in Worker : v # w => pc'[v] = pc[v]
          /\ w \in Lister => pc'[w] = pc[w] \/ (pc[w] = "begin" /\ pc'[w] = "write")
      BY WidgetConstants
         DEF WaitFor, Wait, StartQuery, BeginTx, StartPerms, Goto, Inv, TypeOK
    <2>. QED  BY <2>1, WidgetConstants DEF ListsInOrder, WaitFor
  <1>. QED  BY <1>1, <1>3, <1>4 DEF WaitFor, Inv

\* A request that is no list does not touch the listers' connections.
LEMMA OtherKeeps ==
    ASSUME Inv_W, NEW w \in Worker, RunOther(w)
    PROVE  Inv_W'
  <1>. USE DEF Inv_W, TypeOK_W
  <1>1. Inv' /\ (conn \in [held -> Conn])' /\ OneUse'
    BY DispatchKeeps, NextInv DEF RunOther, Next
  <1>2. \A v \in Lister : Tx(v) \in held => Tx(v) \in held' /\ conn'[Tx(v)] = conn[Tx(v)]
    <2>1. ASSUME NEW v \in Lister, Tx(v) \in held PROVE Tx(v) \in held'
      <3>1. v # w
        BY DEF RunOther
      <3>. QED  BY <2>1, <3>1 DEF RunOther, Run, EndQuery, EndPerms, EndTx, Tx
    <2>. QED  BY <2>1 DEF RunOther, Dispatch
  <1>3. SettingEndsWithTransaction'
    BY <1>2, SettingKept DEF RunOther
  <1>4. ListsInOrder'
    <2>1. \A v \in Worker : v # w => pc'[v] = pc[v]
      BY DEF RunOther, Run, EndQuery, EndPerms, EndTx, Goto, Inv, TypeOK
    <2>. QED  BY <2>1, WidgetConstants DEF ListsInOrder, RunOther
  <1>. QED  BY <1>1, <1>3, <1>4 DEF RunOther, Inv

\* The statements of a list: the first sets the connection of its transaction.
LEMMA StatementKeeps ==
    ASSUME Inv_W, NEW w \in Lister, SetTenant(w) \/ Count(w) \/ Find(w)
    PROVE  Inv_W'
  <1>. USE DEF Inv_W, TypeOK_W
  <1>0. /\ UNCHANGED <<held, pc, reads, conn, table>>
        /\ w \in Worker /\ pc[w] = "write"
        /\ DOMAIN found' = Lister
    BY WidgetConstants DEF SetTenant, Count, Find, vars
  <1>1. Inv' /\ OneUse'
    BY <1>0 DEF Inv, TypeOK, ConnectionsAccountedFor, OnlyCustomNeedsTwo, OneUse
  <1>2. /\ list' \in [Lister -> [step : {"none", "set", "count", "find", "done"},
                                 tenant : Tenant \cup {None}]]
        /\ \A v \in Lister : v # w => list'[v] = list[v]
        /\ list'[w].tenant = list[w].tenant
        /\ list'[w].step \in {"count", "find", "done"}
    BY DEF SetTenant, Count, Find
  <1>3. ListsInOrder'
    BY <1>0, <1>2 DEF ListsInOrder
  <1>4. Tx(w) \in held /\ conn[Tx(w)] \in Conn
    BY <1>0 DEF Inv, ConnectionsAccountedFor, Tx
  <1>5. setting' \in [Conn -> Tenant \cup {None}]
    BY <1>4 DEF SetTenant, Count, Find
  <1>6. SettingEndsWithTransaction'
    <2>. SUFFICES ASSUME NEW c \in Conn, setting'[c] # None
                  PROVE  \E v \in Lister : /\ Tx(v) \in held /\ conn[Tx(v)] = c
                                           /\ list'[v].step # "set"
                                           /\ list'[v].tenant = setting'[c]
      BY <1>0 DEF SettingEndsWithTransaction
    <2>1. CASE SetTenant(w) /\ c = conn[Tx(w)]
      BY <1>2, <1>4, <2>1 DEF SetTenant
    <2>2. CASE ~(SetTenant(w) /\ c = conn[Tx(w)])
      <3>1. setting'[c] = setting[c]
        BY <2>2, <1>4 DEF SetTenant, Count, Find
      <3>2. PICK v \in Lister : /\ Tx(v) \in held /\ conn[Tx(v)] = c
                                /\ list[v].step # "set" /\ list[v].tenant = setting[c]
        BY <3>1 DEF SettingEndsWithTransaction
      <3>. QED  BY <1>2, <3>1, <3>2
    <2>. QED  BY <2>1, <2>2
  <1>. QED  BY <1>0, <1>1, <1>2, <1>3, <1>5, <1>6 DEF Inv

\* The end of a list unsets the connection that it gives back.
LEMMA EndKeeps ==
    ASSUME Inv_W, NEW w \in Lister, EndList(w)
    PROVE  Inv_W'
  <1>. USE DEF Inv_W, TypeOK_W
  <1>0. w \in Worker /\ pc[w] = "write"
    BY WidgetConstants DEF EndList, EndTx
  <1>1. Inv' /\ (conn \in [held -> Conn])' /\ OneUse'
    BY <1>0, DispatchKeeps, NextInv DEF EndList, Next, Run
  <1>2. Tx(w) \in held /\ conn[Tx(w)] \in Conn
    BY <1>0 DEF Inv, ConnectionsAccountedFor, Tx
  <1>3. setting' \in [Conn -> Tenant \cup {None}] /\ DOMAIN found' = Lister
    BY <1>2 DEF EndList
  <1>4. /\ list' \in [Lister -> [step : {"none", "set", "count", "find", "done"},
                                 tenant : Tenant \cup {None}]]
        /\ list'[w].step = "none"
        /\ \A v \in Lister : v # w => list'[v] = list[v]
    BY DEF EndList, NoList
  <1>5. ListsInOrder'
    <2>1. pc'[w] = "idle" /\ \A v \in Worker : v # w => pc'[v] = pc[v]
      BY <1>0 DEF EndList, EndTx, Goto, Inv, TypeOK
    <2>. QED  BY <1>4, <2>1, WidgetConstants DEF ListsInOrder
  <1>6. SettingEndsWithTransaction'
    <2>. SUFFICES ASSUME NEW c \in Conn, setting'[c] # None
                  PROVE  \E v \in Lister : /\ Tx(v) \in held' /\ conn'[Tx(v)] = c
                                           /\ list'[v].step # "set"
                                           /\ list'[v].tenant = setting'[c]
      BY DEF SettingEndsWithTransaction
    <2>1. c # conn[Tx(w)] /\ setting'[c] = setting[c]
      BY <1>2 DEF EndList
    <2>2. PICK v \in Lister : /\ Tx(v) \in held /\ conn[Tx(v)] = c
                              /\ list[v].step # "set" /\ list[v].tenant = setting[c]
      BY <2>1 DEF SettingEndsWithTransaction
    <2>3. v # w
      BY <2>1, <2>2
    <2>4. Tx(v) \in held'
      BY <2>2, <2>3 DEF EndList, EndTx, Tx
    <2>. QED  BY <1>4, <2>1, <2>2, <2>3, <2>4 DEF EndList, Dispatch
  <1>. QED  BY <1>1, <1>3, <1>4, <1>5, <1>6 DEF EndList, Inv

\* A request that arrives holds no connection yet.
LEMMA ArriveKeeps ==
    ASSUME Inv_W, NEW w \in Worker, NEW n \in 0 .. MaxReads, Arrive(w, n),
           UNCHANGED <<conn, setting, table>>,
           \/ w \notin Lister /\ UNCHANGED <<list, found>>
           \/ w \in Lister /\ n = 0 /\ \E ask \in Asked(w) : List(w, ask)
    PROVE  Inv_W'
  <1>. USE DEF Inv_W, TypeOK_W
  <1>0. held' = held /\ pc[w] = "idle" /\ Inv'
    BY NextInv DEF Arrive, Next
  <1>1. (conn \in [held -> Conn])' /\ OneUse'
    BY <1>0 DEF OneUse
  <1>2. Tx(w) \notin held
    BY <1>0 DEF Inv, ConnectionsAccountedFor, Tx
  <1>3. /\ list' \in [Lister -> [step : {"none", "set", "count", "find", "done"},
                                 tenant : Tenant \cup {None}]]
        /\ DOMAIN found' = Lister
        /\ \A v \in Lister : v # w => list'[v] = list[v]
        /\ w \in Lister => list'[w].step = "set"
    BY WidgetConstants DEF List
  <1>4. ListsInOrder'
    <2>1. /\ \A v \in Worker : v # w => pc'[v] = pc[v]
          /\ w \in Lister => pc'[w] = "begin"
      BY DEF Arrive, Goto, Inv, TypeOK
    <2>. QED  BY <1>3, <2>1, WidgetConstants DEF ListsInOrder
  <1>5. SettingEndsWithTransaction'
    <2>. SUFFICES ASSUME NEW c \in Conn, setting[c] # None
                  PROVE  \E v \in Lister : /\ Tx(v) \in held /\ conn[Tx(v)] = c
                                           /\ list'[v].step # "set"
                                           /\ list'[v].tenant = setting[c]
      BY <1>0 DEF SettingEndsWithTransaction
    <2>1. PICK v \in Lister : /\ Tx(v) \in held /\ conn[Tx(v)] = c
                              /\ list[v].step # "set" /\ list[v].tenant = setting[c]
      BY DEF SettingEndsWithTransaction
    <2>. QED  BY <1>2, <1>3, <2>1
  <1>. QED  BY <1>0, <1>1, <1>3, <1>4, <1>5 DEF Inv

\* A widget from outside touches no connection.
LEMMA InsertKeeps ==
    ASSUME Inv_W, NEW t \in Tenant, InsertWidget(t)
    PROVE  Inv_W'
  <1>. USE DEF Inv_W, TypeOK_W
  <1>1. Inv'
    BY DEF InsertWidget, vars, Inv, TypeOK, ConnectionsAccountedFor, OnlyCustomNeedsTwo
  <1>2. UNCHANGED <<held, pc, conn, setting, list>> /\ table' \in Seq(Tenant) /\ DOMAIN found' = Lister
    BY DEF InsertWidget, vars
  <1>. QED  BY <1>1, <1>2 DEF OneUse, ListsInOrder, SettingEndsWithTransaction, Inv

\* Every step keeps the invariant.
LEMMA NextInv_W == Inv_W /\ [Next_W]_wvars => Inv_W'
  <1>. SUFFICES ASSUME Inv_W, [Next_W]_wvars PROVE Inv_W'
    OBVIOUS
  <1>1. ASSUME NEW w \in Worker, Step(w) PROVE Inv_W'
    BY <1>1, OtherKeeps, StatementKeeps, EndKeeps DEF Step, RunList
  <1>2. ASSUME NEW w \in Worker \ Lister, NEW n \in 1 .. MaxReads, Arrive(w, n),
               UNCHANGED <<conn, setting, table, list, found>>
        PROVE  Inv_W'
    <2>1. n \in 0 .. MaxReads
      BY PoolConstants
    <2>. QED  BY <1>2, <2>1, ArriveKeeps
  <1>3. ASSUME NEW w \in Lister, NEW ask \in Asked(w), List(w, ask) PROVE Inv_W'
    <2>1. w \in Worker /\ 0 \in 0 .. MaxReads
      BY WidgetConstants, PoolConstants
    <2>2. Arrive(w, 0) /\ UNCHANGED <<conn, setting, table>>
      BY <1>3 DEF List
    <2>. QED  BY <1>3, <2>1, <2>2, ArriveKeeps
  <1>4. CASE UNCHANGED wvars
    BY <1>4 DEF wvars, Inv_W, TypeOK_W, Inv, TypeOK, ConnectionsAccountedFor, OnlyCustomNeedsTwo,
           OneUse, ListsInOrder, SettingEndsWithTransaction
  <1>. QED  BY <1>1, <1>2, <1>3, <1>4, WaitKeeps, InsertKeeps DEF Next_W

\* The state of lists and connections stays in its types.
THEOREM TypeCorrect_W == Spec_W => []TypeOK_W
  <1>1. Inv_W => TypeOK_W
    BY DEF Inv_W
  <1>. QED  BY <1>1, InitInv_W, NextInv_W, PTL DEF Spec_W

\* Whatever requests share the pool, no connection is given back, or taken by
\* another request, with the tenant of a list still set on it.
THEOREM SettingEndsHolds == Spec_W => []SettingEndsWithTransaction
  <1>1. Inv_W => SettingEndsWithTransaction
    BY DEF Inv_W
  <1>. QED  BY <1>1, InitInv_W, NextInv_W, PTL DEF Spec_W

--------------------------------------------------------------------------
(* Pages *)

\* A product of natural numbers grows with its factors.
LEMMA ProductGrows ==
    ASSUME NEW a \in Nat, NEW b \in Nat, NEW l \in Nat, a <= b
    PROVE  a * l \in Nat /\ b * l \in Nat /\ a * l <= b * l
<1>1. PICK d \in Nat : b = a + d
  <2>1. b - a \in Nat /\ b = a + (b - a)
    OBVIOUS
  <2> QED BY <2>1
<1>2. b * l = a * l + d * l
  BY <1>1
<1>3. a * l \in Nat /\ d * l \in Nat
  BY <1>1
<1> QED BY <1>2, <1>3

\* The quotient of the division that rounds up.
LEMMA RoundedUp ==
    ASSUME NEW n \in Nat, NEW l \in Nat \ {0}, NEW k \in Nat
    PROVE  k < (n + l - 1) \div l <=> k * l < n
<1> DEFINE a == n + l - 1
           q == a \div l
           r == a % l
<1>1. a \in Nat /\ q \in Nat /\ r \in 0 .. l - 1 /\ a = l * q + r
  OBVIOUS
<1>2. l * q = q * l
  BY <1>1
<1> HIDE DEF q, r
<1>3. ASSUME k < q PROVE k * l < n
  <2>1. (k + 1) * l <= q * l /\ (k + 1) * l = k * l + l
    BY <1>1, <1>3, ProductGrows
  <2>2. k * l \in Nat /\ q * l \in Nat
    BY <1>1
  <2> QED BY <1>1, <1>2, <2>1, <2>2
<1>4. ASSUME q <= k PROVE n <= k * l
  <2>1. q * l <= k * l /\ k * l \in Nat /\ q * l \in Nat
    BY <1>1, <1>4, ProductGrows
  <2> QED BY <1>1, <1>2, <2>1
<1>5. k * l \in Nat
  OBVIOUS
<1> QED BY <1>1, <1>3, <1>4, <1>5 DEF q

\* An int that fits is itself.
LEMMA WrapFits ==
    ASSUME NEW n \in 0 .. IntMax
    PROVE  Wrap(n) = n
<1>1. (n + IntMax + 1) % (2 * (IntMax + 1)) = n + IntMax + 1
  BY PaginationConstants
<1> QED BY <1>1, PaginationConstants DEF Wrap

\* Whatever a client sends as page and limit: the page is positive and the limit
\* at most the maximum, and if the end of the page fits an int, the query skips
\* just the pages before, has_next tells whether there is a page after it, and
\* the page starts before the end of the table just when it is one of the pages.
THEOREM PagesFit ==
    ASSUME NEW page \in Int, NEW limit \in Int, NEW total \in Nat
    PROVE  LET p == BuildPagination(page, limit) IN
           /\ p.page \in 1 .. IntMax /\ p.limit \in 1 .. MaxPageSize
           /\ p.page * p.limit <= IntMax =>
                 /\ SqlOffset(p) = (p.page - 1) * p.limit
                 /\ HasNext(total, p) <=> p.page < TotalPages(total, p)
                 /\ SqlOffset(p) < total <=> p.page <= TotalPages(total, p)
<1> DEFINE p == BuildPagination(page, limit)
<1>1. p.page \in 1 .. IntMax /\ p.limit \in 1 .. MaxPageSize /\ p.offset = Wrap((p.page - 1) * p.limit)
  BY PaginationConstants DEF BuildPagination, Param, Capped, DefaultPage
<1> HIDE DEF p
<1>2. ASSUME p.page * p.limit <= IntMax
      PROVE  /\ SqlOffset(p) = (p.page - 1) * p.limit
             /\ HasNext(total, p) <=> p.page < TotalPages(total, p)
             /\ SqlOffset(p) < total <=> p.page <= TotalPages(total, p)
  <2> DEFINE k == p.page
             l == p.limit
  <2>1. k \in Nat /\ k - 1 \in Nat /\ l \in Nat \ {0}
    BY <1>1, PaginationConstants
  <2>2. k * l \in 0 .. IntMax /\ (k - 1) * l \in 0 .. IntMax
    <3>1. (k - 1) * l \in Nat /\ k * l \in Nat /\ (k - 1) * l <= k * l
      BY <2>1, ProductGrows
    <3> QED BY <1>2, <3>1, PaginationConstants
  <2>3. Wrap(k * l) = k * l /\ Wrap((k - 1) * l) = (k - 1) * l
    BY <2>2, WrapFits
  <2>4. SqlOffset(p) = (k - 1) * l
    BY <1>1, <2>2, <2>3 DEF SqlOffset
  <2>5. HasNext(total, p) <=> k * l < total
    BY <2>3 DEF HasNext
  <2>6. /\ k < TotalPages(total, p) <=> k * l < total
        /\ k - 1 < TotalPages(total, p) <=> (k - 1) * l < total
    BY <2>1, RoundedUp DEF TotalPages
  <2>7. TotalPages(total, p) \in Int
    BY <2>1 DEF TotalPages
  <2> QED BY <2>1, <2>4, <2>5, <2>6, <2>7
<1> QED BY <1>1, <1>2 DEF p
=============================================================================
