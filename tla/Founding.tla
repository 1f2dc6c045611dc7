------------------------------ MODULE Founding ------------------------------
(***************************************************************************)
(* How names of tenants and of custom roles become unique slugs, and how   *)
(* the accounts that found a tenant come to be: Register,                  *)
(* CreateTenantWithPickToken, CreateRole, DeleteRole and the admin seed,   *)
(* statement by statement.  Transactions are READ COMMITTED: a count sees  *)
(* the rows that are committed, and an insert into a unique index waits    *)
(* for the transaction that has inserted the same key, then fails if that  *)
(* one has committed.  A name is the sequence of its words, the runs of    *)
(* letters and digits that slugify joins with dashes, so the suffix "-2"   *)
(* is one more word, and lengths are counted in words.                     *)
(***************************************************************************)
EXTENDS Integers, Sequences

CONSTANTS
    Worker,        \* processes and requests that may run at a time
    Email,
    AdminEmail,    \* ADMIN_EMAIL, or Nil when it is not set
    Name,          \* the names that requests carry
    Tenants,       \* the scope of the slugs of tenants; roles have the slug of a tenant
    TenantTries, RoleTries,
    TenantWidth, RoleWidth,
    Nil

ASSUME FoundingConstants ==
    /\ TenantTries \in Nat \ {0} /\ RoleTries \in Nat \ {0}
    /\ TenantWidth \in Nat \ {0} /\ RoleWidth \in Nat \ {0}
    /\ AdminEmail \in Email \cup {Nil}
    /\ Nil \notin Email

VARIABLES
    users,         \* table users: the role of each email, Nil if it has no account
    member,        \* emails with a membership
    rows,          \* tables tenants and tenant_roles, without what is deleted
    pc, req, answer,
    raced          \* history: whose candidate was committed by another since their count

fvars == <<users, member, rows, pc, req, answer, raced>>

--------------------------------------------------------------------------
(* Slugs *)

slugify(name, default) == IF name = <<>> THEN <<default>> ELSE name

Candidate(base, i) == IF i = 0 THEN base ELSE Append(base, i)

Tries(scope) == IF scope = Tenants THEN TenantTries ELSE RoleTries
Width(scope) == IF scope = Tenants THEN TenantWidth ELSE RoleWidth

Slug(r) == Candidate(r.base, r.n)

Taken(scope) == {Slug(r) : r \in {x \in rows : x.scope = scope}}

Platform == <<"platform">>

SmallerTaken(scope, base, n) == \A i \in 0 .. n - 1 : Candidate(base, i) \in Taken(scope)

--------------------------------------------------------------------------
(* What uncommitted transactions have inserted *)

Founds(w) == req[w].kind \in {"register", "seed"}   \* inserts an account too

HoldsEmail(w, e) == pc[w] \in {"row", "commit"} /\ Founds(w) /\ req[w].email = e

NobodyHolds(e) == \A v \in Worker : ~HoldsEmail(v, e)

SameSlug(v, w) == req[v].scope = req[w].scope /\ Slug(req[v]) = Slug(req[w])

HoldsSlug_FromCount(v, w) == v # w /\ pc[v] \in {"user", "row", "commit"} /\ SameSlug(v, w)

HoldsSlug(v, w) == pc[v] = "commit" /\ SameSlug(v, w)

--------------------------------------------------------------------------
(* Requests *)

Request_FromOne(kind, e, scope, base) == [kind |-> kind, email |-> e, scope |-> scope, base |-> base, n |-> 1]

Request(kind, e, scope, base) == [kind |-> kind, email |-> e, scope |-> scope, base |-> base, n |-> 0]

Receive(w, r, label, code) ==
    /\ pc[w] = "idle"
    /\ pc' = [pc EXCEPT ![w] = label]
    /\ req' = [req EXCEPT ![w] = r]
    /\ answer' = [answer EXCEPT ![w] = code]
    /\ raced' = raced \ {w}
    /\ UNCHANGED <<users, member, rows>>

Register(w, e, name) ==
    LET r == Request("register", e, Tenants, slugify(name, "tenant")) IN
    IF users[e] = Nil THEN Receive(w, r, "count", Nil) ELSE Receive(w, r, "idle", "email_taken")

\* A pick token is the result of a login.
CreateTenant(w, e, name) ==
    LET r == Request("tenant", e, Tenants, slugify(name, "tenant")) IN
    /\ users[e] # Nil
    /\ IF e \notin member THEN Receive(w, r, "count", Nil) ELSE Receive(w, r, "idle", "forbidden")

CreateRole(w, e, tenant, name) ==
    /\ tenant \in Taken(Tenants)
    /\ Receive(w, Request("role", e, tenant, slugify(name, "role")), "count", Nil)

\* The soft delete frees the slug: the unique index is partial.
DeleteRole(r) ==
    /\ r \in rows /\ r.scope # Tenants
    /\ rows' = rows \ {r}
    /\ UNCHANGED <<users, member, pc, req, answer, raced>>

\* AdminSeed.Setup, when a process starts.
Seed(w) ==
    LET r == Request("seed", AdminEmail, Tenants, Platform) IN
    /\ AdminEmail # Nil
    /\ IF users[AdminEmail] = Nil THEN Receive(w, r, "user", Nil) ELSE Receive(w, r, "idle", "exists")

--------------------------------------------------------------------------
(* The statements of their transactions *)

Goto(w, label) == pc' = [pc EXCEPT ![w] = label] /\ UNCHANGED answer

Return(w, code) ==
    /\ pc' = [pc EXCEPT ![w] = "idle"]
    /\ answer' = [answer EXCEPT ![w] = code]

CountFree_Unchecked(w) ==
    /\ pc[w] = "count"
    /\ Goto(w, IF Founds(w) THEN "user" ELSE "row")
    /\ UNCHANGED <<users, member, rows, req, raced>>

CountFree(w) ==
    /\ pc[w] = "count"
    /\ Slug(req[w]) \notin Taken(req[w].scope)
    /\ Goto(w, IF Founds(w) THEN "user" ELSE "row")
    /\ UNCHANGED <<users, member, rows, req, raced>>

CountTaken(w) ==
    /\ pc[w] = "count"
    /\ Slug(req[w]) \in Taken(req[w].scope)
    /\ IF req[w].n + 1 < Tries(req[w].scope)
       THEN req' = [req EXCEPT ![w].n = @ + 1] /\ UNCHANGED <<pc, answer>>
       ELSE Return(w, "exhausted") /\ UNCHANGED req
    /\ UNCHANGED <<users, member, rows, raced>>

InsertUser_Committed(w) ==
    /\ pc[w] = "user"
    /\ NobodyHolds(req[w].email)
    /\ IF users[req[w].email] = Nil
       THEN /\ Goto(w, "row")
            /\ users' = [users EXCEPT ![req[w].email] = IF req[w].kind = "seed" THEN "system_manager" ELSE "user"]
       ELSE Return(w, "email_conflict") /\ UNCHANGED users
    /\ UNCHANGED <<member, rows, req, raced>>

InsertUser(w) ==
    /\ pc[w] = "user"
    /\ NobodyHolds(req[w].email)
    /\ IF users[req[w].email] = Nil THEN Goto(w, "row") ELSE Return(w, "email_conflict")
    /\ UNCHANGED <<users, member, rows, req, raced>>

InsertTooLong(w) ==
    /\ pc[w] = "row"
    /\ Len(Slug(req[w])) > Width(req[w].scope)
    /\ Return(w, "too_long")
    /\ UNCHANGED <<users, member, rows, req, raced>>

InsertRow(w) ==
    /\ pc[w] = "row"
    /\ Len(Slug(req[w])) <= Width(req[w].scope)
    /\ \A v \in Worker : ~HoldsSlug(v, w)
    /\ IF Slug(req[w]) \notin Taken(req[w].scope) THEN Goto(w, "commit") ELSE Return(w, "slug_conflict")
    /\ UNCHANGED <<users, member, rows, req, raced>>

\* With the membership, the update of the user and the tokens.
Commit(w) ==
    LET r == req[w] IN
    /\ pc[w] = "commit"
    /\ Return(w, "ok")
    /\ rows' = rows \cup {[scope |-> r.scope, base |-> r.base, n |-> r.n, by |-> r.email]}
    /\ users' = IF Founds(w)
                THEN [users EXCEPT ![r.email] = IF r.kind = "seed" THEN "system_manager" ELSE "user"]
                ELSE users
    /\ member' = IF r.kind = "role" THEN member ELSE member \cup {r.email}
    /\ raced' = raced \cup {v \in Worker \ {w} : pc[v] \in {"user", "row"} /\ SameSlug(v, w)}
    /\ UNCHANGED req

\* The statement fails or the process stops: all is rolled back.
Abort(w) ==
    /\ pc[w] # "idle"
    /\ Return(w, "error")
    /\ UNCHANGED <<users, member, rows, req, raced>>

--------------------------------------------------------------------------
(* Accounts and memberships of other handlers *)

\* Signup; with joins, AcceptInvite for an email without account.
Enrol(e, joins) ==
    /\ users[e] = Nil /\ NobodyHolds(e)
    /\ users' = [users EXCEPT ![e] = "user"]
    /\ member' = IF joins THEN member \cup {e} ELSE member
    /\ UNCHANGED <<rows, pc, req, answer, raced>>

\* AcceptInvite of an account.
Join(e) ==
    /\ users[e] # Nil
    /\ member' = member \cup {e}
    /\ UNCHANGED <<users, rows, pc, req, answer, raced>>

--------------------------------------------------------------------------

Statement(w) ==
    \/ CountFree(w) \/ CountTaken(w) \/ InsertUser(w)
    \/ InsertTooLong(w) \/ InsertRow(w) \/ Commit(w)

Arrive(w) ==
    \/ \E e \in Email, name \in Name : Register(w, e, name) \/ CreateTenant(w, e, name)
    \/ \E e \in Email, tenant \in Taken(Tenants), name \in Name : CreateRole(w, e, tenant, name)
    \/ Seed(w)

Init_F ==
    /\ users = [e \in Email |-> Nil]
    /\ member = {}
    /\ rows = {}
    /\ pc = [w \in Worker |-> "idle"]
    /\ req = [w \in Worker |-> Request("none", Nil, Nil, Platform)]
    /\ answer = [w \in Worker |-> Nil]
    /\ raced = {}

Next_F ==
    \/ \E w \in Worker : Arrive(w) \/ Statement(w) \/ Abort(w)
    \/ \E r \in rows : DeleteRole(r)
    \/ \E e \in Email : Join(e) \/ \E joins \in BOOLEAN : Enrol(e, joins)

Spec_F == Init_F /\ [][Next_F]_fvars

--------------------------------------------------------------------------
(* Types *)

Base == (Name \ {<<>>}) \cup {Platform, <<"tenant">>, <<"role">>}

TenantSlug == {Candidate(b, i) : b \in Base, i \in 0 .. TenantTries - 1}

Kind == {"none", "register", "tenant", "role", "seed"}

RequestType == [kind : Kind, email : Email \cup {Nil}, scope : {Tenants, Nil} \cup TenantSlug,
                base : Base, n : Nat]

RowType == [scope : {Tenants} \cup TenantSlug, base : Base, n : Nat, by : Email]

Answer == {"ok", "error", "email_taken", "forbidden", "exists",
           "exhausted", "email_conflict", "too_long", "slug_conflict"}

UserRole == {"user", "system_manager"}

ASSUME ScopesDiffer == Tenants # Nil /\ {Tenants, Nil} \cap TenantSlug = {}

ASSUME NilDiffers == Nil \notin Answer \cup UserRole

\* Every table, position and local of a request has its type, and no name is
\* tried with a number above the last try.
TypeOK ==
    /\ users \in [Email -> UserRole \cup {Nil}]
    /\ member \subseteq Email
    /\ rows \subseteq RowType
    /\ pc \in [Worker -> {"idle", "count", "user", "row", "commit"}]
    /\ req \in [Worker -> RequestType]
    /\ \A w \in Worker : req[w].n < Tries(req[w].scope)
    /\ \A r \in rows : r.n < Tries(r.scope)
    /\ raced \subseteq Worker
    /\ answer \in [Worker -> Answer \cup {Nil}]

--------------------------------------------------------------------------
(* Properties *)

Justified(w) ==
    /\ answer[w] = "slug_conflict" =>
           IF req[w].kind = "seed" THEN Platform \in Taken(Tenants) ELSE w \in raced
    /\ answer[w] \in {"email_conflict", "email_taken", "exists"} => users[req[w].email] # Nil
    /\ answer[w] = "exhausted" /\ req[w].scope = Tenants =>
           SmallerTaken(Tenants, req[w].base, TenantTries)

\* A request that finds its slug or its email taken when it inserts was
\* overtaken by another one; the seed fails so only when someone has founded
\* a tenant "platform".  A tenant is refused for want of a slug only when all
\* that may be tried are taken.
RefusalsJustified == \A w \in Worker : Justified(w)

\* The numbers of tenants with the same name have no gaps: whoever overlaps
\* or rolls back, "acme-2" exists only beside "acme" and "acme-1".
NumbersInOrder ==
    \A r \in rows : r.scope = Tenants => SmallerTaken(Tenants, r.base, r.n)

ManagerIsSeeded(e) ==
    /\ e = AdminEmail /\ e \in member
    /\ [scope |-> Tenants, base |-> Platform, n |-> 0, by |-> e] \in rows

SeedIsOver(w) == req[w].kind = "seed" /\ answer[w] \notin {Nil, "error"}

PlatformOfOther == \E r \in rows : r.scope = Tenants /\ Slug(r) = Platform /\ r.by # AdminEmail

\* Only the seed makes a system manager, of ADMIN_EMAIL and with the tenant
\* "platform".  When Setup is over without an error of the database, the email
\* has an account, unless somebody else has taken the slug before.
SeedOutcome ==
    /\ \A e \in Email : users[e] = "system_manager" => ManagerIsSeeded(e)
    /\ \A w \in Worker : SeedIsOver(w) => users[AdminEmail] # Nil \/ PlatformOfOther
=============================================================================
