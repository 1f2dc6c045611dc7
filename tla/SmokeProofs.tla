---------------------------- MODULE SmokeProofs ----------------------------
(***************************************************************************)
(* Proofs about Founding and Smoke.  The invariant of Founding says what a *)
(* transaction knows on its way: the slugs below the number it tries are   *)
(* taken, and if its own has been taken since it counted, it was raced.    *)
(* Tenants are never deleted and accounts never go, so both stay true.     *)
(* Every step of Smoke is a step of Founding or leaves its state alone.    *)
(* The second part is about the script: an invariant says what it has      *)
(* kept, who has a session, who can be verified and which passwords are    *)
(* new at each stage, and that the request it waits for is that of its     *)
(* step.  The third part is why it does not fail: nobody else works on an  *)
(* account or a slug of the script, so each step finds the tables as the   *)
(* steps before it have left them.                                         *)
(***************************************************************************)
EXTENDS Smoke, TLAPS

--------------------------------------------------------------------------
(* The inductive invariant *)

\* What the kind of a request says of it.
Shape(w) ==
    /\ req[w].kind = "none" => pc[w] = "idle" /\ answer[w] = Nil
    /\ req[w].kind # "none" => req[w].email \in Email /\ req[w].scope # Nil
    /\ req[w].kind \in {"register", "tenant", "seed"} => req[w].scope = Tenants
    /\ req[w].kind = "tenant" => users[req[w].email] # Nil
    /\ req[w].kind = "seed" =>
           /\ req[w].email = AdminEmail /\ req[w].base = Platform /\ req[w].n = 0
           /\ pc[w] # "count"
    /\ req[w].kind = "role" => req[w].scope # Tenants
    /\ pc[w] = "user" => Founds(w)

\* What a transaction has found out.
Knows(w) ==
    /\ pc[w] # "idle" /\ req[w].scope = Tenants => SmallerTaken(Tenants, req[w].base, req[w].n)
    /\ pc[w] \in {"user", "row"} /\ Slug(req[w]) \in Taken(req[w].scope) /\ req[w].kind # "seed" => w \in raced
    /\ pc[w] # "idle" => answer[w] = Nil

\* What an answer says.
Answers(w) ==
    /\ req[w].kind = "seed" => answer[w] \notin {"email_taken", "forbidden", "exhausted", "too_long"}
    /\ answer[w] = "ok" /\ req[w].kind = "seed" => users[AdminEmail] # Nil

FoundersKnown == \A r \in rows : r.scope = Tenants => users[r.by] # Nil

IInv ==
    /\ TypeOK
    /\ \A w \in Worker : Shape(w) /\ Knows(w) /\ Answers(w)
    /\ FoundersKnown
    /\ RefusalsJustified
    /\ NumbersInOrder
    /\ SeedOutcome

--------------------------------------------------------------------------
(* Slugs *)

\* A slug that exists belongs to a tenant whose number is one of the tries.
LEMMA TakenIsSlug ==
    ASSUME TypeOK, NEW t \in Taken(Tenants)
    PROVE  t \in TenantSlug
<1>1. PICK r \in rows : r.scope = Tenants /\ t = Slug(r)
  BY DEF Taken
<1>2. r.base \in Base /\ r.n \in 0 .. TenantTries - 1
  BY <1>1, FoundingConstants DEF TypeOK, RowType, Tries
<1> QED
  BY <1>1, <1>2 DEF Slug, TenantSlug

\* One more candidate is taken.
LEMMA OneMoreTaken ==
    ASSUME NEW s, NEW b, NEW n \in Nat, SmallerTaken(s, b, n), Candidate(b, n) \in Taken(s)
    PROVE  SmallerTaken(s, b, n + 1)
BY DEF SmallerTaken

\* What is taken of the tenants stays taken when no tenant goes.
LEMMA TakenGrows ==
    ASSUME \A r \in rows : r.scope = Tenants => r \in rows'
    PROVE  /\ Taken(Tenants) \subseteq Taken(Tenants)'
           /\ \A b, n : SmallerTaken(Tenants, b, n) => SmallerTaken(Tenants, b, n)'
<1>1. Taken(Tenants) \subseteq Taken(Tenants)'
  BY DEF Taken, Slug
<1> QED
  BY <1>1 DEF SmallerTaken

LEMMA SameTaken ==
    ASSUME rows' = rows, NEW s
    PROVE  /\ Taken(s)' = Taken(s)
           /\ \A b, n : SmallerTaken(s, b, n)' = SmallerTaken(s, b, n)
<1>1. Taken(s)' = Taken(s)
  BY DEF Taken
<1> QED
  BY <1>1 DEF SmallerTaken

--------------------------------------------------------------------------
(* A step of one request that changes no table *)

\* What others know and were told is as before.
LEMMA LocalStep ==
    ASSUME IInv, NEW w \in Worker, TypeOK',
           UNCHANGED <<users, member, rows>>,
           \A v \in Worker \ {w} : /\ pc'[v] = pc[v] /\ req'[v] = req[v] /\ answer'[v] = answer[v]
                                   /\ v \in raced => v \in raced',
           Shape(w)', Knows(w)', Answers(w)', Justified(w)',
           SeedIsOver(w)' => users[AdminEmail] # Nil \/ Platform \in Taken(Tenants)
    PROVE  IInv'
<1>1. \A s : Taken(s)' = Taken(s) /\ \A b, n : SmallerTaken(s, b, n)' = SmallerTaken(s, b, n)
  BY SameTaken
<1>2. ASSUME NEW v \in Worker, v # w
      PROVE  Shape(v)' /\ Knows(v)' /\ Answers(v)' /\ Justified(v)' /\ (SeedIsOver(v)' = SeedIsOver(v))
  <2>1. Shape(v) /\ Knows(v) /\ Answers(v) /\ Justified(v)
    BY DEF IInv, RefusalsJustified
  <2>2. pc'[v] = pc[v] /\ req'[v] = req[v] /\ answer'[v] = answer[v] /\ (v \in raced => v \in raced')
    BY <1>2
  <2>3. Shape(v)' /\ Answers(v)' /\ (SeedIsOver(v)' = SeedIsOver(v))
    BY <2>1, <2>2 DEF Shape, Answers, SeedIsOver, Founds
  <2>4. Knows(v)' /\ Justified(v)'
    BY <2>1, <2>2, <1>1 DEF Knows, Justified, Slug
  <2> QED BY <2>3, <2>4
<1>3. \A v \in Worker : Shape(v)' /\ Knows(v)' /\ Answers(v)' /\ Justified(v)'
  BY <1>2
<1>4. FoundersKnown' /\ NumbersInOrder'
  BY <1>1 DEF IInv, FoundersKnown, NumbersInOrder
<1>5. \A e \in Email : (users[e] = "system_manager" => ManagerIsSeeded(e))'
  BY DEF IInv, SeedOutcome, ManagerIsSeeded
<1>6. Platform \in Taken(Tenants) => users[AdminEmail] # Nil \/ PlatformOfOther
  BY DEF IInv, FoundersKnown, Taken, PlatformOfOther
<1>7. \A v \in Worker : SeedIsOver(v)' => (users[AdminEmail] # Nil \/ PlatformOfOther)'
  <2>1. (users[AdminEmail] # Nil \/ PlatformOfOther)' = (users[AdminEmail] # Nil \/ PlatformOfOther)
    BY DEF PlatformOfOther
  <2> QED BY <1>2, <1>6, <2>1 DEF IInv, SeedOutcome
<1> QED
  BY <1>3, <1>4, <1>5, <1>7 DEF IInv, RefusalsJustified, SeedOutcome

--------------------------------------------------------------------------
(* Requests arrive *)

\* Slugify gives a base, whatever the name.
LEMMA SlugifyBase ==
    ASSUME NEW name \in Name
    PROVE  slugify(name, "tenant") \in Base /\ slugify(name, "role") \in Base
BY DEF slugify, Base

\* A request that arrives knows nothing yet.
LEMMA ReceiveStep ==
    ASSUME IInv, NEW w \in Worker, NEW kind \in Kind \ {"none"}, NEW e \in Email,
           NEW scope \in {Tenants} \cup TenantSlug, NEW base \in Base,
           NEW label \in {"idle", "count", "user"}, NEW code,
           Receive(w, Request(kind, e, scope, base), label, code),
           kind = "role" <=> scope # Tenants,
           kind = "tenant" => users[e] # Nil,
           kind = "seed" => e = AdminEmail /\ base = Platform /\ label # "count",
           label = "user" => kind = "seed",
           label # "idle" => code = Nil,
           \/ code = Nil
           \/ kind # "seed" /\ code = "forbidden"
           \/ kind # "seed" /\ code = "email_taken" /\ users[e] # Nil
           \/ kind = "seed" /\ code = "exists" /\ users[e] # Nil
    PROVE  IInv'
<1> DEFINE r == Request(kind, e, scope, base)
<1>1. /\ pc[w] = "idle" /\ pc' = [pc EXCEPT ![w] = label]
      /\ req' = [req EXCEPT ![w] = r]
      /\ answer' = [answer EXCEPT ![w] = code]
      /\ raced' = raced \ {w}
      /\ UNCHANGED <<users, member, rows>>
  BY DEF Receive
<1>2. r \in RequestType /\ r.kind = kind /\ r.email = e /\ r.scope = scope /\ r.base = base /\ r.n = 0
  BY DEF Request, RequestType
<1>3. TypeOK
  BY DEF IInv
<1>4. pc'[w] = label /\ req'[w] = r /\ answer'[w] = code
  BY <1>1, <1>3 DEF TypeOK
<1>5. \A v \in Worker \ {w} : pc'[v] = pc[v] /\ req'[v] = req[v] /\ answer'[v] = answer[v]
                             /\ (v \in raced => v \in raced')
  BY <1>1, <1>3 DEF TypeOK
<1>6. TypeOK'
  <2>1. pc' \in [Worker -> {"idle", "count", "user", "row", "commit"}] /\ answer' \in [Worker -> Answer \cup {Nil}]
    BY <1>1, <1>3 DEF TypeOK, Answer
  <2>2. req' \in [Worker -> RequestType]
    BY <1>1, <1>2, <1>3 DEF TypeOK
  <2>3. \A v \in Worker : req'[v].n < Tries(req'[v].scope)
    <3>1. req'[w].n < Tries(req'[w].scope)
      BY <1>2, <1>4, FoundingConstants DEF Tries
    <3> QED BY <3>1, <1>5, <1>3 DEF TypeOK
  <2> QED BY <1>1, <1>3, <2>1, <2>2, <2>3 DEF TypeOK, Tries
<1>7. Shape(w)'
  BY <1>1, <1>2, <1>4, ScopesDiffer DEF Shape, Founds, Kind
<1>8. Knows(w)'
  BY <1>1, <1>2, <1>4 DEF Knows, SmallerTaken
<1>9. Answers(w)' /\ Justified(w)'
  BY <1>1, <1>2, <1>4, NilDiffers DEF Answers, Justified, Answer
<1>10. SeedIsOver(w)' => users[AdminEmail] # Nil \/ Platform \in Taken(Tenants)
  BY <1>1, <1>2, <1>4 DEF SeedIsOver
<1> HIDE DEF r
<1> QED
  BY <1>1, <1>5, <1>6, <1>7, <1>8, <1>9, <1>10, LocalStep

LEMMA ArriveStep ==
    ASSUME IInv, NEW w \in Worker, Arrive(w)
    PROVE  IInv'
<1>1. ASSUME NEW e \in Email, NEW name \in Name, Register(w, e, name) PROVE IInv'
  <2> USE DEF Kind
  <2>1. CASE users[e] = Nil
    BY <1>1, <2>1, ReceiveStep, SlugifyBase DEF Register
  <2>2. CASE users[e] # Nil
    BY <1>1, <2>2, ReceiveStep, SlugifyBase DEF Register
  <2> QED BY <2>1, <2>2
<1>2. ASSUME NEW e \in Email, NEW name \in Name, CreateTenant(w, e, name) PROVE IInv'
  <2> USE DEF Kind
  <2>1. CASE e \notin member
    BY <1>2, <2>1, ReceiveStep, SlugifyBase DEF CreateTenant
  <2>2. CASE e \in member
    BY <1>2, <2>2, ReceiveStep, SlugifyBase DEF CreateTenant
  <2> QED BY <2>1, <2>2
<1>3. ASSUME NEW e \in Email, NEW t \in Taken(Tenants), NEW name \in Name, CreateRole(w, e, t, name) PROVE IInv'
  <2>1. t \in TenantSlug /\ t # Tenants
    BY TakenIsSlug, ScopesDiffer DEF IInv
  <2> QED
    BY <1>3, <2>1, ReceiveStep, SlugifyBase DEF CreateRole, Kind
<1>4. ASSUME Seed(w) PROVE IInv'
  <2>1. AdminEmail \in Email /\ Platform \in Base
    BY <1>4, FoundingConstants DEF Seed, Base
  <2>2. CASE users[AdminEmail] = Nil
    BY <1>4, <2>1, <2>2, ReceiveStep DEF Seed, Kind
  <2>3. CASE users[AdminEmail] # Nil
    BY <1>4, <2>1, <2>3, ReceiveStep DEF Seed, Kind
  <2> QED BY <2>2, <2>3
<1> QED
  BY <1>1, <1>2, <1>3, <1>4 DEF Arrive

--------------------------------------------------------------------------
(* The statements before the commit *)

\* A statement that moves a request or answers it, and changes nothing else.
LEMMA MoveStep ==
    ASSUME IInv, NEW w \in Worker, pc[w] # "idle",
           UNCHANGED <<users, member, rows, req, raced>>,
           NEW label \in {"idle", "user", "row", "commit"}, pc' = [pc EXCEPT ![w] = label],
           NEW code \in Answer \cup {Nil}, answer' = [answer EXCEPT ![w] = code],
           label # "idle" => code = Nil,
           label = "user" => Founds(w),
           /\ label \in {"user", "row"} /\ req[w].kind # "seed" /\ Slug(req[w]) \in Taken(req[w].scope)
              => w \in raced,
           \/ code \in {Nil, "error"}
           \/ code = "email_conflict" /\ users[req[w].email] # Nil
           \/ code = "too_long" /\ req[w].kind # "seed"
           \/ code = "exhausted" /\ req[w].kind # "seed"
              /\ (req[w].scope = Tenants => SmallerTaken(Tenants, req[w].base, TenantTries))
           \/ code = "slug_conflict"
              /\ IF req[w].kind = "seed" THEN Platform \in Taken(Tenants) ELSE w \in raced
    PROVE  IInv'
<1>1. TypeOK /\ Shape(w) /\ Knows(w) /\ Answers(w)
  BY DEF IInv
<1>2. pc'[w] = label /\ req'[w] = req[w] /\ answer'[w] = code
  BY <1>1 DEF TypeOK
<1>3. \A v \in Worker \ {w} : pc'[v] = pc[v] /\ req'[v] = req[v] /\ answer'[v] = answer[v]
                             /\ (v \in raced => v \in raced')
  BY <1>1 DEF TypeOK
<1>4. TypeOK'
  BY <1>1 DEF TypeOK, Tries
<1>5. \A s : Taken(s)' = Taken(s) /\ \A b, n : SmallerTaken(s, b, n)' = SmallerTaken(s, b, n)
  BY SameTaken
<1>6. Shape(w)'
  BY <1>1, <1>2 DEF Shape, Founds
<1>7. Knows(w)'
  BY <1>1, <1>2, <1>5 DEF Knows, Slug
<1>8. Answers(w)'
  BY <1>1, <1>2, <1>6, NilDiffers DEF Answers, Answer, Shape
<1>9. Justified(w)'
  BY <1>1, <1>2, <1>5, NilDiffers DEF Justified, Answer
<1>10. SeedIsOver(w)' => users[AdminEmail] # Nil \/ Platform \in Taken(Tenants)
  BY <1>1, <1>2, NilDiffers DEF SeedIsOver, Shape, Answer
<1> QED
  BY <1>3, <1>4, <1>6, <1>7, <1>8, <1>9, <1>10, LocalStep

LEMMA CountFreeStep ==
    ASSUME IInv, NEW w \in Worker, CountFree(w)
    PROVE  IInv'
<1> DEFINE label == IF Founds(w) THEN "user" ELSE "row"
<1>1. TypeOK /\ Knows(w)
  BY DEF IInv
<1>2. answer' = [answer EXCEPT ![w] = Nil]
  BY <1>1 DEF CountFree, Goto, TypeOK, Knows
<1> QED
  BY <1>2, MoveStep DEF CountFree, Goto

LEMMA CountTakenStep ==
    ASSUME IInv, NEW w \in Worker, CountTaken(w)
    PROVE  IInv'
<1>1. TypeOK /\ Shape(w) /\ Knows(w) /\ Answers(w) /\ Justified(w)
  BY DEF IInv, RefusalsJustified
<1>2. /\ pc[w] = "count" /\ Slug(req[w]) \in Taken(req[w].scope)
      /\ UNCHANGED <<users, member, rows, raced>>
      /\ req[w] \in RequestType /\ req[w].kind # "seed"
  BY <1>1 DEF CountTaken, TypeOK, Shape
<1>3. req[w].scope = Tenants => SmallerTaken(Tenants, req[w].base, req[w].n + 1)
  BY <1>1, <1>2, OneMoreTaken DEF Knows, Slug, RequestType
<1>4. CASE req[w].n + 1 < Tries(req[w].scope)
  <2>1. req' = [req EXCEPT ![w].n = @ + 1] /\ UNCHANGED <<pc, answer>>
    BY <1>4 DEF CountTaken
  <2>2. /\ req'[w].kind = req[w].kind /\ req'[w].email = req[w].email
        /\ req'[w].scope = req[w].scope /\ req'[w].base = req[w].base /\ req'[w].n = req[w].n + 1
        /\ req'[w] \in RequestType
    BY <1>1, <1>2, <2>1 DEF TypeOK, RequestType
  <2>3. \A v \in Worker \ {w} : pc'[v] = pc[v] /\ req'[v] = req[v] /\ answer'[v] = answer[v]
                               /\ (v \in raced => v \in raced')
    BY <1>1, <1>2, <2>1 DEF TypeOK
  <2>4. TypeOK'
    <3>1. req' \in [Worker -> RequestType]
      BY <1>1, <2>1, <2>2 DEF TypeOK
    <3>2. \A v \in Worker : req'[v].n < Tries(req'[v].scope)
      BY <1>1, <1>4, <2>2, <2>3 DEF TypeOK, Tries
    <3> QED BY <1>1, <1>2, <2>1, <3>1, <3>2 DEF TypeOK, Tries
  <2>5. \A b, n : SmallerTaken(Tenants, b, n)' = SmallerTaken(Tenants, b, n)
    BY <1>2, SameTaken
  <2>6. Shape(w)'
    BY <1>1, <1>2, <2>1, <2>2 DEF Shape, Founds
  <2>7. Knows(w)'
    BY <1>1, <1>2, <1>3, <2>1, <2>2, <2>5 DEF Knows
  <2>8. Answers(w)' /\ Justified(w)'
    BY <1>1, <1>2, <2>1, <2>2, <2>5, NilDiffers DEF Answers, Justified, Knows, Answer
  <2>9. ~SeedIsOver(w)'
    BY <1>2, <2>2 DEF SeedIsOver
  <2> QED
    BY <1>2, <2>3, <2>4, <2>6, <2>7, <2>8, <2>9, LocalStep
<1>5. CASE ~(req[w].n + 1 < Tries(req[w].scope))
  <2>1. Return(w, "exhausted") /\ UNCHANGED req
    BY <1>5 DEF CountTaken
  <2>2. req[w].n + 1 = Tries(req[w].scope)
    <3>1. req[w].n \in Nat /\ req[w].n < Tries(req[w].scope)
      BY <1>1, <1>2 DEF TypeOK, RequestType
    <3>2. Tries(req[w].scope) \in Nat
      BY FoundingConstants DEF Tries
    <3> QED BY <1>5, <3>1, <3>2
  <2>3. req[w].scope = Tenants => SmallerTaken(Tenants, req[w].base, TenantTries)
    BY <1>3, <2>2 DEF Tries
  <2> QED
    BY <1>2, <2>1, <2>3, MoveStep DEF Return, Answer
<1> QED
  BY <1>4, <1>5

LEMMA InsertUserStep ==
    ASSUME IInv, NEW w \in Worker, InsertUser(w)
    PROVE  IInv'
<1>1. TypeOK /\ Shape(w) /\ Knows(w)
  BY DEF IInv
<1>2. CASE users[req[w].email] = Nil
  <2>1. answer' = [answer EXCEPT ![w] = Nil]
    BY <1>1, <1>2 DEF InsertUser, Goto, TypeOK, Knows
  <2>2. req[w].kind # "seed" /\ Slug(req[w]) \in Taken(req[w].scope) => w \in raced
    BY <1>1 DEF InsertUser, Knows
  <2> QED
    BY <1>2, <2>1, <2>2, MoveStep DEF InsertUser, Goto
<1>3. CASE users[req[w].email] # Nil
  BY <1>3, MoveStep DEF InsertUser, Return, Answer
<1> QED
  BY <1>2, <1>3

\* The slug of the seed has one word.
LEMMA InsertTooLongStep ==
    ASSUME IInv, NEW w \in Worker, InsertTooLong(w)
    PROVE  IInv'
<1>1. TypeOK /\ Shape(w)
  BY DEF IInv
<1>2. req[w].kind # "seed"
  <2>1. SUFFICES ASSUME req[w].kind = "seed" PROVE FALSE
    OBVIOUS
  <2>2. Slug(req[w]) = Platform /\ Width(req[w].scope) = TenantWidth
    BY <1>1, <2>1 DEF Shape, Slug, Candidate, Width
  <2>3. Len(Platform) = 1
    BY DEF Platform
  <2> QED
    BY <2>2, <2>3, FoundingConstants DEF InsertTooLong
<1> QED
  BY <1>2, MoveStep DEF InsertTooLong, Return, Answer

LEMMA InsertRowStep ==
    ASSUME IInv, NEW w \in Worker, InsertRow(w)
    PROVE  IInv'
<1>1. TypeOK /\ Shape(w) /\ Knows(w)
  BY DEF IInv
<1>2. CASE Slug(req[w]) \notin Taken(req[w].scope)
  <2>1. answer' = [answer EXCEPT ![w] = Nil]
    BY <1>1, <1>2 DEF InsertRow, Goto, TypeOK, Knows
  <2> QED
    BY <1>2, <2>1, MoveStep DEF InsertRow, Goto
<1>3. CASE Slug(req[w]) \in Taken(req[w].scope)
  <2>1. IF req[w].kind = "seed" THEN Platform \in Taken(Tenants) ELSE w \in raced
    BY <1>1, <1>3 DEF InsertRow, Shape, Knows, Slug, Candidate
  <2> QED
    BY <1>3, <2>1, MoveStep DEF InsertRow, Return, Answer
<1> QED
  BY <1>2, <1>3

LEMMA AbortStep ==
    ASSUME IInv, NEW w \in Worker, Abort(w)
    PROVE  IInv'
BY MoveStep DEF Abort, Return, Answer

--------------------------------------------------------------------------
(* The steps that change tables *)

\* The rows of a commit become visible: they may be what others have counted
\* as free, and those are raced.
LEMMA CommitStep ==
    ASSUME IInv, NEW w \in Worker, Commit(w)
    PROVE  IInv'
<1> DEFINE r == req[w]
           row == [scope |-> r.scope, base |-> r.base, n |-> r.n, by |-> r.email]
<1>1. TypeOK /\ Shape(w) /\ Knows(w)
  BY DEF IInv
<1>2. /\ pc[w] = "commit" /\ pc' = [pc EXCEPT ![w] = "idle"]
      /\ answer' = [answer EXCEPT ![w] = "ok"]
      /\ rows' = rows \cup {row}
      /\ users' = IF Founds(w)
                  THEN [users EXCEPT ![r.email] = IF r.kind = "seed" THEN "system_manager" ELSE "user"]
                  ELSE users
      /\ member' = IF r.kind = "role" THEN member ELSE member \cup {r.email}
      /\ raced' = raced \cup {v \in Worker \ {w} : pc[v] \in {"user", "row"} /\ SameSlug(v, w)}
      /\ req' = req
  BY DEF Commit, Return
<1>3. /\ r \in RequestType /\ r.kind # "none" /\ r.email \in Email /\ r.scope # Nil
      /\ pc'[w] = "idle" /\ answer'[w] = "ok"
  BY <1>1, <1>2 DEF TypeOK, Shape
<1>4. /\ row.scope = r.scope /\ row.base = r.base /\ row.n = r.n /\ row.by = r.email
      /\ row \in RowType /\ Slug(row) = Slug(r)
  BY <1>3 DEF RequestType, RowType, Slug
<1>5. \A e \in Email : /\ users[e] # Nil => users'[e] # Nil
                       /\ users'[e] # users[e] => e = r.email /\ Founds(w)
  BY <1>1, <1>2, NilDiffers DEF TypeOK, UserRole
<1>6. TypeOK'
  <2>1. users' \in [Email -> UserRole \cup {Nil}] /\ member' \subseteq Email /\ raced' \subseteq Worker
    BY <1>1, <1>2, <1>3 DEF TypeOK, UserRole
  <2>2. rows' \subseteq RowType /\ \A x \in rows' : x.n < Tries(x.scope)
    BY <1>1, <1>2, <1>4 DEF TypeOK
  <2>3. /\ pc' \in [Worker -> {"idle", "count", "user", "row", "commit"}]
        /\ answer' \in [Worker -> Answer \cup {Nil}]
    BY <1>1, <1>2 DEF TypeOK, Answer
  <2> QED BY <1>1, <1>2, <2>1, <2>2, <2>3 DEF TypeOK, Tries
<1>7. \A b, n : SmallerTaken(Tenants, b, n) => SmallerTaken(Tenants, b, n)'
  <2> HIDE DEF row
  <2> QED BY <1>2, TakenGrows
<1>8. Taken(Tenants) \subseteq Taken(Tenants)'
  <2> HIDE DEF row
  <2> QED BY <1>2, TakenGrows
<1>9. \A s : Taken(s)' \subseteq Taken(s) \cup (IF s = r.scope THEN {Slug(r)} ELSE {})
  BY <1>2, <1>4 DEF Taken, Slug
<1>10. r.kind \in {"tenant", "register", "seed"} => users'[r.email] # Nil
  BY <1>1, <1>2, <1>3, <1>5, NilDiffers DEF Shape, Founds, TypeOK, UserRole
<1>11. ASSUME NEW v \in Worker
       PROVE  Shape(v)' /\ Knows(v)' /\ Answers(v)' /\ Justified(v)'
  <2>1. Shape(v) /\ Knows(v) /\ Answers(v) /\ Justified(v) /\ req[v] \in RequestType
    BY DEF IInv, RefusalsJustified, TypeOK
  <2>2. /\ v # w => pc'[v] = pc[v] /\ answer'[v] = answer[v]
        /\ req'[v] = req[v] /\ (v \in raced => v \in raced')
    BY <1>1, <1>2 DEF TypeOK
  <2>3. Shape(v)'
    BY <1>3, <1>5, <2>1, <2>2 DEF Shape, Founds
  <2>4. Knows(v)'
    <3>1. CASE v = w
      BY <1>3, <3>1 DEF Knows
    <3>2. CASE v # w
      <4>1. Slug(req[v]) \in Taken(req[v].scope)' /\ Slug(req[v]) \notin Taken(req[v].scope)
            => SameSlug(v, w)
        BY <1>2, <1>9 DEF SameSlug
      <4>2. pc[v] \in {"user", "row"} /\ SameSlug(v, w) => v \in raced'
        BY <1>2, <3>2
      <4>3. Slug(req[v])' = Slug(req[v])
        BY <2>2 DEF Slug
      <4> QED BY <1>7, <2>1, <2>2, <3>2, <4>1, <4>2, <4>3 DEF Knows
    <3> QED BY <3>1, <3>2
  <2>5. Answers(v)'
    <3>1. CASE v = w
      BY <1>2, <1>3, <1>10, <2>1, <3>1, NilDiffers DEF Answers, Answer, Shape
    <3>2. CASE v # w
      <4>1. req[v].kind = "seed" => AdminEmail \in Email
        BY <2>1 DEF Shape
      <4> QED BY <1>5, <2>1, <2>2, <3>2, <4>1 DEF Answers
    <3> QED BY <3>1, <3>2
  <2>6. Justified(v)'
    <3>1. CASE v = w
      BY <1>3, <3>1 DEF Justified
    <3>2. CASE v # w
      <4>1. answer[v] # Nil => req[v].email \in Email
        BY <2>1 DEF Shape
      <4> QED BY <1>5, <1>7, <1>8, <2>1, <2>2, <3>2, <4>1, NilDiffers DEF Justified, Answer
    <3> QED BY <3>1, <3>2
  <2> QED BY <2>3, <2>4, <2>5, <2>6
<1>12. FoundersKnown'
  <2> SUFFICES ASSUME NEW x \in rows', x.scope = Tenants PROVE users'[x.by] # Nil
    BY DEF FoundersKnown
  <2>1. CASE x \in rows
    BY <1>1, <1>5, <2>1 DEF IInv, FoundersKnown, TypeOK, RowType
  <2>2. CASE x = row
    BY <1>1, <1>3, <1>4, <1>10, <2>2 DEF Shape, RequestType, Kind
  <2> QED BY <1>2, <2>1, <2>2
<1>13. NumbersInOrder'
  <2> SUFFICES ASSUME NEW x \in rows', x.scope = Tenants PROVE SmallerTaken(Tenants, x.base, x.n)'
    BY DEF NumbersInOrder
  <2>1. CASE x \in rows
    BY <1>7, <2>1 DEF IInv, NumbersInOrder
  <2>2. CASE x = row
    BY <1>1, <1>2, <1>4, <1>7, <2>2 DEF Knows
  <2> QED BY <1>2, <2>1, <2>2
<1>14. ASSUME NEW e \in Email, users'[e] = "system_manager"
       PROVE  ManagerIsSeeded(e)'
  <2>1. CASE users[e] = "system_manager"
    <3>1. ManagerIsSeeded(e)
      BY <2>1 DEF IInv, SeedOutcome
    <3> QED BY <1>2, <3>1 DEF ManagerIsSeeded
  <2>2. CASE users[e] # "system_manager"
    <3>1. e = r.email /\ r.kind = "seed"
      BY <1>1, <1>2, <1>5, <1>14, <2>2 DEF TypeOK, UserRole
    <3>2. r.email = AdminEmail /\ r.base = Platform /\ r.n = 0 /\ r.scope = Tenants
      BY <1>1, <3>1 DEF Shape
    <3> QED BY <1>2, <3>1, <3>2 DEF ManagerIsSeeded
  <2> QED BY <2>1, <2>2
<1>15. ASSUME NEW v \in Worker, SeedIsOver(v)'
       PROVE  (users[AdminEmail] # Nil \/ PlatformOfOther)'
  <2>1. AdminEmail \in Email
    BY <1>11, <1>15 DEF Shape, SeedIsOver
  <2>2. CASE v = w
    BY <1>2, <1>3, <1>10, <1>11, <1>15, <2>2 DEF SeedIsOver, Shape
  <2>3. CASE v # w
    <3>1. SeedIsOver(v)
      BY <1>1, <1>2, <1>15, <2>3 DEF SeedIsOver, TypeOK
    <3>2. PlatformOfOther => PlatformOfOther'
      BY <1>2 DEF PlatformOfOther, Slug
    <3> QED BY <1>5, <2>1, <3>1, <3>2 DEF IInv, SeedOutcome
  <2> QED BY <2>2, <2>3
<1> QED
  BY <1>6, <1>11, <1>12, <1>13, <1>14, <1>15 DEF IInv, RefusalsJustified, SeedOutcome

\* Only roles are deleted.
LEMMA DeleteRoleStep ==
    ASSUME IInv, NEW r \in rows, DeleteRole(r)
    PROVE  IInv'
<1>1. /\ r.scope # Tenants /\ rows' = rows \ {r}
      /\ UNCHANGED <<users, member, pc, req, answer, raced>>
  BY DEF DeleteRole
<1>2. Taken(Tenants)' = Taken(Tenants)
  BY <1>1 DEF Taken, Slug
<1>3. \A b, n : SmallerTaken(Tenants, b, n)' = SmallerTaken(Tenants, b, n)
  BY <1>2 DEF SmallerTaken
<1>4. \A s : Taken(s)' \subseteq Taken(s)
  BY <1>1 DEF Taken, Slug
<1>5. TypeOK'
  BY <1>1 DEF IInv, TypeOK, Tries
<1>6. ASSUME NEW w \in Worker
      PROVE  Shape(w)' /\ Knows(w)' /\ Answers(w)' /\ Justified(w)'
  <2>1. Shape(w) /\ Knows(w) /\ Answers(w) /\ Justified(w)
    BY DEF IInv, RefusalsJustified
  <2>2. Shape(w)' /\ Answers(w)'
    BY <1>1, <2>1 DEF Shape, Answers, Founds
  <2>3. Knows(w)'
    BY <1>1, <1>3, <1>4, <2>1 DEF Knows, Slug
  <2>4. Justified(w)'
    BY <1>1, <1>2, <1>3, <2>1 DEF Justified
  <2> QED BY <2>2, <2>3, <2>4
<1>7. FoundersKnown' /\ NumbersInOrder'
  BY <1>1, <1>3 DEF IInv, FoundersKnown, NumbersInOrder
<1>8. SeedOutcome'
  <2>1. \A e : ManagerIsSeeded(e) => ManagerIsSeeded(e)'
    BY <1>1 DEF ManagerIsSeeded
  <2>2. PlatformOfOther => PlatformOfOther'
    BY <1>1 DEF PlatformOfOther, Slug
  <2>3. \A w \in Worker : SeedIsOver(w)' = SeedIsOver(w)
    BY <1>1 DEF SeedIsOver
  <2> QED BY <1>1, <2>1, <2>2, <2>3 DEF IInv, SeedOutcome
<1> QED
  BY <1>5, <1>6, <1>7, <1>8 DEF IInv, RefusalsJustified

\* More accounts and members leave every fact about requests alone.
LEMMA EnrolStep ==
    ASSUME IInv, NEW e \in Email,
           Join(e) \/ (\E joins \in BOOLEAN : Enrol(e, joins))
    PROVE  IInv'
<1>1. /\ UNCHANGED <<rows, pc, req, answer, raced>>
      /\ users' \in [Email -> UserRole \cup {Nil}]
      /\ member \subseteq member' /\ member' \subseteq Email
      /\ \A x \in Email : users[x] # Nil => users'[x] = users[x]
      /\ \A x \in Email : users'[x] = "system_manager" => users[x] = "system_manager"
  BY DEF Join, Enrol, IInv, TypeOK, UserRole
<1>2. TypeOK'
  BY <1>1 DEF IInv, TypeOK, Tries
<1>3. \A s : Taken(s)' = Taken(s) /\ \A b, n : SmallerTaken(s, b, n)' = SmallerTaken(s, b, n)
  BY <1>1, SameTaken
<1>4. ASSUME NEW w \in Worker
      PROVE  Shape(w)' /\ Knows(w)' /\ Answers(w)' /\ Justified(w)'
  <2>1. Shape(w) /\ Knows(w) /\ Answers(w) /\ Justified(w)
    BY DEF IInv, RefusalsJustified
  <2>2. Shape(w)' /\ Knows(w)'
    BY <1>1, <1>3, <2>1 DEF Shape, Knows, Founds, Slug
  <2>3. Answers(w)' /\ Justified(w)'
    BY <1>1, <1>3, <2>1, NilDiffers DEF Answers, Justified, Shape, Answer
  <2> QED BY <2>2, <2>3
<1>5. FoundersKnown' /\ NumbersInOrder'
  BY <1>1, <1>3 DEF IInv, FoundersKnown, NumbersInOrder, TypeOK, RowType
<1>6. SeedOutcome'
  <2>1. \A x \in Email : (users[x] = "system_manager" => ManagerIsSeeded(x))'
    BY <1>1 DEF IInv, SeedOutcome, ManagerIsSeeded
  <2>2. ASSUME NEW w \in Worker, SeedIsOver(w)'
        PROVE  (users[AdminEmail] # Nil \/ PlatformOfOther)'
    <3>1. SeedIsOver(w)
      BY <1>1, <2>2 DEF SeedIsOver
    <3>2. users[AdminEmail] # Nil \/ PlatformOfOther
      BY <3>1 DEF IInv, SeedOutcome
    <3>3. AdminEmail \in Email
      BY <3>1 DEF SeedIsOver, IInv, Shape
    <3> QED BY <1>1, <3>2, <3>3 DEF PlatformOfOther
  <2> QED BY <2>1, <2>2 DEF SeedOutcome
<1> QED
  BY <1>2, <1>4, <1>5, <1>6 DEF IInv, RefusalsJustified

--------------------------------------------------------------------------
(* Founding *)

LEMMA InitIInv == ASSUME Init_F PROVE IInv
<1> USE DEF Init_F, Request
<1>1. TypeOK
  BY FoundingConstants DEF TypeOK, RequestType, Kind, Base, Tries
<1>2. \A w \in Worker : Shape(w) /\ Knows(w) /\ Answers(w) /\ Justified(w) /\ ~SeedIsOver(w)
  BY NilDiffers DEF Shape, Knows, Answers, Justified, SeedIsOver, Founds, Answer
<1>3. FoundersKnown /\ NumbersInOrder
  BY DEF FoundersKnown, NumbersInOrder
<1>4. SeedOutcome
  BY <1>2, NilDiffers DEF SeedOutcome, UserRole
<1> QED
  BY <1>1, <1>2, <1>3, <1>4 DEF IInv, RefusalsJustified

LEMMA NextIInv == ASSUME IInv, [Next_F]_fvars PROVE IInv'
<1>1. ASSUME NEW w \in Worker, Arrive(w) \/ Statement(w) \/ Abort(w) PROVE IInv'
  BY <1>1, ArriveStep, CountFreeStep, CountTakenStep, InsertUserStep, InsertTooLongStep,
     InsertRowStep, CommitStep, AbortStep DEF Statement
<1>2. ASSUME NEW r \in rows, DeleteRole(r) PROVE IInv'
  BY <1>2, DeleteRoleStep
<1>3. ASSUME NEW e \in Email, Join(e) \/ (\E joins \in BOOLEAN : Enrol(e, joins)) PROVE IInv'
  BY <1>3, EnrolStep
<1>4. CASE UNCHANGED fvars
  <2>1. \A s : Taken(s)' = Taken(s) /\ \A b, n : SmallerTaken(s, b, n)' = SmallerTaken(s, b, n)
    BY <1>4, SameTaken DEF fvars
  <2>2. TypeOK' /\ FoundersKnown' /\ NumbersInOrder' /\ SeedOutcome'
    BY <1>4, <2>1 DEF fvars, IInv, TypeOK, FoundersKnown, NumbersInOrder, SeedOutcome,
                      ManagerIsSeeded, SeedIsOver, PlatformOfOther
  <2>3. ASSUME NEW w \in Worker PROVE Shape(w)' /\ Knows(w)' /\ Answers(w)' /\ Justified(w)'
    BY <1>4, <2>1 DEF fvars, IInv, RefusalsJustified, Shape, Knows, Answers, Justified, Founds, Slug
  <2> QED BY <2>2, <2>3 DEF IInv, RefusalsJustified
<1> QED
  BY <1>1, <1>2, <1>3, <1>4 DEF Next_F

LEMMA FoundingInv == Spec_F => []IInv
BY InitIInv, NextIInv, PTL DEF Spec_F

--------------------------------------------------------------------------
(* Smoke *)

\* The script's own steps leave accounts, tenants and transactions alone or
\* are arrivals and enrolments of Founding.
LEMMA ClientImplements ==
    ASSUME ClientStep
    PROVE  [Next_F]_fvars
<1> USE SmokeConstants
<1>1. CASE Skip \/ Answered
  BY <1>1 DEF Skip, Answered, fvars
<1>2. CASE SendRegister
  <2>1. PICK who \in Actor : Register(Client, who, <<who>>)
    BY <1>2 DEF SendRegister
  <2>2. Client \in Worker /\ who \in Email /\ <<who>> \in Name
    OBVIOUS
  <2> QED BY <2>1, <2>2 DEF Next_F, Arrive
<1>3. CASE SendTenant
  <2>1. PICK who \in Actor : CreateTenant(Client, who, <<who>>) \/ UNCHANGED fvars
    BY <1>3 DEF SendTenant, fvars
  <2>2. Client \in Worker /\ who \in Email /\ <<who>> \in Name
    OBVIOUS
  <2> QED BY <2>1, <2>2 DEF Next_F, Arrive
<1>4. CASE SendRole
  <2>1. PICK who \in Actor, tenant \in Taken(Tenants) : CreateRole(Client, who, tenant, <<"smoke">>)
    BY <1>4 DEF SendRole
  <2>2. Client \in Worker /\ who \in Email /\ <<"smoke">> \in Name
    OBVIOUS
  <2> QED BY <2>1, <2>2 DEF Next_F, Arrive
<1>5. CASE Handler
  <2>1. CASE Signup
    <3>1. PICK who \in Actor : Enrol(who, FALSE) \/ UNCHANGED fvars
      BY <2>1 DEF Signup, fvars
    <3>2. who \in Email
      OBVIOUS
    <3> QED BY <3>1, <3>2 DEF Next_F
  <2>2. CASE AcceptInvite
    <3>1. PICK who \in Actor : Enrol(who, TRUE) \/ UNCHANGED fvars
      BY <2>2, Zenon DEF AcceptInvite
    <3>2. who \in Email
      OBVIOUS
    <3> QED BY <3>1, <3>2 DEF Next_F
  <2>3. CASE Delete
    <3>1. (\E r \in Role : DeleteRole(r)) \/ UNCHANGED fvars
      BY <2>3 DEF Delete
    <3> QED BY <3>1 DEF Next_F, Role
  <2>4. CASE \/ Health \/ Me \/ UpdateMe \/ GetUserByID \/ Lists \/ UpdateRole \/ SetPermissions
             \/ CreateTenantInvite \/ AssignMemberRole \/ RefreshTokens \/ Logout \/ Login
    BY <2>4 DEF Health, Me, UpdateMe, GetUserByID, Lists, UpdateRole, SetPermissions,
                CreateTenantInvite, AssignMemberRole, RefreshTokens, Logout, Login, fvars
  <2>5. CASE \/ TenantSession \/ ChangePassword \/ ResendVerification \/ VerifyEmail
             \/ ForgotPassword \/ ResetPassword \/ AdminLogin \/ PlatformRoute
    BY <2>5 DEF TenantSession, ChangePassword, ResendVerification, VerifyEmail,
                ForgotPassword, ResetPassword, AdminLogin, PlatformRoute, fvars
  <2> QED BY <1>5, <2>1, <2>2, <2>3, <2>4, <2>5 DEF Handler
<1> QED
  BY <1>1, <1>2, <1>3, <1>4, <1>5 DEF ClientStep

LEMMA StatementImplements ==
    ASSUME NEW w \in Worker, StatementOf(w)
    PROVE  Next_F
<1>1. Statement(w)
  BY DEF StatementOf, CommitOfClient, Statement
<1> QED BY <1>1 DEF Next_F

LEMMA VisitImplements ==
    ASSUME Visit
    PROVE  Next_F
<1> USE SmokeConstants
<1>1. CASE \E w \in Visitor, e \in VisitorEmail, name \in VisitorName : Register(w, e, name) \/ CreateTenant(w, e, name)
  BY <1>1 DEF Next_F, Arrive
<1>2. CASE \E w \in Visitor, e \in member \cap VisitorEmail, name \in VisitorName :
              \E r \in {x \in rows : x.scope = Tenants /\ x.by = e} : CreateRole(w, e, Slug(r), name)
  <2>1. PICK w \in Visitor, e \in VisitorEmail, name \in VisitorName, r \in rows :
            r.scope = Tenants /\ CreateRole(w, e, Slug(r), name)
    BY <1>2
  <2>2. Slug(r) \in Taken(Tenants)
    BY <2>1 DEF Taken
  <2>3. w \in Worker /\ e \in Email /\ name \in Name
    OBVIOUS
  <2> QED BY <2>1, <2>2, <2>3 DEF Next_F, Arrive
<1>3. CASE \E r \in rows : DeleteRole(r)
  BY <1>3 DEF Next_F
<1>4. CASE \E w \in Boot : Seed(w)
  BY <1>4 DEF Next_F, Arrive
<1> QED
  BY <1>1, <1>2, <1>3, <1>4 DEF Visit

\* The script, the visitors and the starting processes found tenants as
\* Founding says, whatever else they do.
THEOREM ImplementsFounding == Spec => Spec_F
<1>1. Init => Init_F
  BY DEF Init
<1>2. [Next]_vars => [Next_F]_fvars
  <2>1. CASE Serve
    BY <2>1, ClientImplements, StatementImplements DEF Serve
  <2>2. CASE \E w \in Worker : Abort(w)
    BY <2>2 DEF Next_F
  <2>3. CASE Visit
    BY <2>3, VisitImplements
  <2>4. CASE UNCHANGED vars
    BY <2>4 DEF vars, fvars
  <2> QED BY <2>1, <2>2, <2>3, <2>4 DEF Next
<1> QED
  BY <1>1, <1>2, PTL DEF Spec, Spec_F

\* Tables, positions and locals of the founders keep their types, and no name
\* is tried more often than allowed.
THEOREM TypeCorrect == Spec => []TypeOK
<1>1. IInv => TypeOK
  BY DEF IInv
<1> QED BY <1>1, ImplementsFounding, FoundingInv, PTL

\* However founders overlap, whoever finds a slug or email taken at the insert
\* was overtaken, and names run out only when all candidates are taken.
THEOREM RefusalsJustifiedHolds == Spec => []RefusalsJustified
<1>1. IInv => RefusalsJustified
  BY DEF IInv
<1> QED BY <1>1, ImplementsFounding, FoundingInv, PTL

\* However founders overlap and roll back, the numbers of a name have no gaps.
THEOREM NumbersInOrderHolds == Spec => []NumbersInOrder
<1>1. IInv => NumbersInOrder
  BY DEF IInv
<1> QED BY <1>1, ImplementsFounding, FoundingInv, PTL

\* However many processes start and whatever visitors found meanwhile, only
\* the seed makes a system manager, and it fails only for a taken slug.
THEOREM SeedOutcomeHolds == Spec => []SeedOutcome
<1>1. IInv => SeedOutcome
  BY DEF IInv
<1> QED BY <1>1, ImplementsFounding, FoundingInv, PTL

--------------------------------------------------------------------------
(* What the script knows of its own run *)

\* The slugs that a session or a membership may name.
SomeSlug == {Nil} \cup {Candidate(b, i) : b \in Base, i \in Nat}

SessionType == [user : Actor \cup {Nil}, tenant : SomeSlug]
AccountType == [password : {Nil, "old", "new"}, verified : BOOLEAN, tenant : SomeSlug, role : SomeSlug]
TicketType  == [kind : {"invite", "verify", "reset"}, user : Actor, tenant : SomeSlug, step : Nat]
TokenType   == [user : Actor, step : Nat]
KeptType    == [access : SessionType, pick : SessionType, refresh : TokenType \cup {[user |-> Nil, step |-> 0]},
                role : SomeSlug, token : TicketType \cup {NoToken}, platform : BOOLEAN]

TypeOK_S ==
    /\ config \in [local : BOOLEAN, admin : BOOLEAN]
    /\ at \in 1 .. 33 /\ verdict \in {"running", "waiting", "passed", "failed"}
    /\ verdict = "passed" => at = 33
    /\ kept \in KeptType
    /\ account \in [Actor -> AccountType]
    /\ live \subseteq TokenType /\ pending \subseteq TicketType

\* The script is past its step i.
Past(i) == at > i \/ verdict = "passed"

Invited    == Past(11)   \* the script has seen the invitation's token
Joined     == Past(12)   \* the invitation is accepted
Unassigned == Past(14)   \* the invitee has lost the role again
Changed    == Past(20)   \* the owner has changed the password
Founded    == Past(27)   \* signup has created a tenant
Forgetful  == Past(28)   \* forgot has registered
Reset      == Past(30)   \* and has a new password

\* The request in flight is the step's, and its commit has done its work.
InFlight == verdict = "waiting" =>
    LET r == req[Client] IN
    /\ Step.op \in {"register", "create_tenant", "create_role"}
    /\ Step.op = "register" => r.kind = "register" /\ r.email = Step.who
    /\ Step.op = "create_tenant" => r.kind = "tenant" /\ r.email = Step.who /\ account[r.email].verified
    /\ Step.op = "create_role" => r.kind = "role"
    /\ answer[Client] = "ok" /\ r.kind # "role" =>
           users[r.email] # Nil /\ \E t \in live : t.user = r.email

\* What the script has kept is what the next steps take it for.
Keeps ==
    /\ Invited => config.local
    /\ at \in 3 .. 20 => kept.access.user = "owner" /\ kept.refresh.user = "owner"
    /\ at = 19 => kept.pick.user = "owner"
    /\ at \in 25 .. 27 => kept.token.kind = "verify"
    /\ at = 30 => kept.token.kind = "reset" /\ kept.token.user = "forgot"
    /\ Forgetful => users["forgot"] # Nil

\* Who has a session.
LiveFits ==
    /\ \A t \in live : /\ t.user # "resend"
                       /\ t.user = "owner" => ~Changed
                       /\ t.user = "forgot" => ~Reset
    /\ Joined  => \E t \in live : t.user = "invitee"
    /\ Founded => \E t \in live : t.user = "signup"

\* Who can still be verified.
PendingFits ==
    /\ \A t, t2 \in pending : t.user = t2.user /\ t.kind = t2.kind => t = t2
    /\ \A t \in pending : t.kind = "verify" =>
           t.user \in {"resend", "signup"} /\ ~account[t.user].verified /\ users[t.user] # Nil

AccountsFit ==
    /\ Changed => account["owner"].password = "new"
    /\ Reset => account["forgot"].password = "new"
    /\ \A u \in Actor : account[u].verified => users[u] # Nil
    /\ \A u \in Actor : account[u].role # Nil => u = "invitee" /\ ~Unassigned

Going == InFlight /\ Keeps /\ LiveFits /\ PendingFits /\ AccountsFit

\* Only Founding moves the client's transactions, and only while the script
\* waits.
SInv ==
    /\ TypeOK_S
    /\ verdict # "waiting" => pc[Client] = "idle"
    /\ verdict # "failed" => Going

\* The script in full.
LEMMA ScriptTable ==
    /\ Len(Script) = 33
    /\ Script[1] = Call("health", "owner", Nil, 200)
    /\ Script[2] = Call("register", "owner", "old", 201)
    /\ Script[3] = Call("me", "owner", Nil, 200)
    /\ Script[4] = Call("get_user", "owner", Nil, 200)
    /\ Script[5] = Call("update_me", "owner", Nil, 200)
    /\ Script[6] = Call("widgets", "owner", Nil, 200)
    /\ Script[7] = Call("roles", "owner", Nil, 200)
    /\ Script[8] = Call("create_role", "owner", Nil, 201)
    /\ Script[9] = Call("update_role", "owner", Nil, 200)
    /\ Script[10] = Call("set_permissions", "owner", Nil, 204)
    /\ Script[11] = Call("invite", "invitee", Nil, 201)
    /\ Script[12] = Call("accept_invite", "invitee", "old", 200)
    /\ Script[13] = Call("assign_role", "invitee", "role", 204)
    /\ Script[14] = Call("assign_role", "invitee", Nil, 204)
    /\ Script[15] = Call("delete_role", "owner", Nil, 204)
    /\ Script[16] = Call("refresh", "owner", Nil, 200)
    /\ Script[17] = Call("logout", "owner", Nil, 204)
    /\ Script[18] = Call("login", "owner", "old", 200)
    /\ Script[19] = Call("tenant_session", "owner", Nil, 200)
    /\ Script[20] = Call("change_password", "owner", "old", 204)
    /\ Script[21] = Call("login", "owner", "new", 200)
    /\ Script[22] = Call("signup", "resend", "old", 201)
    /\ Script[23] = Call("resend_verification", "resend", Nil, 200)
    /\ Script[24] = Call("signup", "signup", "old", 201)
    /\ Script[25] = If("verify", "verify_email", "signup", Nil, 204)
    /\ Script[26] = If("verify", "login", "signup", "old", 200)
    /\ Script[27] = If("verify", "create_tenant", "signup", Nil, 201)
    /\ Script[28] = Call("register", "forgot", "old", 201)
    /\ Script[29] = Call("forgot_password", "forgot", Nil, 200)
    /\ Script[30] = If("reset", "reset_password", "forgot", "new", 204)
    /\ Script[31] = If("admin", "admin_login", AdminEmail, Nil, 200)
    /\ Script[32] = If("admin", "platform_health", AdminEmail, Nil, 200)
    /\ Script[33] = If("admin", "tenants_summary", AdminEmail, Nil, 200)
BY DEF Script, Registration, Reading, RoleEditing, Inviting, SessionRenewal, SigningUp, Forgetting, PlatformRoutes

\* At which steps an operation is called, for whom, and what is expected.
LEMMA Where ==
    ASSUME at \in 1 .. 33
    PROVE  /\ Step.op \in {"health", "me", "get_user", "update_me", "widgets", "roles",
                         "update_role", "set_permissions", "delete_role"} => at \in (1 .. 15) \ {2, 8, 11, 12, 13, 14}
           /\ Step.op = "register" => at \in {2, 28} /\ Step.code = 201 /\ Step.who = IF at = 2 THEN "owner" ELSE "forgot"
           /\ Step.op = "create_role" => at = 8 /\ Step.code = 201
           /\ Step.op = "invite" => at = 11 /\ Step.who = "invitee" /\ Step.code = 201
           /\ Step.op = "accept_invite" => at = 12 /\ Step.who = "invitee" /\ Step.arg = "old" /\ Step.code = 200
           /\ Step.op = "assign_role" =>
                  at \in {13, 14} /\ Step.who = "invitee" /\ Step.code = 204 /\ (at = 14 => Step.arg # "role")
           /\ Step.op = "refresh" => at = 16 /\ Step.code = 200
           /\ Step.op = "logout" => at = 17
           /\ Step.op = "login" => at \in {18, 21, 26} /\ Step.who \in Actor /\ (at = 18 => Step.who = "owner")
           /\ Step.op = "tenant_session" => at = 19 /\ Step.code = 200
           /\ Step.op = "change_password" => at = 20 /\ Step.code = 204
           /\ Step.op = "signup" =>
                  /\ at \in {22, 24} /\ Step.who = IF at = 22 THEN "resend" ELSE "signup"
                  /\ Step.arg = "old" /\ Step.code = 201
           /\ Step.op = "resend_verification" => at = 23 /\ Step.who = "resend"
           /\ Step.op = "verify_email" => at = 25 /\ Step.code = 204
           /\ Step.op = "create_tenant" => at = 27 /\ Step.who = "signup" /\ Step.code = 201
           /\ Step.op = "forgot_password" => at = 29 /\ Step.who = "forgot" /\ Step.code = 200
           /\ Step.op = "reset_password" => at = 30 /\ Step.arg = "new" /\ Step.code = 204
           /\ Step.op \in {"admin_login", "platform_health", "tenants_summary"} => at \in 31 .. 33
           /\ Step.given # "always" =>
                  \/ at \in 25 .. 27 /\ Step.given = "verify"
                  \/ at = 30 /\ Step.given = "reset"
                  \/ at \in 31 .. 33
<1>1. Step.op \in {"health", "me", "get_user", "update_me", "widgets", "roles",
                "update_role", "set_permissions", "delete_role"} => at \in (1 .. 15) \ {2, 8, 11, 12, 13, 14}
  BY ScriptTable DEF Step, Call, If, Actor
<1>2. Step.op = "register" => at \in {2, 28} /\ Step.code = 201 /\ Step.who = IF at = 2 THEN "owner" ELSE "forgot"
  BY ScriptTable DEF Step, Call, If, Actor
<1>3. Step.op = "create_role" => at = 8 /\ Step.code = 201
  BY ScriptTable DEF Step, Call, If, Actor
<1>4. Step.op = "invite" => at = 11 /\ Step.who = "invitee" /\ Step.code = 201
  BY ScriptTable DEF Step, Call, If, Actor
<1>5. Step.op = "accept_invite" => at = 12 /\ Step.who = "invitee" /\ Step.arg = "old" /\ Step.code = 200
  BY ScriptTable DEF Step, Call, If, Actor
<1>6. Step.op = "assign_role" =>
         at \in {13, 14} /\ Step.who = "invitee" /\ Step.code = 204 /\ (at = 14 => Step.arg # "role")
  BY ScriptTable, SmokeConstants DEF Step, Call, If, Actor
<1>7. Step.op = "refresh" => at = 16 /\ Step.code = 200
  BY ScriptTable DEF Step, Call, If, Actor
<1>8. Step.op = "logout" => at = 17
  BY ScriptTable DEF Step, Call, If, Actor
<1>9. Step.op = "login" => at \in {18, 21, 26} /\ Step.who \in Actor /\ (at = 18 => Step.who = "owner")
  BY ScriptTable DEF Step, Call, If, Actor
<1>10. Step.op = "tenant_session" => at = 19 /\ Step.code = 200
  BY ScriptTable DEF Step, Call, If, Actor
<1>11. Step.op = "change_password" => at = 20 /\ Step.code = 204
  BY ScriptTable DEF Step, Call, If, Actor
<1>12. Step.op = "signup" =>
                  /\ at \in {22, 24} /\ Step.who = IF at = 22 THEN "resend" ELSE "signup"
                  /\ Step.arg = "old" /\ Step.code = 201
  BY ScriptTable DEF Step, Call, If, Actor
<1>13. Step.op = "resend_verification" => at = 23 /\ Step.who = "resend"
  BY ScriptTable DEF Step, Call, If, Actor
<1>14. Step.op = "verify_email" => at = 25 /\ Step.code = 204
  BY ScriptTable DEF Step, Call, If, Actor
<1>15. Step.op = "create_tenant" => at = 27 /\ Step.who = "signup" /\ Step.code = 201
  BY ScriptTable DEF Step, Call, If, Actor
<1>16. Step.op = "forgot_password" => at = 29 /\ Step.who = "forgot" /\ Step.code = 200
  BY ScriptTable DEF Step, Call, If, Actor
<1>17. Step.op = "reset_password" => at = 30 /\ Step.arg = "new" /\ Step.code = 204
  BY ScriptTable DEF Step, Call, If, Actor
<1>18. Step.op \in {"admin_login", "platform_health", "tenants_summary"} => at \in 31 .. 33
  BY ScriptTable DEF Step, Call, If, Actor
<1>19. Step.given # "always" =>
         \/ at \in 25 .. 27 /\ Step.given = "verify"
         \/ at = 30 /\ Step.given = "reset"
         \/ at \in 31 .. 33
  BY ScriptTable DEF Step, Call, If, Actor
<1> QED
  BY <1>1, <1>2, <1>3, <1>4, <1>5, <1>6, <1>7, <1>8, <1>9, <1>10, <1>11, <1>12, <1>13, <1>14, <1>15, <1>16, <1>17, <1>18, <1>19

--------------------------------------------------------------------------
(* The script goes on *)

\* After a good answer the script is past the step it was at.
LEMMA PastAdvance ==
    ASSUME TypeOK_S, verdict \in {"running", "waiting"}, Advance
    PROVE  /\ at' \in 1 .. 33 /\ verdict' \in {"running", "passed"} /\ (verdict' = "passed" => at' = 33)
           /\ at' = IF at = 33 THEN 33 ELSE at + 1
           /\ \A i \in 1 .. 33 : (Past(i)' <=> i <= at) /\ (Past(i) <=> i < at)
<1>1. Len(Script) = 33
  BY ScriptTable
<1>2. at \in 1 .. 33
  BY DEF TypeOK_S
<1>3. /\ at # 33 => at' = at + 1 /\ verdict' = "running"
      /\ at = 33 => at' = 33 /\ verdict' = "passed"
  BY <1>1, <1>2 DEF Advance
<1>4. ASSUME NEW i \in 1 .. 33
      PROVE  (Past(i)' <=> i <= at) /\ (Past(i) <=> i < at)
  BY <1>2, <1>3 DEF Past
<1> QED
  BY <1>2, <1>3, <1>4

\* No account goes.
Lasting == \A e \in Email : users[e] # Nil => users'[e] # Nil

LEMMA KeepsOn ==
    ASSUME TypeOK_S, Keeps, verdict \in {"running", "waiting"}, Advance, Lasting, config' = config,
           at \notin {2, 11, 24, 28, 29}, at = 18 => kept'.pick.user = "owner",
           kept'.access.user = kept.access.user, kept'.refresh.user = kept.refresh.user,
           kept'.token = kept.token
    PROVE  Keeps'
<1>1. "forgot" \in Email
  BY SmokeConstants DEF Actor
<1> QED
  BY <1>1, PastAdvance DEF Keeps, Lasting, TypeOK_S, Invited, Forgetful

LEMMA LiveOn ==
    ASSUME TypeOK_S, LiveFits, verdict \in {"running", "waiting"}, Advance,
           at \notin {12, 20, 27, 30},
           \A t \in live' : \E s \in live : s.user = t.user,
           \A t \in live : t.user \in {"invitee", "signup"} => \E s \in live' : s.user = t.user
    PROVE  LiveFits'
BY PastAdvance DEF LiveFits, TypeOK_S, Changed, Reset, Joined, Founded

LEMMA PendingOn ==
    ASSUME TypeOK_S, PendingFits, Lasting, pending' \subseteq pending,
           \A u \in Actor : account'[u].verified = account[u].verified
    PROVE  PendingFits'
<1>1. \A t \in pending : t.user \in Actor /\ t.user \in Email
  BY SmokeConstants DEF TypeOK_S, TicketType
<1> QED
  BY <1>1 DEF PendingFits, Lasting

LEMMA AccountsOn ==
    ASSUME TypeOK_S, AccountsFit, Lasting, verdict \in {"running", "waiting"}, Advance,
           at \notin {14, 20, 30}, account' = account
    PROVE  AccountsFit'
<1>1. Actor \subseteq Email
  BY SmokeConstants
<1> QED
  BY <1>1, PastAdvance DEF AccountsFit, Lasting, TypeOK_S, Changed, Reset, Unassigned

\* What is left to show of a step that judges an answer.
LEMMA JudgeStep ==
    ASSUME SInv, verdict \in {"running", "waiting"}, pc'[Client] = "idle",
           NEW good \in BOOLEAN, NEW k \in KeptType, Judge(good, k),
           account' \in [Actor -> AccountType], live' \subseteq TokenType, pending' \subseteq TicketType,
           good /\ Advance /\ kept' = k /\ config' = config => Keeps' /\ LiveFits' /\ PendingFits' /\ AccountsFit'
    PROVE  SInv'
<1>1. TypeOK_S /\ config' = config
  BY DEF SInv, Judge
<1>2. CASE good
  <2>1. Advance /\ kept' = k
    BY <1>2 DEF Judge
  <2>2. TypeOK_S' /\ verdict' \in {"running", "passed"}
    BY <1>1, <2>1, PastAdvance DEF TypeOK_S
  <2> QED BY <1>1, <1>2, <2>1, <2>2 DEF SInv, Going, InFlight
<1>3. CASE ~good
  BY <1>1, <1>3 DEF Judge, SInv, TypeOK_S
<1> QED BY <1>2, <1>3

--------------------------------------------------------------------------
(* Its steps *)

\* Requests that only read, or touch what no later step relies on.
LEMMA QuietStep ==
    ASSUME SInv,
           \/ Health \/ Me \/ UpdateMe \/ GetUserByID \/ Lists \/ UpdateRole \/ SetPermissions
           \/ Delete \/ AdminLogin \/ PlatformRoute
    PROVE  SInv'
<1>1. TypeOK_S /\ (verdict = "running" => pc[Client] = "idle" /\ Going)
  BY DEF SInv
<1>2. \E good \in BOOLEAN : \E k \in {kept, [kept EXCEPT !.platform = TRUE]} : Judge(good, k)
  BY DEF Health, Me, UpdateMe, GetUserByID, Lists, UpdateRole, SetPermissions, Delete,
         AdminLogin, PlatformRoute, Reply
<1>3. PICK good \in BOOLEAN, k \in {kept, [kept EXCEPT !.platform = TRUE]} : Judge(good, k)
  BY <1>2
<1>4. verdict = "running" /\ UNCHANGED <<users, pc, account, live, pending>>
  BY DEF Health, Me, UpdateMe, GetUserByID, Lists, UpdateRole, SetPermissions, Delete,
         AdminLogin, PlatformRoute, Doing, DeleteRole, fvars
<1>5. at \in (1 .. 15) \ {2, 8, 11, 12, 13, 14} \/ at \in 31 .. 33
  <2>1. Step.op \in {"health", "me", "get_user", "update_me", "widgets", "roles", "update_role",
                     "set_permissions", "delete_role", "admin_login", "platform_health", "tenants_summary"}
    BY DEF Health, Me, UpdateMe, GetUserByID, Lists, UpdateRole, SetPermissions, Delete,
           AdminLogin, PlatformRoute, Doing
  <2> QED BY <1>1, <2>1, Where DEF TypeOK_S
<1>6. k \in KeptType /\ k.access = kept.access /\ k.refresh = kept.refresh /\ k.token = kept.token
  BY <1>1 DEF TypeOK_S, KeptType
<1>7. Lasting
  BY <1>4 DEF Lasting
<1>8. ASSUME Advance, kept' = k, config' = config
      PROVE  Keeps' /\ LiveFits' /\ PendingFits' /\ AccountsFit'
  BY <1>1, <1>4, <1>5, <1>6, <1>7, <1>8, KeepsOn, LiveOn, PendingOn, AccountsOn DEF Going
<1> QED
  BY <1>1, <1>3, <1>4, <1>6, <1>8, JudgeStep DEF TypeOK_S

\* A step that is skipped is one of the administrator's.
LEMMA SkipStep ==
    ASSUME SInv, Skip
    PROVE  SInv'
<1>1. TypeOK_S /\ verdict = "running" /\ pc[Client] = "idle" /\ Going
  BY DEF SInv, Skip
<1>2. Advance /\ UNCHANGED <<users, pc, config, kept, account, live, pending>>
  BY DEF Skip, fvars
<1>3. at \in 31 .. 33
  BY <1>1, Where DEF Skip, Given, Going, Keeps, TypeOK_S
<1>4. Lasting
  BY <1>2 DEF Lasting
<1>5. Keeps' /\ LiveFits' /\ PendingFits' /\ AccountsFit'
  BY <1>1, <1>2, <1>3, <1>4, KeepsOn, LiveOn, PendingOn, AccountsOn DEF Going
<1>6. TypeOK_S' /\ verdict' \in {"running", "passed"}
  BY <1>1, <1>2, PastAdvance DEF TypeOK_S
<1> QED
  BY <1>1, <1>2, <1>5, <1>6 DEF SInv, Going, InFlight

\* What a ticket of the step is.
LEMMA TicketTyped ==
    ASSUME TypeOK_S, NEW kind \in {"invite", "verify", "reset"}, NEW u \in Actor, NEW tenant \in SomeSlug
    PROVE  LET t == Ticket(kind, u, tenant) IN t \in TicketType /\ t.kind = kind /\ t.user = u
BY DEF Ticket, TicketType, TypeOK_S

LEMMA InviteStep ==
    ASSUME SInv, CreateTenantInvite
    PROVE  SInv'
<1> DEFINE ticket == Ticket("invite", Step.who, Bearer.tenant)
           k == [kept EXCEPT !.token = ticket]
<1>1. TypeOK_S /\ verdict = "running" /\ pc[Client] = "idle" /\ Going
  BY DEF SInv, CreateTenantInvite, Doing
<1>2. UNCHANGED <<users, pc, account, live>>
  BY DEF CreateTenantInvite, fvars
<1>3. at = 11 /\ Step.who \in Actor /\ Step.who = "invitee" /\ Step.code = 201
  BY <1>1, Where DEF CreateTenantInvite, Doing, TypeOK_S, Actor
<1>4. ticket \in TicketType /\ ticket.kind = "invite" /\ ticket.user = "invitee"
  <2>1. Bearer.tenant \in SomeSlug
    BY <1>1 DEF TypeOK_S, KeptType, SessionType, Bearer
  <2> QED BY <1>1, <1>3, <2>1, TicketTyped
<1> HIDE DEF ticket
<1>5. k \in KeptType /\ k.access = kept.access /\ k.refresh = kept.refresh /\ kept \in KeptType
  BY <1>1, <1>4 DEF TypeOK_S, KeptType
<1>6. Lasting
  BY <1>2 DEF Lasting
<1>7. CASE Judge(FALSE, kept) /\ UNCHANGED pending
  BY <1>1, <1>2, <1>5, <1>7, JudgeStep DEF TypeOK_S
<1>8. CASE /\ Judge(config.local, k)
           /\ pending' = {t \in pending : t.kind # "invite" \/ t.user # Step.who} \cup {ticket}
  <2>1. ASSUME config.local, Advance, kept' = k, config' = config
        PROVE  Keeps' /\ LiveFits' /\ AccountsFit'
    <3>1. Keeps'
      BY <1>1, <1>2, <1>3, <1>5, <2>1, PastAdvance DEF Keeps, Going, Invited, Forgetful
    <3> QED BY <1>1, <1>2, <1>3, <1>6, <2>1, <3>1, LiveOn, AccountsOn DEF Going
  <2>2. PendingFits'
    BY <1>1, <1>2, <1>3, <1>4, <1>8 DEF Going, PendingFits
  <2>3. pending' \subseteq TicketType
    BY <1>1, <1>4, <1>8 DEF TypeOK_S
  <2>4. config.local \in BOOLEAN
    BY <1>1 DEF TypeOK_S
  <2> QED BY <1>1, <1>2, <1>5, <1>8, <2>1, <2>2, <2>3, <2>4, JudgeStep DEF TypeOK_S
<1>9. Reply(409, kept) => Judge(FALSE, kept)
  BY <1>3 DEF Reply, Judge
<1> QED
  BY <1>7, <1>8, <1>9 DEF CreateTenantInvite, ticket

LEMMA AcceptStep ==
    ASSUME IInv, SInv, AcceptInvite
    PROVE  SInv'
<1>1. TypeOK_S /\ verdict = "running" /\ pc[Client] = "idle" /\ Going
  BY DEF SInv, AcceptInvite, Asks, Doing
<1>2. at = 12 /\ Step.who = "invitee" /\ Step.arg = "old" /\ Step.code = 200
  BY <1>1, Where DEF AcceptInvite, Asks, Doing, TypeOK_S
<1>3. kept \in KeptType
  BY <1>1 DEF TypeOK_S
<1>4. CASE kept.token \notin pending
  <2>1. Judge(FALSE, kept) /\ UNCHANGED <<pc, account, live, pending>>
    BY <1>2, <1>4 DEF AcceptInvite, Reply, Judge, fvars
  <2> QED BY <1>1, <1>3, <2>1, JudgeStep DEF TypeOK_S
<1>5. CASE kept.token \in pending
  <2> DEFINE new == [password |-> "old", verified |-> TRUE, tenant |-> kept.token.tenant, role |-> Nil]
             token == [user |-> "invitee", step |-> at]
  <2>1. /\ Enrol("invitee", TRUE) /\ pending' = pending \ {kept.token}
        /\ account' = [account EXCEPT !["invitee"] = new]
        /\ live' = live \cup {token}
        /\ Judge(TRUE, kept)
    <3>1. PICK who \in Actor :
              /\ who = Step.who /\ Enrol(who, TRUE) /\ pending' = pending \ {kept.token}
              /\ account' = [account EXCEPT ![who] = [password |-> Step.arg, verified |-> TRUE,
                                                      tenant |-> kept.token.tenant, role |-> Nil]]
              /\ live' = live \cup {Refresh(who)} /\ Reply(200, kept)
      BY <1>5 DEF AcceptInvite, Asks
    <3>2. Judge(TRUE, kept)
      BY <1>2, <3>1 DEF Reply, Judge
    <3> QED BY <1>2, <3>1, <3>2 DEF Refresh
  <2>2. "invitee" \in Actor /\ "invitee" \in Email /\ users \in [Email -> UserRole \cup {Nil}]
    BY SmokeConstants DEF Actor, IInv, TypeOK
  <2>3. new \in AccountType /\ token \in TokenType
    <3>1. kept.token.tenant \in SomeSlug /\ at \in Nat
      BY <1>1, <1>5 DEF TypeOK_S, TicketType
    <3>2. Nil \in SomeSlug
      BY DEF SomeSlug
    <3> QED BY <2>2, <3>1, <3>2 DEF AccountType, TokenType
  <2>4. /\ pc' = pc /\ users["invitee"] = Nil
        /\ users' = [users EXCEPT !["invitee"] = "user"] /\ Nil # "user"
    BY <2>1, NilDiffers DEF Enrol, UserRole
  <2>5. Lasting /\ users'["invitee"] # Nil
    BY <2>2, <2>4 DEF Lasting
  <2>6. account' \in [Actor -> AccountType] /\ live' \subseteq TokenType /\ pending' \subseteq TicketType
    BY <1>1, <2>1, <2>3 DEF TypeOK_S
  <2>7. ASSUME Advance, kept' = kept, config' = config
        PROVE  Keeps' /\ LiveFits' /\ AccountsFit'
    <3>1. Keeps'
      BY <1>1, <1>2, <2>5, <2>7, KeepsOn DEF Going
    <3>2. LiveFits'
      <4>1. token.user = "invitee" /\ live' = live \cup {token}
        BY <2>1
      <4> HIDE DEF token
      <4>2. ~Changed' /\ ~Reset' /\ ~Founded' /\ ~Changed /\ ~Reset
        BY <1>1, <1>2, <2>7, PastAdvance DEF Founded, Changed, Reset
      <4> QED BY <1>1, <4>1, <4>2 DEF Going, LiveFits
    <3>3. \A u \in Actor : u # "invitee" => account'[u] = account[u]
      BY <1>1, <2>1 DEF TypeOK_S
    <3>4. account'["invitee"].role = Nil
      BY <1>1, <2>1, <2>2 DEF TypeOK_S
    <3>5. ~Changed' /\ ~Reset' /\ ~Changed /\ ~Reset /\ ~Unassigned'
      BY <1>1, <1>2, <2>7, PastAdvance DEF Changed, Reset, Unassigned
    <3>6. \A u \in Actor : u \in Email
      BY SmokeConstants
    <3>7. AccountsFit'
      BY <1>1, <2>5, <3>3, <3>4, <3>5, <3>6 DEF Going, AccountsFit, Lasting
    <3> QED BY <3>1, <3>2, <3>7
  <2>8. PendingFits'
    <3>1. \A t \in pending : t.kind = "verify" => t.user \in Actor /\ t.user \in Email /\ t.user # "invitee"
      BY <1>1, <2>4, SmokeConstants DEF Going, PendingFits, TypeOK_S, TicketType
    <3>2. \A u \in Actor : u # "invitee" => account'[u] = account[u]
      BY <1>1, <2>1 DEF TypeOK_S
    <3> QED BY <1>1, <2>1, <2>5, <3>1, <3>2 DEF Going, PendingFits, TypeOK_S, TicketType, Lasting
  <2> QED BY <1>1, <1>3, <2>1, <2>4, <2>6, <2>7, <2>8, JudgeStep
<1> QED BY <1>4, <1>5

LEMMA AssignStep ==
    ASSUME SInv, AssignMemberRole
    PROVE  SInv'
<1> DEFINE role == IF Step.arg = "role" THEN kept.role ELSE Nil
<1>1. TypeOK_S /\ verdict = "running" /\ pc[Client] = "idle" /\ Going
  BY DEF SInv, AssignMemberRole, Doing
<1>2. at \in {13, 14} /\ Step.who = "invitee" /\ Step.code = 204 /\ (at = 14 => Step.arg # "role")
  BY <1>1, Where DEF AssignMemberRole, Doing, TypeOK_S
<1>3. kept \in KeptType /\ UNCHANGED <<users, pc, live, pending>>
  BY <1>1 DEF TypeOK_S, AssignMemberRole, fvars
<1>4. \/ Judge(FALSE, kept) /\ UNCHANGED account
      \/ Judge(TRUE, kept) /\ account' = [account EXCEPT !["invitee"].role = role]
  BY <1>2 DEF AssignMemberRole, Reply, Judge
<1>5. CASE Judge(FALSE, kept) /\ UNCHANGED account
  BY <1>1, <1>3, <1>5, JudgeStep DEF TypeOK_S
<1>6. CASE Judge(TRUE, kept) /\ account' = [account EXCEPT !["invitee"].role = role]
  <2>1. "invitee" \in Actor /\ role \in SomeSlug /\ (at = 14 => role = Nil)
    BY <1>2, <1>3 DEF Actor, KeptType, SomeSlug
  <2>2. /\ account' \in [Actor -> AccountType]
        /\ \A u \in Actor : /\ account'[u].password = account[u].password
                            /\ account'[u].verified = account[u].verified
                            /\ u # "invitee" => account'[u].role = account[u].role
        /\ account'["invitee"].role = role
    <3> HIDE DEF role
    <3>1. account \in [Actor -> AccountType]
      BY <1>1 DEF TypeOK_S
    <3> QED BY <1>6, <2>1, <3>1 DEF AccountType
  <2>3. Lasting
    BY <1>3 DEF Lasting
  <2>4. ASSUME Advance, kept' = kept, config' = config
        PROVE  Keeps' /\ LiveFits' /\ AccountsFit'
    <3>1. Keeps' /\ LiveFits'
      BY <1>1, <1>2, <1>3, <2>3, <2>4, KeepsOn, LiveOn DEF Going
    <3>2. AccountsFit'
      BY <1>1, <1>2, <1>3, <2>1, <2>2, <2>4, PastAdvance
         DEF Going, AccountsFit, Changed, Reset, Unassigned, Actor
    <3> QED BY <3>1, <3>2
  <2>5. PendingFits'
    BY <1>1, <1>3, <2>2, <2>3, PendingOn DEF Going
  <2> QED BY <1>1, <1>3, <1>6, <2>2, <2>4, <2>5, JudgeStep DEF TypeOK_S
<1> QED BY <1>4, <1>5, <1>6

LEMMA RefreshStep ==
    ASSUME SInv, RefreshTokens
    PROVE  SInv'
<1> DEFINE token == Refresh(kept.refresh.user)
           k == [kept EXCEPT !.refresh = token]
<1>1. TypeOK_S /\ verdict = "running" /\ pc[Client] = "idle" /\ Going
  BY DEF SInv, RefreshTokens, Doing
<1>2. at = 16 /\ Step.code = 200
  BY <1>1, Where DEF RefreshTokens, Doing, TypeOK_S
<1>3. kept \in KeptType /\ UNCHANGED <<users, pc, account, pending>>
  BY <1>1 DEF TypeOK_S, RefreshTokens, fvars
<1>4. CASE kept.refresh \notin live
  <2>1. Judge(FALSE, kept) /\ UNCHANGED live
    BY <1>2, <1>4 DEF RefreshTokens, Reply, Judge
  <2> QED BY <1>1, <1>3, <2>1, JudgeStep DEF TypeOK_S
<1>5. CASE kept.refresh \in live
  <2>1. Judge(TRUE, k) /\ live' = (live \ {kept.refresh}) \cup {token}
    BY <1>2, <1>5 DEF RefreshTokens, Reply, Judge
  <2>2. token \in TokenType /\ token.user = kept.refresh.user
    BY <1>1, <1>5 DEF TypeOK_S, TokenType, Refresh
  <2>3. /\ k \in KeptType /\ k.access = kept.access /\ k.token = kept.token
        /\ k.refresh.user = kept.refresh.user
    <3> HIDE DEF token
    <3> QED BY <1>3, <2>2 DEF KeptType
  <2>4. Lasting
    BY <1>3 DEF Lasting
  <2>5. /\ \A t \in live' : \E s \in live : s.user = t.user
        /\ \A t \in live : \E s \in live' : s.user = t.user
    BY <1>5, <2>1, <2>2
  <2>6. live' \subseteq TokenType
    BY <1>1, <2>1, <2>2 DEF TypeOK_S
  <2> HIDE DEF k
  <2>7. ASSUME Advance, kept' = k, config' = config
        PROVE  Keeps' /\ LiveFits' /\ AccountsFit'
    BY <1>1, <1>2, <1>3, <2>3, <2>4, <2>5, <2>7, KeepsOn, LiveOn, AccountsOn DEF Going
  <2>8. PendingFits'
    BY <1>1, <1>3, <2>4, PendingOn DEF Going
  <2> QED BY <1>1, <1>3, <2>1, <2>3, <2>6, <2>7, <2>8, JudgeStep DEF TypeOK_S
<1> QED BY <1>4, <1>5

\* It ends a session of the owner.
LEMMA LogoutStep ==
    ASSUME SInv, Logout
    PROVE  SInv'
<1>1. TypeOK_S /\ verdict = "running" /\ pc[Client] = "idle" /\ Going
  BY DEF SInv, Logout, Doing
<1>2. at = 17
  BY <1>1, Where DEF Logout, Doing, TypeOK_S
<1>3. kept \in KeptType /\ UNCHANGED <<users, pc, account, pending>> /\ live' = live \ {kept.refresh}
  BY <1>1 DEF TypeOK_S, Logout, fvars
<1>4. \E good \in BOOLEAN : Judge(good, kept)
  BY DEF Logout, Reply
<1>5. Lasting
  BY <1>3 DEF Lasting
<1>6. kept.refresh.user = "owner"
  BY <1>1, <1>2 DEF Going, Keeps
<1>7. ASSUME Advance, kept' = kept, config' = config
      PROVE  Keeps' /\ LiveFits' /\ PendingFits' /\ AccountsFit'
  BY <1>1, <1>2, <1>3, <1>5, <1>6, <1>7, KeepsOn, LiveOn, PendingOn, AccountsOn DEF Going
<1>8. live' \subseteq TokenType
  BY <1>1, <1>3 DEF TypeOK_S
<1> QED BY <1>1, <1>3, <1>4, <1>7, <1>8, JudgeStep DEF TypeOK_S

LEMMA LoginStep ==
    ASSUME SInv, Login
    PROVE  SInv'
<1> DEFINE k == [kept EXCEPT !.pick = [user |-> Step.who, tenant |-> account[Step.who].tenant]]
<1>1. TypeOK_S /\ verdict = "running" /\ pc[Client] = "idle" /\ Going
  BY DEF SInv, Login, Doing
<1>2. at \in {18, 21, 26} /\ Step.who \in Actor /\ (at = 18 => Step.who = "owner")
  BY <1>1, Where DEF Login, Doing, TypeOK_S
<1>3. kept \in KeptType /\ UNCHANGED <<users, pc, account, live, pending>>
  BY <1>1 DEF TypeOK_S, Login, fvars
<1>4. \E good \in BOOLEAN : Judge(good, k)
  BY DEF Login, Reply
<1>5. /\ k \in KeptType /\ k.access = kept.access /\ k.refresh = kept.refresh /\ k.token = kept.token
      /\ k.pick.user = Step.who
  <2>1. account[Step.who].tenant \in SomeSlug
    BY <1>1, <1>2 DEF TypeOK_S, AccountType
  <2> QED BY <1>2, <1>3, <2>1 DEF KeptType, SessionType
<1>6. Lasting
  BY <1>3 DEF Lasting
<1> HIDE DEF k
<1>7. ASSUME Advance, kept' = k, config' = config
      PROVE  Keeps' /\ LiveFits' /\ PendingFits' /\ AccountsFit'
  <2>1. Keeps'
    BY <1>1, <1>2, <1>5, <1>6, <1>7, KeepsOn DEF Going
  <2>2. LiveFits' /\ PendingFits' /\ AccountsFit'
    BY <1>1, <1>2, <1>3, <1>6, <1>7, LiveOn, PendingOn, AccountsOn DEF Going
  <2> QED BY <2>1, <2>2
<1> QED BY <1>1, <1>3, <1>4, <1>5, <1>7, JudgeStep DEF TypeOK_S

LEMMA TenantSessionStep ==
    ASSUME SInv, TenantSession
    PROVE  SInv'
<1> DEFINE token == Refresh(kept.pick.user)
           k == [kept EXCEPT !.access = kept.pick, !.refresh = token]
<1>1. TypeOK_S /\ verdict = "running" /\ pc[Client] = "idle" /\ Going
  BY DEF SInv, TenantSession, Doing
<1>2. at = 19 /\ Step.code = 200
  BY <1>1, Where DEF TenantSession, Doing, TypeOK_S
<1>3. kept \in KeptType /\ UNCHANGED <<users, pc, account, pending>>
  BY <1>1 DEF TypeOK_S, TenantSession, fvars
<1>4. kept.pick.user = "owner" /\ kept.pick \in SessionType /\ "owner" \in Actor
  BY <1>1, <1>2, <1>3 DEF Going, Keeps, KeptType, Actor
<1>5. \/ Judge(FALSE, kept) /\ UNCHANGED live
      \/ Judge(TRUE, k) /\ live' = live \cup {token}
  BY <1>2 DEF TenantSession, Reply, Judge
<1>6. CASE Judge(FALSE, kept) /\ UNCHANGED live
  BY <1>1, <1>3, <1>6, JudgeStep DEF TypeOK_S
<1>7. CASE Judge(TRUE, k) /\ live' = live \cup {token}
  <2>1. token \in TokenType /\ token.user = "owner"
    BY <1>1, <1>4 DEF TypeOK_S, TokenType, Refresh
  <2>2. k \in KeptType /\ k.access.user = "owner" /\ k.refresh.user = "owner" /\ k.token = kept.token
    <3> HIDE DEF token
    <3> QED BY <1>3, <1>4, <2>1 DEF KeptType
  <2>3. Lasting
    BY <1>3 DEF Lasting
  <2> HIDE DEF k
  <2>4. ASSUME Advance, kept' = k, config' = config
        PROVE  Keeps' /\ LiveFits' /\ AccountsFit'
    <3>1. kept.access.user = "owner" /\ kept.refresh.user = "owner"
      BY <1>1, <1>2 DEF Going, Keeps
    <3>2. Keeps'
      BY <1>1, <1>2, <1>3, <2>2, <2>3, <2>4, <3>1, KeepsOn DEF Going
    <3>3. LiveFits'
      BY <1>1, <1>2, <1>7, <2>1, <2>4, PastAdvance DEF Going, LiveFits, Joined, Founded, Changed, Reset
    <3> QED BY <1>1, <1>2, <1>3, <2>3, <2>4, <3>2, <3>3, AccountsOn DEF Going
  <2>5. PendingFits'
    BY <1>1, <1>3, <2>3, PendingOn DEF Going
  <2>6. live' \subseteq TokenType
    BY <1>1, <1>7, <2>1 DEF TypeOK_S
  <2> QED BY <1>1, <1>3, <1>7, <2>2, <2>4, <2>5, <2>6, JudgeStep DEF TypeOK_S
<1> QED BY <1>5, <1>6, <1>7

\* It ends all sessions of the owner.
LEMMA ChangeStep ==
    ASSUME SInv, ChangePassword
    PROVE  SInv'
<1>1. TypeOK_S /\ verdict = "running" /\ pc[Client] = "idle" /\ Going
  BY DEF SInv, ChangePassword, Doing
<1>2. at = 20 /\ Step.code = 204
  BY <1>1, Where DEF ChangePassword, Doing, TypeOK_S
<1>3. kept \in KeptType /\ UNCHANGED <<users, pc, pending>>
  BY <1>1 DEF TypeOK_S, ChangePassword, fvars
<1>4. Bearer.user = "owner" /\ "owner" \in Actor
  BY <1>1, <1>2 DEF Going, Keeps, Bearer, Actor
<1>5. \/ Judge(FALSE, kept) /\ UNCHANGED <<account, live>>
      \/ /\ Judge(TRUE, kept) /\ live' = {t \in live : t.user # "owner"}
         /\ account' = [account EXCEPT !["owner"].password = "new"]
  BY <1>2, <1>4 DEF ChangePassword, Reply, Judge
<1>6. CASE Judge(FALSE, kept) /\ UNCHANGED <<account, live>>
  BY <1>1, <1>3, <1>6, JudgeStep DEF TypeOK_S
<1>7. CASE /\ Judge(TRUE, kept) /\ live' = {t \in live : t.user # "owner"}
           /\ account' = [account EXCEPT !["owner"].password = "new"]
  <2>1. /\ account' \in [Actor -> AccountType]
        /\ \A u \in Actor : /\ account'[u].role = account[u].role
                            /\ account'[u].verified = account[u].verified
        /\ account'["owner"].password = "new"
    <3>1. account \in [Actor -> AccountType]
      BY <1>1 DEF TypeOK_S
    <3> QED BY <1>4, <1>7, <3>1 DEF AccountType
  <2>2. Lasting
    BY <1>3 DEF Lasting
  <2>3. ASSUME Advance, kept' = kept, config' = config
        PROVE  Keeps' /\ LiveFits' /\ AccountsFit'
    <3>1. Keeps'
      BY <1>1, <1>2, <1>3, <2>2, <2>3, KeepsOn DEF Going
    <3>2. /\ ~Reset' /\ ~Reset /\ ~Founded' /\ Joined
          /\ Joined' /\ (Unassigned' <=> Unassigned)
      BY <1>1, <1>2, <2>3, PastAdvance DEF Joined, Founded, Reset, Unassigned
    <3>3. LiveFits'
      BY <1>1, <1>7, <3>2 DEF Going, LiveFits
    <3>4. AccountsFit'
      BY <1>1, <1>3, <2>1, <3>2 DEF Going, AccountsFit
    <3> QED BY <3>1, <3>3, <3>4
  <2>4. PendingFits'
    BY <1>1, <1>3, <2>1, <2>2, PendingOn DEF Going
  <2>5. live' \subseteq TokenType
    BY <1>1, <1>7 DEF TypeOK_S
  <2> QED BY <1>1, <1>3, <1>7, <2>1, <2>3, <2>4, <2>5, JudgeStep DEF TypeOK_S
<1> QED BY <1>5, <1>6, <1>7

LEMMA SignupStep ==
    ASSUME IInv, SInv, Signup
    PROVE  SInv'
<1> DEFINE who == Step.who
           ticket == Ticket("verify", who, Nil)
           k == [kept EXCEPT !.token = Shown(ticket)]
<1>1. TypeOK_S /\ verdict = "running" /\ pc[Client] = "idle" /\ Going
  BY DEF SInv, Signup, Asks, Doing
<1>2. /\ at \in {22, 24} /\ who = IF at = 22 THEN "resend" ELSE "signup"
      /\ Step.arg = "old" /\ Step.code = 201
  BY <1>1, Where DEF Signup, Asks, Doing, TypeOK_S
<1>3. kept \in KeptType /\ who \in Actor /\ who \in Email
  BY <1>1, <1>2, SmokeConstants DEF TypeOK_S, Actor
<1>4. \/ Judge(FALSE, kept) /\ UNCHANGED <<pc, account, live, pending>>
      \/ /\ Enrol(who, FALSE) /\ account' = [account EXCEPT ![who].password = "old"]
         /\ pending' = pending \cup {ticket} /\ Judge(TRUE, k) /\ UNCHANGED live
  <2>1. PICK u \in Actor :
            /\ u = Step.who
            /\ \/ Reply(409, kept) /\ UNCHANGED <<fvars, account, pending>>
               \/ /\ Enrol(u, FALSE) /\ account' = [account EXCEPT ![u].password = Step.arg]
                  /\ pending' = pending \cup {Ticket("verify", u, Nil)}
                  /\ Reply(201, [kept EXCEPT !.token = Shown(Ticket("verify", u, Nil))])
            /\ UNCHANGED live
    BY DEF Signup, Asks
  <2>2. (Reply(409, kept) => Judge(FALSE, kept)) /\ (Reply(201, k) => Judge(TRUE, k))
    BY <1>2 DEF Reply, Judge
  <2> QED BY <1>2, <2>1, <2>2 DEF fvars
<1>5. CASE Judge(FALSE, kept) /\ UNCHANGED <<pc, account, live, pending>>
  BY <1>1, <1>3, <1>5, JudgeStep DEF TypeOK_S
<1>6. CASE /\ Enrol(who, FALSE) /\ account' = [account EXCEPT ![who].password = "old"]
           /\ pending' = pending \cup {ticket} /\ Judge(TRUE, k) /\ UNCHANGED live
  <2>1. ticket \in TicketType /\ ticket.kind = "verify" /\ ticket.user = who
    <3>1. Nil \in SomeSlug
      BY DEF SomeSlug
    <3> QED BY <1>1, <1>3, <3>1, TicketTyped
  <2> HIDE DEF who, ticket
  <2>2. /\ pc' = pc /\ users[who] = Nil
        /\ users' = [users EXCEPT ![who] = "user"] /\ Nil # "user"
        /\ users \in [Email -> UserRole \cup {Nil}]
    BY <1>6, NilDiffers DEF Enrol, UserRole, IInv, TypeOK
  <2>3. Lasting /\ users'[who] # Nil
    BY <1>3, <2>2 DEF Lasting
  <2>4. /\ k \in KeptType /\ k.access = kept.access /\ k.refresh = kept.refresh
        /\ config.local => k.token = ticket
    BY <1>3, <2>1 DEF KeptType, Shown
  <2>5. /\ account' \in [Actor -> AccountType]
        /\ \A u \in Actor : /\ account'[u].role = account[u].role
                            /\ account'[u].verified = account[u].verified
                            /\ u # who => account'[u].password = account[u].password
    <3>1. account \in [Actor -> AccountType]
      BY <1>1 DEF TypeOK_S
    <3> QED BY <1>3, <1>6, <3>1 DEF AccountType
  <2> HIDE DEF k
  <2>6. ASSUME Advance, kept' = k, config' = config
        PROVE  Keeps' /\ LiveFits' /\ AccountsFit'
    <3>1. /\ config.local /\ at' = at + 1 /\ Invited /\ Invited' /\ ~Forgetful'
          /\ ~Reset' /\ ~Reset /\ Changed /\ Changed' /\ Unassigned /\ Unassigned'
      BY <1>1, <1>2, <2>6, PastAdvance DEF Going, Keeps, Invited, Forgetful, Reset, Changed, Unassigned
    <3>2. Keeps'
      BY <1>2, <2>1, <2>4, <2>6, <3>1 DEF Keeps
    <3>3. LiveFits'
      BY <1>1, <1>2, <1>6, <2>6, LiveOn DEF Going
    <3>4. who # "owner" /\ who # "forgot" /\ "owner" \in Actor
      BY <1>2 DEF Actor
    <3>5. AccountsFit'
      BY <1>1, <2>3, <2>5, <3>1, <3>4, SmokeConstants DEF Going, AccountsFit, Lasting
    <3> QED BY <3>2, <3>3, <3>5
  <2>7. PendingFits'
    <3>1. ~account[who].verified
      BY <1>1, <1>3, <2>2 DEF Going, AccountsFit
    <3>2. \A t \in pending : t.user \in Actor /\ t.user \in Email
      BY <1>1, SmokeConstants DEF TypeOK_S, TicketType
    <3>3. \A t \in pending : t.kind = "verify" => t.user # who
      BY <1>1, <2>2 DEF Going, PendingFits
    <3>4. \A t, t2 \in pending' : t.user = t2.user /\ t.kind = t2.kind => t = t2
      BY <1>1, <1>6, <2>1, <3>3 DEF Going, PendingFits
    <3>5. \A t \in pending' : t.kind = "verify" =>
              t.user \in {"resend", "signup"} /\ ~account'[t.user].verified /\ users'[t.user] # Nil
      BY <1>1, <1>2, <1>3, <1>6, <2>1, <2>3, <2>5, <3>1, <3>2 DEF Going, PendingFits, Lasting
    <3> QED BY <3>4, <3>5 DEF PendingFits
  <2>8. live' \subseteq TokenType /\ pending' \subseteq TicketType
    BY <1>1, <1>6, <2>1 DEF TypeOK_S
  <2> QED BY <1>1, <1>6, <2>2, <2>4, <2>5, <2>6, <2>7, <2>8, JudgeStep
<1> QED BY <1>4, <1>5, <1>6

LEMMA ResendStep ==
    ASSUME SInv, ResendVerification
    PROVE  SInv'
<1> DEFINE ticket == Ticket("verify", "resend", Nil)
<1>1. TypeOK_S /\ verdict = "running" /\ pc[Client] = "idle" /\ Going
  BY DEF SInv, ResendVerification, Doing
<1>2. at = 23 /\ Step.who = "resend"
  BY <1>1, Where DEF ResendVerification, Doing, TypeOK_S
<1>3. kept \in KeptType /\ UNCHANGED <<users, pc, account, live>>
  BY <1>1 DEF TypeOK_S, ResendVerification, fvars
<1>4. \/ UNCHANGED pending
      \/ /\ users["resend"] # Nil /\ ~account["resend"].verified
         /\ pending' = {t \in pending : t.kind # "verify" \/ t.user # "resend"} \cup {ticket}
  BY <1>2 DEF ResendVerification
<1>5. PICK good \in BOOLEAN : Judge(good, kept)
  BY DEF ResendVerification, Reply
<1>6. ticket \in TicketType /\ ticket.kind = "verify" /\ ticket.user = "resend"
  <2>1. Nil \in SomeSlug /\ "resend" \in Actor
    BY DEF SomeSlug, Actor
  <2> QED BY <1>1, <2>1, TicketTyped
<1> HIDE DEF ticket
<1>7. Lasting
  BY <1>3 DEF Lasting
<1>8. ASSUME Advance, kept' = kept, config' = config
      PROVE  Keeps' /\ LiveFits' /\ AccountsFit'
  BY <1>1, <1>2, <1>3, <1>7, <1>8, KeepsOn, LiveOn, AccountsOn DEF Going
<1>9. PendingFits' /\ pending' \subseteq TicketType
  BY <1>1, <1>3, <1>4, <1>6 DEF Going, PendingFits, TypeOK_S
<1> QED BY <1>1, <1>3, <1>5, <1>8, <1>9, JudgeStep DEF TypeOK_S

LEMMA VerifyStep ==
    ASSUME SInv, VerifyEmail
    PROVE  SInv'
<1> DEFINE u == kept.token.user
<1>1. TypeOK_S /\ verdict = "running" /\ pc[Client] = "idle" /\ Going
  BY DEF SInv, VerifyEmail, Doing
<1>2. at = 25 /\ Step.code = 204
  BY <1>1, Where DEF VerifyEmail, Doing, TypeOK_S
<1>3. kept \in KeptType /\ UNCHANGED <<users, pc, live>>
  BY <1>1 DEF TypeOK_S, VerifyEmail, fvars
<1>4. CASE kept.token \notin pending
  <2>1. Judge(FALSE, kept) /\ UNCHANGED <<account, pending>>
    BY <1>2, <1>4 DEF VerifyEmail, Reply, Judge
  <2> QED BY <1>1, <1>3, <2>1, JudgeStep DEF TypeOK_S
<1>5. CASE kept.token \in pending
  <2>1. /\ Judge(TRUE, kept) /\ account' = [account EXCEPT ![u].verified = TRUE]
        /\ pending' = {t \in pending : t.kind # "verify" \/ t.user # u}
    BY <1>2, <1>5 DEF VerifyEmail, Reply, Judge
  <2>2. u \in Actor /\ users[u] # Nil
    <3>1. kept.token.kind = "verify"
      BY <1>1, <1>2 DEF Going, Keeps
    <3> QED BY <1>1, <1>5, <3>1 DEF Going, PendingFits, TypeOK_S, TicketType
  <2> HIDE DEF u
  <2>3. /\ account' \in [Actor -> AccountType]
        /\ \A v \in Actor : /\ account'[v].role = account[v].role
                            /\ account'[v].password = account[v].password
                            /\ v # u => account'[v].verified = account[v].verified
    <3>1. account \in [Actor -> AccountType]
      BY <1>1 DEF TypeOK_S
    <3> QED BY <2>1, <2>2, <3>1 DEF AccountType
  <2>4. Lasting
    BY <1>3 DEF Lasting
  <2>5. ASSUME Advance, kept' = kept, config' = config
        PROVE  Keeps' /\ LiveFits' /\ AccountsFit'
    <3>1. Keeps' /\ LiveFits'
      BY <1>1, <1>2, <1>3, <2>4, <2>5, KeepsOn, LiveOn DEF Going
    <3>2. ~Reset' /\ Changed /\ Changed' /\ Unassigned /\ Unassigned'
      BY <1>1, <1>2, <2>5, PastAdvance DEF Changed, Reset, Unassigned
    <3>3. "owner" \in Actor
      BY DEF Actor
    <3>4. AccountsFit'
      BY <1>1, <1>3, <2>2, <2>3, <3>2, <3>3 DEF Going, AccountsFit
    <3> QED BY <3>1, <3>4
  <2>6. PendingFits'
    <3>1. \A t \in pending' : t \in pending /\ t.user \in Actor /\ (t.kind = "verify" => t.user # u)
      BY <1>1, <2>1 DEF TypeOK_S, TicketType
    <3> QED BY <1>1, <1>3, <2>3, <3>1 DEF Going, PendingFits
  <2>7. pending' \subseteq TicketType
    BY <1>1, <2>1 DEF TypeOK_S
  <2> QED BY <1>1, <1>3, <2>1, <2>3, <2>5, <2>6, <2>7, JudgeStep DEF TypeOK_S
<1> QED BY <1>4, <1>5

LEMMA ForgotStep ==
    ASSUME SInv, ForgotPassword
    PROVE  SInv'
<1> DEFINE ticket == Ticket("reset", "forgot", Nil)
           k == [kept EXCEPT !.token = Shown(ticket)]
<1>1. TypeOK_S /\ verdict = "running" /\ pc[Client] = "idle" /\ Going
  BY DEF SInv, ForgotPassword, Doing
<1>2. at = 29 /\ Step.who = "forgot" /\ Step.code = 200
  BY <1>1, Where DEF ForgotPassword, Doing, TypeOK_S
<1>3. kept \in KeptType /\ UNCHANGED <<users, pc, account, live>>
  BY <1>1 DEF TypeOK_S, ForgotPassword, fvars
<1>4. config.local /\ users["forgot"] # Nil
  <2>1. Invited /\ Forgetful
    BY <1>1, <1>2 DEF Invited, Forgetful, Past
  <2> QED BY <1>1, <2>1 DEF Going, Keeps
<1>5. /\ Judge(TRUE, k)
      /\ pending' = {t \in pending : t.kind # "reset" \/ t.user # "forgot"} \cup {ticket}
  <2>1. users[Step.who] # Nil
    BY <1>2, <1>4
  <2>2. /\ pending' = {t \in pending : t.kind # "reset" \/ t.user # Step.who} \cup {Ticket("reset", Step.who, Nil)}
        /\ Reply(200, [kept EXCEPT !.token = Shown(Ticket("reset", Step.who, Nil))])
    BY <2>1, Zenon DEF ForgotPassword
  <2>3. Reply(200, k) /\ pending' = {t \in pending : t.kind # "reset" \/ t.user # "forgot"} \cup {ticket}
    BY <1>2, <2>2
  <2> HIDE DEF k, ticket
  <2> QED BY <1>2, <2>3 DEF Reply, Judge
<1>6. ticket \in TicketType /\ ticket.kind = "reset" /\ ticket.user = "forgot"
  <2>1. Nil \in SomeSlug /\ "forgot" \in Actor
    BY DEF SomeSlug, Actor
  <2> QED BY <1>1, <2>1, TicketTyped
<1> HIDE DEF ticket
<1>7. /\ k \in KeptType /\ k.access = kept.access /\ k.refresh = kept.refresh
      /\ k.token = ticket
  BY <1>3, <1>4, <1>6 DEF KeptType, Shown
<1> HIDE DEF k
<1>8. Lasting
  BY <1>3 DEF Lasting
<1>9. ASSUME Advance, kept' = k, config' = config
      PROVE  Keeps' /\ LiveFits' /\ AccountsFit'
  <2>1. Keeps'
    <3>1. at' = 30
      BY <1>1, <1>2, <1>9, PastAdvance
    <3> QED BY <1>3, <1>4, <1>6, <1>7, <1>9, <3>1 DEF Keeps
  <2> QED BY <1>1, <1>2, <1>3, <1>8, <1>9, <2>1, LiveOn, AccountsOn DEF Going
<1>10. PendingFits' /\ pending' \subseteq TicketType
  BY <1>1, <1>3, <1>5, <1>6 DEF Going, PendingFits, TypeOK_S
<1> QED BY <1>1, <1>3, <1>5, <1>7, <1>9, <1>10, JudgeStep DEF TypeOK_S

\* It ends all sessions of the user who forgot the password.
LEMMA ResetStep ==
    ASSUME SInv, ResetPassword
    PROVE  SInv'
<1>1. TypeOK_S /\ verdict = "running" /\ pc[Client] = "idle" /\ Going
  BY DEF SInv, ResetPassword, Doing
<1>2. at = 30 /\ Step.code = 204 /\ Step.arg = "new"
  BY <1>1, Where DEF ResetPassword, Doing, TypeOK_S
<1>3. kept \in KeptType /\ UNCHANGED <<users, pc>>
  BY <1>1 DEF TypeOK_S, ResetPassword, fvars
<1>4. kept.token.user = "forgot" /\ "forgot" \in Actor
  BY <1>1, <1>2 DEF Going, Keeps, Actor
<1>5. \/ Judge(FALSE, kept) /\ UNCHANGED <<account, live, pending>>
      \/ /\ Judge(TRUE, kept) /\ live' = {t \in live : t.user # "forgot"}
         /\ account' = [account EXCEPT !["forgot"].password = "new"]
         /\ pending' \subseteq pending
  BY <1>2, <1>4 DEF ResetPassword, Reply, Judge
<1>6. CASE Judge(FALSE, kept) /\ UNCHANGED <<account, live, pending>>
  BY <1>1, <1>3, <1>6, JudgeStep DEF TypeOK_S
<1>7. CASE /\ Judge(TRUE, kept) /\ live' = {t \in live : t.user # "forgot"}
           /\ account' = [account EXCEPT !["forgot"].password = "new"]
           /\ pending' \subseteq pending
  <2>1. /\ account' \in [Actor -> AccountType]
        /\ \A u \in Actor : /\ account'[u].role = account[u].role
                            /\ account'[u].verified = account[u].verified
                            /\ u # "forgot" => account'[u].password = account[u].password
        /\ account'["forgot"].password = "new"
    <3>1. account \in [Actor -> AccountType]
      BY <1>1 DEF TypeOK_S
    <3> QED BY <1>4, <1>7, <3>1 DEF AccountType
  <2>2. Lasting
    BY <1>3 DEF Lasting
  <2>3. ASSUME Advance, kept' = kept, config' = config
        PROVE  Keeps' /\ LiveFits' /\ AccountsFit'
    <3>1. Keeps'
      BY <1>1, <1>2, <1>3, <2>2, <2>3, KeepsOn DEF Going
    <3>2. Joined /\ Founded /\ Changed /\ Unassigned
      BY <1>1, <1>2, PastAdvance, <2>3 DEF Joined, Founded, Changed, Unassigned
    <3>3. Unassigned'
      BY <1>1, <1>2, PastAdvance, <2>3 DEF Unassigned
    <3>4. LiveFits'
      BY <1>1, <1>7, <3>2 DEF Going, LiveFits
    <3>5. AccountsFit'
      <4>1. "owner" \in Actor
        BY DEF Actor
      <4> QED BY <1>1, <1>3, <2>1, <3>2, <3>3, <4>1 DEF Going, AccountsFit
    <3> QED BY <3>1, <3>4, <3>5
  <2>4. PendingFits'
    BY <1>1, <1>7, <2>1, <2>2, PendingOn DEF Going
  <2>5. live' \subseteq TokenType /\ pending' \subseteq TicketType
    BY <1>1, <1>7 DEF TypeOK_S
  <2> QED BY <1>1, <1>3, <1>7, <2>1, <2>3, <2>4, <2>5, JudgeStep DEF TypeOK_S
<1> QED BY <1>5, <1>6, <1>7

--------------------------------------------------------------------------
(* Its requests to Founding *)

\* What is left to show of a step that leaves the script where it is.
LEMMA SameStep == at' = at => Step' = Step
BY DEF Step

\* The script waits for the answer of the request it sends.
LEMMA SendStep ==
    ASSUME IInv, SInv, verdict = "running", Send,
           NEW r, NEW label, NEW code, Receive(Client, r, label, code), code # "ok",
           \/ Step.op = "register" /\ r.kind = "register" /\ r.email = Step.who
           \/ Step.op = "create_tenant" /\ r.kind = "tenant" /\ r.email = Step.who /\ account[r.email].verified
           \/ Step.op = "create_role" /\ r.kind = "role"
    PROVE  SInv'
<1>1. /\ TypeOK_S /\ Going /\ verdict' = "waiting"
      /\ UNCHANGED <<config, at, kept, account, live, pending, users>>
  BY DEF SInv, Send, Receive
<1>2. req'[Client] = r /\ answer'[Client] = code
  BY SmokeConstants DEF Receive, IInv, TypeOK
<1>3. TypeOK_S'
  BY <1>1 DEF TypeOK_S
<1>4. InFlight'
  BY <1>1, <1>2, SameStep DEF InFlight
<1>5. Keeps' /\ LiveFits' /\ PendingFits' /\ AccountsFit'
  BY <1>1 DEF Going, Keeps, LiveFits, PendingFits, AccountsFit, Past,
              Invited, Joined, Unassigned, Changed, Founded, Forgetful, Reset
<1> QED
  BY <1>1, <1>3, <1>4, <1>5 DEF SInv, Going

LEMMA SendsStep ==
    ASSUME IInv, SInv, SendRegister \/ SendTenant \/ SendRole
    PROVE  SInv'
<1>1. Nil # "ok"
  BY NilDiffers DEF Answer
<1>2. CASE SendRegister
  <2>1. PICK who \in Actor : Asks(who, "register") /\ Register(Client, who, <<who>>) /\ Send
    BY <1>2 DEF SendRegister
  <2>2. verdict = "running" /\ Step.op = "register" /\ who = Step.who
    BY <2>1 DEF Asks, Doing
  <2> DEFINE r == Request("register", who, Tenants, slugify(<<who>>, "tenant"))
  <2>3. r.kind = "register" /\ r.email = who
    BY DEF Request
  <2>4. Receive(Client, r, "count", Nil) \/ Receive(Client, r, "idle", "email_taken")
    BY <2>1 DEF Register
  <2> HIDE DEF r
  <2> QED BY <1>1, <2>1, <2>2, <2>3, <2>4, SendStep
<1>3. CASE SendTenant
  <2>1. PICK who \in Actor :
            /\ Asks(who, "create_tenant")
            /\ IF kept.pick.user = who /\ account[who].verified
               THEN CreateTenant(Client, who, <<who>>) /\ Send
               ELSE Reply(401, kept) /\ UNCHANGED <<fvars, account, live, pending>>
    BY <1>3 DEF SendTenant
  <2>2. verdict = "running" /\ Step.op = "create_tenant" /\ who = Step.who
    BY <2>1 DEF Asks, Doing
  <2>3. CASE kept.pick.user = who /\ account[who].verified
    <3> DEFINE r == Request("tenant", who, Tenants, slugify(<<who>>, "tenant"))
    <3>1. r.kind = "tenant" /\ r.email = who
      BY DEF Request
    <3>2. Receive(Client, r, "count", Nil) \/ Receive(Client, r, "idle", "forbidden")
      BY <2>1, <2>3 DEF CreateTenant
    <3> HIDE DEF r
    <3> QED BY <1>1, <2>1, <2>2, <2>3, <3>1, <3>2, SendStep
  <2>4. CASE ~(kept.pick.user = who /\ account[who].verified)
    <3>1. TypeOK_S /\ pc[Client] = "idle" /\ kept \in KeptType
      BY <2>2 DEF SInv, TypeOK_S
    <3>2. Step.code = 201
      BY <2>2, <3>1, Where DEF TypeOK_S
    <3>3. Judge(FALSE, kept) /\ UNCHANGED <<pc, account, live, pending>>
      BY <2>1, <2>4, <3>2 DEF Reply, Judge, fvars
    <3> QED BY <2>2, <3>1, <3>3, JudgeStep DEF TypeOK_S
  <2> QED BY <2>3, <2>4
<1>4. CASE SendRole
  <2>1. PICK who \in Actor, tenant \in Taken(Tenants) :
            Doing("create_role") /\ CreateRole(Client, who, tenant, <<"smoke">>) /\ Send
    BY <1>4 DEF SendRole
  <2>2. verdict = "running" /\ Step.op = "create_role"
    BY <2>1 DEF Doing
  <2> DEFINE r == Request("role", who, tenant, slugify(<<"smoke">>, "role"))
  <2>3. r.kind = "role"
    BY DEF Request
  <2>4. Receive(Client, r, "count", Nil)
    BY <2>1 DEF CreateRole
  <2> HIDE DEF r
  <2> QED BY <1>1, <2>1, <2>2, <2>3, <2>4, SendStep
<1> QED BY <1>2, <1>3, <1>4

LEMMA AnsweredStep ==
    ASSUME IInv, SInv, Answered
    PROVE  SInv'
<1> DEFINE r == req[Client]
           k == CASE r.kind = "register" -> [kept EXCEPT !.access = [user |-> r.email, tenant |-> Slug(r)],
                                                         !.refresh = Refresh(r.email)]
                  [] r.kind = "role"     -> [kept EXCEPT !.role = Slug(r)]
                  [] OTHER               -> kept
<1>1. TypeOK_S /\ verdict = "waiting" /\ pc[Client] = "idle" /\ Going /\ kept \in KeptType
  BY DEF SInv, Answered, TypeOK_S
<1>2. UNCHANGED <<users, pc, account, live, pending>>
  BY DEF Answered, fvars
<1>3. \/ answer[Client] = "ok" /\ Judge(201 = Step.code, k)
      \/ answer[Client] # "ok" /\ Judge(500 = Step.code, k)
  BY DEF Answered, Reply
<1>4. /\ Step.code = 201
      /\ \/ at \in {2, 28} /\ r.kind = "register" /\ r.email = IF at = 2 THEN "owner" ELSE "forgot"
         \/ at = 27 /\ r.kind = "tenant" /\ r.email = "signup"
         \/ at = 8 /\ r.kind = "role"
  <2>1. /\ Step.op \in {"register", "create_tenant", "create_role"}
        /\ Step.op = "register" => r.kind = "register" /\ r.email = Step.who
        /\ Step.op = "create_tenant" => r.kind = "tenant" /\ r.email = Step.who
        /\ Step.op = "create_role" => r.kind = "role"
    BY <1>1 DEF Going, InFlight
  <2> HIDE DEF r, k
  <2>2. at \in 1 .. 33
    BY <1>1 DEF TypeOK_S
  <2> QED BY <2>1, <2>2, Where
<1>5. k \in KeptType
  <2>1. Slug(r) \in SomeSlug
    BY SmokeConstants DEF IInv, TypeOK, RequestType, Slug, SomeSlug
  <2>2. r.kind = "register" => Refresh(r.email) \in TokenType /\ r.email \in Actor
    BY <1>1, <1>4 DEF TypeOK_S, TokenType, Refresh, Actor
  <2> QED BY <1>1, <2>1, <2>2 DEF KeptType, SessionType
<1>6. /\ k.token = kept.token
      /\ r.kind = "register" => k.access.user = r.email /\ k.refresh.user = r.email
      /\ r.kind # "register" => k.access = kept.access /\ k.refresh = kept.refresh
  BY <1>1 DEF KeptType, Refresh
<1> HIDE DEF k, r
<1>7. Lasting
  BY <1>2 DEF Lasting
<1>8. ASSUME answer[Client] = "ok", Advance, kept' = k, config' = config
      PROVE  Keeps' /\ LiveFits' /\ PendingFits' /\ AccountsFit'
  <2>1. r.kind # "role" => users[r.email] # Nil /\ \E t \in live : t.user = r.email
    BY <1>1, <1>8 DEF Going, InFlight, r
  <2>2. Keeps'
    <3>1. CASE at \in {8, 27}
      BY <1>1, <1>2, <1>4, <1>6, <1>7, <1>8, <3>1, KeepsOn DEF Going
    <3>2. CASE at = 2
      <4>1. at' = 3 /\ ~Invited' /\ ~Forgetful'
        BY <1>1, <1>8, <3>2, PastAdvance DEF Invited, Forgetful
      <4> QED BY <1>4, <1>6, <1>8, <3>2, <4>1 DEF Keeps
    <3>3. CASE at = 28
      <4>1. at' = 29 /\ Invited
        BY <1>1, <1>8, <3>3, PastAdvance DEF Invited
      <4> QED BY <1>1, <1>2, <1>4, <1>8, <2>1, <3>3, <4>1 DEF Going, Keeps
    <3> QED BY <1>4, <3>1, <3>2, <3>3
  <2>3. LiveFits'
    <3>1. CASE at # 27
      BY <1>1, <1>2, <1>4, <1>8, <3>1, LiveOn DEF Going
    <3>2. CASE at = 27
      <4>1. /\ \E t \in live : t.user = "signup"
            /\ (Joined' <=> Joined) /\ (Changed' <=> Changed) /\ (Reset' <=> Reset)
        BY <1>1, <1>4, <1>8, <2>1, <3>2, PastAdvance DEF Joined, Changed, Reset
      <4> QED BY <1>1, <1>2, <4>1 DEF Going, LiveFits
    <3> QED BY <3>1, <3>2
  <2> QED BY <1>1, <1>2, <1>4, <1>7, <1>8, <2>2, <2>3, PendingOn, AccountsOn DEF Going
<1>9. verdict \in {"running", "waiting"} /\ pc'[Client] = "idle"
  BY <1>1, <1>2
<1>10. account' \in [Actor -> AccountType] /\ live' \subseteq TokenType /\ pending' \subseteq TicketType
  BY <1>1, <1>2 DEF TypeOK_S
<1>11. CASE answer[Client] = "ok"
  <2>1. Judge(TRUE, k)
    BY <1>3, <1>4, <1>11 DEF Judge
  <2> QED BY <1>5, <1>8, <1>9, <1>10, <1>11, <2>1, JudgeStep
<1>12. CASE answer[Client] # "ok"
  <2>1. Judge(FALSE, k)
    BY <1>3, <1>4, <1>12 DEF Judge
  <2> QED BY <1>5, <1>9, <1>10, <2>1, JudgeStep
<1> QED BY <1>11, <1>12

--------------------------------------------------------------------------
(* Its transactions, and everybody else *)

\* A step of Founding keeps the accounts.
LEMMA FoundingLasting ==
    ASSUME IInv, [Next_F]_fvars
    PROVE  Lasting
<1>1. users \in [Email -> UserRole \cup {Nil}] /\ Nil \notin UserRole
  BY NilDiffers DEF IInv, TypeOK
<1>2. \/ users' = users
      \/ \E e \in Email, role \in UserRole : users' = [users EXCEPT ![e] = role]
  <2>1. ASSUME NEW w \in Worker, Arrive(w) PROVE users' = users
    BY <2>1 DEF Arrive, Register, CreateTenant, CreateRole, Seed, Receive
  <2>2. ASSUME NEW w \in Worker, Statement(w) \/ Abort(w), ~Commit(w) PROVE users' = users
    BY <2>2 DEF Statement, Abort, CountFree, CountTaken, InsertUser, InsertTooLong, InsertRow
  <2>3. ASSUME NEW w \in Worker, Commit(w)
        PROVE  \/ users' = users
               \/ \E e \in Email, role \in UserRole : users' = [users EXCEPT ![e] = role]
    <3>1. pc[w] # "idle" /\ Shape(w)
      BY <2>3 DEF Commit, IInv
    <3>2. req[w].email \in Email
      BY <3>1 DEF Shape
    <3>3. "user" \in UserRole /\ "system_manager" \in UserRole
      BY DEF UserRole
    <3> QED BY <2>3, <3>2, <3>3 DEF Commit
  <2>4. ASSUME NEW e \in Email, Join(e) \/ (\E joins \in BOOLEAN : Enrol(e, joins))
        PROVE  users' = users \/ users' = [users EXCEPT ![e] = "user"]
    BY <2>4 DEF Join, Enrol
  <2>5. "user" \in UserRole
    BY DEF UserRole
  <2> QED BY <2>1, <2>2, <2>3, <2>4, <2>5 DEF Next_F, DeleteRole, fvars
<1> QED BY <1>1, <1>2 DEF Lasting

\* The request in flight is of somebody who may have an account.
LEMMA SenderIsActor ==
    ASSUME TypeOK_S, InFlight, verdict = "waiting", req[Client].kind # "role"
    PROVE  /\ req[Client].email \in Actor /\ req[Client].email \in Email
           /\ \/ req[Client].kind = "register" /\ req[Client].email = "owner" /\ at = 2
              \/ req[Client].kind = "register" /\ req[Client].email = "forgot" /\ at = 28
              \/ req[Client].kind = "tenant" /\ req[Client].email = "signup" /\ at = 27
<1> DEFINE r == req[Client]
<1>1. /\ Step.op \in {"register", "create_tenant", "create_role"}
      /\ Step.op = "register" => r.kind = "register" /\ r.email = Step.who
      /\ Step.op = "create_tenant" => r.kind = "tenant" /\ r.email = Step.who
      /\ Step.op = "create_role" => r.kind = "role"
  BY DEF InFlight
<1> HIDE DEF r
<1>2. at \in 1 .. 33
  BY DEF TypeOK_S
<1>3. r.kind # "role"
  BY DEF r
<1>4. \/ r.kind = "register" /\ r.email = "owner" /\ at = 2
      \/ r.kind = "register" /\ r.email = "forgot" /\ at = 28
      \/ r.kind = "tenant" /\ r.email = "signup" /\ at = 27
  BY <1>1, <1>2, <1>3, Where
<1>5. r.email \in Actor /\ r.email \in Email
  BY <1>4, SmokeConstants DEF Actor
<1> QED BY <1>4, <1>5 DEF r

\* What others do, and what the transaction of the script does before its
\* commit, changes nothing that the script relies on.
LEMMA ElsewhereStep ==
    ASSUME SInv, Lasting, UNCHANGED svars,
           verdict # "waiting" => pc'[Client] = pc[Client],
           verdict = "waiting" => /\ req'[Client].kind = req[Client].kind
                                  /\ req'[Client].email = req[Client].email
                                  /\ answer'[Client] = "ok" => answer[Client] = "ok"
    PROVE  SInv'
<1>1. TypeOK_S' /\ (verdict' # "waiting" => pc'[Client] = "idle")
  BY DEF SInv, TypeOK_S, svars
<1>2. ASSUME verdict # "failed" PROVE Going'
  <2>1. TypeOK_S /\ Going /\ at' = at /\ account' = account /\ live' = live /\ verdict' = verdict
    BY <1>2 DEF SInv, svars
  <2>2. InFlight'
    <3> SUFFICES ASSUME verdict = "waiting" PROVE InFlight'
      BY <2>1 DEF InFlight
    <3>1. req[Client].kind # "role" => req[Client].email \in Email
      BY <2>1, SenderIsActor DEF Going
    <3> QED BY <2>1, <3>1, SameStep DEF Going, InFlight, Lasting
  <2>3. Keeps' /\ LiveFits' /\ PendingFits' /\ AccountsFit'
    <3>1. /\ UNCHANGED <<Invited, Joined, Unassigned, Changed, Founded, Forgetful, Reset>>
          /\ UNCHANGED <<config, kept, pending>>
      BY DEF svars, Past, Invited, Joined, Unassigned, Changed, Founded, Forgetful, Reset
    <3>2. "forgot" \in Email /\ Actor \subseteq Email
      BY SmokeConstants DEF Actor
    <3>3. \A t \in pending : t.user \in Email
      BY <2>1, SmokeConstants DEF TypeOK_S, TicketType
    <3>4. Keeps'
      BY <2>1, <3>1, <3>2 DEF Going, Keeps, Lasting
    <3>5. LiveFits'
      BY <2>1, <3>1 DEF Going, LiveFits
    <3>6. PendingFits'
      BY <2>1, <3>1, <3>3 DEF Going, PendingFits, Lasting
    <3>7. AccountsFit'
      BY <2>1, <3>1, <3>2 DEF Going, AccountsFit, Lasting
    <3> QED BY <3>4, <3>5, <3>6, <3>7
  <2> QED BY <2>2, <2>3 DEF Going
<1> QED BY <1>1, <1>2 DEF SInv, svars

\* The commit of the script's own transaction.
LEMMA CommitStepOfClient ==
    ASSUME IInv, SInv, Lasting, CommitOfClient
    PROVE  SInv'
<1> DEFINE r == req[Client]
<1>1. pc[Client] = "commit" /\ UNCHANGED <<config, at, verdict, kept, pending, req>> /\ Client \in Worker
  BY SmokeConstants DEF CommitOfClient, Commit
<1>2. verdict = "waiting" /\ TypeOK_S /\ Going
  BY <1>1 DEF SInv
<1>3. CASE r.kind = "role"
  <2>1. UNCHANGED svars
    BY <1>1, <1>3 DEF CommitOfClient, svars
  <2>2. InFlight'
    BY <1>1, <1>2, <1>3, <2>1, SameStep DEF Going, InFlight, svars
  <2>3. TypeOK_S'
    BY <1>2, <2>1 DEF TypeOK_S, svars
  <2>4. /\ UNCHANGED <<Invited, Joined, Unassigned, Changed, Founded, Forgetful, Reset>>
        /\ UNCHANGED <<config, kept, pending, live, account, at, verdict>>
    BY <2>1 DEF svars, Past, Invited, Joined, Unassigned, Changed, Founded, Forgetful, Reset
  <2>5. "forgot" \in Email /\ Actor \subseteq Email /\ \A t \in pending : t.user \in Email
    BY <1>2, SmokeConstants DEF Actor, TypeOK_S, TicketType
  <2>6. Keeps' /\ LiveFits'
    BY <1>2, <2>4, <2>5 DEF Going, Keeps, LiveFits, Lasting
  <2>7. PendingFits' /\ AccountsFit'
    BY <1>2, <2>4, <2>5 DEF Going, PendingFits, AccountsFit, Lasting
  <2> QED BY <1>2, <2>2, <2>3, <2>4, <2>6, <2>7 DEF SInv, Going
<1>4. CASE r.kind # "role"
  <2> DEFINE e == r.email
  <2>1. /\ e \in Actor /\ e \in Email
        /\ \/ r.kind = "register" /\ e = "owner" /\ at = 2
           \/ r.kind = "register" /\ e = "forgot" /\ at = 28
           \/ r.kind = "tenant" /\ e = "signup" /\ at = 27
    BY <1>2, <1>4, SenderIsActor DEF Going
  <2> DEFINE row == [account[e] EXCEPT !.verified = TRUE, !.tenant = Slug(r),
                                       !.password = IF Founds(Client) THEN "old" ELSE account[e].password]
  <2>2. /\ account' = [account EXCEPT ![e] = row]
        /\ live' = live \cup {Refresh(e)}
    BY <1>4 DEF CommitOfClient
  <2>3. Slug(r) \in SomeSlug /\ Refresh(e) \in TokenType /\ Refresh(e).user = e
    BY <1>1, <1>2, <2>1 DEF IInv, TypeOK, RequestType, Slug, SomeSlug, TypeOK_S, TokenType, Refresh
  <2>4. users'[e] # Nil
    <3>1. r.kind = "tenant" => users[e] # Nil
      BY <1>1 DEF IInv, Shape
    <3>2. r.kind = "register" => users' = [users EXCEPT ![e] = "user"]
      BY DEF CommitOfClient, Commit, Founds
    <3>3. users \in [Email -> UserRole \cup {Nil}] /\ Nil # "user"
      BY NilDiffers DEF IInv, TypeOK, UserRole
    <3> QED BY <2>1, <3>1, <3>2, <3>3 DEF Lasting
  <2>5. r.kind = "tenant" => ~Founds(Client) /\ account[e].verified
    <3>1. r.kind = "tenant" => Step.op = "create_tenant"
      BY <1>2 DEF Going, InFlight
    <3> QED BY <1>2, <3>1 DEF Going, InFlight, Founds
  <2> HIDE DEF r, e
  <2>6. /\ account' \in [Actor -> AccountType]
        /\ \A u \in Actor : /\ account'[u].role = account[u].role
                            /\ account'[u].verified => account[u].verified \/ u = e
                            /\ u # e => account'[u] = account[u]
        /\ r.kind = "tenant" => account[e].verified
    <3>1. account \in [Actor -> AccountType]
      BY <1>2 DEF TypeOK_S
    <3>2. row \in AccountType /\ row.role = account[e].role
      <4>1. account[e] \in AccountType
        BY <2>1, <3>1
      <4> QED BY <2>3, <4>1 DEF AccountType
    <3> HIDE DEF row
    <3> QED BY <2>1, <2>2, <2>5, <3>1, <3>2
  <2>7. TypeOK_S'
    BY <1>1, <1>2, <2>2, <2>3, <2>6 DEF TypeOK_S
  <2>8. InFlight'
    <3>1. \E t \in live' : t.user = e
      BY <2>2, <2>3
    <3>2. Step' = Step /\ req' = req /\ verdict = "waiting"
      BY <1>1, <1>2, SameStep
    <3>3. r.kind = "tenant" => account'[e].verified
      <4>1. account \in [Actor -> AccountType]
        BY <1>2 DEF TypeOK_S
      <4> QED BY <2>1, <2>2, <4>1 DEF AccountType
    <3> QED BY <1>2, <2>1, <2>4, <3>1, <3>2, <3>3 DEF Going, InFlight, r, e
  <2>9. /\ UNCHANGED <<Invited, Joined, Unassigned, Changed, Founded, Forgetful, Reset>>
        /\ e = "owner" => ~Changed
        /\ e = "forgot" => ~Reset
        /\ (e = "owner" => ~Changed) /\ (e = "signup" => ~Founded)
    BY <1>1, <1>2, <2>1 DEF Past, Invited, Joined, Unassigned, Changed, Founded, Forgetful, Reset
  <2>10. "forgot" \in Email /\ Actor \subseteq Email /\ \A t \in pending : t.user \in Email /\ t.user \in Actor
    BY <1>2, SmokeConstants DEF Actor, TypeOK_S, TicketType
  <2>11. Keeps'
    BY <1>1, <1>2, <2>9, <2>10 DEF Going, Keeps, Lasting
  <2>12. LiveFits'
    BY <1>2, <2>1, <2>2, <2>3, <2>9 DEF Going, LiveFits
  <2>13. PendingFits'
    <3>1. \A t \in pending : t.kind = "verify" => t.user # e
      BY <1>2, <2>1, <2>6 DEF Going, PendingFits
    <3> QED BY <1>1, <1>2, <2>6, <2>10, <3>1 DEF Going, PendingFits, Lasting
  <2>14. AccountsFit'
    <3>1. "owner" \in Actor /\ "forgot" \in Actor
      BY DEF Actor
    <3> QED BY <1>2, <2>1, <2>4, <2>6, <2>9, <2>10, <3>1 DEF Going, AccountsFit, Lasting
  <2> QED BY <1>1, <1>2, <2>7, <2>8, <2>11, <2>12, <2>13, <2>14 DEF SInv, Going
<1> QED BY <1>3, <1>4

\* The statements of the script's transaction and of the others'.
LEMMA StatementsStep ==
    ASSUME IInv, SInv, Lasting, NEW w \in Worker, StatementOf(w) \/ (Abort(w) /\ UNCHANGED svars)
    PROVE  SInv'
<1>1. CASE w = Client /\ CommitOfClient
  BY <1>1, CommitStepOfClient
<1>2. CASE /\ UNCHANGED svars
           /\ \/ w # Client /\ Commit(w)
              \/ CountFree(w) \/ CountTaken(w) \/ InsertUser(w) \/ InsertTooLong(w) \/ InsertRow(w)
              \/ Abort(w)
  <2>1. pc[w] # "idle"
    BY <1>2 DEF CountFree, CountTaken, InsertUser, InsertTooLong, InsertRow, Commit, Abort
  <2>2. /\ pc' = pc \/ \E label : pc' = [pc EXCEPT ![w] = label]
        /\ answer' = answer \/ \E code : (code = "ok" => w # Client) /\ answer' = [answer EXCEPT ![w] = code]
    <3>1. ASSUME NEW label, Goto(w, label)
          PROVE  answer' = answer /\ \E l : pc' = [pc EXCEPT ![w] = l]
      BY <3>1 DEF Goto
    <3>2. ASSUME NEW code, Return(w, code), code = "ok" => w # Client
          PROVE  /\ \E c : (c = "ok" => w # Client) /\ answer' = [answer EXCEPT ![w] = c]
                 /\ \E l : pc' = [pc EXCEPT ![w] = l]
      BY <3>2 DEF Return
    <3>3. CASE CountFree(w)
      BY <3>1, <3>3 DEF CountFree
    <3>4. CASE CountTaken(w)
      BY <3>2, <3>4 DEF CountTaken
    <3>5. CASE InsertUser(w)
      BY <3>1, <3>2, <3>5 DEF InsertUser
    <3>6. CASE InsertTooLong(w) \/ InsertRow(w)
      BY <3>1, <3>2, <3>6 DEF InsertTooLong, InsertRow
    <3>7. CASE w # Client /\ Commit(w)
      BY <3>2, <3>7 DEF Commit
    <3>8. CASE Abort(w)
      BY <3>2, <3>8 DEF Abort
    <3> QED BY <1>2, <3>3, <3>4, <3>5, <3>6, <3>7, <3>8
  <2>3. req' = req \/ req' = [req EXCEPT ![w] = [req[w] EXCEPT !.n = req[w].n + 1]]
    BY <1>2 DEF CountFree, CountTaken, InsertUser, InsertTooLong, InsertRow, Commit, Abort
  <2>4. req \in [Worker -> RequestType] /\ pc \in [Worker -> {"idle", "count", "user", "row", "commit"}]
        /\ answer \in [Worker -> Answer \cup {Nil}] /\ Client \in Worker
    BY SmokeConstants DEF IInv, TypeOK
  <2>5. CASE w # Client
    <3>1. UNCHANGED <<pc[Client], req[Client], answer[Client]>>
      BY <2>2, <2>3, <2>4, <2>5
    <3> QED BY <1>2, <3>1, ElsewhereStep
  <2>6. CASE w = Client
    <3>1. verdict = "waiting"
      BY <2>1, <2>6 DEF SInv
    <3>2. req'[Client].kind = req[Client].kind /\ req'[Client].email = req[Client].email
      BY <2>3, <2>4, <2>6 DEF RequestType
    <3>3. answer'[Client] = "ok" => answer[Client] = "ok"
      BY <2>2, <2>4, <2>6
    <3> QED BY <1>2, <3>1, <3>2, <3>3, ElsewhereStep
  <2> QED BY <2>5, <2>6
<1> QED BY <1>1, <1>2 DEF StatementOf

LEMMA VisitStep ==
    ASSUME IInv, SInv, Lasting, Visit
    PROVE  SInv'
<1>1. UNCHANGED svars /\ UNCHANGED <<pc[Client], req[Client], answer[Client]>>
  <2>1. ASSUME NEW w \in Visitor \cup Boot, NEW r, NEW label, NEW code, Receive(w, r, label, code)
        PROVE  UNCHANGED <<pc[Client], req[Client], answer[Client]>>
    BY <2>1, SmokeConstants DEF Receive, IInv, TypeOK
  <2>2. ASSUME NEW r, DeleteRole(r)
        PROVE  UNCHANGED <<pc[Client], req[Client], answer[Client]>>
    BY <2>2 DEF DeleteRole
  <2> QED BY <2>1, <2>2 DEF Visit, Register, CreateTenant, CreateRole, Seed
<1> QED BY <1>1, ElsewhereStep

LEMMA InitSInv == ASSUME Init PROVE SInv
<1>1. Client \in Worker
  BY SmokeConstants
<1>2. TypeOK_S
  <2>1. NoSession \in SessionType /\ Nil \in SomeSlug
    BY DEF NoSession, SessionType, SomeSlug
  <2> QED BY <2>1 DEF Init, TypeOK_S, KeptType, AccountType, NoAccount
<1>3. ~Invited /\ ~Joined /\ ~Unassigned /\ ~Changed /\ ~Founded /\ ~Forgetful /\ ~Reset
  BY DEF Init, Past, Invited, Joined, Unassigned, Changed, Founded, Forgetful, Reset
<1>4. Going
  BY <1>3 DEF Init, NoAccount, Going, InFlight, Keeps, LiveFits, PendingFits, AccountsFit
<1> QED
  BY <1>1, <1>2, <1>4 DEF SInv, Init, Init_F

LEMMA NextSInv == ASSUME IInv, SInv, [Next]_vars PROVE SInv'
<1>1. [Next_F]_fvars
  <2>1. Serve => [Next_F]_fvars
    BY ClientImplements, StatementImplements DEF Serve
  <2>2. (\E w \in Worker : Abort(w)) => Next_F
    BY DEF Next_F
  <2> QED BY <2>1, <2>2, VisitImplements DEF Next, vars, fvars
<1>2. Lasting
  BY <1>1, FoundingLasting
<1>3. CASE ClientStep
  <2>1. CASE Skip \/ SendRegister \/ SendTenant \/ SendRole \/ Answered
    BY <2>1, SkipStep, SendsStep, AnsweredStep
  <2>2. CASE Handler
    BY <2>2, QuietStep, InviteStep, AcceptStep, AssignStep, RefreshStep, LogoutStep, LoginStep,
       TenantSessionStep, ChangeStep, SignupStep, ResendStep, VerifyStep, ForgotStep, ResetStep DEF Handler
  <2> QED BY <1>3, <2>1, <2>2 DEF ClientStep
<1>4. ASSUME NEW w \in Worker, StatementOf(w) \/ (Abort(w) /\ UNCHANGED svars) PROVE SInv'
  BY <1>2, <1>4, StatementsStep
<1>5. CASE Visit
  BY <1>2, <1>5, VisitStep
<1>6. CASE UNCHANGED vars
  BY <1>2, <1>6, ElsewhereStep DEF vars, fvars
<1> QED
  BY <1>3, <1>4, <1>5, <1>6 DEF Next, Serve

LEMMA SmokeInv == Spec => [](IInv /\ SInv)
<1>1. Spec => []IInv
  BY ImplementsFounding, FoundingInv, PTL
<1>2. IInv /\ SInv /\ [Next]_vars => SInv'
  BY NextSInv
<1> QED BY <1>1, <1>2, InitSInv, PTL DEF Spec

\* Whatever visitors and starting processes do and however the database
\* fails, a script that passes leaves just the sessions of the invitee and of
\* the signup, new passwords, one pending token of a kind and no lost role.
THEOREM RunLeavesConsistentHolds == Spec => []RunLeavesConsistent
<1>1. SInv => RunLeavesConsistent
  <2> SUFFICES ASSUME SInv, verdict = "passed" PROVE RunLeavesConsistent
    BY DEF RunLeavesConsistent
  <2>1. TypeOK_S /\ Going
    BY DEF SInv
  <2>2. Joined /\ Unassigned /\ Changed /\ Founded /\ Reset
    BY DEF Joined, Unassigned, Changed, Founded, Reset, Past
  <2>3. {t.user : t \in live} = {"invitee", "signup"}
    <3>1. \A t \in live : t.user \in {"invitee", "signup"}
      BY <2>1, <2>2 DEF Going, LiveFits, TypeOK_S, TokenType, Actor
    <3>2. (\E t \in live : t.user = "invitee") /\ \E t \in live : t.user = "signup"
      BY <2>1, <2>2 DEF Going, LiveFits
    <3> QED BY <3>1, <3>2
  <2>4. \A u \in Actor : account[u].role = Nil
    BY <2>1, <2>2 DEF Going, AccountsFit
  <2>5. \A u \in {"owner", "forgot"} : account[u].password = "new"
    BY <2>1, <2>2 DEF Going, AccountsFit
  <2>6. /\ \A t, t2 \in pending : t.user = t2.user /\ t.kind = t2.kind => t = t2
        /\ \A t \in pending : t.kind = "verify" => ~account[t.user].verified
    BY <2>1 DEF Going, PendingFits
  <2> QED BY <2>3, <2>4, <2>5, <2>6 DEF RunLeavesConsistent
<1> QED BY <1>1, SmokeInv, PTL

--------------------------------------------------------------------------
(* What the script may expect *)

OwnerTenant == <<"owner">>
OwnerSession == [user |-> "owner", tenant |-> OwnerTenant]
SmokeRole == [scope |-> OwnerTenant, base |-> <<"smoke">>, n |-> 0, by |-> "owner"]

\* What the script's step i does to the tables is still to come.
Undone(i) == ~Past(i) /\ ~(at = i /\ verdict = "waiting" /\ answer[Client] = "ok")

\* Where others have put their tenant or role.
Elsewhere(scope, base) == IF scope = Tenants THEN Foreign(base) ELSE scope \notin OwnSlug

\* Nobody else works on an account or a slug of the script.
Apart ==
    /\ \A w \in Worker \ {Client} : pc[w] # "idle" =>
           req[w].email \notin Actor /\ Elsewhere(req[w].scope, req[w].base)
    /\ \A r \in rows :
           IF r.by \in Actor
           THEN r.scope = Tenants => r.base = <<r.by>> /\ r.n = 0 /\ r.by \in member
           ELSE Elsewhere(r.scope, r.base)

\* The request in flight finds its slug free at once.
AsSent == verdict = "waiting" =>
    LET r == req[Client] IN
    /\ pc[Client] # "idle" \/ answer[Client] \in {"ok", "error"}
    /\ r.n = 0
    /\ r.kind = "role" => r.scope = OwnerTenant /\ r.base = <<"smoke">> /\ r.email = "owner"
    /\ r.kind # "role" => r.base = <<r.email>>

Fresh(u) == users[u] = Nil /\ account[u] = NoAccount /\ u \notin member

Newcomers ==
    /\ Undone(2) => Fresh("owner")
    /\ Undone(12) => Fresh("invitee")
    /\ Undone(22) => Fresh("resend")
    /\ Undone(24) => Fresh("signup")
    /\ Undone(27) => "signup" \notin member
    /\ Undone(28) => Fresh("forgot")

Settled ==
    /\ ~Undone(2) => /\ users["owner"] # Nil /\ account["owner"].tenant = OwnerTenant
                     /\ account["owner"].verified
                     /\ ~Past(20) => account["owner"].password = "old"
    /\ Past(12) => account["invitee"].tenant = OwnerTenant
    /\ Past(24) => account["signup"].password = "old"
    /\ Past(25) => account["signup"].verified

Roles ==
    /\ Undone(8) => \A r \in rows : r.scope # OwnerTenant
    /\ at \in 8 .. 15 /\ ~Undone(8) => SmokeRole \in rows
    /\ at \in 9 .. 15 => kept.role = <<"smoke">>

Equipped ==
    /\ at \in 3 .. 20 => kept.access = OwnerSession
    /\ at = 19 => kept.pick = OwnerSession
    /\ at = 27 => kept.pick.user = "signup"
    /\ at = 2 /\ ~Undone(2) => Refresh("owner") \in live
    /\ at \in 3 .. 16 => kept.refresh \in live
    /\ at \in {12, 25, 30} => kept.token \in pending
    /\ at = 12 => kept.token.tenant = OwnerTenant
    /\ at = 25 => kept.token.user = "signup"
    /\ at \in 32 .. 33 /\ config.admin => kept.platform

AsExpected == verdict # "failed" => AsSent /\ Newcomers /\ Settled /\ Roles /\ Equipped

Ready == Apart /\ AsExpected

\* What the header of the script admits.
Excused ==
    \/ Step.op = "invite" /\ ~config.local
    \/ Step.op = "admin_login" /\ users[AdminEmail] # "system_manager"
    \/ verdict = "waiting" /\ answer[Client] = "error"

--------------------------------------------------------------------------
(* The script's names are its own *)

\* A tuple of one word is no name with a number.
LEMMA OneWord ==
    ASSUME NEW u, NEW v, NEW i \in Nat
    PROVE  /\ i = 0 => Candidate(<<u>>, i) = <<u>>
           /\ Candidate(<<u>>, i) = <<v>> => u = v /\ i = 0
<1>1. ASSUME i # 0, Candidate(<<u>>, i) = <<v>> PROVE FALSE
  <2>1. Append(<<u>>, i) = <<v>>
    BY <1>1 DEF Candidate
  <2>2. <<u>> \in Seq({u}) /\ Len(<<u>>) = 1 /\ Len(<<v>>) = 1
    OBVIOUS
  <2>3. Len(Append(<<u>>, i)) = 2
    BY <2>2
  <2> QED BY <2>1, <2>2, <2>3
<1>2. ASSUME i = 0, Candidate(<<u>>, i) = <<v>> PROVE u = v
  BY <1>2 DEF Candidate
<1> QED BY <1>1, <1>2 DEF Candidate

\* The default names of the code are not the script's.
LEMMA DefaultsForeign ==
    /\ Foreign(Platform) /\ Foreign(<<"tenant">>)
    /\ \A name \in VisitorName : Foreign(slugify(name, "tenant"))
<1>1. ASSUME NEW word \in {"platform", "tenant"} PROVE Foreign(<<word>>)
  <2> SUFFICES ASSUME NEW i \in 0 .. TenantTries - 1, NEW u \in Actor, Candidate(<<word>>, i) = <<u>>
               PROVE  FALSE
    BY DEF Foreign, OwnSlug
  <2>1. i \in Nat
    BY FoundingConstants
  <2>2. word = u
    BY <2>1, OneWord
  <2> QED BY <2>2 DEF Actor
<1>2. Foreign(<<"tenant">>) /\ Foreign(Platform)
  BY <1>1 DEF Platform
<1> QED BY <1>2, ScriptNamesOwn DEF slugify

\* The slugs of the script's users are slugs of tenants, and no scope of them.
LEMMA OwnSlugs ==
    /\ OwnSlug \subseteq TenantSlug /\ OwnerTenant \in OwnSlug
    /\ Tenants \notin OwnSlug /\ Nil \notin OwnSlug
    /\ <<"smoke">> # Nil
<1>1. ASSUME NEW u, <<u>> \in Name PROVE <<u>> \in TenantSlug
  <2>1. <<u>> # <<>>
    OBVIOUS
  <2>2. <<u>> = Candidate(<<u>>, 0) /\ 0 \in 0 .. TenantTries - 1
    BY FoundingConstants DEF Candidate
  <2>3. <<u>> \in Base
    BY <1>1, <2>1 DEF Base
  <2> QED BY <2>2, <2>3 DEF TenantSlug
<1>2. \A u \in Actor : <<u>> \in Name
  BY SmokeConstants
<1>3. <<"smoke">> \in Name
  BY SmokeConstants
<1>4. <<"smoke">> \in TenantSlug /\ OwnSlug \subseteq TenantSlug
  BY <1>1, <1>2, <1>3 DEF OwnSlug
<1>5. OwnerTenant \in OwnSlug
  BY DEF OwnerTenant, OwnSlug, Actor
<1> QED BY <1>4, <1>5, ScopesDiffer

\* A tenant of somebody else has no slug of the script's.
LEMMA ForeignSlug ==
    ASSUME TypeOK, Apart, NEW r \in rows, r.scope = Tenants
    PROVE  /\ r.by \in Actor => Slug(r) = <<r.by>>
           /\ r.by \notin Actor => Slug(r) \notin OwnSlug
<1>1. r.n \in 0 .. TenantTries - 1
  BY FoundingConstants DEF TypeOK, RowType, Tries
<1> QED BY <1>1 DEF Apart, Elsewhere, Foreign, Slug, Candidate

\* What others work on: their requests and the rows of nobody of the script.
OthersApart(w) == pc[w] # "idle" => req[w].email \notin Actor /\ Elsewhere(req[w].scope, req[w].base)

\* Requests of visitors and the seed.
LEMMA VisitorsApart ==
    ASSUME IInv, Apart, Visit, NEW w \in Worker \ {Client}
    PROVE  OthersApart(w)'
<1>1. req \in [Worker -> RequestType] /\ pc \in [Worker -> {"idle", "count", "user", "row", "commit"}]
  BY DEF IInv, TypeOK
<1>2. OthersApart(w)
  BY DEF Apart, OthersApart
<1>3. ASSUME NEW v, NEW r, NEW label, NEW code, Receive(v, r, label, code),
             r.email \notin Actor, Elsewhere(r.scope, r.base)
      PROVE  OthersApart(w)'
  <2>1. (req'[w] = req[w] /\ pc'[w] = pc[w]) \/ req'[w] = r
    BY <1>1, <1>3 DEF Receive
  <2> QED BY <1>2, <1>3, <2>1 DEF OthersApart, Elsewhere
<1>4. \A e \in VisitorEmail : e \notin Actor
  BY SmokeConstants
<1>5. ASSUME NEW v \in Visitor, NEW e \in VisitorEmail, NEW name \in VisitorName,
             Register(v, e, name) \/ CreateTenant(v, e, name)
      PROVE  OthersApart(w)'
  <2>1. PICK kind, label, code : Receive(v, Request(kind, e, Tenants, slugify(name, "tenant")), label, code)
    BY <1>5 DEF Register, CreateTenant
  <2>2. Foreign(slugify(name, "tenant"))
    BY DefaultsForeign
  <2> DEFINE r == Request(kind, e, Tenants, slugify(name, "tenant"))
  <2>3. r.email = e /\ r.scope = Tenants /\ r.base = slugify(name, "tenant")
    BY DEF Request
  <2> HIDE DEF r
  <2> QED BY <1>3, <1>4, <2>1, <2>2, <2>3 DEF Elsewhere, r
<1>6. ASSUME NEW v \in Visitor, NEW e \in VisitorEmail, NEW name \in VisitorName, NEW x \in rows,
             x.scope = Tenants, x.by = e, CreateRole(v, e, Slug(x), name)
      PROVE  OthersApart(w)'
  <2>1. Slug(x) \notin OwnSlug
    BY <1>4, <1>6, ForeignSlug DEF IInv
  <2>2. Slug(x) # Tenants
    <3>1. Slug(x) \in TenantSlug
      BY <1>6, TakenIsSlug DEF IInv, Taken
    <3> QED BY <3>1, ScopesDiffer
  <2> DEFINE r == Request("role", e, Slug(x), slugify(name, "role"))
  <2>3. r.email = e /\ r.scope = Slug(x)
    BY DEF Request
  <2>4. Receive(v, r, "count", Nil)
    BY <1>6 DEF CreateRole
  <2> HIDE DEF r
  <2> QED BY <1>3, <1>4, <2>1, <2>2, <2>3, <2>4 DEF Elsewhere
<1>7. ASSUME NEW v \in Boot, Seed(v) PROVE OthersApart(w)'
  <2>1. PICK label, code : Receive(v, Request("seed", AdminEmail, Tenants, Platform), label, code)
    BY <1>7 DEF Seed
  <2> DEFINE r == Request("seed", AdminEmail, Tenants, Platform)
  <2>2. r.email = AdminEmail /\ r.scope = Tenants /\ r.base = Platform /\ AdminEmail \notin Actor
    BY <1>4, SmokeConstants DEF Request
  <2> HIDE DEF r
  <2> QED BY <1>3, <2>1, <2>2, DefaultsForeign DEF Elsewhere, r
<1>8. ASSUME NEW r \in rows, DeleteRole(r) PROVE OthersApart(w)'
  BY <1>2, <1>8 DEF DeleteRole, OthersApart, Elsewhere
<1> QED
  BY <1>5, <1>6, <1>7, <1>8 DEF Visit

\* What a statement does to the request.
LEMMA StatementMoves ==
    ASSUME IInv, NEW w \in Worker, Statement(w) \/ Abort(w)
    PROVE  /\ \A v \in Worker : /\ v # w => pc'[v] = pc[v] /\ req'[v] = req[v] /\ answer'[v] = answer[v]
                                /\ req'[v].kind = req[v].kind /\ req'[v].email = req[v].email
                                /\ req'[v].scope = req[v].scope /\ req'[v].base = req[v].base
           /\ pc[w] # "idle"
           /\ ~Commit(w) => UNCHANGED <<users, member, rows>>
<1>1. req \in [Worker -> RequestType] /\ pc \in [Worker -> {"idle", "count", "user", "row", "commit"}]
      /\ answer \in [Worker -> Answer \cup {Nil}]
  BY DEF IInv, TypeOK
<1>2. req' = req \/ req' = [req EXCEPT ![w] = [req[w] EXCEPT !.n = req[w].n + 1]]
  BY DEF Statement, CountFree, CountTaken, InsertUser, InsertTooLong, InsertRow, Commit, Abort
<1>3. pc[w] # "idle" /\ (~Commit(w) => UNCHANGED <<users, member, rows>>)
  BY DEF Statement, CountFree, CountTaken, InsertUser, InsertTooLong, InsertRow, Commit, Abort
<1>4. /\ pc' = pc \/ \E label : pc' = [pc EXCEPT ![w] = label]
      /\ answer' = answer \/ \E code : answer' = [answer EXCEPT ![w] = code]
  <2>1. \A label : Goto(w, label) => answer' = answer /\ \E l : pc' = [pc EXCEPT ![w] = l]
    BY DEF Goto
  <2>2. \A code : Return(w, code) => /\ \E c : answer' = [answer EXCEPT ![w] = c]
                                     /\ \E l : pc' = [pc EXCEPT ![w] = l]
    BY DEF Return
  <2>3. CASE CountFree(w) \/ CountTaken(w)
    BY <2>1, <2>2, <2>3 DEF CountFree, CountTaken
  <2>4. CASE InsertUser(w) \/ InsertTooLong(w) \/ InsertRow(w)
    BY <2>1, <2>2, <2>4 DEF InsertUser, InsertTooLong, InsertRow
  <2>5. CASE Commit(w) \/ Abort(w)
    BY <2>2, <2>5 DEF Commit, Abort
  <2> QED BY <2>3, <2>4, <2>5 DEF Statement
<1>5. \A v \in Worker : v # w => pc'[v] = pc[v] /\ req'[v] = req[v] /\ answer'[v] = answer[v]
  BY <1>1, <1>2, <1>4
<1>6. ASSUME NEW v \in Worker
      PROVE  /\ req'[v].kind = req[v].kind /\ req'[v].email = req[v].email
             /\ req'[v].scope = req[v].scope /\ req'[v].base = req[v].base
  BY <1>1, <1>2 DEF RequestType
<1> QED BY <1>3, <1>5, <1>6

\* What the script is about to put into the tables bears its names.
LEMMA OwnRequest ==
    ASSUME IInv, SInv, AsSent, pc[Client] # "idle"
    PROVE  LET r == req[Client] IN
           /\ verdict = "waiting" /\ Client \in Worker /\ r.n = 0 /\ r.email \in Actor
           /\ \/ r.kind = "role" /\ r.scope = OwnerTenant /\ r.base = <<"smoke">> /\ r.email = "owner" /\ at = 8
              \/ r.kind = "register" /\ r.scope = Tenants /\ r.base = <<"owner">> /\ r.email = "owner" /\ at = 2
              \/ r.kind = "register" /\ r.scope = Tenants /\ r.base = <<"forgot">> /\ r.email = "forgot" /\ at = 28
              \/ r.kind = "tenant" /\ r.scope = Tenants /\ r.base = <<"signup">> /\ r.email = "signup" /\ at = 27
<1>1. verdict = "waiting" /\ TypeOK_S /\ InFlight /\ Client \in Worker
  BY SmokeConstants DEF SInv, Going
<1>2. Shape(Client)
  BY <1>1 DEF IInv
<1>3. CASE req[Client].kind = "role"
  <2>1. Step.op = "create_role"
    BY <1>1, <1>3 DEF InFlight
  <2>2. at = 8
    BY <1>1, <2>1, Where DEF TypeOK_S
  <2> QED BY <1>1, <1>3, <2>2 DEF AsSent, Actor
<1>4. CASE req[Client].kind # "role"
  BY <1>1, <1>2, <1>4, SenderIsActor DEF AsSent, Shape
<1> QED BY <1>3, <1>4

\* What the script's own handlers do to the tables of Founding.
LEMMA ClientMoves ==
    ASSUME IInv, ClientStep
    PROVE  /\ rows' \subseteq rows /\ member \subseteq member'
           /\ \A w \in Worker \ {Client} : pc'[w] = pc[w] /\ req'[w] = req[w]
<1>1. req \in [Worker -> RequestType] /\ pc \in [Worker -> {"idle", "count", "user", "row", "commit"}]
  BY DEF IInv, TypeOK
<1>2. ASSUME NEW r, NEW label, NEW code, Receive(Client, r, label, code)
      PROVE  /\ rows' \subseteq rows /\ member \subseteq member'
             /\ \A w \in Worker \ {Client} : pc'[w] = pc[w] /\ req'[w] = req[w]
  BY <1>1, <1>2 DEF Receive
<1>3. ASSUME NEW who, NEW joins, Enrol(who, joins)
      PROVE  rows' \subseteq rows /\ member \subseteq member' /\ UNCHANGED <<pc, req>>
  BY <1>3 DEF Enrol
<1>4. CASE UNCHANGED fvars
  BY <1>4 DEF fvars
<1>5. CASE SendRegister \/ SendRole
  BY <1>2, <1>5 DEF SendRegister, SendRole, Register, CreateRole
<1>6. CASE SendTenant
  <2>1. (\E who \in Actor : CreateTenant(Client, who, <<who>>)) \/ UNCHANGED fvars
    BY <1>6 DEF SendTenant, fvars
  <2> QED BY <1>2, <1>4, <2>1 DEF CreateTenant
<1>7. CASE Signup
  <2>1. (\E who \in Actor : Enrol(who, FALSE)) \/ UNCHANGED fvars
    BY <1>7, Zenon DEF Signup, fvars
  <2> QED BY <1>3, <1>4, <2>1
<1>8. CASE AcceptInvite
  <2>1. (\E who \in Actor : Enrol(who, TRUE)) \/ UNCHANGED fvars
    BY <1>8, Zenon DEF AcceptInvite
  <2> QED BY <1>3, <1>4, <2>1
<1>9. CASE Delete
  <2>1. (\E r \in Role : DeleteRole(r)) \/ UNCHANGED fvars
    BY <1>9 DEF Delete
  <2> QED BY <1>4, <2>1 DEF DeleteRole
<1>10. CASE \/ Skip \/ Health \/ Me \/ UpdateMe \/ GetUserByID \/ Lists \/ UpdateRole \/ SetPermissions
            \/ CreateTenantInvite \/ AssignMemberRole \/ RefreshTokens \/ Logout \/ Login
  BY <1>4, <1>10 DEF Skip, Health, Me, UpdateMe, GetUserByID, Lists, UpdateRole, SetPermissions,
                CreateTenantInvite, AssignMemberRole, RefreshTokens, Logout, Login, fvars
<1>11. CASE \/ TenantSession \/ ChangePassword \/ ResendVerification \/ VerifyEmail
            \/ ForgotPassword \/ ResetPassword \/ AdminLogin \/ PlatformRoute \/ Answered
  BY <1>4, <1>11 DEF TenantSession, ChangePassword, ResendVerification, VerifyEmail,
                ForgotPassword, ResetPassword, AdminLogin, PlatformRoute, Answered, fvars
<1> QED
  BY <1>5, <1>6, <1>7, <1>8, <1>9, <1>10, <1>11 DEF ClientStep, Handler

\* Nobody else ever works on what is the script's.
LEMMA ApartStep ==
    ASSUME IInv, SInv, Ready, [Next]_vars
    PROVE  Apart'
<1>1. Apart
  BY DEF Ready, AsExpected
<1>2. ASSUME rows' \subseteq rows, member \subseteq member', \A w \in Worker \ {Client} : OthersApart(w)'
      PROVE  Apart'
  BY <1>1, <1>2 DEF Apart, OthersApart, Elsewhere
<1>3. \A w \in Worker \ {Client} : OthersApart(w)
  BY <1>1 DEF Apart, OthersApart
<1>4. CASE Visit
  <2>1. rows' \subseteq rows /\ member' = member
    BY <1>4 DEF Visit, Register, CreateTenant, CreateRole, Seed, Receive, DeleteRole
  <2> QED BY <1>1, <1>2, <1>4, <2>1, VisitorsApart
<1>5. CASE ClientStep
  <2>1. \A w \in Worker \ {Client} : OthersApart(w)'
    BY <1>3, <1>5, ClientMoves DEF OthersApart, Elsewhere
  <2> QED BY <1>2, <1>5, <2>1, ClientMoves
<1>6. ASSUME NEW w \in Worker, Statement(w) \/ Abort(w) PROVE Apart'
  <2>1. \A v \in Worker \ {Client} : OthersApart(v)'
    BY <1>3, <1>6, StatementMoves DEF OthersApart, Elsewhere
  <2>2. CASE ~Commit(w)
    BY <1>2, <1>6, <2>1, <2>2, StatementMoves
  <2>3. CASE Commit(w)
    <3> DEFINE r == req[w]
               row == [scope |-> r.scope, base |-> r.base, n |-> r.n, by |-> r.email]
    <3>1. /\ rows' = rows \cup {row} /\ pc[w] # "idle"
          /\ member' = IF r.kind = "role" THEN member ELSE member \cup {r.email}
      BY <2>3 DEF Commit
    <3>2. IF row.by \in Actor
          THEN row.scope = Tenants => row.base = <<row.by>> /\ row.n = 0 /\ row.by \in member'
          ELSE Elsewhere(row.scope, row.base)
      <4>1. CASE w # Client
        BY <1>3, <3>1, <4>1 DEF OthersApart
      <4>2. CASE w = Client
        <5>1. verdict = "waiting" /\ AsSent
          BY <3>1, <4>2 DEF SInv, Ready, AsExpected
        <5> QED BY <3>1, <4>2, <5>1, OwnRequest, OwnSlugs
      <4> QED BY <4>1, <4>2
    <3> HIDE DEF row
    <3> QED BY <1>1, <2>1, <3>1, <3>2 DEF Apart, OthersApart, Elsewhere
  <2> QED BY <2>2, <2>3
<1>7. CASE UNCHANGED vars
  <2>1. \A w \in Worker \ {Client} : OthersApart(w)'
    BY <1>3, <1>7 DEF OthersApart, Elsewhere, vars, fvars
  <2> QED BY <1>2, <1>7, <2>1 DEF vars, fvars
<1>8. \A w \in Worker : StatementOf(w) => Statement(w)
  BY DEF StatementOf, CommitOfClient, Statement
<1> QED
  BY <1>4, <1>5, <1>6, <1>7, <1>8 DEF Next, Serve

--------------------------------------------------------------------------
(* What others leave as the script expects it *)

\* Nothing that the script expects has changed.
LEMMA Undisturbed ==
    ASSUME Newcomers, Settled, Roles, Equipped, UNCHANGED svars,
           \A u \in Actor : users'[u] = users[u] /\ (u \in member' <=> u \in member),
           verdict = "waiting" => (answer'[Client] = "ok" <=> answer[Client] = "ok"),
           SmokeRole \in rows => SmokeRole \in rows',
           \A r \in rows' : r.scope = OwnerTenant => r \in rows
    PROVE  Newcomers' /\ Settled' /\ Roles' /\ Equipped'
<1>1. UNCHANGED <<config, at, verdict, kept, account, live, pending>>
  BY DEF svars
<1>2. \A i : (Past(i)' <=> Past(i)) /\ (Undone(i)' <=> Undone(i))
  BY <1>1 DEF Past, Undone
<1>3. \A u \in Actor : Fresh(u)' <=> Fresh(u)
  BY <1>1 DEF Fresh
<1>4. Newcomers'
  BY <1>2, <1>3 DEF Newcomers, Actor
<1>5. Settled'
  BY <1>1, <1>2 DEF Settled, Actor
<1>6. Roles'
  BY <1>1, <1>2 DEF Roles
<1>7. Equipped'
  BY <1>1, <1>2 DEF Equipped, Refresh
<1> QED BY <1>4, <1>5, <1>6, <1>7

LEMMA OthersReady ==
    ASSUME IInv, SInv, Ready, UNCHANGED svars,
           Visit \/ (\E w \in Worker \ {Client} : Statement(w) \/ Abort(w))
    PROVE  AsExpected'
<1> SUFFICES ASSUME verdict # "failed" PROVE AsSent' /\ Newcomers' /\ Settled' /\ Roles' /\ Equipped'
  BY DEF AsExpected, svars
<1>1. Apart /\ AsSent /\ Newcomers /\ Settled /\ Roles /\ Equipped
  BY DEF Ready, AsExpected
<1>2. Client \in Worker /\ (\A e \in VisitorEmail : e \notin Actor) /\ "owner" \in Actor
  BY SmokeConstants DEF Actor
<1>3. CASE Visit
  <2>1. /\ UNCHANGED <<pc[Client], req[Client], answer[Client], users, member>>
        /\ rows' = rows \/ \E r \in rows : r.by \in VisitorEmail /\ rows' = rows \ {r}
    <3>1. ASSUME NEW w \in Visitor \cup Boot, NEW r, NEW label, NEW code, Receive(w, r, label, code)
          PROVE  UNCHANGED <<pc[Client], req[Client], answer[Client], users, member, rows>>
      BY <3>1, SmokeConstants DEF Receive, IInv, TypeOK
    <3>2. ASSUME NEW r, DeleteRole(r)
          PROVE  UNCHANGED <<pc[Client], req[Client], answer[Client], users, member>> /\ rows' = rows \ {r}
      BY <3>2 DEF DeleteRole
    <3> QED BY <1>3, <3>1, <3>2 DEF Visit, Register, CreateTenant, CreateRole, Seed
  <2>2. AsSent'
    BY <1>1, <2>1 DEF AsSent, svars
  <2>3. SmokeRole \in rows => SmokeRole \in rows'
    BY <1>2, <2>1 DEF SmokeRole
  <2> QED BY <1>1, <2>1, <2>2, <2>3, Undisturbed
<1>4. ASSUME NEW w \in Worker \ {Client}, Statement(w) \/ Abort(w)
      PROVE  AsSent' /\ Newcomers' /\ Settled' /\ Roles' /\ Equipped'
  <2>1. UNCHANGED <<pc[Client], req[Client], answer[Client]>> /\ pc[w] # "idle"
    BY <1>2, <1>4, StatementMoves
  <2>2. AsSent'
    BY <1>1, <2>1 DEF AsSent, svars
  <2>3. CASE ~Commit(w)
    BY <1>1, <1>4, <2>1, <2>2, <2>3, StatementMoves, Undisturbed
  <2>4. CASE Commit(w)
    <3> DEFINE r == req[w]
    <3>1. /\ users' = users \/ \E role : users' = [users EXCEPT ![r.email] = role]
          /\ member' = member \/ member' = member \cup {r.email}
          /\ rows' = rows \cup {[scope |-> r.scope, base |-> r.base, n |-> r.n, by |-> r.email]}
      BY <2>4 DEF Commit
    <3>2. r.email \notin Actor /\ Elsewhere(r.scope, r.base)
      BY <1>1, <2>1 DEF Apart
    <3>3. r.scope # OwnerTenant
      BY <3>2, OwnSlugs DEF Elsewhere
    <3>4. Actor \subseteq Email /\ users \in [Email -> UserRole \cup {Nil}]
      BY SmokeConstants DEF IInv, TypeOK
    <3> HIDE DEF r
    <3>5. \A u \in Actor : users'[u] = users[u] /\ (u \in member' <=> u \in member)
      BY <3>1, <3>2, <3>4
    <3> QED BY <1>1, <2>1, <2>2, <3>1, <3>3, <3>5, Undisturbed
  <2> QED BY <2>3, <2>4
<1> QED BY <1>3, <1>4

\* The request of the script finds its slug and its email free.
LEMMA ScriptSlugFree ==
    ASSUME IInv, SInv, Ready, pc[Client] # "idle"
    PROVE  /\ Slug(req[Client]) \notin Taken(req[Client].scope)
           /\ Founds(Client) => users[req[Client].email] = Nil
           /\ answer[Client] = Nil /\ Undone(at)
<1> DEFINE r == req[Client]
<1>1. verdict = "waiting" /\ Apart /\ AsSent /\ Newcomers /\ Roles /\ Client \in Worker
  BY SmokeConstants DEF SInv, Ready, AsExpected
<1>2. answer[Client] = Nil /\ Undone(at)
  <2>1. answer[Client] = Nil
    BY <1>1 DEF IInv, Knows
  <2>2. ~Past(at)
    BY <1>1 DEF Past, SInv, TypeOK_S
  <2> QED BY <1>1, <2>1, <2>2, NilDiffers DEF Undone, Answer
<1>3. CASE r.kind = "role"
  <2>1. at = 8 /\ r.scope = OwnerTenant
    BY <1>1, <1>3, OwnRequest
  <2>2. Taken(OwnerTenant) = {}
    BY <1>1, <1>2, <2>1 DEF Roles, Taken
  <2> QED BY <1>2, <1>3, <2>1, <2>2 DEF Founds
<1>4. CASE r.kind # "role"
  <2>1. /\ r.n = 0 /\ r.email \in Actor /\ r.scope = Tenants /\ r.base = <<r.email>>
        /\ \/ r.kind = "register" /\ r.email = "owner" /\ at = 2
           \/ r.kind = "register" /\ r.email = "forgot" /\ at = 28
           \/ r.kind = "tenant" /\ r.email = "signup" /\ at = 27
    BY <1>1, <1>4, OwnRequest
  <2>2. r.email \notin member /\ (Founds(Client) => users[r.email] = Nil)
    BY <1>1, <1>2, <2>1 DEF Newcomers, Fresh, Founds
  <2>3. Slug(r) = <<r.email>>
    BY <2>1 DEF Slug, Candidate
  <2>4. ASSUME NEW x \in rows, x.scope = Tenants, Slug(x) = <<r.email>> PROVE FALSE
    <3>1. x.by \in Actor
      BY <1>1, <2>1, <2>4, ForeignSlug DEF IInv, OwnSlug
    <3>2. <<x.by>> = <<r.email>> /\ x.by \in member
      BY <1>1, <2>4, <3>1, ForeignSlug DEF IInv, Apart
    <3> QED BY <2>2, <3>2
  <2> QED BY <1>2, <2>1, <2>2, <2>3, <2>4 DEF Taken
<1> QED BY <1>3, <1>4

\* Its statements are refused only by an error of the database.
LEMMA ClientStatementReady ==
    ASSUME IInv, SInv, Ready, UNCHANGED svars,
           \/ CountFree(Client) \/ CountTaken(Client) \/ InsertUser(Client)
           \/ InsertTooLong(Client) \/ InsertRow(Client) \/ Abort(Client)
    PROVE  AsExpected' /\ verdict' # "failed"
<1> DEFINE r == req[Client]
<1>1. pc[Client] # "idle"
  BY DEF CountFree, CountTaken, InsertUser, InsertTooLong, InsertRow, Abort
<1>2. verdict = "waiting" /\ AsSent /\ Newcomers /\ Settled /\ Roles /\ Equipped
  BY <1>1 DEF SInv, Ready, AsExpected
<1>3. Slug(r) \notin Taken(r.scope) /\ (Founds(Client) => users[r.email] = Nil) /\ answer[Client] = Nil
  BY <1>1, ScriptSlugFree
<1>4. Len(Slug(r)) <= Width(r.scope)
  <2>1. Slug(r) = r.base /\ \E u : r.base = <<u>>
    BY <1>1, <1>2, OwnRequest DEF Slug, Candidate
  <2>2. Len(Slug(r)) = 1
    BY <2>1
  <2> QED BY <2>2, FoundingConstants DEF Width
<1>5. CASE CountFree(Client) \/ InsertUser(Client) \/ InsertRow(Client)
  <2>1. PICK label \in {"user", "row", "commit"} : Goto(Client, label)
    <3>1. pc[Client] = "user" => Founds(Client)
      BY <1>1, SmokeConstants DEF IInv, Shape
    <3> QED BY <1>3, <1>5, <3>1 DEF CountFree, InsertUser, InsertRow
  <2>2. UNCHANGED <<users, member, rows, req, answer>>
    BY <1>5, <2>1 DEF CountFree, InsertUser, InsertRow, Goto
  <2>3. pc'[Client] # "idle"
    BY <2>1, SmokeConstants DEF Goto, IInv, TypeOK
  <2>4. AsSent'
    BY <1>2, <2>2, <2>3 DEF AsSent, svars
  <2>5. answer'[Client] = "ok" <=> answer[Client] = "ok"
    BY <2>2
  <2>6. Newcomers' /\ Settled' /\ Roles' /\ Equipped'
    BY <1>2, <2>2, <2>5, Undisturbed
  <2> QED BY <1>2, <2>4, <2>6 DEF AsExpected, svars
<1>6. CASE Abort(Client)
  <2>1. UNCHANGED <<users, member, rows, req>> /\ answer'[Client] = "error"
    BY <1>6, SmokeConstants DEF Abort, Return, IInv, TypeOK
  <2>2. AsSent'
    BY <1>2, <2>1 DEF AsSent, svars
  <2>3. answer[Client] # "ok"
    BY <1>3, NilDiffers DEF Answer
  <2>4. Newcomers' /\ Settled' /\ Roles' /\ Equipped'
    BY <1>2, <2>1, <2>3, Undisturbed
  <2> QED BY <1>2, <2>2, <2>4 DEF AsExpected, svars
<1>7. ~CountTaken(Client) /\ ~InsertTooLong(Client)
  <2>1. Len(Slug(r)) \in Nat /\ Width(r.scope) \in Nat
    <3>1. \E u : Slug(r) = <<u>>
      BY <1>1, <1>2, OwnRequest DEF Slug, Candidate
    <3> QED BY <3>1, FoundingConstants DEF Width
  <2> QED BY <1>3, <1>4, <2>1 DEF CountTaken, InsertTooLong
<1> QED BY <1>5, <1>6, <1>7

\* The commit of its transaction does what the step is for.
LEMMA ClientCommitReady ==
    ASSUME IInv, SInv, Ready, CommitOfClient
    PROVE  AsExpected' /\ verdict' # "failed"
<1> DEFINE r == req[Client]
           e == r.email
<1>1. pc[Client] = "commit" /\ Client \in Worker
  BY SmokeConstants DEF CommitOfClient, Commit
<1>2. verdict = "waiting" /\ TypeOK_S /\ AsSent /\ Newcomers /\ Settled /\ Roles /\ Equipped
  BY <1>1 DEF SInv, Ready, AsExpected
<1>3. /\ UNCHANGED <<config, at, verdict, kept, pending, req>> /\ answer'[Client] = "ok"
      /\ rows' = rows \cup {[scope |-> r.scope, base |-> r.base, n |-> r.n, by |-> r.email]}
      /\ member' = IF r.kind = "role" THEN member ELSE member \cup {r.email}
  BY <1>1 DEF CommitOfClient, Commit, Return, IInv, TypeOK
<1>4. Undone(at)
  BY <1>1, ScriptSlugFree
<1>5. \A i : /\ Past(i)' <=> Past(i)
             /\ Undone(i)' <=> Undone(i) /\ i # at
  BY <1>2, <1>3, <1>4 DEF Past, Undone
<1>6. AsSent'
  BY <1>2, <1>3 DEF AsSent
<1>7. Equipped'
  <2>1. live \subseteq live'
    BY DEF CommitOfClient
  <2>2. at = 2 => Refresh("owner") \in live'
    <3>1. at = 2 => r.kind # "role" /\ r.email = "owner"
      BY <1>1, <1>2, OwnRequest
    <3> QED BY <3>1 DEF CommitOfClient
  <2> QED BY <1>2, <1>3, <1>5, <2>1, <2>2 DEF Equipped, Refresh
<1>8. CASE r.kind = "role"
  <2>1. at = 8 /\ r.scope = OwnerTenant /\ r.base = <<"smoke">> /\ r.n = 0 /\ r.email = "owner"
    BY <1>1, <1>2, <1>8, OwnRequest
  <2>2. UNCHANGED <<users, member, account>>
    BY <1>3, <1>8 DEF CommitOfClient, Commit, Founds
  <2>3. \A u : Fresh(u)' <=> Fresh(u)
    BY <2>2 DEF Fresh
  <2>4. Newcomers'
    BY <1>2, <1>5, <2>1, <2>2, <2>3 DEF Newcomers
  <2>5. Settled'
    BY <1>2, <1>5, <2>1, <2>2 DEF Settled
  <2>6. Roles'
    <3>1. SmokeRole \in rows'
      BY <1>3, <2>1 DEF SmokeRole
    <3> QED BY <1>2, <1>3, <1>5, <2>1, <3>1 DEF Roles
  <2> QED BY <1>2, <1>3, <1>6, <1>7, <2>4, <2>5, <2>6 DEF AsExpected
<1>9. CASE r.kind # "role"
  <2>1. /\ r.n = 0 /\ e \in Actor /\ r.scope = Tenants /\ r.base = <<e>>
        /\ \/ r.kind = "register" /\ e = "owner" /\ at = 2
           \/ r.kind = "register" /\ e = "forgot" /\ at = 28
           \/ r.kind = "tenant" /\ e = "signup" /\ at = 27
    BY <1>1, <1>2, <1>9, OwnRequest
  <2>2. account' = [account EXCEPT ![e] = [account[e] EXCEPT
             !.verified = TRUE, !.tenant = Slug(r), !.password = IF Founds(Client) THEN "old" ELSE account[e].password]]
    BY <1>9 DEF CommitOfClient
  <2>3. Slug(r) = <<e>>
    BY <2>1 DEF Slug, Candidate
  <2>4. users' = users \/ users' = [users EXCEPT ![e] = "user"]
    <3>1. r.kind # "seed"
      BY <2>1
    <3> QED BY <3>1 DEF CommitOfClient, Commit
  <2>5. r.kind = "register" => Founds(Client) /\ users' = [users EXCEPT ![e] = "user"]
    BY DEF CommitOfClient, Commit, Founds
  <2>6. r.kind = "tenant" => ~Founds(Client)
    BY DEF Founds
  <2> HIDE DEF r, e
  <2>7. account \in [Actor -> AccountType] /\ users \in [Email -> UserRole \cup {Nil}] /\ Actor \subseteq Email
        /\ Nil # "user"
    BY <1>2, SmokeConstants, NilDiffers DEF TypeOK_S, IInv, TypeOK, UserRole
  <2>8. /\ \A u \in Actor : u # e => account'[u] = account[u] /\ users'[u] = users[u] /\ (u \in member' <=> u \in member)
        /\ account'[e].verified /\ account'[e].tenant = <<e>>
    <3>1. account[e] \in AccountType
      BY <2>1, <2>7
    <3>3. /\ account'[e].verified /\ account'[e].tenant = <<e>>
      BY <2>1, <2>2, <2>3, <2>7, <3>1 DEF AccountType
    <3> QED BY <1>3, <1>9, <2>1, <2>2, <2>4, <2>7, <3>3 DEF r, e
  <2>9. /\ r.kind = "register" => users'[e] = "user" /\ account'[e].password = "old"
        /\ r.kind = "tenant" => account'[e].password = account[e].password
    <3>1. account[e] \in AccountType
      BY <2>1, <2>7
    <3> QED BY <2>1, <2>2, <2>5, <2>6, <2>7, <3>1 DEF AccountType
  <2>10. \A u \in Actor \ {e} : Fresh(u) => Fresh(u)'
    BY <2>8 DEF Fresh
  <2>11. /\ at = 28 => Past(2) /\ Past(8) /\ Past(12) /\ Past(22) /\ Past(24) /\ Past(27)
         /\ at = 27 => Past(2) /\ Past(8) /\ Past(12) /\ Past(22) /\ Past(24)
         /\ at = 2 => ~Past(12) /\ ~Past(24) /\ ~Past(25)
    BY <1>2 DEF Past
  <2>12. Newcomers'
    <3>1. \A i : Past(i) => ~Undone(i)
      BY DEF Undone
    <3> QED BY <1>2, <1>5, <2>1, <2>8, <2>10, <2>11, <3>1 DEF Newcomers, Actor
  <2>13. Settled'
    <3>1. \A i : Past(i) => ~Undone(i)
      BY DEF Undone
    <3>2. CASE at = 2
      BY <1>5, <2>1, <2>7, <2>8, <2>9, <2>11, <3>2 DEF Settled, OwnerTenant
    <3>3. CASE at # 2
      BY <1>2, <1>5, <2>1, <2>8, <2>9, <3>3 DEF Settled, Actor
    <3> QED BY <3>2, <3>3
  <2>14. Roles'
    <3>1. Tenants # OwnerTenant
      BY OwnSlugs
    <3> QED BY <1>2, <1>3, <1>5, <2>1, <3>1 DEF Roles, r
  <2> QED BY <1>2, <1>3, <1>6, <1>7, <2>12, <2>13, <2>14 DEF AsExpected
<1>10. verdict' = verdict /\ verdict # "failed"
  BY <1>2, <1>3
<1> QED BY <1>8, <1>9, <1>10

--------------------------------------------------------------------------
(* What a step leaves as the next ones expect it *)

\* After a good answer, just the steps that were called have done their work.
LEMMA UndoneAdvance ==
    ASSUME TypeOK_S, verdict = "running" \/ (verdict = "waiting" /\ answer[Client] = "ok"), Advance
    PROVE  /\ at' = IF at = 33 THEN 33 ELSE at + 1
           /\ verdict' \in {"running", "passed"}
           /\ \A i \in 1 .. 33 : /\ (Past(i)' <=> i <= at) /\ (Past(i) <=> i < at)
                                 /\ (Undone(i)' <=> i > at)
                                 /\ (Undone(i) <=> i > at \/ (i = at /\ verdict = "running"))
<1>1. /\ at' = IF at = 33 THEN 33 ELSE at + 1
      /\ verdict' \in {"running", "passed"} /\ at \in 1 .. 33
      /\ \A i \in 1 .. 33 : (Past(i)' <=> i <= at) /\ (Past(i) <=> i < at)
  BY PastAdvance DEF TypeOK_S
<1>2. ASSUME NEW i \in 1 .. 33
      PROVE  /\ Undone(i)' <=> i > at
             /\ Undone(i) <=> i > at \/ (i = at /\ verdict = "running")
  BY <1>1 DEF Undone
<1> QED BY <1>1, <1>2

LEMMA NewcomersOn ==
    ASSUME TypeOK_S, Newcomers, verdict = "running", Advance,
           \A u \in Actor : \/ Fresh(u) => Fresh(u)'
                            \/ at = 12 /\ u = "invitee"
                            \/ at = 22 /\ u = "resend"
                            \/ at = 24 /\ u = "signup",
           "signup" \in member' => "signup" \in member
    PROVE  Newcomers'
BY UndoneAdvance DEF Newcomers, TypeOK_S, Actor

LEMMA SettledOn ==
    ASSUME TypeOK_S, Settled, verdict = "running", Advance, at \notin {2, 12, 24, 25},
           \A u \in Actor : /\ users[u] # Nil => users'[u] # Nil
                            /\ account'[u].tenant = account[u].tenant
                            /\ account[u].verified => account'[u].verified
                            /\ \/ account'[u].password = account[u].password
                               \/ u = "owner" /\ at = 20
                               \/ u \notin {"owner", "signup"}
    PROVE  Settled'
BY UndoneAdvance DEF Settled, TypeOK_S, Actor

LEMMA RolesOn ==
    ASSUME TypeOK_S, Roles, verdict = "running", Advance, at # 8,
           rows' = rows \/ (at = 15 /\ rows' \subseteq rows),
           kept'.role = kept.role
    PROVE  Roles'
BY UndoneAdvance DEF Roles, TypeOK_S

LEMMA EquippedOn ==
    ASSUME TypeOK_S, Equipped, verdict = "running", Advance, config' = config,
           at \notin {2, 11, 18, 24, 26, 29}, at = 31 /\ config.admin => kept'.platform,
           at \in 3 .. 19 => kept'.access = kept.access,
           at \in 3 .. 15 => kept'.refresh = kept.refresh /\ live \subseteq live',
           kept.platform => kept'.platform
    PROVE  Equipped'
BY UndoneAdvance DEF Equipped, TypeOK_S

\* What the script expects of its steps.
LEMMA Expected ==
    ASSUME at \in 1 .. 33
    PROVE  /\ Step.op = "health" => at = 1
           /\ Step.op \in {"me", "get_user", "update_me", "widgets", "roles"} => at \in 3 .. 7
           /\ Step.op = "get_user" => Step.who = "owner"
           /\ Step.op = "update_role" => at = 9
           /\ Step.op = "set_permissions" => at = 10
           /\ Step.op = "delete_role" => at = 15
           /\ Step.op \in {"health", "me", "get_user", "update_me", "widgets", "roles", "update_role",
                           "login", "resend_verification", "admin_login", "platform_health",
                           "tenants_summary"} => Step.code = 200
           /\ Step.op \in {"set_permissions", "delete_role", "logout"} => Step.code = 204
           /\ Step.op = "login" => \/ at = 18 /\ Step.who = "owner" /\ Step.arg = "old"
                                   \/ at = 21 /\ Step.who = "owner" /\ Step.arg = "new"
                                   \/ at = 26 /\ Step.who = "signup" /\ Step.arg = "old"
           /\ Step.op = "change_password" => Step.arg = "old"
           /\ Step.op = "admin_login" => at = 31
           /\ Step.op \in {"platform_health", "tenants_summary"} => at \in 32 .. 33
           /\ at \in 31 .. 33 => Step.given = "admin"
<1>1. Step.op = "health" => at = 1
  BY ScriptTable DEF Step, Call, If, Actor
<1>2. Step.op \in {"me", "get_user", "update_me", "widgets", "roles"} => at \in 3 .. 7
  BY ScriptTable DEF Step, Call, If, Actor
<1>3. Step.op = "get_user" => Step.who = "owner"
  BY ScriptTable DEF Step, Call, If, Actor
<1>4. (Step.op = "update_role" => at = 9) /\ (Step.op = "set_permissions" => at = 10) /\ (Step.op = "delete_role" => at = 15)
  BY ScriptTable DEF Step, Call, If, Actor
<1>5. Step.op \in {"health", "me", "get_user", "update_me", "widgets", "roles", "update_role",
                   "login", "resend_verification", "admin_login", "platform_health",
                   "tenants_summary"} => Step.code = 200
  BY ScriptTable DEF Step, Call, If, Actor
<1>6. Step.op \in {"set_permissions", "delete_role", "logout"} => Step.code = 204
  BY ScriptTable DEF Step, Call, If, Actor
<1>7. Step.op = "login" => \/ at = 18 /\ Step.who = "owner" /\ Step.arg = "old"
                           \/ at = 21 /\ Step.who = "owner" /\ Step.arg = "new"
                           \/ at = 26 /\ Step.who = "signup" /\ Step.arg = "old"
  BY ScriptTable DEF Step, Call, If, Actor
<1>8. Step.op = "change_password" => Step.arg = "old"
  BY ScriptTable DEF Step, Call, If, Actor
<1>9. (Step.op = "admin_login" => at = 31) /\ (Step.op \in {"platform_health", "tenants_summary"} => at \in 32 .. 33)
  BY ScriptTable DEF Step, Call, If, Actor
<1>10. at \in 31 .. 33 => Step.given = "admin"
  BY ScriptTable DEF Step, Call, If, Actor
<1> QED
  BY <1>1, <1>2, <1>3, <1>4, <1>5, <1>6, <1>7, <1>8, <1>9, <1>10

\* A good answer, when what it leaves is what the next steps expect.
LEMMA GoodStep ==
    ASSUME TypeOK_S, verdict = "running", NEW k, Judge(TRUE, k),
           Advance /\ kept' = k /\ config' = config => Newcomers' /\ Settled' /\ Roles' /\ Equipped'
    PROVE  AsExpected' /\ verdict' # "failed"
<1>1. Advance /\ kept' = k /\ config' = config
  BY DEF Judge
<1>2. verdict' \in {"running", "passed"}
  BY <1>1, PastAdvance
<1> QED BY <1>1, <1>2 DEF AsExpected, AsSent

\* A step that only reads.
LEMMA ReadStep ==
    ASSUME TypeOK_S, Newcomers, Settled, Roles, Equipped, verdict = "running",
           at \notin {2, 8, 11, 12, 18, 24, 25, 26, 29, 31},
           NEW k \in {kept, [kept EXCEPT !.platform = TRUE]}, Judge(TRUE, k),
           UNCHANGED <<users, member, rows, account, live>>
    PROVE  AsExpected' /\ verdict' # "failed"
<1>1. /\ k.access = kept.access /\ k.refresh = kept.refresh /\ k.role = kept.role
      /\ kept.platform => k.platform
  BY DEF TypeOK_S, KeptType
<1> HIDE DEF TypeOK_S
<1>2. ASSUME Advance, kept' = k, config' = config
      PROVE  Newcomers' /\ Settled' /\ Roles' /\ Equipped'
  <2>1. Newcomers'
    BY <1>2, NewcomersOn DEF Fresh
  <2>2. Settled' /\ Roles'
    BY <1>2, <1>1, SettledOn, RolesOn
  <2>3. Equipped'
    BY <1>2, <1>1, EquippedOn
  <2> QED BY <2>1, <2>2, <2>3
<1> QED BY <1>2, GoodStep

LEMMA ReadingExpected ==
    ASSUME IInv, SInv, Ready,
           \/ Health \/ Me \/ UpdateMe \/ GetUserByID \/ Lists \/ UpdateRole \/ SetPermissions
           \/ PlatformRoute
    PROVE  AsExpected' /\ verdict' # "failed"
<1>1. TypeOK_S /\ verdict = "running" /\ Given
      /\ Step.op \in {"health", "me", "get_user", "update_me", "widgets", "roles", "update_role",
                      "set_permissions", "platform_health", "tenants_summary"}
      /\ UNCHANGED <<users, member, rows, account, live>>
  BY DEF SInv, Health, Me, UpdateMe, GetUserByID, Lists, UpdateRole, SetPermissions, PlatformRoute, Doing, fvars
<1>2. Newcomers /\ Settled /\ Roles /\ Equipped
  BY <1>1 DEF Ready, AsExpected
<1>3. at \in 1 .. 33
  BY <1>1 DEF TypeOK_S
<1>4. /\ at \in 3 .. 15 => Bearer = OwnerSession
      /\ at \in 3 .. 15 => account["owner"].tenant = OwnerTenant /\ users["owner"] # Nil
  <2>1. at \in 3 .. 15 => ~Undone(2)
    BY <1>1 DEF Undone, Past
  <2> QED BY <1>2, <2>1 DEF Bearer, Equipped, Settled
<1>5. at \in 3 .. 15 => IsMember(Bearer) /\ Bearer.user # Nil
  <2>1. "owner" # Nil
    BY SmokeConstants, FoundingConstants DEF Actor
  <2> QED BY <1>4, <2>1 DEF IsMember, OwnerSession
<1>6. at \in 9 .. 15 => Role # {}
  <2>1. at \in 9 .. 15 => SmokeRole \in rows /\ kept.role = <<"smoke">> /\ Bearer.tenant = OwnerTenant
    BY <1>1, <1>2, <1>3, <1>4 DEF Roles, OwnerSession, Undone, Past
  <2>2. SmokeRole.scope = OwnerTenant /\ Slug(SmokeRole) = <<"smoke">>
    BY DEF SmokeRole, Slug, Candidate
  <2> QED BY <2>1, <2>2 DEF Role
<1>7. Judge(TRUE, kept) /\ at \notin {2, 8, 11, 12, 18, 24, 25, 26, 29, 31}
  <2>1. CASE Health
    BY <1>3, <2>1, Expected DEF Health, Doing, Reply, Judge
  <2>2. CASE Me \/ UpdateMe
    BY <1>3, <1>5, <2>2, Expected, Where DEF Me, UpdateMe, Doing, Reply, Judge
  <2>3. CASE GetUserByID
    BY <1>3, <1>4, <2>3, Expected, Where DEF GetUserByID, Doing, Reply, Judge
  <2>4. CASE Lists
    BY <1>3, <1>5, <2>4, Expected, Where DEF Lists, Doing, Reply, Judge
  <2>5. CASE UpdateRole \/ SetPermissions
    BY <1>3, <1>6, <2>5, Expected DEF UpdateRole, SetPermissions, Doing, Reply, Judge
  <2>6. CASE PlatformRoute
    <3>1. at \in 32 .. 33 /\ Step.given = "admin" /\ Step.code = 200
      BY <1>3, <2>6, Expected DEF PlatformRoute, Doing
    <3>2. kept.platform
      BY <1>1, <1>2, <3>1 DEF Given, Equipped
    <3> QED BY <2>6, <3>1, <3>2 DEF PlatformRoute, Reply, Judge
  <2> QED BY <2>1, <2>2, <2>3, <2>4, <2>5, <2>6
<1> QED BY <1>1, <1>2, <1>7, ReadStep

--------------------------------------------------------------------------
(* The answers are the expected ones *)

LEMMA Running ==
    ASSUME SInv, Ready, verdict = "running"
    PROVE  /\ TypeOK_S /\ Going /\ at \in 1 .. 33 /\ kept \in KeptType
           /\ Newcomers /\ Settled /\ Roles /\ Equipped
           /\ \A i \in 1 .. 33 : (Undone(i) <=> i >= at) /\ (Past(i) <=> i < at)
           /\ at \in 3 .. 20 => Bearer = OwnerSession /\ account["owner"].tenant = OwnerTenant
                                /\ account["owner"].password = "old"
           /\ at >= 3 => users["owner"] # Nil /\ account["owner"].verified
<1>1. TypeOK_S /\ Going /\ Newcomers /\ Settled /\ Roles /\ Equipped
  BY DEF SInv, Ready, AsExpected
<1>2. at \in 1 .. 33 /\ kept \in KeptType
  BY <1>1 DEF TypeOK_S
<1>3. \A i \in 1 .. 33 : (Undone(i) <=> i >= at) /\ (Past(i) <=> i < at)
  BY <1>2 DEF Undone, Past
<1>4. at >= 3 => ~Undone(2)
  BY <1>2, <1>3
<1>5. at \in 3 .. 20 => ~Past(20)
  BY <1>2, <1>3
<1>6. at \in 3 .. 20 => Bearer = OwnerSession
  BY <1>1 DEF Equipped, Bearer
<1> QED BY <1>1, <1>2, <1>3, <1>4, <1>5, <1>6 DEF Settled

LEMMA SkipExpected ==
    ASSUME SInv, Ready, Skip
    PROVE  AsExpected' /\ verdict' # "failed"
<1>1. verdict = "running" /\ Advance /\ UNCHANGED <<users, member, rows, config, kept, account, live, pending>>
  BY DEF Skip, fvars
<1>2. TypeOK_S /\ Going /\ at \in 1 .. 33 /\ Newcomers /\ Settled /\ Roles /\ Equipped
  BY <1>1, Running
<1>3. at \in 31 .. 33 /\ ~config.admin
  <2>1. at \in 31 .. 33
    BY <1>2, Where DEF Skip, Given, Going, Keeps
  <2>2. Step.given = "admin"
    BY <1>2, <2>1, Expected
  <2> QED BY <2>1, <2>2 DEF Skip, Given
<1>4. Newcomers' /\ Settled' /\ Roles'
  BY <1>1, <1>2, <1>3, NewcomersOn, SettledOn, RolesOn DEF Fresh
<1>5. Equipped'
  BY <1>1, <1>2, <1>3, EquippedOn
<1>6. verdict' \in {"running", "passed"}
  BY <1>1, <1>2, PastAdvance
<1> QED BY <1>4, <1>5, <1>6 DEF AsExpected, AsSent

\* The invitation has a token for the script only in the local environment.
LEMMA InviteExpected ==
    ASSUME SInv, Ready, CreateTenantInvite
    PROVE  AsExpected' /\ (verdict' = "failed" => Excused)
<1> DEFINE ticket == Ticket("invite", "invitee", OwnerTenant)
           k == [kept EXCEPT !.token = ticket]
<1>1. verdict = "running" /\ Step.op = "invite" /\ UNCHANGED <<users, member, rows, account, live>>
  BY DEF CreateTenantInvite, Doing, fvars
<1>2. TypeOK_S /\ Newcomers /\ Settled /\ Roles /\ Equipped /\ kept \in KeptType
  BY <1>1, Running
<1>3. at = 11 /\ Step.who = "invitee"
  BY <1>1, <1>2, Where DEF TypeOK_S
<1>4. Bearer.tenant = OwnerTenant /\ account["invitee"].tenant # OwnerTenant
  <2>1. Fresh("invitee") /\ Bearer = OwnerSession
    BY <1>1, <1>3, Running DEF Newcomers
  <2>2. OwnerTenant # Nil
    BY OwnSlugs
  <2> QED BY <2>1, <2>2 DEF OwnerSession, Fresh, NoAccount
<1>5. Judge(config.local, k) /\ ticket \in pending'
  BY <1>3, <1>4 DEF CreateTenantInvite
<1>6. CASE config.local
  <2>1. Judge(TRUE, k)
    BY <1>5, <1>6 DEF Judge
  <2>2. /\ k.access = kept.access /\ k.refresh = kept.refresh /\ k.role = kept.role /\ k.token = ticket
        /\ ticket.tenant = OwnerTenant
    BY <1>2 DEF KeptType, Ticket
  <2> HIDE DEF k, ticket
  <2>3. ASSUME Advance, kept' = k, config' = config
        PROVE  Newcomers' /\ Settled' /\ Roles' /\ Equipped'
    <3>1. Newcomers' /\ Settled' /\ Roles'
      BY <1>1, <1>2, <1>3, <2>2, <2>3, NewcomersOn, SettledOn, RolesOn DEF Fresh
    <3>2. at' = 12
      BY <1>1, <1>2, <1>3, <2>3, PastAdvance
    <3>3. Equipped'
      BY <1>1, <1>2, <1>3, <1>5, <2>2, <2>3, <3>2 DEF Equipped
    <3> QED BY <3>1, <3>3
  <2> QED BY <1>1, <1>2, <2>1, <2>3, GoodStep
<1>7. CASE ~config.local
  <2>1. verdict' = "failed"
    BY <1>5, <1>7 DEF Judge
  <2> QED BY <1>1, <1>7, <2>1 DEF AsExpected, Excused
<1> QED BY <1>6, <1>7

\* The invitee joins the tenant of the owner.
LEMMA AcceptExpected ==
    ASSUME IInv, SInv, Ready, AcceptInvite
    PROVE  AsExpected' /\ verdict' # "failed"
<1> DEFINE new == [password |-> "old", verified |-> TRUE, tenant |-> OwnerTenant, role |-> Nil]
<1>1. verdict = "running" /\ Step.op = "accept_invite"
  BY DEF AcceptInvite, Asks, Doing
<1>2. TypeOK_S /\ Newcomers /\ Settled /\ Roles /\ Equipped /\ kept \in KeptType
  BY <1>1, Running
<1>3. at = 12 /\ Step.who = "invitee" /\ Step.arg = "old" /\ Step.code = 200
  BY <1>1, <1>2, Where DEF TypeOK_S
<1>4. kept.token \in pending /\ kept.token.tenant = OwnerTenant
  BY <1>2, <1>3 DEF Equipped
<1>5. /\ Enrol("invitee", TRUE) /\ Judge(TRUE, kept)
      /\ account' = [account EXCEPT !["invitee"] = new] /\ live \subseteq live'
  <2>1. PICK who \in Actor :
            /\ who = Step.who /\ Enrol(who, TRUE)
            /\ account' = [account EXCEPT ![who] = [password |-> Step.arg, verified |-> TRUE,
                                                    tenant |-> kept.token.tenant, role |-> Nil]]
            /\ live' = live \cup {Refresh(who)} /\ Reply(200, kept)
    BY <1>4 DEF AcceptInvite, Asks
  <2>2. Judge(TRUE, kept)
    BY <1>3, <2>1 DEF Reply, Judge
  <2> QED BY <1>3, <1>4, <2>1, <2>2
<1>6. /\ users' = [users EXCEPT !["invitee"] = "user"] /\ member' = member \cup {"invitee"} /\ rows' = rows
      /\ users \in [Email -> UserRole \cup {Nil}] /\ Actor \subseteq Email /\ Nil # "user"
      /\ account \in [Actor -> AccountType] /\ "invitee" \in Actor
  BY <1>2, <1>5, SmokeConstants, NilDiffers DEF Enrol, UserRole, IInv, TypeOK, TypeOK_S, Actor
<1>7. /\ account'["invitee"].tenant = OwnerTenant /\ account'["invitee"].verified
      /\ \A u \in Actor : u # "invitee" => account'[u] = account[u] /\ users'[u] = users[u]
                                           /\ (u \in member' <=> u \in member)
      /\ users'["invitee"] # Nil
  BY <1>5, <1>6
<1> HIDE DEF new
<1>8. ASSUME Advance, kept' = kept, config' = config
      PROVE  Newcomers' /\ Settled' /\ Roles' /\ Equipped'
  <2>1. Newcomers'
    BY <1>1, <1>2, <1>3, <1>7, <1>8, NewcomersOn DEF Fresh, Actor
  <2>2. Settled'
    BY <1>1, <1>2, <1>3, <1>7, <1>8, UndoneAdvance DEF Settled, Actor
  <2>3. Roles'
    BY <1>1, <1>2, <1>3, <1>6, <1>8, RolesOn
  <2>4. Equipped'
    BY <1>1, <1>2, <1>3, <1>5, <1>8, EquippedOn
  <2> QED BY <2>1, <2>2, <2>3, <2>4
<1> QED BY <1>1, <1>2, <1>5, <1>8, GoodStep

\* The invitee is a member, and the role is there.
LEMMA RoleThere ==
    ASSUME SInv, Ready, verdict = "running", at \in 9 .. 15
    PROVE  Role # {} /\ Role \subseteq {r \in rows : r.scope = OwnerTenant}
<1>1. SmokeRole \in rows /\ kept.role = <<"smoke">> /\ Bearer.tenant = OwnerTenant
  BY Running DEF Roles, OwnerSession
<1>2. SmokeRole.scope = OwnerTenant /\ Slug(SmokeRole) = <<"smoke">>
  BY DEF SmokeRole, Slug, Candidate
<1> QED BY <1>1, <1>2 DEF Role

LEMMA AssignExpected ==
    ASSUME SInv, Ready, AssignMemberRole
    PROVE  AsExpected' /\ verdict' # "failed"
<1>1. verdict = "running" /\ Step.op = "assign_role" /\ UNCHANGED <<users, member, rows, live>>
  BY DEF AssignMemberRole, Doing, fvars
<1>2. TypeOK_S /\ Newcomers /\ Settled /\ Roles /\ Equipped /\ kept \in KeptType
  BY <1>1, Running
<1>3. at \in {13, 14} /\ Step.who = "invitee" /\ Step.code = 204
  BY <1>1, <1>2, Where DEF TypeOK_S
<1>4. account["invitee"].tenant = Bearer.tenant /\ Role # {}
  <2>1. Past(12) /\ Bearer = OwnerSession
    BY <1>1, <1>3, Running
  <2> QED BY <1>1, <1>2, <1>3, <2>1, RoleThere DEF Settled, OwnerSession
<1>5. Judge(TRUE, kept) /\ \E role : account' = [account EXCEPT !["invitee"].role = role]
  BY <1>3, <1>4 DEF AssignMemberRole, Reply, Judge
<1>6. /\ \A u \in Actor : /\ account'[u].tenant = account[u].tenant
                          /\ account'[u].verified = account[u].verified
                          /\ account'[u].password = account[u].password
                          /\ u # "invitee" => account'[u] = account[u]
  <2>1. account \in [Actor -> AccountType]
    BY <1>2 DEF TypeOK_S
  <2> QED BY <1>5, <2>1 DEF AccountType
<1>7. ASSUME Advance, kept' = kept, config' = config
      PROVE  Newcomers' /\ Settled' /\ Roles' /\ Equipped'
  <2>1. Newcomers'
    <3>1. ~Fresh("invitee")
      <4>1. account["invitee"].tenant = OwnerTenant /\ OwnerTenant # Nil
        BY <1>1, <1>3, <1>4, OwnSlugs, Running DEF OwnerSession
      <4> QED BY <4>1 DEF Fresh, NoAccount
    <3>2. \A u \in Actor : Fresh(u) => Fresh(u)'
      BY <1>1, <1>6, <3>1 DEF Fresh
    <3> QED BY <1>1, <1>2, <1>3, <1>7, <3>2, NewcomersOn
  <2>2. Settled'
    BY <1>1, <1>2, <1>3, <1>6, <1>7, SettledOn
  <2>3. Roles'
    BY <1>1, <1>2, <1>3, <1>7, RolesOn
  <2>4. Equipped'
    BY <1>1, <1>2, <1>3, <1>7, EquippedOn
  <2> QED BY <2>1, <2>2, <2>3, <2>4
<1> QED BY <1>1, <1>2, <1>5, <1>7, GoodStep

\* Nobody has the role any more when it is deleted.
LEMMA DeleteExpected ==
    ASSUME SInv, Ready, Delete
    PROVE  AsExpected' /\ verdict' # "failed"
<1>1. verdict = "running" /\ Step.op = "delete_role" /\ UNCHANGED <<account, live>>
  BY DEF Delete, Doing
<1>2. TypeOK_S /\ Going /\ at \in 1 .. 33 /\ Newcomers /\ Settled /\ Roles /\ Equipped /\ kept \in KeptType
  BY <1>1, Running
<1>3. at = 15 /\ Step.code = 204
  BY <1>1, <1>2, Expected
<1>4. Role # {} /\ ~InUse
  <2>1. Unassigned /\ kept.role = <<"smoke">>
    BY <1>2, <1>3 DEF Unassigned, Past, Roles
  <2>2. \A u \in Actor : account[u].role = Nil
    BY <1>2, <2>1 DEF Going, AccountsFit
  <2>3. kept.role # Nil
    BY <2>1, OwnSlugs
  <2>4. ~InUse
    BY <2>2, <2>3 DEF InUse
  <2>5. Role # {}
    BY <1>1, <1>3, RoleThere
  <2> QED BY <2>4, <2>5
<1>5. PICK r \in Role : Judge(TRUE, kept) /\ DeleteRole(r)
  BY <1>3, <1>4 DEF Delete, Reply, Judge
<1>6. UNCHANGED <<users, member>> /\ rows' \subseteq rows
  BY <1>5 DEF DeleteRole
<1>7. ASSUME Advance, kept' = kept, config' = config
      PROVE  Newcomers' /\ Settled' /\ Roles' /\ Equipped'
  <2>1. Newcomers'
    BY <1>1, <1>2, <1>3, <1>6, <1>7, NewcomersOn DEF Fresh
  <2>2. Settled' /\ Roles'
    BY <1>1, <1>2, <1>3, <1>6, <1>7, SettledOn, RolesOn
  <2>3. Equipped'
    BY <1>1, <1>2, <1>3, <1>7, EquippedOn
  <2> QED BY <2>1, <2>2, <2>3
<1> QED BY <1>1, <1>2, <1>5, <1>7, GoodStep

LEMMA RefreshExpected ==
    ASSUME SInv, Ready, RefreshTokens
    PROVE  AsExpected' /\ verdict' # "failed"
<1> DEFINE k == [kept EXCEPT !.refresh = Refresh(kept.refresh.user)]
<1>1. verdict = "running" /\ Step.op = "refresh" /\ UNCHANGED <<users, member, rows, account>>
  BY DEF RefreshTokens, Doing, fvars
<1>2. TypeOK_S /\ Newcomers /\ Settled /\ Roles /\ Equipped /\ kept \in KeptType
  BY <1>1, Running
<1>3. at = 16 /\ Step.code = 200
  BY <1>1, <1>2, Where DEF TypeOK_S
<1>4. Judge(TRUE, k)
  <2>1. kept.refresh \in live
    BY <1>2, <1>3 DEF Equipped
  <2> QED BY <1>3, <2>1 DEF RefreshTokens, Reply, Judge
<1>5. k.access = kept.access /\ k.role = kept.role /\ k.platform = kept.platform
  BY <1>2 DEF KeptType
<1> HIDE DEF k
<1>6. ASSUME Advance, kept' = k, config' = config
      PROVE  Newcomers' /\ Settled' /\ Roles' /\ Equipped'
  <2>1. Newcomers' /\ Settled' /\ Roles'
    BY <1>1, <1>2, <1>3, <1>5, <1>6, NewcomersOn, SettledOn, RolesOn DEF Fresh
  <2>2. Equipped'
    BY <1>1, <1>2, <1>3, <1>5, <1>6, EquippedOn
  <2> QED BY <2>1, <2>2
<1> QED BY <1>1, <1>2, <1>4, <1>6, GoodStep

LEMMA LogoutExpected ==
    ASSUME SInv, Ready, Logout
    PROVE  AsExpected' /\ verdict' # "failed"
<1>1. verdict = "running" /\ Step.op = "logout" /\ UNCHANGED <<users, member, rows, account>>
  BY DEF Logout, Doing, fvars
<1>2. TypeOK_S /\ Newcomers /\ Settled /\ Roles /\ Equipped
  BY <1>1, Running
<1>3. at = 17 /\ Step.code = 204
  BY <1>1, <1>2, Where, Expected DEF TypeOK_S
<1>4. Judge(TRUE, kept)
  BY <1>3 DEF Logout, Reply, Judge
<1>5. ASSUME Advance, kept' = kept, config' = config
      PROVE  Newcomers' /\ Settled' /\ Roles' /\ Equipped'
  <2>1. Newcomers' /\ Settled' /\ Roles'
    BY <1>1, <1>2, <1>3, <1>5, NewcomersOn, SettledOn, RolesOn DEF Fresh
  <2>2. Equipped'
    BY <1>1, <1>2, <1>3, <1>5, EquippedOn
  <2> QED BY <2>1, <2>2
<1> QED BY <1>1, <1>2, <1>4, <1>5, GoodStep

\* The password is the one of the account, which is verified.
LEMMA LoginExpected ==
    ASSUME SInv, Ready, Login
    PROVE  AsExpected' /\ verdict' # "failed"
<1> DEFINE who == Step.who
           k == [kept EXCEPT !.pick = [user |-> who, tenant |-> account[who].tenant]]
<1>1. verdict = "running" /\ Step.op = "login" /\ UNCHANGED <<users, member, rows, account, live>>
  BY DEF Login, Doing, fvars
<1>2. TypeOK_S /\ Going /\ at \in 1 .. 33 /\ Newcomers /\ Settled /\ Roles /\ Equipped /\ kept \in KeptType
  BY <1>1, Running
<1>3. /\ Step.code = 200
      /\ \/ at = 18 /\ who = "owner" /\ Step.arg = "old"
         \/ at = 21 /\ who = "owner" /\ Step.arg = "new"
         \/ at = 26 /\ who = "signup" /\ Step.arg = "old"
  BY <1>1, <1>2, Expected
<1>4. account[who].password = Step.arg /\ account[who].verified
  <2>1. CASE at = 18
    BY <1>1, <1>3, <2>1, Running
  <2>2. CASE at = 21
    <3>1. Changed /\ account["owner"].verified
      BY <1>1, <2>2, Running DEF Changed, Past
    <3> QED BY <1>2, <1>3, <2>2, <3>1 DEF Going, AccountsFit
  <2>3. CASE at = 26
    <3>1. Past(24) /\ Past(25)
      BY <2>3 DEF Past
    <3> QED BY <1>2, <1>3, <2>3, <3>1 DEF Settled
  <2> QED BY <1>3, <2>1, <2>2, <2>3
<1>5. Judge(TRUE, k)
  BY <1>3, <1>4 DEF Login, Reply, Judge
<1>6. /\ k.access = kept.access /\ k.refresh = kept.refresh /\ k.role = kept.role
      /\ k.platform = kept.platform /\ k.pick = [user |-> who, tenant |-> account[who].tenant]
  BY <1>2 DEF KeptType
<1> HIDE DEF k, who
<1>7. ASSUME Advance, kept' = k, config' = config
      PROVE  Newcomers' /\ Settled' /\ Roles' /\ Equipped'
  <2>1. Newcomers' /\ Settled' /\ Roles'
    BY <1>1, <1>2, <1>3, <1>6, <1>7, NewcomersOn, SettledOn, RolesOn DEF Fresh
  <2>2. Equipped'
    <3>1. CASE at = 18
      <4>1. account["owner"].tenant = OwnerTenant /\ at' = 19
        BY <1>1, <1>2, <1>7, <3>1, Running, PastAdvance
      <4> QED BY <1>2, <1>3, <1>6, <1>7, <3>1, <4>1 DEF Equipped, OwnerSession
    <3>2. CASE at = 21
      BY <1>1, <1>2, <1>6, <1>7, <3>2, EquippedOn
    <3>3. CASE at = 26
      <4>1. at' = 27
        BY <1>1, <1>2, <1>7, <3>3, PastAdvance
      <4> QED BY <1>3, <1>6, <1>7, <3>3, <4>1 DEF Equipped
    <3> QED BY <1>3, <3>1, <3>2, <3>3
  <2> QED BY <2>1, <2>2
<1> QED BY <1>1, <1>2, <1>5, <1>7, GoodStep

LEMMA TenantSessionExpected ==
    ASSUME SInv, Ready, TenantSession
    PROVE  AsExpected' /\ verdict' # "failed"
<1> DEFINE k == [kept EXCEPT !.access = kept.pick, !.refresh = Refresh(kept.pick.user)]
<1>1. verdict = "running" /\ Step.op = "tenant_session" /\ UNCHANGED <<users, member, rows, account>>
  BY DEF TenantSession, Doing, fvars
<1>2. TypeOK_S /\ Newcomers /\ Settled /\ Roles /\ Equipped /\ kept \in KeptType
  BY <1>1, Running
<1>3. at = 19 /\ Step.code = 200
  BY <1>1, <1>2, Where DEF TypeOK_S
<1>4. kept.pick = OwnerSession /\ kept.access = OwnerSession
  BY <1>2, <1>3 DEF Equipped
<1>5. IsMember(kept.pick) /\ kept.pick.tenant # Nil
  <2>1. "owner" # Nil /\ OwnerTenant # Nil
    BY SmokeConstants, FoundingConstants, OwnSlugs DEF Actor
  <2> QED BY <1>1, <1>3, <1>4, <2>1, Running DEF IsMember, OwnerSession
<1>6. Judge(TRUE, k)
  BY <1>3, <1>5 DEF TenantSession, Reply, Judge
<1>7. k.access = kept.access /\ k.role = kept.role /\ k.platform = kept.platform
  BY <1>2, <1>4 DEF KeptType
<1> HIDE DEF k
<1>8. ASSUME Advance, kept' = k, config' = config
      PROVE  Newcomers' /\ Settled' /\ Roles' /\ Equipped'
  <2>1. Newcomers' /\ Settled' /\ Roles'
    BY <1>1, <1>2, <1>3, <1>7, <1>8, NewcomersOn, SettledOn, RolesOn DEF Fresh
  <2>2. Equipped'
    BY <1>1, <1>2, <1>3, <1>7, <1>8, EquippedOn
  <2> QED BY <2>1, <2>2
<1> QED BY <1>1, <1>2, <1>6, <1>8, GoodStep

LEMMA ChangeExpected ==
    ASSUME SInv, Ready, ChangePassword
    PROVE  AsExpected' /\ verdict' # "failed"
<1>1. verdict = "running" /\ Step.op = "change_password" /\ UNCHANGED <<users, member, rows>>
  BY DEF ChangePassword, Doing, fvars
<1>2. TypeOK_S /\ at \in 1 .. 33 /\ Newcomers /\ Settled /\ Roles /\ Equipped /\ kept \in KeptType
  BY <1>1, Running
<1>3. at = 20 /\ Step.code = 204 /\ Step.arg = "old"
  BY <1>1, <1>2, Where, Expected
<1>4. Bearer.user = "owner" /\ account["owner"].password = Step.arg
  BY <1>1, <1>3, Running DEF OwnerSession
<1>5. Judge(TRUE, kept) /\ account' = [account EXCEPT !["owner"].password = "new"]
  BY <1>3, <1>4 DEF ChangePassword, Reply, Judge
<1>6. \A u \in Actor : /\ account'[u].tenant = account[u].tenant
                       /\ account'[u].verified = account[u].verified
                       /\ u # "owner" => account'[u] = account[u]
  <2>1. account \in [Actor -> AccountType]
    BY <1>2 DEF TypeOK_S
  <2> QED BY <1>5, <2>1 DEF AccountType
<1>7. ASSUME Advance, kept' = kept, config' = config
      PROVE  Newcomers' /\ Settled' /\ Roles' /\ Equipped'
  <2>1. Newcomers'
    <3>1. users["owner"] # Nil
      BY <1>1, <1>3, Running
    <3>2. \A u \in Actor : Fresh(u) => Fresh(u)'
      BY <1>1, <1>6, <3>1 DEF Fresh
    <3> QED BY <1>1, <1>2, <1>3, <1>7, <3>2, NewcomersOn
  <2>2. Settled'
    BY <1>1, <1>2, <1>3, <1>6, <1>7, SettledOn
  <2>3. Roles'
    BY <1>1, <1>2, <1>3, <1>7, RolesOn
  <2>4. Equipped'
    BY <1>1, <1>2, <1>3, <1>7, EquippedOn
  <2> QED BY <2>1, <2>2, <2>3, <2>4
<1> QED BY <1>1, <1>2, <1>5, <1>7, GoodStep

\* Nobody has the email that the script signs up with.
LEMMA SignupExpected ==
    ASSUME IInv, SInv, Ready, Signup
    PROVE  AsExpected' /\ verdict' # "failed"
<1> DEFINE who == Step.who
           ticket == Ticket("verify", who, Nil)
           k == [kept EXCEPT !.token = Shown(ticket)]
<1>1. verdict = "running" /\ Step.op = "signup" /\ UNCHANGED live
  BY DEF Signup, Asks, Doing
<1>2. TypeOK_S /\ Going /\ at \in 1 .. 33 /\ Newcomers /\ Settled /\ Roles /\ Equipped /\ kept \in KeptType
  BY <1>1, Running
<1>3. /\ at \in {22, 24} /\ who = IF at = 22 THEN "resend" ELSE "signup"
      /\ Step.arg = "old" /\ Step.code = 201
  BY <1>1, <1>2, Where
<1>4. who \in Actor /\ who \in Email /\ Fresh(who) /\ config.local
  <2>1. Undone(at) /\ Invited
    BY <1>1, <1>2, <1>3, Running DEF Invited, Past
  <2> QED BY <1>2, <1>3, <2>1, SmokeConstants DEF Newcomers, Going, Keeps, Actor
<1>5. /\ Enrol(who, FALSE) /\ account' = [account EXCEPT ![who].password = "old"]
      /\ pending' = pending \cup {ticket} /\ Judge(TRUE, k)
  <2>1. PICK u \in Actor :
            /\ u = Step.who
            /\ IF users[u] # Nil
               THEN Reply(409, kept) /\ UNCHANGED <<fvars, account, pending>>
               ELSE /\ Enrol(u, FALSE) /\ account' = [account EXCEPT ![u].password = Step.arg]
                    /\ pending' = pending \cup {Ticket("verify", u, Nil)}
                    /\ Reply(201, [kept EXCEPT !.token = Shown(Ticket("verify", u, Nil))])
    BY DEF Signup, Asks
  <2>2. users[u] = Nil /\ u = who
    BY <1>4, <2>1 DEF Fresh
  <2>3. /\ Enrol(u, FALSE) /\ account' = [account EXCEPT ![u].password = Step.arg]
        /\ pending' = pending \cup {Ticket("verify", u, Nil)}
        /\ Reply(201, [kept EXCEPT !.token = Shown(Ticket("verify", u, Nil))])
    BY <2>1, <2>2, Zenon
  <2>4. Reply(201, k) => Judge(TRUE, k)
    BY <1>3 DEF Reply, Judge
  <2> QED BY <1>3, <2>2, <2>3, <2>4
<1>6. /\ k.access = kept.access /\ k.refresh = kept.refresh /\ k.role = kept.role
      /\ k.platform = kept.platform /\ k.token = ticket /\ ticket.user = who
  BY <1>2, <1>4 DEF KeptType, Shown, Ticket
<1> HIDE DEF who, ticket, k
<1>7. /\ member' = member /\ rows' = rows
      /\ users' = [users EXCEPT ![who] = "user"] /\ Nil # "user"
      /\ users \in [Email -> UserRole \cup {Nil}] /\ Actor \subseteq Email
      /\ account \in [Actor -> AccountType]
  BY <1>2, <1>5, SmokeConstants, NilDiffers DEF Enrol, UserRole, IInv, TypeOK, TypeOK_S
<1>8. /\ \A u \in Actor : u # who => account'[u] = account[u] /\ users'[u] = users[u]
      /\ account'[who].password = "old" /\ account'[who].tenant = account[who].tenant
      /\ account'[who].verified = account[who].verified /\ users'[who] # Nil
  <2>1. account[who] \in AccountType
    BY <1>4, <1>7
  <2> QED BY <1>4, <1>5, <1>7, <2>1 DEF AccountType
<1>9. ASSUME Advance, kept' = k, config' = config
      PROVE  Newcomers' /\ Settled' /\ Roles' /\ Equipped'
  <2>1. Newcomers'
    <3>1. \A u \in Actor \ {who} : Fresh(u) => Fresh(u)'
      BY <1>7, <1>8 DEF Fresh
    <3> QED BY <1>1, <1>2, <1>3, <1>7, <1>9, <3>1, NewcomersOn
  <2>2. Settled'
    <3>1. /\ at = 22 => Past(2)' /\ ~Past(24)' /\ ~Past(25)'
          /\ at = 24 => Past(2)' /\ Past(24)' /\ ~Past(25)'
      BY <1>1, <1>2, <1>3, <1>9, UndoneAdvance
    <3> QED BY <1>1, <1>2, <1>3, <1>8, <1>9, <3>1, UndoneAdvance DEF Settled, Actor
  <2>3. Roles'
    BY <1>1, <1>2, <1>3, <1>6, <1>7, <1>9, RolesOn
  <2>4. Equipped'
    <3>1. CASE at = 22
      BY <1>1, <1>2, <1>6, <1>9, <3>1, EquippedOn
    <3>2. CASE at = 24
      <4>1. at' = 25
        BY <1>1, <1>2, <1>9, <3>2, PastAdvance
      <4> QED BY <1>3, <1>5, <1>6, <1>9, <3>2, <4>1 DEF Equipped
    <3> QED BY <1>3, <3>1, <3>2
  <2> QED BY <2>1, <2>2, <2>3, <2>4
<1> QED BY <1>1, <1>2, <1>5, <1>9, GoodStep

LEMMA ResendExpected ==
    ASSUME SInv, Ready, ResendVerification
    PROVE  AsExpected' /\ verdict' # "failed"
<1>1. verdict = "running" /\ Step.op = "resend_verification" /\ UNCHANGED <<users, member, rows, account, live>>
  BY DEF ResendVerification, Doing, fvars
<1>2. TypeOK_S /\ at \in 1 .. 33 /\ Newcomers /\ Settled /\ Roles /\ Equipped
  BY <1>1, Running
<1>3. at = 23 /\ Step.code = 200
  BY <1>1, <1>2, Where, Expected
<1>4. Judge(TRUE, kept)
  BY <1>3 DEF ResendVerification, Reply, Judge
<1> QED BY <1>1, <1>2, <1>3, <1>4, ReadStep

\* The verification link is still good.
LEMMA VerifyExpected ==
    ASSUME SInv, Ready, VerifyEmail
    PROVE  AsExpected' /\ verdict' # "failed"
<1>1. verdict = "running" /\ Step.op = "verify_email" /\ UNCHANGED <<users, member, rows, live>>
  BY DEF VerifyEmail, Doing, fvars
<1>2. TypeOK_S /\ Going /\ at \in 1 .. 33 /\ Newcomers /\ Settled /\ Roles /\ Equipped
  BY <1>1, Running
<1>3. at = 25 /\ Step.code = 204
  BY <1>1, <1>2, Where
<1>4. kept.token \in pending /\ kept.token.user = "signup" /\ kept.token.kind = "verify"
  BY <1>2, <1>3 DEF Equipped, Going, Keeps
<1>5. Judge(TRUE, kept) /\ account' = [account EXCEPT !["signup"].verified = TRUE]
  BY <1>3, <1>4 DEF VerifyEmail, Reply, Judge
<1>6. /\ \A u \in Actor : /\ u # "signup" => account'[u] = account[u]
                          /\ account'[u].tenant = account[u].tenant
                          /\ account'[u].password = account[u].password
                          /\ account[u].verified => account'[u].verified
      /\ account'["signup"].verified
  <2>1. account \in [Actor -> AccountType] /\ "signup" \in Actor
    BY <1>2 DEF TypeOK_S, Actor
  <2> QED BY <1>5, <2>1 DEF AccountType
<1>7. users["signup"] # Nil
  BY <1>2, <1>4 DEF Going, PendingFits
<1>8. ASSUME Advance, kept' = kept, config' = config
      PROVE  Newcomers' /\ Settled' /\ Roles' /\ Equipped'
  <2>1. Newcomers'
    <3>1. \A u \in Actor : Fresh(u) => Fresh(u)'
      BY <1>1, <1>6, <1>7 DEF Fresh
    <3> QED BY <1>1, <1>2, <1>3, <1>8, <3>1, NewcomersOn
  <2>2. Settled'
    <3>1. Past(2)' /\ Past(12)' /\ Past(24)' /\ Past(25)' /\ Past(2) /\ Past(12) /\ Past(24)
          /\ ~Undone(2) /\ Past(20) /\ Past(20)'
      BY <1>1, <1>2, <1>3, <1>8, UndoneAdvance
    <3> QED BY <1>1, <1>2, <1>6, <3>1 DEF Settled, Actor
  <2>3. Roles'
    BY <1>1, <1>2, <1>3, <1>8, RolesOn
  <2>4. Equipped'
    BY <1>1, <1>2, <1>3, <1>8, EquippedOn
  <2> QED BY <2>1, <2>2, <2>3, <2>4
<1> QED BY <1>1, <1>2, <1>5, <1>8, GoodStep

LEMMA ForgotExpected ==
    ASSUME SInv, Ready, ForgotPassword
    PROVE  AsExpected' /\ verdict' # "failed"
<1> DEFINE ticket == Ticket("reset", "forgot", Nil)
           k == [kept EXCEPT !.token = ticket]
<1>1. verdict = "running" /\ Step.op = "forgot_password" /\ UNCHANGED <<users, member, rows, account, live>>
  BY DEF ForgotPassword, Doing, fvars
<1>2. TypeOK_S /\ Going /\ at \in 1 .. 33 /\ Newcomers /\ Settled /\ Roles /\ Equipped /\ kept \in KeptType
  BY <1>1, Running
<1>3. at = 29 /\ Step.who = "forgot" /\ Step.code = 200
  BY <1>1, <1>2, Where
<1>4. config.local /\ users["forgot"] # Nil
  <2>1. Invited /\ Forgetful
    BY <1>3 DEF Invited, Forgetful, Past
  <2> QED BY <1>2, <2>1 DEF Going, Keeps
<1>5. Judge(TRUE, k) /\ ticket \in pending'
  <2>1. users[Step.who] # Nil
    BY <1>3, <1>4
  <2>2. /\ pending' = {t \in pending : t.kind # "reset" \/ t.user # Step.who} \cup {Ticket("reset", Step.who, Nil)}
        /\ Reply(200, [kept EXCEPT !.token = Shown(Ticket("reset", Step.who, Nil))])
    BY <2>1, Zenon DEF ForgotPassword
  <2>3. Reply(200, k) /\ ticket \in pending'
    BY <1>3, <1>4, <2>2 DEF Shown
  <2> HIDE DEF k, ticket
  <2> QED BY <1>3, <2>3 DEF Reply, Judge
<1>6. /\ k.access = kept.access /\ k.refresh = kept.refresh /\ k.role = kept.role
      /\ k.platform = kept.platform /\ k.token = ticket
  BY <1>2 DEF KeptType
<1> HIDE DEF k, ticket
<1>7. ASSUME Advance, kept' = k, config' = config
      PROVE  Newcomers' /\ Settled' /\ Roles' /\ Equipped'
  <2>1. Newcomers' /\ Settled' /\ Roles'
    BY <1>1, <1>2, <1>3, <1>6, <1>7, NewcomersOn, SettledOn, RolesOn DEF Fresh
  <2>2. at' = 30
    BY <1>1, <1>2, <1>3, <1>7, PastAdvance
  <2>3. Equipped'
    BY <1>5, <1>6, <1>7, <2>2 DEF Equipped
  <2> QED BY <2>1, <2>3
<1> QED BY <1>1, <1>2, <1>5, <1>7, GoodStep

LEMMA ResetExpected ==
    ASSUME SInv, Ready, ResetPassword
    PROVE  AsExpected' /\ verdict' # "failed"
<1>1. verdict = "running" /\ Step.op = "reset_password" /\ UNCHANGED <<users, member, rows>>
  BY DEF ResetPassword, Doing, fvars
<1>2. TypeOK_S /\ Going /\ at \in 1 .. 33 /\ Newcomers /\ Settled /\ Roles /\ Equipped
  BY <1>1, Running
<1>3. at = 30 /\ Step.code = 204 /\ Step.arg = "new"
  BY <1>1, <1>2, Where
<1>4. kept.token \in pending /\ kept.token.user = "forgot" /\ users["forgot"] # Nil
  <2>1. Forgetful
    BY <1>3 DEF Forgetful, Past
  <2> QED BY <1>2, <1>3, <2>1 DEF Equipped, Going, Keeps
<1>5. Judge(TRUE, kept) /\ account' = [account EXCEPT !["forgot"].password = "new"]
  BY <1>3, <1>4 DEF ResetPassword, Reply, Judge
<1>6. \A u \in Actor : /\ account'[u].tenant = account[u].tenant
                       /\ account'[u].verified = account[u].verified
                       /\ u # "forgot" => account'[u] = account[u]
  <2>1. account \in [Actor -> AccountType]
    BY <1>2 DEF TypeOK_S
  <2> QED BY <1>5, <2>1 DEF AccountType
<1>7. ASSUME Advance, kept' = kept, config' = config
      PROVE  Newcomers' /\ Settled' /\ Roles' /\ Equipped'
  <2>1. Newcomers'
    <3>1. \A u \in Actor : Fresh(u) => Fresh(u)'
      BY <1>1, <1>4, <1>6 DEF Fresh
    <3> QED BY <1>1, <1>2, <1>3, <1>7, <3>1, NewcomersOn
  <2>2. Settled'
    <3>1. \A u \in Actor : u # "forgot" => account'[u].password = account[u].password
      BY <1>6
    <3> QED BY <1>1, <1>2, <1>3, <1>6, <1>7, <3>1, SettledOn
  <2>3. Roles'
    BY <1>1, <1>2, <1>3, <1>7, RolesOn
  <2>4. Equipped'
    BY <1>1, <1>2, <1>3, <1>7, EquippedOn
  <2> QED BY <2>1, <2>2, <2>3, <2>4
<1> QED BY <1>1, <1>2, <1>5, <1>7, GoodStep

\* The seed's account is there, or somebody else's or none.
LEMMA AdminExpected ==
    ASSUME SInv, Ready, AdminLogin
    PROVE  AsExpected' /\ (verdict' = "failed" => Excused)
<1> DEFINE k == [kept EXCEPT !.platform = TRUE]
<1>1. verdict = "running" /\ Step.op = "admin_login" /\ UNCHANGED <<users, member, rows, account, live>>
  BY DEF AdminLogin, Doing, fvars
<1>2. TypeOK_S /\ at \in 1 .. 33 /\ Newcomers /\ Settled /\ Roles /\ Equipped /\ kept \in KeptType
  BY <1>1, Running
<1>3. at = 31 /\ Step.code = 200
  BY <1>1, <1>2, Expected
<1>4. CASE users[AdminEmail] = "system_manager"
  <2>1. Judge(TRUE, k)
    BY <1>3, <1>4 DEF AdminLogin, Reply, Judge
  <2>2. k.access = kept.access /\ k.refresh = kept.refresh /\ k.role = kept.role /\ k.platform
    BY <1>2 DEF KeptType
  <2> HIDE DEF k
  <2>3. ASSUME Advance, kept' = k, config' = config
        PROVE  Newcomers' /\ Settled' /\ Roles' /\ Equipped'
    <3>1. Newcomers' /\ Settled' /\ Roles'
      BY <1>1, <1>2, <1>3, <2>2, <2>3, NewcomersOn, SettledOn, RolesOn DEF Fresh
    <3>2. Equipped'
      BY <1>1, <1>2, <1>3, <2>2, <2>3, EquippedOn
    <3> QED BY <3>1, <3>2
  <2> QED BY <1>1, <1>2, <2>1, <2>3, GoodStep
<1>5. CASE users[AdminEmail] # "system_manager"
  <2>1. verdict' = "failed"
    BY <1>3, <1>5 DEF AdminLogin, Reply, Judge
  <2> QED BY <1>1, <1>5, <2>1 DEF AsExpected, Excused
<1> QED BY <1>4, <1>5

--------------------------------------------------------------------------
(* The requests to Founding are sent and answered as expected *)

LEMMA SentExpected ==
    ASSUME IInv, SInv, Ready, verdict = "running", Send, NEW r, Receive(Client, r, "count", Nil), r.n = 0,
           r.kind = "role" => r.scope = OwnerTenant /\ r.base = <<"smoke">> /\ r.email = "owner",
           r.kind # "role" => r.base = <<r.email>>
    PROVE  AsExpected' /\ verdict' # "failed"
<1>1. Newcomers /\ Settled /\ Roles /\ Equipped
  BY DEF Ready, AsExpected
<1>2. verdict' = "waiting" /\ UNCHANGED <<users, member, rows, config, at, kept, account, live, pending>>
  BY DEF Send, Receive
<1>3. pc'[Client] = "count" /\ req'[Client] = r /\ answer'[Client] = Nil
  BY SmokeConstants DEF Receive, IInv, TypeOK
<1>4. AsSent'
  BY <1>3 DEF AsSent
<1>5. \A i : (Past(i)' <=> Past(i)) /\ (Undone(i)' <=> Undone(i))
  <2>1. Nil # "ok"
    BY NilDiffers DEF Answer
  <2> QED BY <1>2, <1>3, <2>1 DEF Past, Undone
<1>6. Newcomers'
  BY <1>1, <1>2, <1>5 DEF Newcomers, Fresh
<1>7. Settled' /\ Roles'
  BY <1>1, <1>2, <1>5 DEF Settled, Roles
<1>8. Equipped'
  BY <1>1, <1>2, <1>5 DEF Equipped, Refresh
<1> QED BY <1>2, <1>4, <1>6, <1>7, <1>8 DEF AsExpected

LEMMA SendsExpected ==
    ASSUME IInv, SInv, Ready, SendRegister \/ SendTenant \/ SendRole
    PROVE  AsExpected' /\ verdict' # "failed"
<1>1. \A u, default : slugify(<<u>>, default) = <<u>>
  BY DEF slugify
<1>2. CASE SendRegister
  <2>1. PICK who \in Actor : Asks(who, "register") /\ Register(Client, who, <<who>>) /\ Send
    BY <1>2 DEF SendRegister
  <2>2. verdict = "running" /\ Step.op = "register" /\ who = Step.who
    BY <2>1 DEF Asks, Doing
  <2>3. users[who] = Nil
    <3>1. at \in 1 .. 33 /\ Newcomers
      BY <2>2, Running
    <3>2. at \in {2, 28} /\ who = IF at = 2 THEN "owner" ELSE "forgot"
      BY <2>2, <3>1, Where
    <3>3. Undone(at)
      BY <2>2, <3>1, Running
    <3> QED BY <3>1, <3>2, <3>3 DEF Newcomers, Fresh
  <2> DEFINE r == Request("register", who, Tenants, <<who>>)
  <2>4. r.n = 0 /\ r.kind = "register" /\ r.base = <<r.email>>
    BY DEF Request
  <2>5. Receive(Client, r, "count", Nil)
    BY <1>1, <2>1, <2>3 DEF Register
  <2> HIDE DEF r
  <2> QED BY <2>1, <2>2, <2>4, <2>5, SentExpected
<1>3. CASE SendTenant
  <2>1. PICK who \in Actor :
            /\ Asks(who, "create_tenant")
            /\ IF kept.pick.user = who /\ account[who].verified
               THEN CreateTenant(Client, who, <<who>>) /\ Send
               ELSE Reply(401, kept) /\ UNCHANGED <<fvars, account, live, pending>>
    BY <1>3 DEF SendTenant
  <2>2. verdict = "running" /\ Step.op = "create_tenant" /\ who = Step.who
    BY <2>1 DEF Asks, Doing
  <2>3. at \in 1 .. 33 /\ Newcomers /\ Settled /\ Equipped
    BY <2>2, Running
  <2>4. at = 27 /\ who = "signup"
    BY <2>2, <2>3, Where
  <2>5. Undone(27) /\ Past(25)
    BY <2>2, <2>4, Running
  <2>6. kept.pick.user = who /\ account[who].verified /\ who \notin member
    BY <2>3, <2>4, <2>5 DEF Newcomers, Settled, Equipped
  <2> DEFINE r == Request("tenant", who, Tenants, <<who>>)
  <2>7. r.n = 0 /\ r.kind = "tenant" /\ r.base = <<r.email>>
    BY DEF Request
  <2>8. Receive(Client, r, "count", Nil) /\ Send
    BY <1>1, <2>1, <2>6 DEF CreateTenant
  <2> HIDE DEF r
  <2> QED BY <2>2, <2>7, <2>8, SentExpected
<1>4. CASE SendRole
  <2>1. PICK who \in Actor, tenant \in Taken(Tenants) :
            /\ Doing("create_role") /\ Bearer = [user |-> who, tenant |-> tenant]
            /\ CreateRole(Client, who, tenant, <<"smoke">>) /\ Send
    BY <1>4 DEF SendRole
  <2>2. verdict = "running" /\ Step.op = "create_role"
    BY <2>1 DEF Doing
  <2>3. at = 8
    BY <2>2, Running, Where
  <2>4. who = "owner" /\ tenant = OwnerTenant
    BY <2>1, <2>2, <2>3, Running DEF OwnerSession
  <2> DEFINE r == Request("role", who, tenant, <<"smoke">>)
  <2>5. r.n = 0 /\ r.kind = "role" /\ r.scope = OwnerTenant /\ r.base = <<"smoke">> /\ r.email = "owner"
    BY <2>4 DEF Request
  <2>6. Receive(Client, r, "count", Nil)
    BY <1>1, <2>1 DEF CreateRole
  <2> HIDE DEF r
  <2> QED BY <2>1, <2>2, <2>5, <2>6, SentExpected
<1> QED BY <1>2, <1>3, <1>4

\* The commit has done what the answer says.
LEMMA AnsweredExpected ==
    ASSUME IInv, SInv, Ready, Answered
    PROVE  AsExpected' /\ (verdict' = "failed" => Excused)
<1> DEFINE r == req[Client]
           k == CASE r.kind = "register" -> [kept EXCEPT !.access = [user |-> r.email, tenant |-> Slug(r)],
                                                         !.refresh = Refresh(r.email)]
                  [] r.kind = "role"     -> [kept EXCEPT !.role = Slug(r)]
                  [] OTHER               -> kept
<1>1. verdict = "waiting" /\ pc[Client] = "idle" /\ UNCHANGED <<users, member, rows, account, live>>
  BY DEF Answered, fvars
<1>2. TypeOK_S /\ Going /\ AsSent /\ Newcomers /\ Settled /\ Roles /\ Equipped
  BY <1>1 DEF SInv, Ready, AsExpected
<1>3. answer[Client] \in {"ok", "error"} /\ kept \in KeptType
  BY <1>1, <1>2 DEF AsSent, TypeOK_S
<1>4. answer[Client] = "ok" => Judge(201 = Step.code, k)
  BY DEF Answered, Reply
<1>5. /\ Step.code = 201
      /\ \/ at \in {2, 28} /\ r.kind = "register" /\ r.email = IF at = 2 THEN "owner" ELSE "forgot"
         \/ at = 27 /\ r.kind = "tenant" /\ r.email = "signup"
         \/ at = 8 /\ r.kind = "role"
  <2>1. /\ Step.op \in {"register", "create_tenant", "create_role"}
        /\ Step.op = "register" => r.kind = "register" /\ r.email = Step.who
        /\ Step.op = "create_tenant" => r.kind = "tenant" /\ r.email = Step.who
        /\ Step.op = "create_role" => r.kind = "role"
    BY <1>1, <1>2 DEF Going, InFlight
  <2> HIDE DEF r, k
  <2>2. at \in 1 .. 33
    BY <1>2 DEF TypeOK_S
  <2> QED BY <2>1, <2>2, Where
<1>6. Slug(r) = r.base
  BY <1>1, <1>2 DEF AsSent, Slug, Candidate
<1>7. /\ k.platform = kept.platform
      /\ at = 2 => k.access = OwnerSession /\ k.refresh = Refresh("owner")
      /\ at = 8 => k.role = <<"smoke">>
      /\ at = 8 => k.access = kept.access /\ k.refresh = kept.refresh
  <2>1. at = 2 => [user |-> r.email, tenant |-> Slug(r)] = OwnerSession
    BY <1>1, <1>2, <1>5, <1>6 DEF AsSent, OwnerSession, OwnerTenant
  <2>2. at = 8 => Slug(r) = <<"smoke">>
    BY <1>1, <1>2, <1>5, <1>6 DEF AsSent
  <2> QED BY <1>3, <1>5, <2>1, <2>2 DEF KeptType
<1> HIDE DEF k
<1>8. CASE answer[Client] = "ok"
  <2>1. Judge(TRUE, k)
    BY <1>4, <1>5, <1>8 DEF Judge
  <2>2. Advance /\ kept' = k /\ config' = config
    BY <2>1 DEF Judge
  <2>3. at' = at + 1 /\ verdict' \in {"running", "passed"} /\ at \in 1 .. 33
        /\ \A i \in 1 .. 33 : (Past(i)' <=> i <= at) /\ (Past(i) <=> i < at)
                              /\ (Undone(i)' <=> Undone(i)) /\ (Undone(i) <=> i > at)
    BY <1>1, <1>2, <1>5, <1>8, <2>2, UndoneAdvance DEF TypeOK_S
  <2>4. Newcomers'
    BY <1>1, <1>2, <2>3 DEF Newcomers, Fresh
  <2>5. Settled'
    BY <1>1, <1>2, <1>5, <2>3 DEF Settled
  <2>6. Roles'
    BY <1>1, <1>2, <1>5, <1>7, <2>2, <2>3 DEF Roles
  <2>7. Equipped'
    <3>1. CASE at = 2
      <4>1. Refresh("owner") \in live
        BY <1>2, <2>3, <3>1 DEF Equipped
      <4> QED BY <1>1, <1>7, <2>2, <2>3, <3>1, <4>1 DEF Equipped
    <3>2. CASE at = 8
      BY <1>1, <1>2, <1>7, <2>2, <2>3, <3>2 DEF Equipped
    <3>3. CASE at \in {27, 28}
      BY <2>3, <3>3 DEF Equipped
    <3> QED BY <1>5, <3>1, <3>2, <3>3
  <2> QED BY <2>3, <2>4, <2>5, <2>6, <2>7 DEF AsExpected, AsSent
<1>9. CASE answer[Client] = "error"
  <2>1. Judge(500 = Step.code, k)
    BY <1>9 DEF Answered, Reply, k
  <2>2. verdict' = "failed"
    BY <1>5, <2>1 DEF Judge
  <2> QED BY <1>1, <1>9, <2>2 DEF AsExpected, Excused
<1> QED BY <1>3, <1>8, <1>9

--------------------------------------------------------------------------
(* The script fails only for what its header admits *)

LEMMA InitReady == ASSUME Init PROVE Ready
<1>1. /\ at = 1 /\ verdict = "running" /\ account = [u \in Actor |-> NoAccount]
      /\ rows = {} /\ member = {} /\ \A u \in Actor : users[u] = Nil
      /\ \A w \in Worker : pc[w] = "idle"
  BY SmokeConstants DEF Init, Init_F
<1>2. \A i \in 2 .. 33 : Undone(i) /\ ~Past(i)
  BY <1>1 DEF Undone, Past
<1>3. Apart
  BY <1>1 DEF Apart
<1>4. Newcomers
  BY <1>1 DEF Newcomers, Fresh, Actor
<1>5. Settled /\ Roles /\ Equipped
  BY <1>1, <1>2 DEF Settled, Roles, Equipped
<1> QED BY <1>1, <1>3, <1>4, <1>5 DEF Ready, AsExpected, AsSent

LEMMA ClientExpected ==
    ASSUME IInv, SInv, Ready, ClientStep
    PROVE  AsExpected' /\ (verdict' = "failed" => Excused)
<1>1. CASE Skip \/ SendRegister \/ SendTenant \/ SendRole \/ Answered
  BY <1>1, SkipExpected, SendsExpected, AnsweredExpected
<1>2. CASE Handler
  BY <1>2, ReadingExpected, InviteExpected, AcceptExpected, AssignExpected, DeleteExpected,
     RefreshExpected, LogoutExpected, LoginExpected, TenantSessionExpected, ChangeExpected,
     SignupExpected, ResendExpected, VerifyExpected, ForgotExpected, ResetExpected, AdminExpected
     DEF Handler
<1> QED BY <1>1, <1>2 DEF ClientStep

LEMMA NextReady ==
    ASSUME IInv, SInv, Ready, [Next]_vars
    PROVE  Ready' /\ (verdict # "failed" /\ verdict' = "failed" => Excused)
<1>1. CASE ClientStep
  BY <1>1, ApartStep, ClientExpected DEF Ready
<1>2. CASE CommitOfClient
  BY <1>2, ApartStep, ClientCommitReady DEF Ready
<1>3. CASE /\ UNCHANGED svars
           /\ \/ CountFree(Client) \/ CountTaken(Client) \/ InsertUser(Client)
              \/ InsertTooLong(Client) \/ InsertRow(Client) \/ Abort(Client)
  BY <1>3, ApartStep, ClientStatementReady DEF Ready
<1>4. CASE UNCHANGED svars /\ (Visit \/ \E w \in Worker \ {Client} : Statement(w) \/ Abort(w))
  <2>1. verdict' = verdict
    BY <1>4 DEF svars
  <2> QED BY <1>4, <2>1, ApartStep, OthersReady DEF Ready
<1>5. CASE UNCHANGED vars
  <2>1. UNCHANGED svars /\ UNCHANGED <<users, member, rows, pc, req, answer>> /\ verdict' = verdict
    BY <1>5 DEF vars, svars, fvars
  <2>2. AsSent => AsSent'
    BY <2>1 DEF AsSent
  <2>3. Newcomers /\ Settled /\ Roles /\ Equipped => Newcomers' /\ Settled' /\ Roles' /\ Equipped'
    BY <2>1, Undisturbed
  <2> QED BY <2>1, <2>2, <2>3, ApartStep DEF Ready, AsExpected
<1>6. ASSUME NEW w \in Worker, StatementOf(w)
      PROVE  \/ CommitOfClient
             \/ UNCHANGED svars /\ w # Client /\ Statement(w)
             \/ /\ UNCHANGED svars
                /\ \/ CountFree(Client) \/ CountTaken(Client) \/ InsertUser(Client)
                   \/ InsertTooLong(Client) \/ InsertRow(Client)
  BY <1>6 DEF StatementOf, Statement
<1>7. \/ ClientStep \/ (\E w \in Worker : StatementOf(w))
      \/ UNCHANGED svars /\ ((\E w \in Worker : Abort(w)) \/ Visit)
      \/ UNCHANGED vars
  BY DEF Next, Serve, Visit
<1>8. CASE \E w \in Worker : StatementOf(w)
  BY <1>2, <1>3, <1>4, <1>6, <1>8
<1>9. CASE UNCHANGED svars /\ ((\E w \in Worker : Abort(w)) \/ Visit)
  BY <1>3, <1>4, <1>9
<1> QED BY <1>1, <1>5, <1>7, <1>8, <1>9

\* The script fails only at the invitation in an environment that is not
\* local, at the login of an administrator who was not seeded, or when the
\* database fails one of its requests; never because of what visitors and
\* starting processes do meanwhile.
THEOREM FailsOnlyIfHolds == Spec => FailsOnlyIf
<1>1. Init => Ready
  BY InitReady
<1>2. IInv /\ SInv /\ Ready /\ [Next]_vars => Ready'
  BY NextReady
<1>3. IInv /\ SInv /\ Ready /\ [Next]_vars =>
          [verdict # "failed" /\ verdict' = "failed" =>
              \/ Step.op = "invite" /\ ~config.local
              \/ Step.op = "admin_login" /\ users[AdminEmail] # "system_manager"
              \/ verdict = "waiting" /\ answer[Client] = "error"]_vars
  BY NextReady DEF Excused
<1> QED BY <1>1, <1>2, <1>3, SmokeInv, PTL DEF Spec, FailsOnlyIf
=============================================================================
