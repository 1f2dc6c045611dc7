# Verification of the multi-tenant API

TLA+ models of this repository's service, the TLC instances that check them and
the TLAPS proofs about them.  The program is a Go HTTP API (gin, gorm,
PostgreSQL) for users who belong to tenants: accounts and email verification,
sessions with rotating refresh tokens, tenants with members, invitations and
custom roles, and per-tenant data under row-level security.

## The system

| Part | State | Operations | Hard about it |
|---|---|---|---|
| Sessions and credentials (`domain/auth`) | `users.password_hash`, `users.is_active`, `refresh_tokens`, `password_reset_tokens` | Login, TenantSession, Refresh, Logout, ForgotPassword, ResetPassword, ChangePassword | handlers read first and act on it in a later transaction; row locks; revocation by `UPDATE` against inserts under way |
| Accounts (`domain/auth`) | `users.is_active`, `email_verified_at`, `email_verification_deadline`, `email_verification_tokens` | Signup, Register, VerifyEmail, ResendVerification, the deactivation in Login, AcceptInvite | time; a copy of a row written back by column |
| Resend limiter (`domain/auth`) | a map in memory | recordResend | a sliding window, restarts |
| Memberships (`domain/auth`, `domain/tenantroles`) | `tenants`, `tenant_memberships`, `tenant_invitations`, `tenant_roles` | Signup, Register, CreateTenantWithPickToken, CreateTenantInvitation, AcceptInvite, CreateRole, DeleteRole, AssignMembershipTenantRole | references between tables without foreign keys to live rows; checks and writes in separate statements |
| Role permissions (`domain/tenantroles`) | `tenant_role_permissions` | SetRolePermissions | a DELETE and INSERTs at READ COMMITTED |
| Connection pool (`pkg/infrastructure/db.go`) | at most five connections | every query and transaction | a handler that needs a second connection inside a transaction |
| Access control (`pkg/jwtutil`, `pkg/middlewares`, `domain/tenantroles/authz.go`) | signed tokens that snapshot a membership | the middlewares and guards of each route | stale snapshots, kinds of tokens |
| Widgets (`domain/widget`, `pkg/tenancy`) | `widgets` under row-level security | List | a setting of a pooled connection, count and page in two statements |
| Pagination (`pkg/utils`, `pkg/responses`) | - | page and limit of a query, metadata of an answer | products of ints that wrap |
| Slugs and founding (`domain/auth`, `domain/tenantroles`, `seeds`) | `users`, `tenants.slug`, `tenant_roles.slug` | Register, CreateTenantWithPickToken, CreateRole, DeleteRole, the admin seed at every start | count first, insert later, against unique indexes that make inserts wait |
| API smoke test (`scripts/api_smoke_test`) | tokens, ids and passwords of one run | a fixed sequence of 33 requests | every step works on what earlier answers left, on a system others use |
| The rest | - | configuration, logging, routing, platform summary, user lookup, generated docs | wiring and I/O |

All parts share the database; handlers run in one goroutine per request.  A
handler in this code has one shape: it reads through the repository in
autocommit mode, decides, and then opens one transaction that writes.  What it
read is not read again and no row is locked when it is read, so each model
gives a handler a program counter `pc[w]` and the locals `req[w]` its reads
left, and makes every statement that others can see, or that can wait for a
row lock, a step of its own.  Nothing else synchronises requests but unique
indexes, which are guards of the actions that insert, and row locks.

What makes each part correct: refresh tokens form chains, a token that is exchanged
or ended never works again and keeps its user and scope; a password change ends
the sessions there were; nobody holds a session
for a tenant they are not in, or a platform session without being staff; an
account that waits for verification can be verified for as long as login asks
for it, and is not deactivated earlier; roles do not cross tenants and tenants
keep an owner; a role has the keys last asked for, all of the registry; the
pool does not lock up; a connection keeps no tenant's setting; a page and its
metadata describe the same table; slugs are unique, numbered without gaps and
refused only for a reason; the seed makes the one administrator; the script
passes on a healthy system; the limiter limits, and lets through those who wait.

## Modules

| Module | Code | Holds |
|---|---|---|
| `SessionChains` | comments of `domain/auth` on refresh tokens | the abstract specification: chains of tokens that requests take hold of, and later rotate or close |
| `Sessions` | `domain/auth/service.go`, `repository.go` | passwords, refresh and reset tokens under overlapping handlers, its properties and the refinement mapping to `SessionChains` |
| `SessionsProofs` | | theorems on any number of overlapping requests, with the refinement |
| `Accounts`, `AccountsProofs` | `domain/auth/service.go` | accounts, deadlines and verification tokens with a clock |
| `Memberships`, `MembershipsProofs` | `domain/auth`, `domain/tenantroles` | tenants, memberships, invitations, roles |
| `RolePermissions`, `RolePermissionsProofs` | `domain/tenantroles` | SetRolePermissions statement by statement |
| `ConnPool` | `pkg/infrastructure/db.go`, `issueTokensTx` | the pool and the handlers that hold its connections (its proofs are in `WidgetsProofs`) |
| `ResendLimiter`, `ResendLimiterProofs` | `recordResend` | the limiter with time and restarts |
| `Access`, `AccessProofs` | `pkg/jwtutil`, `pkg/middlewares`, `domain/tenantroles/authz.go` and controllers | tokens as snapshots of a membership, and what requests that carry them may change |
| `Pagination` | `pkg/utils/pagination.go`, `pkg/responses/response.go` | pages at the width of an int |
| `Widgets`, `WidgetsProofs` | `domain/widget`, `pkg/tenancy`, `pkg/dbscope`, the policy in `migrations` | List on the connections of `ConnPool` (it extends that module and implements it) with the pages of `Pagination` |
| `Founding` | `allocateSlugTx`, `slugify`, `CreateRole`, `seeds/admin_seed.go` | slugs, accounts that found a tenant, the seed, statement by statement |
| `Smoke`, `SmokeProofs` | `scripts/api_smoke_test/main.go`, the controllers | the script as a client of the handlers, beside visitors and starting processes; it extends `Founding` and implements it |
| `MC...` | | instances for TLC |

An action is named after its handler; `X` is a handler up to its transaction,
`XCommit` or `XIssue` its transaction, other names the statement they stand
for.  `Fail(w)` is every early return, database error and crash of the process
in the middle of a handler: an open transaction is rolled back and no trace
is left.  (A crash ends all handlers at once; ending them one after the other
leaves the same tables.)  An operator `X_Something`
next to `X` is a variant of it with a plausible mistake in it; no
specification uses one.  They are there to see that each property notices
the mistake.

How the code's details appear:

* *Statements under READ COMMITTED.*  An `UPDATE` finds its rows in a snapshot
  taken when it starts (`RevokeAllSnapshot`, `ForgotInvalidate`, `InviteFind`,
  `Sweep`, `DeleteFind` keep it in `req[w].sweep` or `seen`) and waits for rows
  others have locked (`LockedUser`, `LockedReset`, `LockedRefresh`, `LockedInvite`,
  which follow from program counters); rows that no longer match once it has the
  lock it leaves alone (`InviteSweep`).  What a transaction wrote becomes visible
  in its last step.
* *The unique index on pending invitations* (`migrations/20260423120000.sql:35`):
  an `INSERT` waits while another transaction has inserted an entry it would
  duplicate (`RivalInserted`) or has locked one it meets (`Clashing`), and is
  refused by one that is there to stay: `InviteRefused`, the handler's internal
  error.
* *Tokens* are ids; a row with an owner is issued.  Hashing and randomness are
  left out: two tokens drawn are never equal.  In `Access` a JWT is the record of
  its claims in `signed`, which nothing is ever taken from: one secret signs all
  kinds, the issuer tells them apart, and nothing recalls one.  A claim another
  kind lacks is `Nil` there.
* *One system, several views.*  `Access` has the handlers of `Memberships` and
  `RolePermissions` again, with the token that admits them and without the row
  races those modules are about: CreateTenant, CreateInvitation and AcceptInvite
  are one step there, and SetPermissions replaces keys in one step.
* *A name* in `Founding` is the sequence of its words: `slugify` joins the runs
  of letters and digits with dashes, so the suffix `-2` is one more word, and a
  name that ends in a number can meet another name's numbered slug.  Lengths
  are counted in words.  A committed row is seen by a count; one that is
  inserted and not committed makes an insert of the same key wait
  (`HoldsEmail`, `HoldsSlug`).  Deleted roles leave the table, since counts and
  the partial index do not see them.
* *The seed* runs in `fx.Invoke` each time any command of the binary starts, so
  it overlaps the requests of processes that already run; `Abort` is also the
  end of such a process.
* *The script* is a table, `Script`: operation, actor, what it sends, the status
  it expects and what it skips the step without.  One action per handler decides
  the answer from the tables, `Judge` compares it.  Handlers whose races the
  other modules are about are one step here; Register, create-tenant and POST
  tenant-roles are the transactions of `Founding`, so that they interleave with
  those of visitors.  Names and emails of a run carry a random tag, so nobody
  else uses them.  The branches that skip verify-email, create-tenant and
  reset-password are in the model but no run takes them: without
  ENVIRONMENT=local the invitation, earlier, has failed the script.
* *The slice of the resend limiter* is the set of its hits, numbered in the order
  they were let through: the code only counts them and drops the old ones, and
  two hits of one second stay two.
* *An int* is a number up to `IntMax`; products wrap (`Wrap`).
* *Time* is a clock in `Accounts` and `ResendLimiter`.  In `Sessions` and
  `Memberships` expiry is left out: an expired token is one nobody presents.
* *Foreign changes.*  `Sessions` has `ActiveChange(u)` for what the handlers of
  `Accounts` do to `is_active`; it waits for the row lock as they do.
  `Member` is a constant there: no code removes a membership.

## What is checked

Type invariants that are theorems are not checked again by a run.  The sets are
small, and each bound is there for a reason given below.

| Run | Question | Instance |
|---|---|---|
| `MCSessionsConc` | do two overlapping requests of any kind keep what handlers read and the chains' owner and scope; does every request end | a tenant member, 2 refresh tokens, 1 reset token, 2 workers, fairness, no symmetry |
| `MCSessionsOverlap` | do two overlapping requests of any kind implement the chains; do a password change and ForgotPassword end what there was when they began; is every session one its user is entitled to | a staff user who is a member of one of 2 tenants, 1 password, 3 refresh and 2 reset tokens, 2 workers |
| `MCSessionsSessionSurvives` | does a password change end sessions when requests overlap (it does not) | 1 user, 2 workers |
| `MCMemberships` | do roles stay in their tenant, tenants keep owners, pending invitations stay single and get refused only by a rival, memberships come from invitations | 2 users, 2 tenants, 1 role, 3 invitations, 2 workers |
| `MCMembershipsRoleInUse` | is a role deleted only unreferenced (it is not) | 2 users, 1 tenant, 2 workers |
| `MCAccounts` | can an account always be verified while login asks for it; unless requests for it overlap: is it deactivated only past its deadline, is one token pending | 2 users, 2 tokens, 2 workers, clock to 3 with a window of 1, symmetry |
| `MCWidgets` | are connections returned and without a setting, is a page right, does the pool not lock up, is every request answered | 2 connections, 2 lists and a custom-role request, 2 tenants, up to 3 widgets, ints to 7, pages of up to 2 |
| `MCConnPoolExhausted` | is every request answered with as many custom-role requests as connections (they wait for ever) | 5 connections, 5 requests |
| `MCRolePermissions` | are a request's keys granted, and no others but those committed by rivals it did not see; are locks given back | 2 roles, 2 keys and an unknown one, requests of up to 2 keys (repeats included), 2 workers |
| `MCAccess` | does a token pass only where its user is entitled, however stale; is a tenant changed only with a token of that tenant that may manage roles | 1 staff and 1 ordinary user, 2 tenants, 1 role, 3 tokens, 2 workers |
| `MCSmoke` | are refusals of slugs and emails justified and numbers in order, does the seed leave an administrator, does the script fail only where its header says, end, and leave a consistent state | the script, 1 visitor with 2 emails and 2 names, 1 starting process, 3 visits or starts, slugs of up to 2 words (1 for roles), 2 tries (1 for roles) |
| `MCResendLimiter` | does the limiter limit within one life of the process and never refuse too much | 2 keys, 2 per window of 2, clock to 4, 1 restart |

*Bounds.*  Two workers suffice for every race of this code: each is between the
reads of one handler and the commit of another; locks concern pairs, too.  Three refresh tokens give a chain of three or a fork;
two give a parent and a child, which `Lineage` needs.  `TokenLeft` and
`ResetLeft` start a request only if a token is left for it, so that running out
of ids does not look like a lock.  `MCSessionsOverlap` has one user and one
password, since none of its properties relates users or compares passwords, and
starts with no account about to be closed (`NoLate`), since a closed account only
refuses requests; `MCSessionsConc` starts with any.  Three invitations make one
that two others would both replace; those of the run invite admins (`Invitable`),
who may invite in turn.  The clock of `Accounts` runs three windows: a signup, a deadline that
passes, a resend and its own deadline.  Three tokens in `Access` are the owner's,
a member's and the member's next one, made after roles have changed, or two
owners' and one more; its `Invitable` lets invitations make members only and
`Grantable` lets requests ask for `roles.manage` only, since owners already show
a builtin role that manages and every builtin role has `widgets.read`.  `Widgets` asks
for the first page, a later one, a limit past the largest and a page whose offset
wraps; three widgets of two tenants fill more than a page.  `Smoke`'s visitor can
take the seed's slug or its email, meet a numbered slug with a name that ends in
a number, exceed the width of a role's slug and the tries of a role's name; three
visits are a tenant and two roles, or two tenants and a start.  The five actors
of the script are the script's own.  Where a theorem covers a property, the
bounds only matter for finding mistakes early.

*Deadlock* is checked in `Sessions` and `Widgets`.  In the others ids run out
(tenants, tokens, roles, time) or the script ends and nothing can happen any
more, so it is off; that nothing waits for ever in `Smoke` is `SmokeEnds`.

*Fairness.*  `Sessions`: a goroutine that can run does (weak fairness of
`Step`), and PostgreSQL serves the waiters of a row lock in order, so a
statement whose rows are free again and again is granted (strong fairness of
`LockingStep`).  No fairness on `Arrive`: clients need not come.  `ConnPool`:
the database answers (weak fairness of `Run`), and `database/sql` hands a
released connection to one of the waiters at random, so a waiter that could be
served infinitely often is (strong fairness of `Wait`); `Widgets` has the same.
`Smoke`: weak fairness of `Serve`, the disjunction of everything the client and
the process do by themselves.  Visits are finite and every other step moves some
request forward, so a run has finitely many steps and one condition does what
fairness to each goroutine would do; `Visit` and `Abort` have none.

## Races

Requests that overlap break promises which hold for requests that do not.  Three
are runs that expect a violation:

* `MCSessionsSessionSurvives`: a Login, TenantSession or Refresh that read
  before a password change inserts its token after it.  What a password change
  does end, however requests overlap, is `ChangeEndsEarlier`.
* `MCMembershipsRoleInUse`: a role is assigned between the count and the delete
  of DeleteRole.
* `MCConnPoolExhausted`: `issueTokensTx` asks for the keys of a custom role on a
  second connection.

Others are behaviours of the modules that no property forbids, because without
overlap they are excluded by a single check and with it the code does them:

* Two Refresh calls exchange one token twice, and a Refresh under way goes on
  from a token that Logout has ended.  `SessionChains` shows what remains: a
  chain forks, or goes on, only where a request had found the token working.
* Two ResetPassword calls both use a reset token (`models/password_reset_token.go:13`
  calls it one-time), and two VerifyEmail calls a verification token
  (`service.go:686`): both mark it by id, whatever it has become.
* Two ForgotPassword calls leave two usable tokens, their own;
  `ForgotEndsEarlier` says that the earlier ones are spent.
* ChangePassword overwrites a password it never saw.
* Two CreateTenantWithPickToken calls found two "first" organizations.
* AcceptInvite honours an invitation revoked since it was read.
* Two invitations of one email at the same time: the unique index keeps one
  (`OnePendingInvite`) and the other is an internal error, which
  `RefusedOnlyByRival` allows to nobody else.

A slow Login deactivates an account inside the window a resend has just opened,
and a resend that overlaps another leaves two tokens: the two properties of
`Accounts` about that, `InactiveOnlyAfterDeadline` and `OnePendingVerification`,
except accounts that two handlers have worked on at a time (`overlap`).  Two
SetRolePermissions leave a role the union of their keys; `ReplacesExactly` says
which: what was committed after the DELETE looked, all of it and nothing else.
In `Access` a token can carry permissions no moment had, of a membership read
before a change and grants read after it; `PermissionsAreBacked` bounds them by
what a role of the tenant has had.

## What is proved

For every value of the constants, by TLAPS:

* `SessionsProofs` - any number of overlapping requests.  The inductive
  invariant is `TypeOK`, what each handler knows at its program counter
  (`HandlersReadRight`: it is needed because handlers write from what they read
  before their transaction), and `Lineage` and `ScopeJustified` themselves.
  It is inductive because issued rows never change owner or scope and because a
  token is revoked in the same commit that exchanges it.
  `EndInv` adds, for `ChangeEndsEarlier` and `ForgotEndsEarlier`, that a token of
  the user that was there when the request began is spent already or in the
  snapshot of its UPDATE (`Ending`, `Forgetting`): an overlapping commit may spend
  it first, but none gives it another user or makes it usable again.
  `ImplementsChains` is the refinement, for any number of workers: initial states
  map to initial states; the read of Refresh and Logout and the snapshot of a
  password change take hold of tokens (`Held`), each commit rotates or closes
  what its request holds, a failure drops it, everything else is a stutter.
* `MembershipsProofs` - types, `CustomRoleOfTenant` (with what a request in
  flight knows of its role), `TenantHasOwner`, `OnePendingInvite`,
  `RefusedOnlyByRival` and `MembersWereInvited`.  For the invitations: the rows
  an UPDATE has found stay locked or stop being pending, so what is pending once
  its INSERT went through is among the rows it will revoke, and no rival has
  inserted another (`ReplacesPending`); what refuses an INSERT is therefore not
  among the rows the UPDATE found.  For the members: who is accepting
  has the user and the tenant of the invitation, an accepted invitation has its
  member, and the members of a tenant, who stay finitely many, are counted
  against its accepted invitations: each commit that adds a member other than
  the founder marks one invitation that was not accepted.
* `RolePermissionsProofs` - types, `GrantsAsAsked` and `ReplacesExactly`, for any
  number of requests with any lists of keys.  The invariant says that the keys a
  request asked for are those it has inserted and those left to insert
  (`KeysOnTheWay`), that the rows its DELETE has found are still there or have
  left its list, all others of the role being commits since (`DeletesCommitted`),
  and what row locks and the unique index keep apart (`LockDiscipline`).  Then
  what it leaves at its commit is what it was asked for and what came since.
* `ResendLimiterProofs` - types, `AtMostMaxPerWindow` and `RefusedOnlyWhenFull`
  for any limit and window.  The invariant: the map holds exactly the hits of
  this life of the process that still count, so its length is their number.
* `AccountsProofs` - types, `TokenOutlivesWindow` for overlapping handlers (with
  the invariant that the deadline a handler computed is no later than the
  expiry of the token it will insert, and that a sweep
  is followed by an insert or a verification in the same commit); `InactiveOnlyAfterDeadline`
  and `OnePendingVerification` for accounts whose requests do not overlap, from the invariant that such a handler's reads are still true.
* `AccessProofs` - types, `TokensAreEntitled`, `PermissionsAreBacked` and
  `ManagedFromWithin`, for any number of overlapping requests and tokens.  The
  invariant adds what rows and requests in flight refer to (`RowsFit`,
  `RequestsFit`: a membership that was read may be stale, but its builtin role is
  still the one in the table and its custom role still one of the tenant).  Two
  lemmas carry it: what never goes away (`NextGrows`) keeps old tokens right,
  and what a new token is made from (`TokensAreMade`) makes new ones right.
* `WidgetsProofs` - of `ConnPool`: types, `ConnectionsAccountedFor`, and
  `NotStuck` from `Cardinality(CustomRole) < MaxOpen` by counting: a pool that
  is full of transactions waiting for permissions has as many custom-role
  requests as connections.  Of `Widgets`: `ImplementsConnPool` (`Spec_W => Spec`:
  each step of a list is a step of the pool or a stutter, so that the first
  theorems hold of it), types, and `SettingEndsWithTransaction`, whose invariant
  adds where a lister's connection is at each step of its transaction.
  Of `Pagination`: `PagesFit`, that where the end of a page fits an int, the
  offset, `has_next` and `total_pages` agree with each other and the total, at any
  width.  It rests on `RoundedUp`, the quotient of the division that rounds up.
* `SmokeProofs` - `ImplementsFounding` (`Spec => Spec_F`: the script's handlers,
  visitors and starts are arrivals, statements and enrolments of `Founding` or
  stutters), and from the invariant of `Founding` types, `RefusalsJustified`,
  `NumbersInOrder` and `SeedOutcome` for any clients, names and processes.  The
  invariant adds what a transaction has found out (`Knows`: all smaller numbers
  of its name are taken, and if its own has been taken since, it was raced),
  what an answer says (`Answers`) and that founders have accounts.
  `NumbersInOrder` needs that tenants are never deleted, which is why it does not
  speak of roles.  `RunLeavesConsistent` has an invariant of its own, `SInv`, on
  top: at each stage of the script, what it has kept (`Keeps`), who has a live
  token (`LiveFits`), who can still be verified (`PendingFits`), which passwords
  and roles are which (`AccountsFit`), and that the request it waits for is its
  step's and has done its work when it is answered `ok` (`InFlight`, needed
  because a visitor may act between the commit and the answer).  Two tables do
  the bookkeeping: `ScriptTable` (what each of the 33 steps is) and `Where`
  (at which steps each operation is called).  It holds whatever the database
  refuses, because a script that is refused does not pass.
  `FailsOnlyIf` has a third invariant, `Ready`, on top of both.  `Apart`: nobody
  else works on an account or a slug of the script, so that its requests find
  their slug free at the first try.  `AsExpected`, while the script has not
  failed: who has not registered yet is unknown (`Newcomers`), the accounts have
  the passwords, verification and tenants that the steps so far have given them
  (`Settled`), the role is there from its commit to its deletion (`Roles`), and the
  tokens that the next step sends are good (`Equipped`).  A transaction commits
  before the script sees its answer, so what a step does counts as done from its
  commit on (`Undone`).  Each handler then has one lemma, `...Expected`, that its
  answer is the good one or the failure is one of those that the header admits.

Assumptions on constants are named in the modules (`FoundingConstants`,
`SmokeConstants` and so on): `Nil` is no value (nor a password or a role that the
script sends), loops try at least once, slugs have room for a character,
connections are as many as `MaxOpen`.  `ScriptNamesOwn` says that no name of a
visitor, with or without a number, is the slug of a tenant of the script: the
code puts the random tag of the run into the latter.

Only model-checked: `RequestsFinish` and `SmokeEnds`, which are liveness under
fairness, and `PageIsRight`, because what `SelectSeq` leaves of a table of any
length is an induction over data; `PagesFit` is the part of it that is not.

## What is not modelled

Passwords are values and not bcrypt hashes; the time bcrypt takes appears as
the gap between a read and a transaction, and its limit of 72 bytes is a check
of one call.  Emails that are sent, audit columns and profile columns have no
effect on the rest.  Controllers appear by their checks and statuses; binding
and wording are left out.  The rate limit middleware, `CreateUser` and
`JSONWithPagination` are used by nothing.  The counts of the platform summary
are not modelled, only who may ask.  Idle connections are not modelled, since a
connection that is idle is free.  Sentry, logging, configuration and the
dependency injection are wiring.  `docs/docs.go` is generated.

## Plan

Done, in this order because sessions are what every request and every double
click meets first: Sessions with its abstract specification, Accounts,
Memberships, ConnPool, RolePermissions, ResendLimiter, Access; then Pagination
and Widgets on ConnPool, Founding, and Smoke on Founding.

Left:

1. Compositions: Sessions with Accounts (is `is_active` shared), Memberships
   with RolePermissions (keys of deleted roles).
