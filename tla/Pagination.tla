----------------------------- MODULE Pagination -----------------------------
(***************************************************************************)
(* Pages of a list: the query parameters page and limit (pkg/utils) and    *)
(* the metadata of the answer (pkg/responses).  A Go int is a number of    *)
(* -(IntMax + 1) .. IntMax and products of ints wrap around.               *)
(***************************************************************************)
EXTENDS Integers

CONSTANTS
    IntMax,            \* the largest int
    DefaultPageSize,
    MaxPageSize

ASSUME PaginationConstants ==
    /\ IntMax \in Nat
    /\ MaxPageSize \in 1 .. IntMax
    /\ DefaultPageSize \in 1 .. MaxPageSize

DefaultPage == 1

Wrap(n) == ((n + IntMax + 1) % (2 * (IntMax + 1))) - (IntMax + 1)

\* A parameter that is absent, no number, too large for an int (Atoi refuses
\* it) or not positive leaves the default.  0 stands for the first two.
Param(v, default) == IF v \in 1 .. IntMax THEN v ELSE default

Capped(limit) == IF limit > MaxPageSize THEN MaxPageSize ELSE limit

BuildPagination_OffByOne(page, limit) ==
    LET p == Param(page, DefaultPage)
        l == Capped(Param(limit, DefaultPageSize))
    IN  [page |-> p, limit |-> l, offset |-> Wrap(p * l)]

BuildPagination(page, limit) ==
    LET p == Param(page, DefaultPage)
        l == Capped(Param(limit, DefaultPageSize))
    IN  [page |-> p, limit |-> l, offset |-> Wrap((p - 1) * l)]

\* PaginationMeta of JSONPaginated; gorm sends no OFFSET that is not positive.
TotalPages(total, p) == (total + p.limit - 1) \div p.limit
HasNext(total, p)    == Wrap(p.page * p.limit) < total
SqlOffset(p)         == IF p.offset > 0 THEN p.offset ELSE 0
=============================================================================
