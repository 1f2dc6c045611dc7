----------------------------- MODULE MCWidgets -----------------------------
(* An instance of Widgets for TLC: a request of a member with a custom role *)
(* and two lists share two connections.  The list l1 is asked for the first *)
(* page, a later one, one of the largest size and one past the ints.        *)
EXTENDS Widgets

CONSTANTS c1, l1, l2, k1, k2, t1, t2

Custom  == {c1}
Listers == {l1, l2}
Workers == Custom \cup Listers
Conns   == {k1, k2}
Tenants == {t1, t2}

Ask(t, page, limit) == [tenant |-> t, page |-> page, limit |-> limit]

MCAsked(w) ==
    IF w = l1
    THEN {Ask(t1, 0, 0), Ask(t1, 2, 1), Ask(t1, 1, 9), Ask(t1, 5, 2), Ask(t2, 2, 3)}
    ELSE {Ask(t2, 0, 2)}
=============================================================================
