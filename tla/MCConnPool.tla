----------------------------- MODULE MCConnPool -----------------------------
(* An instance of ConnPool for TLC: as many requests of members with a      *)
(* custom role as the pool has connections.                                 *)
EXTENDS ConnPool

CONSTANTS c1, c2, c3, c4, c5

FiveCustom == {c1, c2, c3, c4, c5}
=============================================================================
