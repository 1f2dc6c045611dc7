------------------------------ MODULE MCSmoke ------------------------------
(* An instance of Smoke for TLC: a visitor and a starting process.  A name  *)
(* of a visitor may be the seed's, collide with a numbered slug, or be too  *)
(* long for a role; a second role of a name is one too many.                *)
EXTENDS Smoke

CONSTANTS c, v1, b1

Visitors == {v1}
Boots    == {b1}
Workers  == {c} \cup Visitors \cup Boots

VisitorEmails == {"admin", "ann"}
Emails   == Actor \cup VisitorEmails
VisitorNames == {<<"platform">>, <<"platform", 1>>}
Names    == VisitorNames \cup {<<u>> : u \in Actor} \cup {<<"smoke">>}
=============================================================================
