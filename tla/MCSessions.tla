---------------------------- MODULE MCSessions ----------------------------
(* Small instances of Sessions for TLC. *)
EXTENDS Sessions, TLC

CONSTANTS u1, u2, t1, t2

\* u1 is an ordinary member of a tenant; u2 is platform staff and also a member.
MemberU1 == {<<u1, t1>>}
MemberU2 == {<<u2, t1>>}

\* Half of the initial states: no account is being closed.
NoLate == Init /\ lateLogin = {}

OpenSpec == NoLate /\ [][Next]_vars

Symmetric == Permutations(Token) \cup Permutations(Reset)
                 \cup Permutations(Worker) \cup Permutations(Password)
=============================================================================
