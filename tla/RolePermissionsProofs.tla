----------------------- MODULE RolePermissionsProofs -----------------------
(* Theorems about RolePermissions, for any number of roles, keys, requests  *)
(* and any length of a request.                                             *)
EXTENDS RolePermissions, TLAPS

\* A request moves its keys one by one from those left to those added.
KeysOnTheWay(w) ==
    /\ req[w].role \in Role
    /\ ToSet(req[w].keys) = req[w].added \cup ToSet(req[w].left)
    /\ pc[w] \in {"delete", "delete_lock"} => req[w].added = {} /\ req[w].gone = {}
    /\ pc[w] \in {"delete", "insert", "touched"} => req[w].seen = {}
    /\ pc[w] = "touched" => req[w].left = <<>>

\* Rows that DELETE has found are still there or have left its list; all others
\* of the role were committed by rivals since.
DeletesCommitted(w) ==
    /\ pc[w] = "delete_lock" => /\ req[w].seen \subseteq grants[req[w].role]
                                /\ grants[req[w].role] \ req[w].seen = req[w].late
    /\ pc[w] \in {"insert", "touched"} => grants[req[w].role] \ req[w].gone = req[w].late

\* No row is deleted or inserted by two transactions, and an inserted key is
\* in no other row: the unique index is never violated at a commit.
LockDiscipline ==
    \A w \in Worker : pc[w] # "idle" =>
        /\ req[w].gone \subseteq grants[req[w].role]
        /\ req[w].added \cap (grants[req[w].role] \ req[w].gone) = {}
        /\ \A v \in Rivals(w) : /\ req[v].gone \cap req[w].gone = {}
                                /\ req[v].added \cap req[w].added = {}

Inv ==
    /\ TypeOK
    /\ LockDiscipline
    /\ \A w \in Worker : pc[w] # "idle" => KeysOnTheWay(w) /\ DeletesCommitted(w)

--------------------------------------------------------------------------
(* Sequences of keys *)

\* The keys of a sequence are its first one and those of the rest.
LEMMA HeadAndTail ==
    ASSUME NEW S, NEW s \in Seq(S), s # <<>>
    PROVE  Head(s) \in S /\ Tail(s) \in Seq(S) /\ ToSet(s) = {Head(s)} \cup ToSet(Tail(s))
  <1>1. Len(s) \in Nat /\ Len(s) # 0 /\ DOMAIN s = 1 .. Len(s)
    OBVIOUS
  <1>2. Head(s) = s[1] /\ Head(s) \in S /\ Tail(s) \in Seq(S) /\ DOMAIN Tail(s) = 1 .. Len(s) - 1
    BY <1>1
  <1>3. \A i \in 1 .. Len(s) - 1 : Tail(s)[i] = s[i + 1]
    BY <1>1
  <1>4. ASSUME NEW x \in ToSet(s) PROVE x \in {Head(s)} \cup ToSet(Tail(s))
    <2>1. PICK i \in 1 .. Len(s) : x = s[i]
      BY <1>1, <1>4 DEF ToSet
    <2>2. CASE i = 1
      BY <1>2, <2>1, <2>2
    <2>3. CASE i # 1
      <3>1. i - 1 \in 1 .. Len(s) - 1 /\ (i - 1) + 1 = i
        BY <1>1, <2>3
      <3>2. Tail(s)[i - 1] = x
        BY <1>3, <2>1, <3>1
      <3>. QED  BY <1>2, <3>1, <3>2 DEF ToSet
    <2>. QED  BY <2>2, <2>3
  <1>5. Head(s) \in ToSet(s)
    <2>1. 1 \in 1 .. Len(s)
      BY <1>1
    <2>. QED  BY <1>1, <1>2, <2>1 DEF ToSet
  <1>6. ASSUME NEW x \in ToSet(Tail(s)) PROVE x \in ToSet(s)
    <2>1. PICK i \in 1 .. Len(s) - 1 : x = Tail(s)[i]
      BY <1>2, <1>6 DEF ToSet
    <2>2. i + 1 \in 1 .. Len(s)
      BY <1>1
    <2>. QED  BY <1>1, <1>3, <2>1, <2>2 DEF ToSet
  <1>. QED  BY <1>2, <1>4, <1>5, <1>6

\* The keys of a request form a sequence.
LEMMA BoundedSeqIsSeq ==
    ASSUME NEW S, NEW n \in Nat, NEW s \in BoundedSeq(S, n)
    PROVE  s \in Seq(S)
  <1>1. PICK m \in 0 .. n : s \in [1 .. m -> S]
    BY DEF BoundedSeq, SeqOf
  <1>. QED  BY <1>1

\* Nothing is in the empty sequence.
LEMMA EmptyToSet == ToSet(<<>>) = {}
  BY DEF ToSet

--------------------------------------------------------------------------
(* Types *)

LEMMA NoRequestType == NoRequest \in Request
  BY DEF NoRequest, Request

\* Every step keeps the types, and leaves no locks with a request that ends.
LEMMA NextType == Inv /\ [Next]_vars => TypeOK'
  <1>. SUFFICES ASSUME Inv, [Next]_vars PROVE TypeOK'
    OBVIOUS
  <1>. USE NoRequestType DEF Inv, TypeOK
  <1>1. ASSUME NEW w \in Worker, NEW r \in Role, NEW keys \in BoundedSeq(Key, MaxKeys),
               SetRolePermissions(w, r, keys)
        PROVE  TypeOK'
    <2>1. [NoRequest EXCEPT !.role = r, !.keys = keys, !.left = keys] \in Request
      <3>1. keys \in Seq(Key)
        BY BoundedSeqIsSeq, PermissionConstants
      <3>. QED  BY <3>1 DEF NoRequest, Request
    <2>. QED  BY <1>1, <2>1 DEF SetRolePermissions
  <1>2. ASSUME NEW w \in Worker, DeleteFind(w) PROVE TypeOK'
    <2>1. req[w].role \in Role
      BY <1>2 DEF DeleteFind, KeysOnTheWay
    <2>2. [req[w] EXCEPT !.seen = grants[req[w].role], !.late = {}] \in Request
      BY <2>1 DEF Request
    <2>3. req' = [req EXCEPT ![w] = [req[w] EXCEPT !.seen = grants[req[w].role], !.late = {}]]
      BY <1>2 DEF DeleteFind, Request
    <2>. QED  BY <1>2, <2>2, <2>3 DEF DeleteFind
  <1>3. ASSUME NEW w \in Worker, DeleteRows(w) PROVE TypeOK'
    <2>1. [req[w] EXCEPT !.gone = req[w].seen, !.seen = {}] \in Request
      BY DEF Request
    <2>2. req' = [req EXCEPT ![w] = [req[w] EXCEPT !.gone = req[w].seen, !.seen = {}]]
      BY <1>3 DEF DeleteRows, Request
    <2>. QED  BY <1>3, <2>1, <2>2 DEF DeleteRows
  <1>4. ASSUME NEW w \in Worker, Insert(w) PROVE TypeOK'
    <2>1. req[w].left \in Seq(Key) /\ req[w].left # <<>>
      BY <1>4 DEF Insert, Request
    <2>2. Head(req[w].left) \in Key /\ Tail(req[w].left) \in Seq(Key)
      BY <2>1, HeadAndTail
    <2>3. [req[w] EXCEPT !.added = @ \cup {Head(req[w].left)}, !.left = Tail(@)] \in Request
      BY <2>2 DEF Request
    <2>4. req' = [req EXCEPT ![w] =
                     [req[w] EXCEPT !.added = @ \cup {Head(req[w].left)}, !.left = Tail(@)]]
      BY <1>4 DEF Insert, Request
    <2>. QED  BY <1>4, <2>3, <2>4 DEF Insert
  <1>5. ASSUME NEW w \in Worker, Commit(w) PROVE TypeOK'
    <2>1. req[w].role \in Role /\ req[w].added \in SUBSET Key
      BY <1>5 DEF Commit, KeysOnTheWay, Request
    <2>2. \A v \in Worker : [req[v] EXCEPT !.seen = @ \ req[w].gone,
                              !.late = (@ \ req[w].gone) \cup req[w].added] \in Request
      BY DEF Request
    <2>3. req' \in [Worker -> Request]
      BY <1>5, <2>2 DEF Commit
    <2>4. grants' \in [Role -> SUBSET Key]
      BY <1>5, <2>1 DEF Commit
    <2>5. ASSUME NEW v \in Worker, pc'[v] = "idle" PROVE req'[v] = NoRequest
      <3>1. CASE v = w
        BY <1>5, <3>1 DEF Commit
      <3>2. CASE v # w
        <4>1. req[v] = NoRequest
          BY <1>5, <2>5, <3>2 DEF Commit
        <4>2. v \notin Rivals(w)
          BY <2>1, <4>1, PermissionConstants DEF Rivals, NoRequest
        <4>. QED  BY <1>5, <3>2, <4>1, <4>2 DEF Commit
      <3>. QED  BY <3>1, <3>2
    <2>. QED  BY <1>5, <2>3, <2>4, <2>5 DEF Commit
  <1>6. ASSUME NEW w \in Worker, Fail(w) PROVE TypeOK'
    BY <1>6 DEF Fail, Return
  <1>7. ASSUME NEW r \in Role, DeleteRole(r) PROVE TypeOK'
    BY <1>7 DEF DeleteRole
  <1>8. CASE UNCHANGED vars
    BY <1>8 DEF vars
  <1>9. ASSUME NEW w \in Worker, Touch(w) PROVE TypeOK'
    BY <1>9 DEF Touch
  <1>. QED  BY <1>1, <1>2, <1>3, <1>4, <1>5, <1>6, <1>7, <1>8, <1>9 DEF Next

--------------------------------------------------------------------------
(* Locks *)

\* The part of LockDiscipline about one request, and the part about two.
OwnRows(w) ==
    /\ req[w].gone \subseteq grants[req[w].role]
    /\ req[w].added \cap (grants[req[w].role] \ req[w].gone) = {}

Apart(w, v) ==
    /\ req[v].gone \cap req[w].gone = {}
    /\ req[v].added \cap req[w].added = {}

LEMMA LockParts ==
    LockDiscipline <=> \A w \in Worker : pc[w] # "idle" =>
                           OwnRows(w) /\ \A v \in Rivals(w) : Apart(w, v)
  BY DEF LockDiscipline, OwnRows, Apart

\* What one request may rely on.
Sound(w) == pc[w] # "idle" => KeysOnTheWay(w) /\ DeletesCommitted(w) /\ OwnRows(w)

LEMMA InvParts ==
    ASSUME Inv
    PROVE  /\ \A w \in Worker : Sound(w)
           /\ \A w \in Worker : pc[w] # "idle" => \A v \in Rivals(w) : Apart(w, v)
  BY LockParts DEF Inv, Sound

\* The locals of a request after each of its own statements.
LEMMA OwnStep ==
    ASSUME Inv, NEW w \in Worker
    PROVE  /\ \A r \in Role, keys \in BoundedSeq(Key, MaxKeys) : SetRolePermissions(w, r, keys) =>
                  /\ pc'[w] = "delete" /\ req'[w].role = r /\ req'[w].keys = keys /\ req'[w].left = keys
                  /\ req'[w].seen = {} /\ req'[w].gone = {} /\ req'[w].added = {}
           /\ DeleteFind(w) =>
                  /\ pc'[w] = "delete_lock" /\ req'[w].seen = grants[req[w].role]
                  /\ req'[w].role = req[w].role /\ req'[w].keys = req[w].keys
                  /\ req'[w].left = req[w].left /\ req'[w].gone = req[w].gone
                  /\ req'[w].added = req[w].added /\ req'[w].late = {}
           /\ DeleteRows(w) =>
                  /\ pc'[w] = "insert" /\ req'[w].seen = {} /\ req'[w].gone = req[w].seen
                  /\ req'[w].role = req[w].role /\ req'[w].keys = req[w].keys
                  /\ req'[w].left = req[w].left /\ req'[w].added = req[w].added
                  /\ req'[w].late = req[w].late
           /\ Insert(w) =>
                  /\ pc'[w] = "insert" /\ req'[w].added = req[w].added \cup {Head(req[w].left)}
                  /\ req'[w].left = Tail(req[w].left)
                  /\ req'[w].role = req[w].role /\ req'[w].keys = req[w].keys
                  /\ req'[w].seen = req[w].seen /\ req'[w].gone = req[w].gone
                  /\ req'[w].late = req[w].late
  <1>. USE DEF Inv, TypeOK
  <1>1. ASSUME NEW r \in Role, NEW keys \in BoundedSeq(Key, MaxKeys), SetRolePermissions(w, r, keys)
        PROVE  pc'[w] = "delete" /\ req'[w] = [NoRequest EXCEPT !.role = r, !.keys = keys, !.left = keys]
    BY <1>1 DEF SetRolePermissions
  <1>2. ASSUME DeleteFind(w)
        PROVE  /\ pc'[w] = "delete_lock"
               /\ req'[w] = [req[w] EXCEPT !.seen = grants[req[w].role], !.late = {}]
    BY <1>2 DEF DeleteFind, Request
  <1>3. ASSUME DeleteRows(w)
        PROVE  pc'[w] = "insert" /\ req'[w] = [req[w] EXCEPT !.gone = req[w].seen, !.seen = {}]
    BY <1>3 DEF DeleteRows, Request
  <1>4. ASSUME Insert(w)
        PROVE  /\ pc'[w] = "insert"
               /\ req'[w] = [req[w] EXCEPT !.added = @ \cup {Head(req[w].left)}, !.left = Tail(@)]
    BY <1>4 DEF Insert, Request
  <1>5. req[w] \in Request
    OBVIOUS
  <1>6. ASSUME NEW r \in Role, NEW keys \in BoundedSeq(Key, MaxKeys), SetRolePermissions(w, r, keys)
        PROVE  /\ req'[w].role = r /\ req'[w].keys = keys /\ req'[w].left = keys
               /\ req'[w].seen = {} /\ req'[w].gone = {} /\ req'[w].added = {}
    <2>1. NoRequest.seen = {} /\ NoRequest.gone = {} /\ NoRequest.added = {}
      BY DEF NoRequest
    <2>2. keys \in Seq(Key)
      BY BoundedSeqIsSeq, PermissionConstants
    <2>3. req'[w] = [NoRequest EXCEPT !.role = r, !.keys = keys, !.left = keys]
      BY <1>1, <1>6
    <2>. QED  BY <2>1, <2>2, <2>3, NoRequestType DEF Request
  <1>7. DeleteFind(w) =>
            /\ req'[w].seen = grants[req[w].role]
            /\ req'[w].role = req[w].role /\ req'[w].keys = req[w].keys
            /\ req'[w].left = req[w].left /\ req'[w].gone = req[w].gone
            /\ req'[w].added = req[w].added /\ req'[w].late = {}
    BY <1>2, <1>5 DEF Request
  <1>8. DeleteRows(w) =>
            /\ req'[w].seen = {} /\ req'[w].gone = req[w].seen
            /\ req'[w].role = req[w].role /\ req'[w].keys = req[w].keys
            /\ req'[w].left = req[w].left /\ req'[w].added = req[w].added
            /\ req'[w].late = req[w].late
    BY <1>3, <1>5 DEF Request
  <1>9. Insert(w) =>
            /\ req'[w].added = req[w].added \cup {Head(req[w].left)}
            /\ req'[w].left = Tail(req[w].left)
            /\ req'[w].role = req[w].role /\ req'[w].keys = req[w].keys
            /\ req'[w].seen = req[w].seen /\ req'[w].gone = req[w].gone
            /\ req'[w].late = req[w].late
    BY <1>4, <1>5 DEF Request
  <1>. QED  BY <1>1, <1>2, <1>3, <1>4, <1>6, <1>7, <1>8, <1>9

\* A step of one request that is not a commit leaves the others and the table alone.
LEMMA OthersKeep ==
    ASSUME Inv, NEW w \in Worker, NEW v \in Worker \ {w},
           \/ \E r \in Role, keys \in BoundedSeq(Key, MaxKeys) : SetRolePermissions(w, r, keys)
           \/ DeleteFind(w) \/ DeleteRows(w) \/ Insert(w) \/ Touch(w) \/ Fail(w)
    PROVE  pc'[v] = pc[v] /\ req'[v] = req[v] /\ grants' = grants
  BY DEF Inv, TypeOK, SetRolePermissions, DeleteFind, DeleteRows, Insert, Touch, Fail, Return

\* A commit ends its request, and takes the rows it deleted from what its rivals
\* have still to delete.
LEMMA CommitEffect ==
    ASSUME Inv, NEW w \in Worker, Commit(w)
    PROVE  /\ pc[w] = "touched" /\ req[w].role \in Role /\ req[w].left = <<>>
           /\ pc'[w] = "idle" /\ req'[w] = NoRequest
           /\ grants'[req[w].role] = (grants[req[w].role] \ req[w].gone) \cup req[w].added
           /\ \A r \in Role : r # req[w].role => grants'[r] = grants[r]
           /\ \A v \in Worker \ {w} :
                  /\ pc'[v] = pc[v]
                  /\ req'[v].role = req[v].role /\ req'[v].keys = req[v].keys
                  /\ req'[v].left = req[v].left /\ req'[v].gone = req[v].gone
                  /\ req'[v].added = req[v].added
                  /\ v \notin Rivals(w) => req'[v] = req[v]
                  /\ v \in Rivals(w) => /\ req'[v].seen = req[v].seen \ req[w].gone
                                        /\ req'[v].late = (req[v].late \ req[w].gone)
                                                            \cup req[w].added
  <1>. USE DEF Inv, TypeOK
  <1>1. pc[w] = "touched" /\ req[w].role \in Role /\ req[w].left = <<>>
    BY DEF Commit, KeysOnTheWay
  <1>2. /\ pc'[w] = "idle" /\ req'[w] = NoRequest
        /\ grants'[req[w].role] = (grants[req[w].role] \ req[w].gone) \cup req[w].added
        /\ \A r \in Role : r # req[w].role => grants'[r] = grants[r]
    BY <1>1 DEF Commit
  <1>3. ASSUME NEW v \in Worker \ {w}
        PROVE  /\ pc'[v] = pc[v]
               /\ req'[v] = IF v \in Rivals(w)
                            THEN [req[v] EXCEPT !.seen = @ \ req[w].gone,
                              !.late = (@ \ req[w].gone) \cup req[w].added]
                            ELSE req[v]
    BY DEF Commit
  <1>4. \A v \in Worker : req[v] \in Request
    OBVIOUS
  <1>. QED  BY <1>1, <1>2, <1>3, <1>4 DEF Request

\* A request relies on the same after a step of its own, of a rival or of another.
LEMMA NextSound ==
    ASSUME Inv, [Next]_vars, NEW v \in Worker
    PROVE  Sound(v)'
  <1>. USE DEF Inv, TypeOK
  <1>0. Sound(v)
    BY InvParts
  <1>1. ASSUME pc'[v] = pc[v], req'[v] = req[v], grants' = grants PROVE Sound(v)'
    BY <1>0, <1>1 DEF Sound, KeysOnTheWay, DeletesCommitted, OwnRows
  <1>2. ASSUME NEW r \in Role, NEW keys \in BoundedSeq(Key, MaxKeys), SetRolePermissions(v, r, keys)
        PROVE  Sound(v)'
    <2>1. grants' = grants
      BY <1>2 DEF SetRolePermissions
    <2>. QED  BY <1>2, <2>1, OwnStep DEF Sound, KeysOnTheWay, DeletesCommitted, OwnRows
  <1>3. CASE DeleteFind(v)
    <2>1. pc[v] = "delete" /\ grants' = grants
      BY <1>3 DEF DeleteFind
    <2>. QED  BY <1>0, <1>3, <2>1, OwnStep DEF Sound, KeysOnTheWay, DeletesCommitted, OwnRows
  <1>4. CASE DeleteRows(v)
    <2>1. pc[v] = "delete_lock" /\ grants' = grants
      BY <1>4 DEF DeleteRows
    <2>. QED  BY <1>0, <1>4, <2>1, OwnStep DEF Sound, KeysOnTheWay, DeletesCommitted, OwnRows
  <1>5. CASE Insert(v)
    <2>1. /\ pc[v] = "insert" /\ grants' = grants /\ req[v].left # <<>>
          /\ Head(req[v].left) \notin grants[req[v].role] \ req[v].gone
      BY <1>5 DEF Insert
    <2>2. ToSet(req[v].left) = {Head(req[v].left)} \cup ToSet(Tail(req[v].left))
      <3>1. req[v].left \in Seq(Key)
        BY DEF Request
      <3>. QED  BY <2>1, <3>1, HeadAndTail
    <2>3. ToSet(req'[v].keys) = req'[v].added \cup ToSet(req'[v].left)
      BY <1>0, <1>5, <2>1, <2>2, OwnStep DEF Sound, KeysOnTheWay
    <2>. QED  BY <1>0, <1>5, <2>1, <2>3, OwnStep DEF Sound, KeysOnTheWay, DeletesCommitted, OwnRows
  <1>12. CASE Touch(v)
    <2>1. /\ pc[v] = "insert" /\ pc'[v] = "touched" /\ grants' = grants /\ req' = req
          /\ req[v].left = <<>>
      BY <1>12 DEF Touch
    <2>. QED  BY <1>0, <2>1 DEF Sound, KeysOnTheWay, DeletesCommitted, OwnRows
  <1>6. ASSUME NEW w \in Worker \ {v}, Commit(w), pc[v] # "idle" PROVE Sound(v)'
    <2>1. req[v].role \in Role /\ KeysOnTheWay(v) /\ DeletesCommitted(v) /\ OwnRows(v)
      BY <1>0, <1>6 DEF Sound, KeysOnTheWay
    <2>2. CASE v \notin Rivals(w)
      <3>1. req[v].role # req[w].role
        BY <2>2, <1>6 DEF Rivals
      <3>2. grants'[req[v].role] = grants[req[v].role] /\ pc'[v] = pc[v] /\ req'[v] = req[v]
        BY <1>6, <2>1, <2>2, <3>1, CommitEffect
      <3>. QED  BY <2>1, <3>2 DEF Sound, KeysOnTheWay, DeletesCommitted, OwnRows
    <2>3. CASE v \in Rivals(w)
      <3>1. req[v].role = req[w].role
        BY <2>3 DEF Rivals
      <3>2. Apart(w, v)
        BY <1>6, <2>3, CommitEffect, InvParts
      <3>3. /\ pc'[v] = pc[v] /\ req'[v].role = req[v].role
            /\ req'[v].gone = req[v].gone /\ req'[v].added = req[v].added
            /\ req'[v].keys = req[v].keys /\ req'[v].left = req[v].left
            /\ req'[v].seen = req[v].seen \ req[w].gone
            /\ req'[v].late = (req[v].late \ req[w].gone) \cup req[w].added
            /\ grants'[req[v].role] = (grants[req[v].role] \ req[w].gone) \cup req[w].added
        BY <1>6, <2>3, <3>1, CommitEffect
      <3>4. KeysOnTheWay(v)'
        BY <2>1, <3>3 DEF KeysOnTheWay
      <3>5. DeletesCommitted(v)'
        <4>1. OwnRows(w)
          BY <1>6, CommitEffect, InvParts DEF Sound
        <4>. QED  BY <2>1, <3>1, <3>2, <3>3, <4>1 DEF DeletesCommitted, OwnRows, Apart
      <3>6. OwnRows(v)'
        BY <2>1, <3>2, <3>3 DEF OwnRows, Apart
      <3>. QED  BY <3>4, <3>5, <3>6 DEF Sound
    <2>. QED  BY <2>2, <2>3
  <1>7. ASSUME pc'[v] = "idle" PROVE Sound(v)'
    BY <1>7 DEF Sound
  <1>8. ASSUME NEW w \in Worker, Commit(w) PROVE Sound(v)'
    BY <1>6, <1>7, <1>8, CommitEffect
  <1>9. ASSUME NEW w \in Worker,
               \/ \E r \in Role, keys \in BoundedSeq(Key, MaxKeys) : SetRolePermissions(w, r, keys)
               \/ DeleteFind(w) \/ DeleteRows(w) \/ Insert(w) \/ Touch(w) \/ Fail(w)
        PROVE  Sound(v)'
    <2>1. CASE w # v
      BY <1>1, <1>9, <2>1, OthersKeep
    <2>2. CASE Fail(v)
      BY <1>7, <2>2 DEF Fail, Return
    <2>. QED  BY <1>2, <1>3, <1>4, <1>5, <1>12, <1>9, <2>1, <2>2
  <1>10. ASSUME NEW r \in Role, DeleteRole(r) PROVE Sound(v)'
    BY <1>1, <1>10 DEF DeleteRole
  <1>11. CASE UNCHANGED vars
    BY <1>1, <1>11 DEF vars
  <1>. QED  BY <1>8, <1>9, <1>10, <1>11 DEF Next

\* Two requests on one role never hold the same row.
LEMMA NextApart ==
    ASSUME Inv, [Next]_vars, NEW u \in Worker, NEW v \in Worker, u # v,
           pc'[u] # "idle", req'[u].role = req'[v].role
    PROVE  Apart(u, v)'
  <1>. USE DEF Inv, TypeOK
  <1>. DEFINE Held(x, y) == pc[x] # "idle" /\ req[x].role = req[y].role => Apart(x, y)
              Kept(x) == /\ req'[x].role = req[x].role /\ req'[x].gone = req[x].gone
                         /\ req'[x].added = req[x].added
  <1>0. ASSUME NEW x \in Worker, NEW y \in Worker, x # y PROVE Held(x, y)
    BY <1>0, InvParts DEF Rivals
  <1>1. ASSUME pc'[u] = pc[u], Kept(u), Kept(v) PROVE Apart(u, v)'
    BY <1>0, <1>1 DEF Apart
  <1>2. ASSUME NEW x \in Worker, req'[x].gone = {}, req'[x].added = {}, x \in {u, v}
        PROVE  Apart(u, v)'
    BY <1>2 DEF Apart
  \* One of the two, x, moves; the other, y, keeps what it has.
  <1>3. ASSUME NEW x \in Worker, NEW y \in Worker, {x, y} = {u, v}, x # y,
               \/ \E r \in Role, keys \in BoundedSeq(Key, MaxKeys) : SetRolePermissions(x, r, keys)
               \/ DeleteFind(x) \/ DeleteRows(x) \/ Insert(x) \/ Touch(x) \/ Fail(x)
        PROVE  Apart(u, v)'
    <2>. SUFFICES Apart(x, y)'
      BY <1>3 DEF Apart
    <2>0. pc'[y] = pc[y] /\ req'[y] = req[y] /\ Kept(y) /\ req'[x].role = req'[y].role
      BY <1>3, OthersKeep
    <2>1. ASSUME NEW r \in Role, NEW keys \in BoundedSeq(Key, MaxKeys), SetRolePermissions(x, r, keys)
          PROVE  Apart(x, y)'
      <3>1. req'[x].gone = {} /\ req'[x].added = {}
        BY <2>1, OwnStep
      <3>. QED  BY <3>1 DEF Apart
    <2>2. CASE DeleteFind(x)
      <3>1. Kept(x) /\ pc[x] # "idle"
        BY <2>2, OwnStep DEF DeleteFind
      <3>. QED  BY <1>0, <1>3, <2>0, <3>1 DEF Apart
    <2>3. CASE DeleteRows(x)
      <3>1. /\ req'[x].role = req[x].role /\ req'[x].added = req[x].added
            /\ req'[x].gone = req[x].seen /\ pc[x] # "idle"
        BY <2>3, OwnStep DEF DeleteRows
      <3>2. req[y].gone \cap req[x].seen = {}
        BY <1>3, <2>0, <2>3, <3>1 DEF DeleteRows, Rivals
      <3>3. req[y].added \cap req[x].added = {}
        BY <1>0, <1>3, <2>0, <3>1 DEF Apart
      <3>. QED  BY <2>0, <3>1, <3>2, <3>3 DEF Apart
    <2>4. CASE Insert(x)
      <3>1. /\ req'[x].role = req[x].role /\ req'[x].gone = req[x].gone /\ pc[x] # "idle"
            /\ req'[x].added = req[x].added \cup {Head(req[x].left)}
        BY <2>4, OwnStep DEF Insert
      <3>2. Head(req[x].left) \notin req[y].added
        BY <1>3, <2>0, <2>4, <3>1 DEF Insert, Rivals
      <3>3. Apart(x, y)
        BY <1>0, <1>3, <2>0, <3>1
      <3>. QED  BY <2>0, <3>1, <3>2, <3>3 DEF Apart
    <2>5. CASE Fail(x)
      <3>1. req'[x] = NoRequest
        BY <2>5 DEF Fail, Return
      <3>. QED  BY <3>1 DEF NoRequest, Apart
    <2>6. CASE Touch(x)
      <3>1. Kept(x) /\ pc[x] # "idle"
        BY <2>6 DEF Touch
      <3>. QED  BY <1>0, <1>3, <2>0, <3>1 DEF Apart
    <2>. QED  BY <1>3, <2>1, <2>2, <2>3, <2>4, <2>5, <2>6
  <1>4. ASSUME NEW w \in Worker,
               \/ \E r \in Role, keys \in BoundedSeq(Key, MaxKeys) : SetRolePermissions(w, r, keys)
               \/ DeleteFind(w) \/ DeleteRows(w) \/ Insert(w) \/ Touch(w) \/ Fail(w)
        PROVE  Apart(u, v)'
    <2>1. CASE w \notin {u, v}
      BY <1>1, <1>4, <2>1, OthersKeep
    <2>2. CASE w = u
      BY <1>3, <1>4, <2>2
    <2>3. CASE w = v
      BY <1>3, <1>4, <2>3
    <2>. QED  BY <2>1, <2>2, <2>3
  <1>5. ASSUME NEW w \in Worker, Commit(w) PROVE Apart(u, v)'
    <2>1. CASE w \in {u, v}
      <3>1. req'[w] = NoRequest
        BY <1>5, CommitEffect
      <3>. QED  BY <1>2, <2>1, <3>1 DEF NoRequest
    <2>2. CASE w \notin {u, v}
      BY <1>1, <1>5, <2>2, CommitEffect
    <2>. QED  BY <2>1, <2>2
  <1>6. ASSUME NEW r \in Role, DeleteRole(r) PROVE Apart(u, v)'
    BY <1>1, <1>6 DEF DeleteRole
  <1>7. CASE UNCHANGED vars
    BY <1>1, <1>7 DEF vars
  <1>. QED  BY <1>4, <1>5, <1>6, <1>7 DEF Next

--------------------------------------------------------------------------
(* Theorems *)

\* Empty tables and no request.
LEMMA InitInv == Init => Inv
  BY NoRequestType DEF Init, Inv, TypeOK, LockDiscipline

LEMMA NextInv == Inv /\ [Next]_vars => Inv'
  <1>. SUFFICES ASSUME Inv, [Next]_vars PROVE Inv'
    OBVIOUS
  <1>1. \A w \in Worker : Sound(w)'
    BY NextSound
  <1>2. \A w \in Worker : pc'[w] # "idle" => \A v \in Rivals(w)' : Apart(w, v)'
    BY NextApart DEF Rivals
  <1>3. LockDiscipline'
    BY <1>1, <1>2 DEF LockDiscipline, Sound, OwnRows, Apart
  <1>. QED  BY <1>1, <1>3, NextType DEF Inv, Sound

\* The inductive invariant holds throughout.
THEOREM InvHolds == Spec => []Inv
  BY InitInv, NextInv, PTL DEF Spec

\* The state stays in its types, and a request that has been answered holds no row.
THEOREM TypeCorrect == Spec => []TypeOK
  <1>1. Inv => TypeOK
    BY DEF Inv
  <1>. QED  BY <1>1, InvHolds, PTL

\* When a request commits, it has inserted all its keys.
LEMMA AllAdded ==
    ASSUME Inv, NEW w \in Worker, Commit(w)
    PROVE  req[w].added = ToSet(req[w].keys)
  <1>1. pc[w] = "touched" /\ req[w].left = <<>> /\ Sound(w)
    BY CommitEffect, InvParts
  <1>. QED  BY <1>1, EmptyToSet DEF Sound, KeysOnTheWay

\* However many requests on a role overlap, each that succeeds leaves the role
\* all the keys it asked for.
THEOREM GrantsAsAskedHolds == Spec => GrantsAsAsked
  <1>1. ASSUME Inv, NEW w \in Worker, Commit(w), NEW i \in DOMAIN req[w].keys
        PROVE  req[w].keys[i] \in grants'[req[w].role]
    <2>1. req[w].keys[i] \in req[w].added
      BY <1>1, AllAdded DEF ToSet
    <2>. QED  BY <1>1, <2>1, CommitEffect
  <1>2. Inv /\ [Next]_vars => [\A w \in Worker : Commit(w) => \A i \in DOMAIN req[w].keys :
                                   req[w].keys[i] \in grants'[req[w].role]]_vars
    BY <1>1
  <1>. QED  BY <1>2, InvHolds, PTL DEF Spec, GrantsAsAsked

\* However many requests on a role overlap, one that succeeds leaves of the other
\* keys exactly those committed since its DELETE looked.
THEOREM ReplacesExactlyHolds == Spec => ReplacesExactly
  <1>1. ASSUME Inv, NEW w \in Worker, Commit(w)
        PROVE  grants'[req[w].role] \ ToSet(req[w].keys) = req[w].late
    <2>1. /\ grants[req[w].role] \ req[w].gone = req[w].late
          /\ req[w].added \cap (grants[req[w].role] \ req[w].gone) = {}
      BY <1>1, InvParts, CommitEffect DEF Sound, DeletesCommitted, OwnRows
    <2>2. /\ req[w].added = ToSet(req[w].keys)
          /\ grants'[req[w].role] = (grants[req[w].role] \ req[w].gone) \cup req[w].added
      BY <1>1, AllAdded, CommitEffect
    <2>. QED  BY <2>1, <2>2
  <1>2. Inv /\ [Next]_vars => [\A w \in Worker : Commit(w)
                                   => grants'[req[w].role] \ ToSet(req[w].keys) = req[w].late]_vars
    BY <1>1
  <1>. QED  BY <1>2, InvHolds, PTL DEF Spec, ReplacesExactly
=============================================================================
