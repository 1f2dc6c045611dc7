------------------------ MODULE ResendLimiterProofs ------------------------
(* Theorems about ResendLimiter, for any keys, any number of calls allowed  *)
(* per window, any window, and a clock and a number of restarts up to any   *)
(* bound.                                                                   *)
EXTENDS ResendLimiter, FiniteSetTheorems, TLAPS

\* Hits of a key are numbered, finitely many, and not from the future.
Numbered ==
    \A k \in Key :
        /\ IsFiniteSet(granted[k])
        /\ \A h \in granted[k] : h.at <= now /\ h.life <= restarts /\ h.n < Cardinality(granted[k])

\* The map has only hits of this life, and all of them that still count.
MapIsRight ==
    \A k \in Key :
        /\ resendHits[k] \subseteq granted[k]
        /\ \A h \in granted[k] : h.life = restarts /\ Recent(h.at) => h \in resendHits[k]

Inv == TypeOK /\ Numbered /\ MapIsRight /\ AtMostMaxPerWindow /\ RefusedOnlyWhenFull

--------------------------------------------------------------------------
(* One more hit *)

\* The numbers the proofs compare.
LEMMA Numbers ==
    ASSUME TypeOK
    PROVE  now \in Nat /\ restarts \in Nat /\ Window \in Nat \ {0} /\ MaxPerWindow \in Nat \ {0}
  BY LimiterConstants DEF TypeOK, Life

\* What the map keeps of a key is finite, and all of it is in the past hour.
LEMMA KeptFinite ==
    ASSUME Inv, NEW k \in Key
    PROVE  /\ IsFiniteSet(Kept(k)) /\ Cardinality(Kept(k)) \in Nat
           /\ Kept(k) \subseteq granted[k]
           /\ Kept(k) \subseteq GrantedIn(k, (now + 1) - Window, now, Life)
  <1>1. Kept(k) \subseteq granted[k] /\ IsFiniteSet(granted[k])
    BY DEF Kept, Inv, MapIsRight, Numbered
  <1>2. IsFiniteSet(Kept(k)) /\ Cardinality(Kept(k)) \in Nat
    BY <1>1, FS_Subset, FS_CardinalityType
  <1>3. ASSUME NEW h \in Kept(k) PROVE h \in GrantedIn(k, (now + 1) - Window, now, Life)
    <2>1. h \in granted[k] /\ h \in Hit /\ h.at <= now
      BY <1>1 DEF Inv, TypeOK, Numbered
    <2>2. h.at \in Int /\ h.life \in Life /\ now - h.at < Window
      BY <2>1 DEF Hit, Kept, Recent
    <2>3. h.at \in (now + 1) - Window .. now
      BY <2>1, <2>2, Numbers DEF Inv
    <2>. QED  BY <2>1, <2>2, <2>3 DEF GrantedIn
  <1>. QED  BY <1>1, <1>2, <1>3

\* A hit of the present that nobody has had yet.
LEMMA NewHitIsNew ==
    ASSUME Inv, NEW k \in Key
    PROVE  /\ NewHit(k) \in Hit /\ NewHit(k) \notin granted[k]
           /\ NewHit(k).at = now /\ NewHit(k).life = restarts
           /\ NewHit(k).n = Cardinality(granted[k])
           /\ Cardinality(granted[k]) \in Nat
  <1>1. Cardinality(granted[k]) \in Nat
    BY FS_CardinalityType DEF Inv, Numbered
  <1>2. NewHit(k) \in Hit /\ NewHit(k).n = Cardinality(granted[k])
        /\ NewHit(k).at = now /\ NewHit(k).life = restarts
    BY <1>1 DEF NewHit, Hit, Inv, TypeOK
  <1>3. NewHit(k) \notin granted[k]
    BY <1>1, <1>2 DEF Inv, Numbered
  <1>. QED  BY <1>1, <1>2, <1>3

\* What a call that is let through does to the tables.
LEMMA GrantEffect ==
    ASSUME Inv, NEW k \in Key, Grant(k)
    PROVE  /\ Cardinality(Kept(k)) < MaxPerWindow
           /\ now' = now /\ restarts' = restarts /\ refused' = {}
           /\ granted'[k] = granted[k] \cup {NewHit(k)}
           /\ resendHits'[k] = Kept(k) \cup {NewHit(k)}
           /\ \A j \in Key : j # k => granted'[j] = granted[j] /\ resendHits'[j] = resendHits[j]
           /\ IsFiniteSet(granted'[k])
           /\ Cardinality(granted'[k]) = Cardinality(granted[k]) + 1
           /\ Cardinality(resendHits'[k]) = Cardinality(Kept(k)) + 1
  <1>1. /\ Cardinality(Kept(k)) < MaxPerWindow
        /\ now' = now /\ restarts' = restarts /\ refused' = {}
        /\ granted'[k] = granted[k] \cup {NewHit(k)}
        /\ resendHits'[k] = Kept(k) \cup {NewHit(k)}
        /\ \A j \in Key : j # k => granted'[j] = granted[j] /\ resendHits'[j] = resendHits[j]
    BY DEF Grant, Inv, TypeOK
  <1>2. IsFiniteSet(granted[k]) /\ NewHit(k) \notin granted[k]
    BY NewHitIsNew DEF Inv, Numbered
  <1>3. IsFiniteSet(granted[k] \cup {NewHit(k)})
        /\ Cardinality(granted[k] \cup {NewHit(k)}) = Cardinality(granted[k]) + 1
    BY <1>2, FS_AddElement
  <1>4. IsFiniteSet(Kept(k)) /\ NewHit(k) \notin Kept(k)
    BY <1>2, KeptFinite
  <1>5. Cardinality(Kept(k) \cup {NewHit(k)}) = Cardinality(Kept(k)) + 1
    BY <1>4, FS_AddElement
  <1>. QED  BY <1>1, <1>3, <1>5

--------------------------------------------------------------------------
(* The invariant *)

\* Every step keeps the types, and no key has more than MaxPerWindow hits in the map.
LEMMA NextType == Inv /\ [Next]_vars => TypeOK'
  <1>. SUFFICES ASSUME Inv, [Next]_vars PROVE TypeOK'
    OBVIOUS
  <1>. USE DEF Inv, TypeOK
  <1>1. CASE Tick
    BY <1>1, LimiterConstants DEF Tick
  <1>2. CASE Restart
    <2>1. Cardinality({}) = 0
      BY FS_EmptySet
    <2>. QED  BY <1>2, <2>1, LimiterConstants DEF Restart, Life
  <1>3. ASSUME NEW k \in Key, Grant(k) PROVE TypeOK'
    <2>1. granted' \in [Key -> SUBSET Hit] /\ resendHits' \in [Key -> SUBSET Hit]
      BY <1>3, NewHitIsNew DEF Grant, Kept
    <2>2. Cardinality(Kept(k)) + 1 <= MaxPerWindow
      BY <1>3, GrantEffect, KeptFinite, LimiterConstants
    <2>3. \A j \in Key : Cardinality(resendHits'[j]) <= MaxPerWindow
      BY <1>3, <2>2, GrantEffect
    <2>. QED  BY <1>3, <2>1, <2>3, GrantEffect
  <1>4. ASSUME NEW k \in Key, Refuse(k) PROVE TypeOK'
    BY <1>4 DEF Refuse
  <1>5. CASE UNCHANGED vars
    BY <1>5 DEF vars
  <1>. QED  BY <1>1, <1>2, <1>3, <1>4, <1>5 DEF Next

\* A step that lets nothing through changes no hit.
LEMMA NextNumbered == Inv /\ [Next]_vars => Numbered'
  <1>. SUFFICES ASSUME Inv, [Next]_vars PROVE Numbered'
    OBVIOUS
  <1>1. ASSUME UNCHANGED granted, now' \in Nat, now <= now', restarts' \in Nat, restarts <= restarts'
        PROVE  Numbered'
    <2>1. \A k \in Key : \A h \in granted[k] : h.at \in Int /\ h.life \in Int
      BY LimiterConstants DEF Inv, TypeOK, Hit, Life
    <2>. QED  BY <1>1, <2>1, Numbers DEF Inv, Numbered
  <1>2. CASE Tick
    BY <1>1, <1>2, Numbers DEF Tick, Inv
  <1>3. CASE Restart
    BY <1>1, <1>3, Numbers DEF Restart, Inv
  <1>4. ASSUME NEW k \in Key, Grant(k) PROVE Numbered'
    <2>1. \A j \in Key : j # k => granted'[j] = granted[j]
      BY <1>4, GrantEffect
    <2>2. \A h \in granted'[k] : h.at <= now /\ h.life <= restarts /\ h.n < Cardinality(granted'[k])
      <3>1. \A h \in granted[k] : h.n \in Nat
        BY DEF Inv, TypeOK, Hit
      <3>. QED  BY <1>4, <3>1, GrantEffect, NewHitIsNew, Numbers DEF Inv, Numbered
    <2>. QED  BY <1>4, <2>1, <2>2, GrantEffect DEF Inv, Numbered
  <1>5. ASSUME NEW k \in Key, Refuse(k) PROVE Numbered'
    BY <1>1, <1>5, Numbers DEF Refuse, Inv
  <1>6. CASE UNCHANGED vars
    BY <1>1, <1>6, Numbers DEF vars, Inv
  <1>. QED  BY <1>2, <1>3, <1>4, <1>5, <1>6 DEF Next

\* Only hits that no longer count leave the map, until a restart begins a new life.
LEMMA NextMap == Inv /\ [Next]_vars => MapIsRight'
  <1>. SUFFICES ASSUME Inv, [Next]_vars PROVE MapIsRight'
    OBVIOUS
  <1>. USE DEF Inv, TypeOK
  <1>1. ASSUME UNCHANGED <<granted, resendHits, restarts>>, now' \in Nat, now <= now'
        PROVE  MapIsRight'
    <2>1. ASSUME NEW k \in Key, NEW h \in granted[k], Recent(h.at)' PROVE Recent(h.at)
      <3>1. h.at \in Int
        BY DEF Hit
      <3>. QED  BY <1>1, <2>1, <3>1, Numbers DEF Recent
    <2>. QED  BY <1>1, <2>1 DEF MapIsRight
  <1>2. CASE Tick
    BY <1>1, <1>2, Numbers DEF Tick
  <1>3. CASE Restart
    <2>1. ASSUME NEW k \in Key, NEW h \in granted'[k] PROVE h.life # restarts'
      <3>1. h.life <= restarts /\ h.life \in Int
        BY <1>3, <2>1, LimiterConstants DEF Restart, Numbered, Hit, Life
      <3>. QED  BY <1>3, <3>1, Numbers DEF Restart
    <2>. QED  BY <1>3, <2>1 DEF Restart, MapIsRight
  <1>4. ASSUME NEW k \in Key, Grant(k) PROVE MapIsRight'
    <2>1. \A x : Recent(x)' = Recent(x)
      BY <1>4, GrantEffect DEF Recent
    <2>2. ASSUME NEW h \in granted'[k], h.life = restarts, Recent(h.at) PROVE h \in resendHits'[k]
      <3>1. /\ granted'[k] = granted[k] \cup {NewHit(k)}
            /\ resendHits'[k] = Kept(k) \cup {NewHit(k)}
        BY <1>4, GrantEffect
      <3>2. h \in granted[k] => h \in Kept(k)
        BY <2>2 DEF MapIsRight, Kept
      <3>. QED  BY <2>2, <3>1, <3>2
    <2>3. resendHits'[k] \subseteq granted'[k]
      BY <1>4, GrantEffect, KeptFinite
    <2>. QED  BY <1>4, <2>1, <2>2, <2>3, GrantEffect DEF MapIsRight
  <1>5. ASSUME NEW k \in Key, Refuse(k) PROVE MapIsRight'
    BY <1>1, <1>5, Numbers DEF Refuse
  <1>6. CASE UNCHANGED vars
    BY <1>1, <1>6, Numbers DEF vars
  <1>. QED  BY <1>2, <1>3, <1>4, <1>5, <1>6 DEF Next

\* A call is let through only if fewer than MaxPerWindow were within the hour,
\* so a window that ends now or later has room for it.
LEMMA NextAtMost == Inv /\ [Next]_vars => AtMostMaxPerWindow'
  <1>. SUFFICES ASSUME Inv, [Next]_vars, NEW k \in Key, NEW t \in 0 .. MaxNow, NEW life \in Life
                PROVE  Cardinality(GrantedIn(k, t, t + Window - 1, {life})') <= MaxPerWindow
    BY DEF AtMostMaxPerWindow
  <1>. DEFINE In == GrantedIn(k, t, t + Window - 1, {life})
  <1>0. t \in Int
    BY LimiterConstants
  <1>1. IsFiniteSet(In) /\ Cardinality(In) <= MaxPerWindow
    <2>1. In \subseteq granted[k] /\ IsFiniteSet(granted[k])
      BY DEF GrantedIn, Inv, Numbered
    <2>. QED  BY <2>1, FS_Subset DEF Inv, AtMostMaxPerWindow
  <1>2. ASSUME granted'[k] = granted[k] PROVE In' = In
    BY <1>2 DEF GrantedIn
  <1>3. CASE Grant(k)
    <2>1. CASE NewHit(k) \notin In'
      <3>1. In' = In
        BY <1>3, <2>1, GrantEffect DEF GrantedIn
      <3>. QED  BY <1>1, <3>1
    <2>2. CASE NewHit(k) \in In'
      <3>1. now \in t .. t + Window - 1 /\ life = restarts
        BY <2>2, NewHitIsNew DEF GrantedIn
      <3>2. ASSUME NEW h \in In PROVE h \in Kept(k)
        <4>1. h \in granted[k] /\ h.at \in t .. t + Window - 1 /\ h.life = restarts
          BY <3>1 DEF GrantedIn
        <4>2. now - h.at < Window
          BY <1>0, <3>1, <4>1, Numbers DEF Inv
        <4>. QED  BY <4>1, <4>2 DEF Inv, MapIsRight, Kept, Recent
      <3>3. In' \subseteq In \cup {NewHit(k)}
        BY <1>3, GrantEffect DEF GrantedIn
      <3>4. In' \in SUBSET resendHits'[k]
        BY <1>3, <3>2, <3>3, GrantEffect
      <3>5. IsFiniteSet(resendHits'[k])
        <4>1. IsFiniteSet(granted'[k]) /\ resendHits'[k] \subseteq granted'[k]
          BY <1>3, GrantEffect, NextMap DEF MapIsRight
        <4>. QED  BY <4>1, FS_Subset
      <3>6. Cardinality(In') <= Cardinality(resendHits'[k])
        BY <3>4, <3>5, FS_Subset
      <3>7. Cardinality(In') \in Nat /\ Cardinality(resendHits'[k]) \in Nat
        BY <3>4, <3>5, FS_Subset, FS_CardinalityType
      <3>8. Cardinality(resendHits'[k]) <= MaxPerWindow
        BY NextType DEF TypeOK
      <3>. QED  BY <3>6, <3>7, <3>8, LimiterConstants
    <2>. QED  BY <2>1, <2>2
  <1>4. ASSUME NEW j \in Key, j # k, Grant(j) PROVE In' = In
    BY <1>2, <1>4, GrantEffect
  <1>5. CASE UNCHANGED granted
    BY <1>1, <1>2, <1>5
  <1>. QED  BY <1>1, <1>3, <1>4, <1>5 DEF Next, Tick, Restart, Refuse, vars

\* A call is refused when the map is full of hits of the hour that ends now.
LEMMA NextRefused == Inv /\ [Next]_vars => RefusedOnlyWhenFull'
  <1>. SUFFICES ASSUME Inv, [Next]_vars PROVE RefusedOnlyWhenFull'
    OBVIOUS
  <1>1. ASSUME NEW k \in Key, Refuse(k) PROVE RefusedOnlyWhenFull'
    <2>. DEFINE In == GrantedIn(k, (now + 1) - Window, now, Life)
    <2>1. refused' = {k} /\ In' = In /\ Cardinality(Kept(k)) >= MaxPerWindow
      BY <1>1 DEF Refuse, GrantedIn
    <2>2. IsFiniteSet(In)
      <3>1. In \in SUBSET granted[k] /\ IsFiniteSet(granted[k])
        BY DEF GrantedIn, Inv, Numbered
      <3>. QED  BY <3>1, FS_Subset
    <2>3. Cardinality(Kept(k)) <= Cardinality(In) /\ Cardinality(In) \in Nat
      BY <2>2, KeptFinite, FS_Subset, FS_CardinalityType
    <2>4. Cardinality(In) >= MaxPerWindow
      BY <2>1, <2>3, KeptFinite, LimiterConstants
    <2>. QED  BY <2>1, <2>4 DEF RefusedOnlyWhenFull
  <1>2. CASE refused' = {}
    BY <1>2 DEF RefusedOnlyWhenFull
  <1>3. CASE UNCHANGED vars
    BY <1>3 DEF vars, RefusedOnlyWhenFull, GrantedIn, Inv
  <1>. QED  BY <1>1, <1>2, <1>3 DEF Next, Tick, Restart, Grant

\* An empty map refuses nothing.
LEMMA InitInv == Init => Inv
  <1>. SUFFICES ASSUME Init PROVE Inv
    OBVIOUS
  <1>1. IsFiniteSet({}) /\ Cardinality({}) = 0
    BY FS_EmptySet
  <1>2. \A k \in Key : \A t, u, lives : GrantedIn(k, t, u, lives) = {}
    BY DEF Init, GrantedIn
  <1>3. TypeOK
    BY <1>1, LimiterConstants DEF Init, TypeOK, Life
  <1>4. AtMostMaxPerWindow
    BY <1>1, <1>2, LimiterConstants DEF AtMostMaxPerWindow
  <1>5. Numbered /\ MapIsRight /\ RefusedOnlyWhenFull
    BY <1>1 DEF Init, Numbered, MapIsRight, RefusedOnlyWhenFull
  <1>. QED  BY <1>3, <1>4, <1>5 DEF Inv

--------------------------------------------------------------------------
(* Theorems *)

\* The inductive invariant holds throughout.
THEOREM InvHolds == Spec => []Inv
  <1>1. Inv /\ [Next]_vars => Inv'
    BY NextType, NextNumbered, NextMap, NextAtMost, NextRefused DEF Inv
  <1>. QED  BY <1>1, InitInv, PTL DEF Spec

\* The state stays in its types, and the map never has more hits of a key than
\* a window allows.
THEOREM TypeCorrect == Spec => []TypeOK
  <1>1. Inv => TypeOK
    BY DEF Inv
  <1>. QED  BY <1>1, InvHolds, PTL

\* One life of the process never lets more calls of a key through in a window,
\* wherever the window begins.
THEOREM AtMostMaxPerWindowHolds == Spec => []AtMostMaxPerWindow
  <1>1. Inv => AtMostMaxPerWindow
    BY DEF Inv
  <1>. QED  BY <1>1, InvHolds, PTL

\* A call is refused only when MaxPerWindow were let through in the hour before.
THEOREM RefusedOnlyWhenFullHolds == Spec => []RefusedOnlyWhenFull
  <1>1. Inv => RefusedOnlyWhenFull
    BY DEF Inv
  <1>. QED  BY <1>1, InvHolds, PTL
=============================================================================
