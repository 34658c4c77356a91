----------------------------- MODULE AuthProofs -----------------------------
(***************************************************************************)
(* TLAPS proofs about Auth: no socket outstays its token by more than the  *)
(* interval of the watchdogs, and what an eviction or an expiry found by   *)
(* the way takes along goes at once, for any number of sockets and tokens, *)
(* any lifetime and any interval; and a login removes no token before its  *)
(* time but the oldest, and that only to keep MAX_TOKENS newer ones.       *)
(***************************************************************************)
EXTENDS Auth, FiniteSetTheorems, WellFoundedInduction, TLAPS

LEMMA InitIInv == Init => IInv
<1> SUFFICES ASSUME Init PROVE IInv
  OBVIOUS
<1>1. TypeOK
  <2>1. 0 \in 0..MaxLogins /\ 0 \in 0..TTL /\ 0 \in 0..Interval /\ 0 \in Nat
    BY BoundAssumption, TimeAssumption
  <2>2. busy \in [Token -> Socks \cup {None}] /\ victims \in [Token -> SUBSET Socks]
    BY DEF Init
  <2>3. last \in 0..MaxLogins /\ age \in [Token -> 0..TTL] /\ valid \subseteq 1..last
    BY <2>1 DEF Init
  <2>4. /\ conn \in [Socks -> {"new", "admitted", "open", "closing", "closed"}]
        /\ cookie \in [Socks -> Token \cup {None}]
        /\ watch \in [Socks -> {"none", "waits", "woken", "closes"}]
        /\ left \in [Socks -> 0..Interval] /\ over \in [Socks -> Nat]
    BY <2>1 DEF Init
  <2>5. changed \in BOOLEAN /\ reg \subseteq Socks /\ evicted \subseteq Socks
    BY DEF Init
  <2> QED BY <2>2, <2>3, <2>4, <2>5 DEF TypeOK
<1> QED BY <1>1 DEF Init, IInv

\* Waking those who wait changes no other kind of watch.
LEMMA WokenType ==
    ASSUME IInv, NEW gone
    PROVE  /\ Woken(gone) \in [Socks -> {"none", "waits", "woken", "closes"}]
           /\ \A w \in Socks : w \notin reg => Woken(gone)[w] = "none"
BY DEF IInv, TypeOK, Woken

\* When the tokens of the set gone are removed, an open socket remains watched:
\* if its own is among them its watchdog is awake.
LEMMA RemovalKeeps ==
    ASSUME IInv, NEW w \in Socks, conn[w] = "open", NEW gone,
           \A k \in 1..last : age'[k] = age[k] /\ (k \in valid' <=> k \in valid \ gone),
           last' \in Nat, last <= last',
           watch'[w] = Woken(gone)[w], Evicted(gone),
           cookie'[w] = cookie[w], reg' = reg, left'[w] = left[w], over'[w] = over[w]
    PROVE  Watched(w)'
<1>1. Watched(w) /\ cookie[w] \in 1..last'
  BY DEF IInv, TypeOK, Watched
<1>2. KeyValid(cookie[w])' => KeyValid(cookie[w])
  BY <1>1 DEF KeyValid, Expired, Watched
<1>3. w \in evicted' => watch'[w] = "woken" /\ cookie[w] \notin valid'
  BY <1>1 DEF Evicted, Woken, Watched
<1>4. watch'[w] \in {"waits", "woken"} /\ (watch'[w] = "waits" => watch[w] = "waits")
  BY <1>1 DEF Woken, Watched
<1> QED BY <1>1, <1>2, <1>3, <1>4 DEF Watched

\* The same of a step that only looks at a token.
LEMMA IsAuthedKeeps ==
    ASSUME IInv, NEW k, IsAuthed(k), NEW w \in Socks, conn[w] = "open",
           UNCHANGED <<last, age, reg, left, over>>, cookie'[w] = cookie[w]
    PROVE  Watched(w)'
<1>1. last' \in Nat /\ last <= last'
  BY BoundAssumption DEF IInv, TypeOK
<1>2. watch'[w] = Woken(Stale(k))[w] /\ Evicted(Stale(k))
  BY DEF IsAuthed
<1>3. \A j \in 1..last : age'[j] = age[j] /\ (j \in valid' <=> j \in valid \ Stale(k))
  BY DEF IsAuthed
<1> HIDE DEF Stale
<1> QED BY <1>1, <1>2, <1>3, RemovalKeeps

LEMMA NextIInv == IInv /\ [Next]_vars => IInv'
<1> SUFFICES ASSUME IInv, [Next]_vars PROVE IInv'
  OBVIOUS
<1> USE BoundAssumption, TimeAssumption
<1>0. TypeOK
  BY DEF IInv
<1>1. CASE UNCHANGED vars
  BY <1>1 DEF IInv, TypeOK, Watched, KeyValid, Expired, vars, logouts
<1>2. CASE Tick
  <2>1. age' \in [Token -> 0..TTL]
    BY <1>0, <1>2 DEF Tick, TypeOK, Expired
  <2>2. ASSUME NEW w \in Socks, watch[w] = "waits"
        PROVE  left[w] \in 1..Interval
    BY <1>0, <1>2, <2>2 DEF Tick, TypeOK, Rings, IInv
  <2>3. left' \in [Socks -> 0..Interval] /\ over' \in [Socks -> Nat]
    BY <1>0, <1>2, <2>2 DEF Tick, TypeOK
  <2>4. TypeOK'
    BY <1>0, <1>2, <2>1, <2>3 DEF Tick, TypeOK, logouts
  <2>5. ASSUME NEW w \in Socks, conn[w] = "open" PROVE Watched(w)'
    <3>1. Watched(w) /\ watch[w] = "waits"
      BY <1>2, <2>5 DEF IInv, Tick, Rings, Watched
    <3>2. left'[w] = left[w] - 1 /\ left[w] \in 1..Interval
      BY <1>0, <1>2, <2>2, <3>1 DEF Tick, TypeOK
    <3>3. KeyValid(cookie[w])' => KeyValid(cookie[w])
      BY <1>0, <1>2, <3>1 DEF Tick, KeyValid, Expired, TypeOK, Watched, Token
    <3>4. /\ KeyValid(cookie[w]) => over'[w] = 0
          /\ over'[w] <= over[w] + 1 /\ over[w] \in Nat /\ over'[w] \in Nat
      BY <1>0, <1>2, <2>3, <2>5, <3>1 DEF Tick, TypeOK, Watched
    <3> QED BY <1>2, <3>1, <3>2, <3>3, <3>4 DEF Watched, Tick
  <2> QED BY <1>2, <2>4, <2>5 DEF IInv, Tick, logouts
<1>3. CASE Login
  <2> DEFINE k == last + 1
             purged == {j \in valid : Expired(j)}
             kept == (valid \ purged) \cup {k}
             gone == purged \cup Excess(kept)
  <2>1. /\ k \in 1..MaxLogins /\ last' = k /\ age' = [age EXCEPT ![k] = 0]
        /\ valid' = kept \ Excess(kept) /\ watch' = Woken(gone) /\ Evicted(gone)
        /\ UNCHANGED <<conn, cookie, reg, left, logouts, over>>
    BY <1>0, <1>3 DEF Login, TypeOK
  <2>2. last' \in 0..MaxLogins /\ age' \in [Token -> 0..TTL] /\ valid' \subseteq 1..last'
    <3>1. last \in 0..MaxLogins /\ valid \subseteq 1..last /\ age \in [Token -> 0..TTL]
      BY <1>0 DEF TypeOK
    <3>2. kept \subseteq 1..k
      <4>1. k \in 1..k /\ 1..last \subseteq 1..k
        BY <3>1
      <4>2. kept \subseteq valid \cup {k}
        OBVIOUS
      <4> QED
        <5> HIDE DEF kept, k
        <5> QED BY <3>1, <4>1, <4>2
    <3>3. valid' \subseteq 1..last'
      <4> HIDE DEF kept, k, gone
      <4> QED BY <2>1, <3>2
    <3>4. age' \in [Token -> 0..TTL]
      <4> HIDE DEF kept, k, gone
      <4> QED BY <2>1, <3>1 DEF Token
    <3>5. last' \in 0..MaxLogins
      BY <2>1
    <3> QED BY <3>3, <3>4, <3>5
  <2>3. TypeOK'
    <3>1. changed' \in BOOLEAN
      BY <1>3 DEF Login
    <3> HIDE DEF k, kept, gone
    <3> QED BY <1>0, <2>1, <2>2, <3>1, WokenType DEF TypeOK, Evicted, logouts
  <2>4. \A j \in 1..last : age'[j] = age[j] /\ (j \in valid' <=> j \in valid \ gone)
    BY <1>0, <2>1 DEF TypeOK, Token
  <2>5. ASSUME NEW w \in Socks, conn[w] = "open" PROVE Watched(w)'
    <3>1. watch'[w] = Woken(gone)[w] /\ last' \in Nat /\ last <= last'
      BY <1>0, <2>1 DEF TypeOK
    <3> HIDE DEF gone
    <3> QED BY <2>1, <2>4, <2>5, <3>1, RemovalKeeps
  <2>6. \A w \in Socks : conn[w] \in {"new", "admitted"} => w \notin evicted'
    BY <2>1 DEF Evicted, IInv
  <2>7. \A w \in Socks : w \notin reg' => watch'[w] = "none"
    <3> HIDE DEF gone
    <3> QED BY <2>1, WokenType
  <2>8. \A w \in Socks : conn[w] = "admitted" => cookie[w] \in 1..last'
    BY <1>0, <2>1 DEF IInv, TypeOK
  <2> HIDE DEF k, kept, purged, gone
  <2> QED BY <2>1, <2>3, <2>5, <2>6, <2>7, <2>8 DEF IInv
<1>4. ASSUME NEW k \in Token, Request(k) PROVE IInv'
  <2>1. TypeOK' /\ \A w \in Socks : w \notin reg => watch'[w] = "none"
    BY <1>0, <1>4, WokenType DEF Request, IsAuthed, TypeOK, Evicted, logouts
  <2>2. ASSUME NEW w \in Socks, conn[w] = "open" PROVE Watched(w)'
    BY <1>4, <2>2, IsAuthedKeeps DEF Request
  <2>3. \A w \in Socks : conn[w] \in {"new", "admitted"} => w \notin evicted'
    BY <1>4 DEF Request, IsAuthed, Evicted, IInv
  <2> QED BY <1>4, <2>1, <2>2, <2>3 DEF IInv, Request
<1>5. ASSUME NEW w \in Socks, NEW k \in Token, Admit(w, k) PROVE IInv'
  <2>1. TypeOK' /\ \A v \in Socks : v \notin reg => watch'[v] = "none"
    BY <1>0, <1>5, WokenType DEF Admit, IsAuthed, TypeOK, Evicted, logouts
  <2>2. ASSUME NEW v \in Socks, conn'[v] = "open" PROVE Watched(v)'
    <3>1. conn[v] = "open" /\ cookie'[v] = cookie[v]
      BY <1>0, <1>5, <2>2 DEF Admit, TypeOK
    <3> QED BY <1>5, <3>1, IsAuthedKeeps DEF Admit
  <2>3. \A v \in Socks : conn'[v] \in {"new", "admitted"} =>
            /\ conn[v] \in {"new", "admitted"} /\ v \notin evicted'
            /\ conn'[v] = "admitted" => cookie'[v] \in 1..last
    BY <1>0, <1>5 DEF Admit, IsAuthed, Evicted, IInv, TypeOK
  <2> QED BY <1>5, <2>1, <2>2, <2>3 DEF IInv, Admit
<1>6. ASSUME NEW w \in Socks, Register(w) PROVE IInv'
  <2>1. TypeOK'
    BY <1>0, <1>6 DEF Register, TypeOK, logouts
  <2>2. ASSUME NEW v \in Socks, conn'[v] = "open" PROVE Watched(v)'
    <3>1. CASE v = w
      <4>1. /\ v \in reg' /\ cookie'[v] \in 1..last /\ v \notin evicted'
            /\ over'[v] = 0 /\ left'[v] = Interval /\ watch'[v] \in {"waits", "woken"}
        BY <1>0, <1>6, <3>1 DEF Register, IInv, TypeOK
      <4> QED BY <1>6, <4>1 DEF Watched, Register
    <3>2. CASE v # w
      BY <1>0, <1>6, <2>2, <3>2 DEF Register, IInv, TypeOK, Watched, KeyValid, Expired
    <3> QED BY <3>1, <3>2
  <2> QED BY <1>0, <1>6, <2>1, <2>2 DEF IInv, Register, TypeOK
<1>7. ASSUME NEW w \in Socks, Leave(w) PROVE IInv'
  BY <1>0, <1>7 DEF Leave, IInv, TypeOK, Watched, KeyValid, Expired, logouts
<1>8. ASSUME NEW w \in Socks, Unregister(w) PROVE IInv'
  BY <1>0, <1>8 DEF Unregister, IInv, TypeOK, Watched, KeyValid, Expired, logouts
<1>9. ASSUME NEW w \in Socks, CloseDone(w) PROVE IInv'
  BY <1>0, <1>9 DEF CloseDone, IInv, TypeOK, Watched, KeyValid, Expired, logouts
<1>10. ASSUME NEW w \in Socks, WaitsAgain(w) PROVE IInv'
  <2>1. TypeOK'
    <3>1. changed' \in BOOLEAN
      BY <1>10 DEF WaitsAgain, Cleared
    <3>2. Cleared(w) \in BOOLEAN
      BY DEF Cleared
    <3> HIDE DEF Cleared
    <3>3. /\ watch' \in [Socks -> {"none", "waits", "woken", "closes"}]
          /\ left' \in [Socks -> 0..Interval]
      BY <1>0, <1>10 DEF WaitsAgain, TypeOK
    <3> QED BY <1>0, <1>10, <3>1, <3>3 DEF WaitsAgain, TypeOK, logouts
  <2>2. ASSUME NEW v \in Socks, conn[v] = "open" PROVE Watched(v)'
    <3>1. Watched(v)
      BY <2>2 DEF IInv
    <3>2. CASE v = w
      <4>1. /\ over[v] = 0 /\ v \notin evicted /\ left'[v] = Interval
            /\ watch'[v] \in {"waits", "woken"}
        BY <1>0, <1>10, <3>1, <3>2 DEF WaitsAgain, Watched, KeyValid, TypeOK
      <4> QED BY <1>10, <3>1, <4>1 DEF Watched, WaitsAgain
    <3>3. CASE v # w
      BY <1>0, <1>10, <3>1, <3>3 DEF WaitsAgain, TypeOK, Watched, KeyValid, Expired
    <3> QED BY <3>2, <3>3
  <2> QED BY <1>0, <1>10, <2>1, <2>2 DEF IInv, WaitsAgain, Rings, TypeOK
<1>11. ASSUME NEW w \in Socks, Closes(w) PROVE IInv'
  <2> DEFINE gone == Stale(cookie[w])
  <2>1. /\ w \in reg /\ valid' = valid \ gone /\ Evicted(gone)
        /\ watch' = [Woken(gone) EXCEPT ![w] = "closes"]
        /\ conn' = [conn EXCEPT ![w] = IF @ = "open" THEN "closing" ELSE @]
        /\ UNCHANGED <<last, age, cookie, reg, left, over, victims, busy>>
        /\ changed' \in BOOLEAN
    BY <1>11 DEF Closes, Rings, CloseUnauthed, logouts
  <2> HIDE DEF gone
  <2>2. TypeOK' /\ \A v \in Socks : v \notin reg => watch'[v] = "none"
    BY <1>0, <2>1, WokenType DEF TypeOK, Evicted
  <2>3. ASSUME NEW v \in Socks, conn'[v] = "open" PROVE Watched(v)'
    <3>1. v # w /\ conn[v] = "open"
      BY <1>0, <2>1, <2>3 DEF TypeOK
    <3>2. watch'[v] = Woken(gone)[v] /\ last' \in Nat /\ last <= last'
      BY <1>0, <2>1, <3>1, WokenType DEF TypeOK
    <3> QED BY <2>1, <3>1, <3>2, RemovalKeeps
  <2>4. \A v \in Socks : conn'[v] \in {"new", "admitted"} =>
            conn[v] = conn'[v] /\ v \notin evicted'
    BY <1>0, <2>1 DEF Evicted, IInv, TypeOK
  <2> QED BY <2>1, <2>2, <2>3, <2>4 DEF IInv
<1>12. ASSUME NEW k \in Token, Logout(k) PROVE IInv'
  <2>1. TypeOK'
    BY <1>0, <1>12 DEF Logout, TypeOK
  <2> QED BY <1>0, <1>12, <2>1 DEF Logout, IInv, TypeOK, Watched, KeyValid, Expired
<1>13. ASSUME NEW k \in Token, LogoutCloses(k) PROVE IInv'
  <2>1. PICK w \in Socks : CloseUnauthed(w)
    BY <1>0, <1>13 DEF LogoutCloses, TypeOK
  <2> QED BY <1>0, <1>13, <2>1 DEF LogoutCloses, CloseUnauthed, IInv, TypeOK, Watched,
        KeyValid, Expired
<1>14. ASSUME NEW k \in Token, LogoutGoesOn(k) PROVE IInv'
  BY <1>0, <1>14 DEF LogoutGoesOn, IInv, TypeOK, Watched, KeyValid, Expired
<1> QED BY <1>1, <1>2, <1>3, <1>4, <1>5, <1>6, <1>7, <1>8, <1>9, <1>10, <1>11, <1>12,
       <1>13, <1>14 DEF Next

THEOREM Inductive == Spec => []IInv
<1>1. Init => IInv
  BY InitIInv
<1>2. IInv /\ [Next]_vars => IInv'
  BY NextIInv
<1> QED BY <1>1, <1>2, PTL DEF Spec

\* No socket is open without a valid token for longer than the interval.
THEOREM NoOverstayAlways == Spec => []NoOverstay
<1>1. IInv => NoOverstay
  BY DEF IInv, TypeOK, Watched, NoOverstay
<1> QED BY <1>1, Inductive, PTL

\* When the watchdogs that were woken have run, no socket is open whose token
\* was pushed out or found to have expired.
THEOREM EvictedAtOnceAlways == Spec => []EvictedAtOnce
<1>1. IInv => EvictedAtOnce
  BY DEF IInv, TypeOK, Watched, EvictedAtOnce, Rings
<1> QED BY <1>1, Inductive, PTL

-----------------------------------------------------------------------------
(* What a login costs the others *)

\* There are never more tokens than fit.
Fits == Cardinality(valid) <= MaxTokens

\* What NoLoginLost says of one step.
Kept ==
    /\ last' # last => last' \in valid'
    /\ Cardinality(valid') <= MaxTokens
    /\ \A k \in valid \ valid' :
          \/ Expired(k) \/ Logout(k)
          \/ Cardinality({j \in valid' : j > k}) = MaxTokens

LEMMA ValidFinite ==
    ASSUME TypeOK
    PROVE  IsFiniteSet(valid) /\ Cardinality(valid) \in Nat
<1>1. last \in Nat /\ valid \subseteq 1..last
  BY BoundAssumption DEF TypeOK
<1>2. IsFiniteSet(1..last)
  BY <1>1, FS_Interval
<1> QED BY <1>1, <1>2, FS_Subset, FS_CardinalityType

LEMMA MinIsLeast ==
    ASSUME NEW S, S \subseteq Nat, S # {}
    PROVE  Min(S) \in S /\ \A x \in S : Min(S) <= x
<1>1. PICK m \in S : \A x \in S : <<x, m>> \notin OpToRel(<, Nat)
  BY NatLessThanWellFounded, WFMin
<1>2. \A x \in S : m <= x
  <2>1. \A x \in S : x \in Nat /\ m \in Nat /\ ~(x < m)
    BY <1>1 DEF OpToRel
  <2> QED BY <2>1
<1> QED BY <1>2 DEF Min

\* A look at a token, or its watchdog, removes at most that one, if it has expired.
LEMMA StaleKept ==
    ASSUME TypeOK, Fits, NEW k, valid' = valid \ Stale(k), last' = last
    PROVE  Kept
<1>1. \A j \in valid \ valid' : Expired(j)
  BY DEF Stale
<1>2. Cardinality(valid') <= Cardinality(valid) /\ Cardinality(valid') \in Nat
  BY ValidFinite, FS_Subset, FS_CardinalityType
<1>3. Cardinality(valid') <= MaxTokens
  BY <1>2, ValidFinite, SizeAssumption DEF Fits
<1> QED BY <1>1, <1>3 DEF Kept

LEMMA SameKept == ASSUME Fits, valid' = valid, last' = last PROVE Kept
  BY DEF Fits, Kept

LEMMA LogoutKept ==
    ASSUME TypeOK, Fits, NEW k \in Token, Logout(k)
    PROVE  Kept
<1>1. valid' = valid \ {k} /\ last' = last
  BY DEF Logout
<1>2. Cardinality(valid') <= Cardinality(valid) /\ Cardinality(valid') \in Nat
  BY <1>1, ValidFinite, FS_Subset, FS_CardinalityType
<1>3. Cardinality(valid') <= MaxTokens
  BY <1>2, ValidFinite, SizeAssumption DEF Fits
<1>4. \A j \in valid \ valid' : Logout(j)
  BY <1>1
<1> QED BY <1>1, <1>3, <1>4 DEF Kept

\* The one that is pushed out is older than all that stay, and as many stay as fit.
LEMMA LoginKept ==
    ASSUME TypeOK, Fits, Login
    PROVE  Kept
<1> DEFINE k == last + 1
           old == valid \ {j \in valid : Expired(j)}
           kept == old \cup {k}
<1>1. last' = k /\ valid' = kept \ Excess(kept)
  BY DEF Login
<1>2. last \in Nat /\ valid \subseteq 1..last /\ MaxTokens \in Nat \ {0}
  BY BoundAssumption, SizeAssumption DEF TypeOK
<1>3. \A j \in valid \ old : Expired(j)
  OBVIOUS
<1>4. old \subseteq valid
  OBVIOUS
<1> HIDE DEF old
<1>5. IsFiniteSet(old) /\ Cardinality(old) \in Nat /\ Cardinality(old) <= MaxTokens
  <2>1. IsFiniteSet(old) /\ Cardinality(old) <= Cardinality(valid)
    BY <1>4, ValidFinite, FS_Subset
  <2>2. Cardinality(old) \in Nat
    BY <2>1, FS_CardinalityType
  <2> QED BY <1>2, <2>1, <2>2, ValidFinite DEF Fits
<1>6. k \notin old /\ k \in Nat /\ old \subseteq Nat /\ \A j \in old : j < k
  BY <1>2, <1>4
<1>7. k \in kept /\ kept \subseteq Nat /\ old \subseteq kept
  BY <1>6
<1>8. IsFiniteSet(kept) /\ Cardinality(kept) = Cardinality(old) + 1
  BY <1>5, <1>6, FS_AddElement
<1>9. \A j \in kept : j = k \/ j \in old
  OBVIOUS
<1> HIDE DEF kept, k
<1>10. CASE Cardinality(kept) > MaxTokens
  <2> DEFINE m == Min(kept)
  <2>1. m \in kept /\ \A j \in kept : m <= j
    BY <1>7, MinIsLeast
  <2>2. valid' = kept \ {m}
    BY <1>1, <1>10 DEF Excess
  <2> HIDE DEF m
  <2>3. Cardinality(kept) = MaxTokens + 1
    BY <1>2, <1>5, <1>8, <1>10
  <2>4. Cardinality(valid') = MaxTokens
    <3>1. Cardinality(valid') = Cardinality(kept) - 1
      BY <1>8, <2>1, <2>2, FS_RemoveElement
    <3> QED BY <1>2, <2>3, <3>1
  <2>5. m # k
    <3>1. Cardinality(old) # 0
      BY <1>2, <1>5, <1>8, <2>3
    <3>2. old # {}
      BY <1>5, <3>1, FS_EmptySet
    <3>3. PICK j \in old : TRUE
      BY <3>2
    <3>4. j < k /\ m <= j /\ j \in Nat /\ m \in Nat /\ k \in Nat
      BY <1>6, <1>7, <2>1, <3>3
    <3> QED BY <3>4
  <2>6. last' \in valid'
    BY <1>1, <1>7, <2>2, <2>5
  <2>7. ASSUME NEW j \in valid \ valid', ~Expired(j)
        PROVE  Cardinality({i \in valid' : i > j}) = MaxTokens
    <3>1. j \in old
      BY <1>3, <2>7
    <3>2. j = m
      BY <1>7, <2>2, <2>7, <3>1
    <3>3. \A i \in valid' : i > j
      <4>1. \A i \in valid' : i \in kept /\ i # m /\ m <= i /\ i \in Nat /\ m \in Nat
        BY <1>7, <2>1, <2>2
      <4> QED BY <3>2, <4>1
    <3>4. {i \in valid' : i > j} = valid'
      BY <3>3
    <3> QED BY <2>4, <3>4
  <2>8. Cardinality(valid') <= MaxTokens
    BY <1>2, <2>4
  <2> QED BY <2>6, <2>7, <2>8 DEF Kept
<1>11. CASE ~(Cardinality(kept) > MaxTokens)
  <2>1. valid' = kept
    BY <1>1, <1>11 DEF Excess
  <2>2. last' \in valid'
    BY <1>1, <1>7, <2>1
  <2>3. \A j \in valid \ valid' : Expired(j)
    BY <1>3, <1>7, <2>1
  <2>4. Cardinality(valid') <= MaxTokens
    BY <1>2, <1>5, <1>8, <1>11, <2>1
  <2> QED BY <2>2, <2>3, <2>4 DEF Kept
<1> QED BY <1>10, <1>11

LEMMA InitFits == Init => Fits
  BY FS_EmptySet, SizeAssumption DEF Init, Fits

LEMMA NextKept == TypeOK /\ Fits /\ [Next]_vars => Kept
<1> SUFFICES ASSUME TypeOK, Fits, [Next]_vars PROVE Kept
  OBVIOUS
<1>1. CASE UNCHANGED vars
  BY <1>1, SameKept DEF vars
<1>2. CASE Login
  BY <1>2, LoginKept
<1>3. CASE Tick
  BY <1>3, SameKept DEF Tick
<1>4. ASSUME NEW k \in Token, Request(k) \/ \E w \in Socks : Admit(w, k) PROVE Kept
  <2>1. valid' = valid \ Stale(k) /\ last' = last
    BY <1>4 DEF Request, Admit, IsAuthed
  <2> QED BY <2>1, StaleKept
<1>5. ASSUME NEW k \in Token, Logout(k) PROVE Kept
  BY <1>5, LogoutKept
<1>6. ASSUME NEW k \in Token, LogoutCloses(k) \/ LogoutGoesOn(k) PROVE Kept
  BY <1>6, SameKept DEF LogoutCloses, LogoutGoesOn
<1>7. ASSUME NEW w \in Socks,
             Register(w) \/ Leave(w) \/ Unregister(w) \/ CloseDone(w) \/ WaitsAgain(w)
      PROVE  Kept
  BY <1>7, SameKept DEF Register, Leave, Unregister, CloseDone, WaitsAgain
<1>8. ASSUME NEW w \in Socks, Closes(w) PROVE Kept
  <2>1. valid' = valid \ Stale(cookie[w]) /\ last' = last
    BY <1>8 DEF Closes
  <2> QED BY <2>1, StaleKept
<1> QED BY <1>1, <1>2, <1>3, <1>4, <1>5, <1>6, <1>7, <1>8 DEF Next

\* _issue_token and _key_valid: a login counts and pushes out nothing but the oldest
\* token, and only if as many newer ones as fit are kept; for any MAX_TOKENS, any
\* number of logins and any lifetime.
THEOREM NoLoginLostAlways == Spec => NoLoginLost
<1>1. IInv /\ Fits /\ [Next]_vars =>
         [/\ last' # last => last' \in valid'
          /\ Cardinality(valid') <= MaxTokens
          /\ \A k \in valid \ valid' :
                \/ Expired(k) \/ Logout(k)
                \/ Cardinality({j \in valid' : j > k}) = MaxTokens]_vars
  BY NextKept DEF Kept, IInv
<1>2. IInv /\ Fits /\ [Next]_vars => Fits'
  BY NextKept DEF Kept, IInv, Fits
<1> QED BY <1>1, <1>2, InitFits, Inductive, PTL DEF Spec, NoLoginLost
=============================================================================
