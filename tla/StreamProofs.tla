---------------------------- MODULE StreamProofs ----------------------------
(***************************************************************************)
(* TLAPS proofs about the two streams of a session.                        *)
(*                                                                         *)
(* Outbound, for any set of sockets, any buffer and any watermarks: from   *)
(* the inductive invariant IInv, that a browser's stream is seamless, that *)
(* the exit text comes last, that what is pending is exact and bounded,    *)
(* and that the reader is never off for nothing.                           *)
(*                                                                         *)
(* InputBuffer: from the inductive invariant InputIInv, that input keeps   *)
(* whole messages in order within the limit, and that a callback is        *)
(* registered exactly while something waits; and, if no message is longer  *)
(* than the limit, that an overflow is reported once.                      *)
(***************************************************************************)
EXTENDS Outbound, InputBuffer, FiniteSetTheorems, SequenceTheorems, WellFoundedInduction,
        TLAPS

-----------------------------------------------------------------------------
(* Outbound: the inductive invariant *)

\* Who has a part in a queue.  The socket that is attached owns the writer, whose
\* task is there; a socket that is not yet attached has nothing.
New(c) == pc[c] \in {"init", "stop", "evict"}

Roles ==
    /\ ws # None => writer \in {ws, None}
    /\ \A c \in Socks :
         /\ writer = c => task[c] \in {"runs", "cancelled"}
         /\ New(c) => /\ ws # c /\ writer # c /\ task[c] = "none"
                      /\ got[c] = <<>> /\ current[c] = None /\ queue[c] = <<>>

\* Frame k of a stream q of a session in state l that has read m chunks.
Fits(q, k, m, l) ==
    /\ q[k].kind = "out" =>
         /\ 1 <= q[k].from /\ q[k].from <= q[k].to /\ q[k].to <= m
         /\ Size(q[k]) <= Buffer
         /\ GoesOn(q, k)
    /\ q[k].kind = "exit" =>
         /\ l = "dead"
         /\ m > 0 => UpTo(q, k, m)
         /\ \A j \in k+1..Len(q) : q[j].kind = "close"

Coherent(q, m, l) == \A k \in 1..Len(q) : Fits(q, k, m, l)

Streams ==
    \A c \in Socks :
      /\ Coherent(Stream(c), n, life)
      /\ ws = c /\ writer = c /\ n > 0 => UpTo(Stream(c), Len(Stream(c)), n)

\* The reader.
Reader ==
    /\ reading => ~paused /\ life # "dead"
    /\ paused => pending > Low
    /\ ~paused /\ life # "dead" => pending < High
    /\ ~reading => paused \/ life # "live" \/ pc["exit"] # "init"

\* One task at a time is inside transition(key).
InLock(c) == pc[c] \in {"stop", "evict", "replay"}

Lock ==
    \A c \in Socks : InLock(c) =>
      /\ pc["end"] \notin {"close", "stop", "term"}
      /\ \A d \in Socks : InLock(d) => d = c

\* Only a replay that its browser has not taken yet goes beyond the watermark.
Replaying(c) ==
    pc[c] = "replay" /\ got[c] = <<>> /\ Stream(c) # <<>> /\ task[c] # "done"

Bound ==
    \/ pending <= High
    \/ \E c \in Socks : Replaying(c) /\ pending <= High + Size(Stream(c)[1])

Exact == pending = SumFunction([c \in Socks |-> Held(c)])

IInv == TypeOK /\ Roles /\ Streams /\ Reader /\ Lock /\ Bound /\ Exact

-----------------------------------------------------------------------------
(* Induction on the natural numbers, and sums *)

LEMMA LeastNatural ==
    ASSUME NEW S, S \subseteq Nat, S # {}
    PROVE  \E m \in S : \A k \in S : m <= k
<1>1. PICK m \in S : \A k \in S : <<k, m>> \notin OpToRel(<, Nat)
  BY NatLessThanWellFounded, WFMin
<1>2. \A k \in S : k \in Nat /\ m \in Nat /\ ~(k < m)
  BY <1>1 DEF OpToRel
<1> QED BY <1>2

LEMMA NatSet ==
    ASSUME NEW S, S \subseteq Nat, 0 \in S, \A k \in S : k + 1 \in S
    PROVE  S = Nat
<1> SUFFICES ASSUME S # Nat PROVE FALSE
  OBVIOUS
<1>1. PICK m \in Nat \ S : \A k \in Nat \ S : m <= k
  BY LeastNatural
<1>2. m # 0 /\ m - 1 \in Nat /\ m - 1 \in S
  BY <1>1
<1> QED BY <1>1, <1>2

\* The function of all subsets that SumFunction chooses.
Pick(s) == CHOOSE x \in s : TRUE
SumOf(g, f, s) == IF s = {} THEN 0 ELSE f[Pick(s)] + g[s \ {Pick(s)}]
Sums(g, f, S) == g = [s \in SUBSET S |-> SumOf(g, f, s)]

LEMMA SumUnfold ==
    ASSUME NEW f
    PROVE  SumFunction(f) = (CHOOSE g : Sums(g, f, DOMAIN f))[DOMAIN f]
  BY DEF SumFunction, SumFunctionOnSet, FoldFunctionOnSet, MapThenFoldSet, Sums, SumOf, Pick

LEMMA PickIn == \A s : s # {} => Pick(s) \in s
  BY DEF Pick

\* Without an element a finite set is smaller by one.
LEMMA Smaller ==
    ASSUME NEW S, IsFiniteSet(S), NEW s \in SUBSET S, NEW x \in s
    PROVE  /\ s \ {x} \in SUBSET S /\ IsFiniteSet(s)
           /\ Cardinality(s) \in Nat /\ Cardinality(s \ {x}) \in Nat
           /\ Cardinality(s) > 0 /\ Cardinality(s \ {x}) = Cardinality(s) - 1
<1>1. IsFiniteSet(s)
  BY FS_Subset
<1>2. IsFiniteSet(s \ {x}) /\ Cardinality(s \ {x}) = Cardinality(s) - 1
  BY <1>1, FS_RemoveElement
<1>3. Cardinality(s) \in Nat /\ Cardinality(s \ {x}) \in Nat
  BY <1>1, <1>2, FS_CardinalityType
<1> QED BY <1>1, <1>2, <1>3

LEMMA SumExists ==
    ASSUME NEW S, IsFiniteSet(S), NEW f
    PROVE  \E g : Sums(g, f, S)
<1> DEFINE Upto(g, k) == \A s \in SUBSET S : Cardinality(s) <= k => g[s] = SumOf(g, f, s)
           K == {k \in Nat : \E g : g = [s \in SUBSET S |-> g[s]] /\ Upto(g, k)}
<1>0. \A s \in SUBSET S : Cardinality(s) \in Nat /\ (Cardinality(s) = 0 => s = {})
  BY FS_Subset, FS_CardinalityType, FS_EmptySet
<1>1. 0 \in K
  <2> DEFINE g == [s \in SUBSET S |-> 0]
  <2>1. Upto(g, 0)
    BY <1>0 DEF SumOf
  <2>2. g = [s \in SUBSET S |-> g[s]]
    OBVIOUS
  <2> QED BY <2>1, <2>2
<1>2. ASSUME NEW k \in K PROVE k + 1 \in K
  <2>1. k \in Nat
    OBVIOUS
  <2>2. PICK g : g = [s \in SUBSET S |-> g[s]] /\ Upto(g, k)
    OBVIOUS
  <2> DEFINE h == [s \in SUBSET S |-> IF Cardinality(s) <= k THEN g[s] ELSE SumOf(g, f, s)]
  <2>3. ASSUME NEW s \in SUBSET S, Cardinality(s) <= k + 1 PROVE h[s] = SumOf(h, f, s)
    <3>1. h[s] = SumOf(g, f, s)
      BY <2>2
    <3>2. CASE s = {}
      BY <3>1, <3>2 DEF SumOf
    <3>3. CASE s # {}
      <4>1. Pick(s) \in s
        BY <3>3, PickIn
      <4>2. s \ {Pick(s)} \in SUBSET S /\ Cardinality(s \ {Pick(s)}) <= k
        BY <4>1, <2>1, <2>3, Smaller
      <4>3. h[s \ {Pick(s)}] = g[s \ {Pick(s)}]
        BY <4>2
      <4> HIDE DEF h
      <4> QED BY <3>1, <3>3, <4>3 DEF SumOf
    <3> QED BY <3>2, <3>3
  <2>4. h = [s \in SUBSET S |-> h[s]]
    OBVIOUS
  <2> HIDE DEF h
  <2>5. Upto(h, k + 1)
    BY <2>3
  <2>6. \E e : e = [s \in SUBSET S |-> e[s]] /\ Upto(e, k + 1)
    <3> HIDE DEF Upto
    <3> QED BY <2>4, <2>5
  <2>7. k + 1 \in Nat
    BY <2>1
  <2> HIDE DEF Upto
  <2> QED BY <2>6, <2>7
<1>3. K = Nat
  <2> HIDE DEF K
  <2>1. K \subseteq Nat
    BY DEF K
  <2> QED BY <1>1, <1>2, <2>1, NatSet
<1>4. Cardinality(S) \in Nat
  BY FS_CardinalityType
<1>5. PICK g : g = [s \in SUBSET S |-> g[s]] /\ Upto(g, Cardinality(S))
  BY <1>3, <1>4
<1>6. \A s \in SUBSET S : Cardinality(s) <= Cardinality(S)
  BY FS_Subset
<1>7. \A s \in SUBSET S : g[s] = SumOf(g, f, s)
  BY <1>5, <1>6
<1> QED BY <1>5, <1>7 DEF Sums

\* It is chosen, and has the sums.
LEMMA SumChosen ==
    ASSUME NEW S, IsFiniteSet(S), NEW f, DOMAIN f = S
    PROVE  \E g : Sums(g, f, S) /\ SumFunction(f) = g[S]
<1> DEFINE g == CHOOSE h : Sums(h, f, S)
<1>1. Sums(g, f, S)
  BY SumExists
<1>2. SumFunction(f) = g[S]
  BY SumUnfold
<1> HIDE DEF g
<1> QED BY <1>1, <1>2

LEMMA SumStep ==
    ASSUME NEW g, NEW f, NEW S, Sums(g, f, S), NEW s \in SUBSET S
    PROVE  g[s] = SumOf(g, f, s)
  BY DEF Sums

LEMMA SumType ==
    ASSUME NEW S, IsFiniteSet(S), NEW f \in [S -> Nat], NEW g, Sums(g, f, S)
    PROVE  \A s \in SUBSET S : g[s] \in Nat
<1> DEFINE K == {k \in Nat : \A s \in SUBSET S : Cardinality(s) = k => g[s] \in Nat}
<1>0. \A s \in SUBSET S : Cardinality(s) \in Nat /\ (Cardinality(s) = 0 => s = {})
  BY FS_Subset, FS_CardinalityType, FS_EmptySet
<1>1. 0 \in K
  BY <1>0, SumStep DEF SumOf
<1>2. ASSUME NEW k \in K, NEW s \in SUBSET S, Cardinality(s) = k + 1 PROVE g[s] \in Nat
  <2>0. k \in Nat /\ Cardinality({}) = 0
    BY FS_EmptySet
  <2>1. s # {}
    <3>1. Cardinality(s) # 0
      BY <1>2, <2>0
    <3> QED BY <2>0, <3>1
  <2>2. Pick(s) \in s
    BY <2>1, PickIn
  <2>3. s \ {Pick(s)} \in SUBSET S /\ Cardinality(s \ {Pick(s)}) = k
    BY <1>2, <2>2, Smaller
  <2>4. g[s \ {Pick(s)}] \in Nat /\ f[Pick(s)] \in Nat
    BY <2>2, <2>3
  <2>5. g[s] = f[Pick(s)] + g[s \ {Pick(s)}]
    BY <2>1, SumStep DEF SumOf
  <2> QED BY <2>4, <2>5
<1>3. K = Nat
  <2>1. K \subseteq Nat /\ \A k \in K : k + 1 \in K
    BY <1>2
  <2> HIDE DEF K
  <2> QED BY <1>1, <2>1, NatSet
<1> QED BY <1>0, <1>3

\* Sums over sets on which the summands agree.
LEMMA SumAgree ==
    ASSUME NEW S, IsFiniteSet(S), NEW f, NEW g, Sums(g, f, S),
           NEW T, NEW e, NEW h, Sums(h, e, T),
           S \subseteq T, \A x \in S : f[x] = e[x]
    PROVE  g[S] = h[S]
<1> DEFINE K == {k \in Nat : \A s \in SUBSET S : Cardinality(s) = k => g[s] = h[s]}
<1>0. \A s \in SUBSET S : Cardinality(s) \in Nat /\ (Cardinality(s) = 0 => s = {})
  BY FS_Subset, FS_CardinalityType, FS_EmptySet
<1>4. \A s \in SUBSET S : g[s] = SumOf(g, f, s) /\ h[s] = SumOf(h, e, s)
  BY SumStep
<1>1. 0 \in K
  BY <1>0, <1>4 DEF SumOf
<1>2. ASSUME NEW k \in K, NEW s \in SUBSET S, Cardinality(s) = k + 1 PROVE g[s] = h[s]
  <2>0. k \in Nat /\ Cardinality({}) = 0
    BY FS_EmptySet
  <2>1. s # {}
    <3>1. Cardinality(s) # 0
      BY <1>2, <2>0
    <3> QED BY <2>0, <3>1
  <2>2. Pick(s) \in s
    BY <2>1, PickIn
  <2>3. s \ {Pick(s)} \in SUBSET S /\ Cardinality(s \ {Pick(s)}) = k
    BY <1>2, <2>2, Smaller
  <2>4. g[s \ {Pick(s)}] = h[s \ {Pick(s)}] /\ f[Pick(s)] = e[Pick(s)]
    BY <2>2, <2>3
  <2> QED BY <1>4, <2>1, <2>4 DEF SumOf
<1>3. K = Nat
  <2>1. K \subseteq Nat /\ \A k \in K : k + 1 \in K
    BY <1>2
  <2> HIDE DEF K
  <2> QED BY <1>1, <2>1, NatSet
<1> QED BY <1>0, <1>3

\* Any element may be taken out first.
LEMMA SumTake ==
    ASSUME NEW S, IsFiniteSet(S), NEW f \in [S -> Nat], NEW g, Sums(g, f, S),
           NEW x \in S
    PROVE  g[S] = f[x] + g[S \ {x}]
<1> DEFINE K == {k \in Nat : \A s \in SUBSET S : Cardinality(s) = k =>
                   \A y \in s : g[s] = f[y] + g[s \ {y}]}
<1>0. \A s \in SUBSET S : Cardinality(s) \in Nat /\ (Cardinality(s) = 0 => s = {})
  BY FS_Subset, FS_CardinalityType, FS_EmptySet
<1>1. 0 \in K
  BY <1>0
<1>2. ASSUME NEW k \in K, NEW s \in SUBSET S, Cardinality(s) = k + 1, NEW y \in s
      PROVE  g[s] = f[y] + g[s \ {y}]
  <2> DEFINE p == Pick(s)
  <2>1. s # {} /\ p \in s
    BY PickIn
  <2>2. g[s] = f[p] + g[s \ {p}]
    BY <2>1, SumStep DEF SumOf
  <2> HIDE DEF p
  <2>3. CASE y = p
    BY <2>2, <2>3
  <2>4. CASE y # p
    <3>1. /\ s \ {p} \in SUBSET S /\ Cardinality(s \ {p}) = k
          /\ s \ {y} \in SUBSET S /\ Cardinality(s \ {y}) = k
      BY <1>2, <2>1, Smaller
    <3>2. y \in s \ {p} /\ p \in s \ {y}
      BY <2>1, <2>4
    <3>3. g[s \ {p}] = f[y] + g[(s \ {p}) \ {y}] /\ g[s \ {y}] = f[p] + g[(s \ {y}) \ {p}]
      BY <3>1, <3>2
    <3>4. (s \ {p}) \ {y} = (s \ {y}) \ {p} /\ (s \ {p}) \ {y} \in SUBSET S
      OBVIOUS
    <3>5. f[y] \in Nat /\ f[p] \in Nat /\ g[(s \ {p}) \ {y}] \in Nat
      BY <2>1, <3>4, SumType
    <3> HIDE DEF K
    <3> QED BY <2>2, <3>3, <3>4, <3>5
  <2> QED BY <2>3, <2>4
<1>3. K = Nat
  <2>1. ASSUME NEW k \in K PROVE k + 1 \in K
    <3>1. \A s \in SUBSET S : Cardinality(s) = k + 1 => \A y \in s : g[s] = f[y] + g[s \ {y}]
      BY <1>2
    <3> QED BY <3>1
  <2>2. K \subseteq Nat
    OBVIOUS
  <2> HIDE DEF K
  <2> QED BY <1>1, <2>1, <2>2, NatSet
<1> QED BY <1>0, <1>3

LEMMA SumNat ==
    ASSUME NEW S, IsFiniteSet(S), NEW f \in [S -> Nat]
    PROVE  SumFunction(f) \in Nat
<1>1. PICK g : Sums(g, f, S) /\ SumFunction(f) = g[S]
  BY SumChosen
<1> QED BY <1>1, SumType

\* One more summand.
LEMMA SumPlus ==
    ASSUME NEW S, IsFiniteSet(S), NEW f \in [S -> Nat], NEW x, x \notin S,
           NEW T, T = S \cup {x}, NEW e \in [T -> Nat], \A y \in S : f[y] = e[y]
    PROVE  SumFunction(e) = SumFunction(f) + e[x]
<1>1. IsFiniteSet(T) /\ T \ {x} = S /\ S \subseteq T /\ x \in T
  BY FS_AddElement
<1>2. PICK g : Sums(g, f, S) /\ SumFunction(f) = g[S]
  BY SumChosen
<1>3. e \in [T -> Nat] /\ DOMAIN e = T
  OBVIOUS
<1>4. PICK h : Sums(h, e, T) /\ SumFunction(e) = h[T]
  BY <1>1, <1>3, SumChosen
<1>5. h[T] = e[x] + h[S]
  BY <1>1, <1>3, <1>4, SumTake
<1>6. h[S] = g[S]
  BY <1>1, <1>2, <1>4, SumAgree
<1>7. h[S] \in Nat /\ e[x] \in Nat
  BY <1>1, <1>3, <1>4, SumType
<1> QED BY <1>2, <1>4, <1>5, <1>6, <1>7

\* One other summand.
LEMMA SumChange ==
    ASSUME NEW S, IsFiniteSet(S), NEW f \in [S -> Nat], NEW e \in [S -> Nat],
           NEW x \in S, \A y \in S \ {x} : f[y] = e[y]
    PROVE  /\ SumFunction(e) = SumFunction(f) - f[x] + e[x]
           /\ SumFunction(f) \in Nat /\ SumFunction(e) \in Nat
           /\ f[x] <= SumFunction(f)
<1> DEFINE R == S \ {x}
           r == [y \in R |-> f[y]]
<1>1. IsFiniteSet(R) /\ x \notin R /\ R \cup {x} = S
  BY FS_RemoveElement
<1>2. r \in [R -> Nat] /\ \A y \in R : r[y] = f[y] /\ r[y] = e[y]
  OBVIOUS
<1> HIDE DEF R, r
<1>3. SumFunction(f) = SumFunction(r) + f[x]
  BY <1>1, <1>2, SumPlus
<1>4. SumFunction(e) = SumFunction(r) + e[x]
  BY <1>1, <1>2, SumPlus
<1>5. SumFunction(r) \in Nat /\ f[x] \in Nat /\ e[x] \in Nat
  BY <1>1, <1>2, SumNat
<1> QED BY <1>3, <1>4, <1>5

LEMMA SumNone ==
    ASSUME NEW f, DOMAIN f = {}
    PROVE  SumFunction(f) = 0
<1>1. PICK g : Sums(g, f, {}) /\ SumFunction(f) = g[{}]
  BY SumChosen, FS_EmptySet
<1> QED BY <1>1, SumStep DEF SumOf

LEMMA SumZero ==
    ASSUME NEW S, IsFiniteSet(S), NEW f \in [S -> Nat], \A x \in S : f[x] = 0
    PROVE  SumFunction(f) = 0
<1>1. PICK g : Sums(g, f, S) /\ SumFunction(f) = g[S]
  BY SumChosen
<1> DEFINE K == {k \in Nat : \A s \in SUBSET S : Cardinality(s) = k => g[s] = 0}
<1>0. \A s \in SUBSET S : Cardinality(s) \in Nat /\ (Cardinality(s) = 0 => s = {})
  BY FS_Subset, FS_CardinalityType, FS_EmptySet
<1>4. \A s \in SUBSET S : g[s] = SumOf(g, f, s)
  BY <1>1, SumStep
<1>5. 0 \in K
  BY <1>0, <1>4 DEF SumOf
<1>2. ASSUME NEW k \in K, NEW s \in SUBSET S, Cardinality(s) = k + 1 PROVE g[s] = 0
  <2>0. k \in Nat /\ Cardinality({}) = 0
    BY FS_EmptySet
  <2>1. s # {}
    <3>1. Cardinality(s) # 0
      BY <1>2, <2>0
    <3> QED BY <2>0, <3>1
  <2>2. Pick(s) \in s
    BY <2>1, PickIn
  <2>3. s \ {Pick(s)} \in SUBSET S /\ Cardinality(s \ {Pick(s)}) = k
    BY <1>2, <2>2, Smaller
  <2>4. g[s \ {Pick(s)}] = 0 /\ f[Pick(s)] = 0
    BY <2>2, <2>3
  <2> QED BY <1>4, <2>1, <2>4 DEF SumOf
<1>3. K = Nat
  <2>1. K \subseteq Nat /\ \A k \in K : k + 1 \in K
    BY <1>2
  <2> HIDE DEF K
  <2> QED BY <1>5, <2>1, NatSet
<1>6. g[S] = 0
  BY <1>0, <1>3
<1> QED BY <1>1, <1>6

\* The sum of a sequence without its last element, and without its first.
OneMore(f, e, m) ==
    /\ f \in [1..m+1 -> Nat] /\ e \in [1..m -> Nat]
    /\ \A i \in 1..m : e[i] = f[i]

LEMMA SumLast ==
    ASSUME NEW m \in Nat, NEW f, NEW e, OneMore(f, e, m)
    PROVE  SumFunction(f) = SumFunction(e) + f[m+1] /\ SumFunction(e) \in Nat
<1> DEFINE S == 1..m
           T == 1..m+1
           x == m + 1
<1>0. IsFiniteSet(S)
  BY FS_Interval
<1>1. x \notin S /\ T = S \cup {x}
  OBVIOUS
<1>2. e \in [S -> Nat] /\ f \in [T -> Nat] /\ \A y \in S : e[y] = f[y]
  BY DEF OneMore
<1> HIDE DEF S, T, x
<1>3. SumFunction(f) = SumFunction(e) + f[x]
  BY <1>0, <1>1, <1>2, SumPlus
<1>4. SumFunction(e) \in Nat
  BY <1>0, <1>2, SumNat
<1> QED BY <1>3, <1>4 DEF x

LEMMA SumShift ==
    \A m \in Nat : \A f \in [1..m+1 -> Nat], e \in [1..m -> Nat] :
        (\A i \in 1..m : e[i] = f[i+1]) => SumFunction(f) = f[1] + SumFunction(e)
<1> DEFINE P(m) == \A f \in [1..m+1 -> Nat], e \in [1..m -> Nat] :
                (\A i \in 1..m : e[i] = f[i+1]) => SumFunction(f) = f[1] + SumFunction(e)
           K == {m \in Nat : P(m)}
<1>1. P(0)
  <2> SUFFICES ASSUME NEW f \in [1..0+1 -> Nat], NEW e \in [1..0 -> Nat]
               PROVE  SumFunction(f) = f[1] + SumFunction(e)
    OBVIOUS
  <2>1. SumFunction(f) = SumFunction(e) + f[0+1] /\ SumFunction(e) \in Nat
    <3>1. OneMore(f, e, 0)
      BY DEF OneMore
    <3> QED BY <3>1, SumLast
  <2>2. f[1] \in Nat
    OBVIOUS
  <2> QED BY <2>1, <2>2
<1>2. ASSUME NEW m \in Nat, P(m) PROVE P(m + 1)
  <2> SUFFICES ASSUME NEW f \in [1..m+1+1 -> Nat], NEW e \in [1..m+1 -> Nat],
                      \A i \in 1..m+1 : e[i] = f[i+1]
               PROVE  SumFunction(f) = f[1] + SumFunction(e)
    OBVIOUS
  <2> DEFINE f1 == [i \in 1..m+1 |-> f[i]]
             e1 == [i \in 1..m |-> e[i]]
  <2>1. /\ f1 \in [1..m+1 -> Nat] /\ e1 \in [1..m -> Nat]
        /\ (\A i \in 1..m : e1[i] = f1[i+1]) /\ f1[1] = f[1]
        /\ f[1] \in Nat /\ e[m+1] \in Nat /\ e[m+1] = f[m+1+1]
    OBVIOUS
  <2>2. (\A i \in 1..m+1 : f1[i] = f[i]) /\ \A i \in 1..m : e1[i] = e[i]
    OBVIOUS
  <2> HIDE DEF f1, e1
  <2>3. SumFunction(f1) = f[1] + SumFunction(e1)
    BY <1>2, <2>1
  <2> HIDE DEF P, K
  <2>4. SumFunction(f) = SumFunction(f1) + f[m+1+1]
    <3>1. m + 1 \in Nat /\ OneMore(f, f1, m + 1)
      BY <2>1, <2>2 DEF OneMore
    <3> QED BY <3>1, SumLast
  <2>5. SumFunction(e) = SumFunction(e1) + e[m+1] /\ SumFunction(e1) \in Nat
    <3>1. OneMore(e, e1, m)
      BY <2>1, <2>2 DEF OneMore
    <3> QED BY <3>1, SumLast
  <2> QED BY <2>1, <2>3, <2>4, <2>5
<1>3. K = Nat
  <2>1. 0 \in K /\ K \subseteq Nat /\ \A m \in K : m + 1 \in K
    <3> HIDE DEF P
    <3> QED BY <1>1, <1>2
  <2> HIDE DEF K
  <2> QED BY <2>1, NatSet
<1> QED BY <1>3

-----------------------------------------------------------------------------
(* Frames: how much a queue holds *)

Sized == {f \in Frame : Size(f) \in Nat}

Amount(q) == SumFunction([i \in 1..Len(q) |-> Size(q[i])])

LEMMA AmountNat ==
    ASSUME NEW q \in Seq(Sized)
    PROVE  Amount(q) \in Nat
<1> DEFINE f == [i \in 1..Len(q) |-> Size(q[i])]
<1>0. Len(q) \in Nat
  OBVIOUS
<1>1. IsFiniteSet(1..Len(q))
  BY <1>0, FS_Interval
<1>3. f \in [1..Len(q) -> Nat]
  BY DEF Sized
<1> HIDE DEF f
<1>2. SumFunction(f) \in Nat
  BY <1>1, <1>3, SumNat
<1> QED BY <1>2 DEF Amount, f

LEMMA AmountEmpty == Amount(<<>>) = 0
<1>1. DOMAIN [i \in 1..Len(<<>>) |-> Size(<<>>[i])] = {}
  OBVIOUS
<1> QED BY <1>1, SumNone DEF Amount

LEMMA AmountAppend ==
    ASSUME NEW q \in Seq(Sized), NEW f \in Sized
    PROVE  /\ Append(q, f) \in Seq(Sized)
           /\ Amount(Append(q, f)) = Amount(q) + Size(f)
<1> DEFINE r == Append(q, f)
           s == [i \in 1..Len(q) |-> Size(q[i])]
           t == [i \in 1..Len(r) |-> Size(r[i])]
<1>1. /\ Len(r) = Len(q) + 1 /\ Len(q) \in Nat /\ r \in Seq(Sized)
      /\ r[Len(q) + 1] = f /\ \A i \in 1..Len(q) : r[i] = q[i]
  OBVIOUS
<1> HIDE DEF r
<1>2. (1..Len(q)) \cup {Len(q) + 1} = 1..Len(r) /\ Len(q) + 1 \notin 1..Len(q)
  BY <1>1
<1>3. s \in [1..Len(q) -> Nat] /\ t \in [1..Len(r) -> Nat]
  BY <1>1 DEF Sized
<1>4. t[Len(q) + 1] = Size(f) /\ \A i \in 1..Len(q) : s[i] = t[i]
  BY <1>1
<1> HIDE DEF s, t
<1>6. OneMore(t, s, Len(q))
  BY <1>1, <1>3, <1>4 DEF OneMore
<1>5. SumFunction(t) = SumFunction(s) + Size(f)
  BY <1>1, <1>4, <1>6, SumLast
<1> QED BY <1>1, <1>5 DEF Amount, s, t, r

LEMMA AmountHead ==
    ASSUME NEW q \in Seq(Sized), q # <<>>
    PROVE  /\ Head(q) \in Sized /\ Tail(q) \in Seq(Sized)
           /\ Amount(q) = Size(Head(q)) + Amount(Tail(q))
<1> DEFINE r == Tail(q)
           s == [i \in 1..Len(q) |-> Size(q[i])]
           t == [i \in 1..Len(r) |-> Size(r[i])]
<1>1. /\ Len(q) \in Nat /\ Len(q) = Len(r) + 1 /\ Len(r) \in Nat /\ r \in Seq(Sized)
      /\ Head(q) = q[1] /\ \A i \in 1..Len(r) : r[i] = q[i+1]
  OBVIOUS
<1> HIDE DEF r
<1>2. s \in [1..Len(r)+1 -> Nat] /\ t \in [1..Len(r) -> Nat] /\ s[1] = Size(q[1])
      /\ q[1] \in Sized
  BY <1>1 DEF Sized
<1>3. \A i \in 1..Len(r) : t[i] = s[i+1]
  BY <1>1
<1> HIDE DEF s, t
<1>4. SumFunction(s) = s[1] + SumFunction(t)
  BY <1>1, <1>2, <1>3, SumShift
<1> QED BY <1>1, <1>2, <1>4 DEF Amount, s, t, r

-----------------------------------------------------------------------------
(* Streams *)

\* The stream of a browser that got g, with u on its way and q in its queue.
Joined(g, u, q) == g \o (IF u = None THEN <<>> ELSE <<u>>) \o q

LEMMA StreamJoined == \A c : Stream(c) = Joined(got[c], current[c], queue[c])
  BY DEF Stream, Joined

LEMMA NoneFrame == None \notin Frame /\ None \notin Socks
  BY NoneAssumption

\* A stream s of g, then u if m is 1, then q.
Laid(s, g, m, u, q) ==
    /\ s \in Seq(Frame) /\ Len(s) = Len(g) + m + Len(q)
    /\ \A i \in 1..Len(g)+m+Len(q) :
         s[i] = IF i <= Len(g) THEN g[i] ELSE IF i <= Len(g) + m THEN u ELSE q[i-Len(g)-m]

LEMMA ConcatFrames ==
    ASSUME NEW r \in Seq(Frame), NEW s \in Seq(Frame)
    PROVE  /\ r \o s \in Seq(Frame) /\ Len(r \o s) = Len(r) + Len(s)
           /\ Len(r) \in Nat /\ Len(s) \in Nat
           /\ \A i \in 1..Len(r) + Len(s) :
                (r \o s)[i] = IF i <= Len(r) THEN r[i] ELSE s[i - Len(r)]
<1>1. \A i \in 1..Len(r) + Len(s) :
         (r \o s)[i] = IF i <= Len(r) THEN r[i] ELSE s[i - Len(r)]
  BY ConcatProperties
<1> QED BY <1>1, ConcatProperties

LEMMA JoinedIs ==
    ASSUME NEW g \in Seq(Frame), NEW u \in Frame \cup {None}, NEW q \in Seq(Frame)
    PROVE  Laid(Joined(g, u, q), g, IF u = None THEN 0 ELSE 1, u, q)
<1> DEFINE v == IF u = None THEN <<>> ELSE <<u>>
           m == IF u = None THEN 0 ELSE 1
           h == g \o v
           s == h \o q
<1>1. v \in Seq(Frame) /\ Len(v) = m /\ (m = 1 => v[1] = u) /\ m \in 0..1
  OBVIOUS
<1>2. Joined(g, u, q) = s
  BY DEF Joined
<1> HIDE DEF v, m
<1>3. /\ h \in Seq(Frame) /\ Len(h) = Len(g) + m /\ Len(g) \in Nat
      /\ \A i \in 1..Len(g) + m : h[i] = IF i <= Len(g) THEN g[i] ELSE v[i - Len(g)]
  BY <1>1, ConcatFrames
<1> HIDE DEF h
<1>4. /\ s \in Seq(Frame) /\ Len(s) = Len(h) + Len(q) /\ Len(q) \in Nat
      /\ \A i \in 1..Len(h) + Len(q) : s[i] = IF i <= Len(h) THEN h[i] ELSE q[i - Len(h)]
  BY <1>3, ConcatFrames
<1> HIDE DEF s
<1>5. ASSUME NEW i \in 1..Len(g)+m+Len(q)
      PROVE  s[i] = IF i <= Len(g) THEN g[i] ELSE IF i <= Len(g) + m THEN u ELSE q[i-Len(g)-m]
  <2>1. CASE i <= Len(g)
    BY <2>1, <1>1, <1>3, <1>4
  <2>2. CASE i > Len(g) /\ i <= Len(g) + m
    <3>1. m = 1 /\ i - Len(g) = 1
      BY <2>2, <1>1, <1>3
    <3> QED BY <2>2, <3>1, <1>1, <1>3, <1>4
  <2>3. CASE i > Len(g) + m
    BY <2>3, <1>1, <1>3, <1>4
  <2> QED BY <2>1, <2>2, <2>3, <1>1, <1>3
<1>6. Laid(s, g, m, u, q)
  BY <1>1, <1>3, <1>4, <1>5 DEF Laid
<1> QED BY <1>2, <1>6 DEF m

\* With a frame on its way, and without.
LEMMA JoinedOne ==
    ASSUME NEW g \in Seq(Frame), NEW u \in Frame, NEW q \in Seq(Frame)
    PROVE  Laid(Joined(g, u, q), g, 1, u, q)
<1>1. u # None
  BY NoneFrame
<1> QED BY <1>1, JoinedIs

LEMMA JoinedNone ==
    ASSUME NEW g \in Seq(Frame), NEW q \in Seq(Frame)
    PROVE  Laid(Joined(g, None, q), g, 0, None, q)
  BY JoinedIs

LEMMA SameSeq ==
    ASSUME NEW r \in Seq(Frame), NEW s \in Seq(Frame), Len(r) = Len(s),
           \A i \in 1..Len(s) : r[i] = s[i]
    PROVE  r = s
  BY SeqEqual

\* A frame that leaves the queue stays where it is in the stream ...
LEMMA JoinedTake ==
    ASSUME NEW g \in Seq(Frame), NEW q \in Seq(Frame), q # <<>>
    PROVE  /\ Head(q) \in Frame /\ Tail(q) \in Seq(Frame)
           /\ Joined(g, Head(q), Tail(q)) = Joined(g, None, q)
<1> DEFINE h == Head(q)
           t == Tail(q)
           r == Joined(g, h, t)
           s == Joined(g, None, q)
<1>1. /\ h \in Frame /\ t \in Seq(Frame) /\ Len(t) = Len(q) - 1
      /\ h = q[1] /\ (\A i \in 1..Len(q) - 1 : t[i] = q[i+1])
      /\ Len(q) \in Nat /\ Len(g) \in Nat
  OBVIOUS
<1> HIDE DEF h, t
<1>2. Laid(r, g, 1, h, t)
  BY <1>1, JoinedOne
<1>3. Laid(s, g, 0, None, q)
  BY JoinedNone
<1> HIDE DEF r, s
<1>4. r \in Seq(Frame) /\ s \in Seq(Frame) /\ Len(r) = Len(s)
  BY <1>1, <1>2, <1>3 DEF Laid
<1>5. ASSUME NEW i \in 1..Len(s) PROVE r[i] = s[i]
  <2>1. /\ i \in 1..Len(g)+1+Len(t) /\ i \in 1..Len(g)+0+Len(q) /\ i \in Nat
        /\ i > Len(g) + 1 => i-Len(g)-1 \in 1..Len(q)-1 /\ i-Len(g)-0 = i-Len(g)-1+1
        /\ i = Len(g) + 1 => i-Len(g)-0 = 1
    BY <1>1, <1>3 DEF Laid
  <2>2. r[i] = IF i <= Len(g) THEN g[i] ELSE IF i <= Len(g) + 1 THEN h ELSE t[i-Len(g)-1]
    BY <1>2, <2>1 DEF Laid
  <2>3. s[i] = IF i <= Len(g) THEN g[i] ELSE q[i-Len(g)-0]
    BY <1>1, <1>3, <2>1 DEF Laid
  <2>4. CASE i <= Len(g)
    BY <2>2, <2>3, <2>4
  <2>5. CASE i = Len(g) + 1
    BY <2>1, <2>2, <2>3, <2>5, <1>1
  <2>6. CASE i > Len(g) + 1
    <3>1. r[i] = t[i-Len(g)-1] /\ s[i] = q[i-Len(g)-1+1]
      BY <2>1, <2>2, <2>3, <2>6, <1>1
    <3>2. i-Len(g)-1 \in 1..Len(q)-1
      BY <2>1, <2>6
    <3> QED BY <3>1, <3>2, <1>1
  <2> QED BY <2>1, <2>4, <2>5, <2>6, <1>1
<1>6. r = s
  BY <1>4, <1>5, SameSeq
<1> QED BY <1>1, <1>6 DEF r, s, h, t

\* ... as does one that has been received ...
LEMMA JoinedSent ==
    ASSUME NEW g \in Seq(Frame), NEW u \in Frame, NEW q \in Seq(Frame)
    PROVE  /\ Append(g, u) \in Seq(Frame)
           /\ Joined(Append(g, u), None, q) = Joined(g, u, q)
<1> DEFINE h == Append(g, u)
           r == Joined(h, None, q)
           s == Joined(g, u, q)
<1>1. h \in Seq(Frame) /\ Len(h) = Len(g) + 1 /\ h[Len(g) + 1] = u
      /\ (\A i \in 1..Len(g) : h[i] = g[i]) /\ Len(g) \in Nat /\ Len(q) \in Nat
  OBVIOUS
<1> HIDE DEF h
<1>2. Laid(r, h, 0, None, q)
  BY <1>1, JoinedNone
<1>3. Laid(s, g, 1, u, q)
  BY JoinedOne
<1> HIDE DEF r, s
<1>4. r \in Seq(Frame) /\ s \in Seq(Frame) /\ Len(r) = Len(s)
  BY <1>1, <1>2, <1>3 DEF Laid
<1>5. ASSUME NEW i \in 1..Len(s) PROVE r[i] = s[i]
  <2>1. /\ i \in 1..Len(g)+1+Len(q) /\ i \in 1..Len(h)+0+Len(q) /\ i \in Nat
        /\ i > Len(g) + 1 => i-Len(h)-0 = i-Len(g)-1
    BY <1>1, <1>3 DEF Laid
  <2>2. r[i] = IF i <= Len(h) THEN h[i] ELSE q[i-Len(h)-0]
    BY <1>1, <1>2, <2>1 DEF Laid
  <2>3. s[i] = IF i <= Len(g) THEN g[i] ELSE IF i <= Len(g) + 1 THEN u ELSE q[i-Len(g)-1]
    BY <1>3, <2>1 DEF Laid
  <2>4. CASE i <= Len(g)
    BY <2>1, <2>2, <2>3, <2>4, <1>1
  <2>5. CASE i = Len(g) + 1
    BY <2>1, <2>2, <2>3, <2>5, <1>1
  <2>6. CASE i > Len(g) + 1
    BY <2>1, <2>2, <2>3, <2>6, <1>1
  <2> QED BY <2>1, <2>4, <2>5, <2>6, <1>1
<1>6. r = s
  BY <1>4, <1>5, SameSeq
<1> QED BY <1>1, <1>6 DEF r, s, h

\* ... and a frame that enters the queue is the last of the stream.
LEMMA JoinedAppend ==
    ASSUME NEW g \in Seq(Frame), NEW u \in Frame \cup {None}, NEW q \in Seq(Frame),
           NEW f \in Frame
    PROVE  /\ Append(q, f) \in Seq(Frame)
           /\ Joined(g, u, Append(q, f)) = Append(Joined(g, u, q), f)
<1> DEFINE m == IF u = None THEN 0 ELSE 1
           p == Append(q, f)
           r == Joined(g, u, p)
           s == Joined(g, u, q)
           t == Append(s, f)
<1>1. p \in Seq(Frame) /\ Len(p) = Len(q) + 1 /\ p[Len(q) + 1] = f
      /\ (\A i \in 1..Len(q) : p[i] = q[i]) /\ Len(g) \in Nat /\ Len(q) \in Nat
      /\ m \in 0..1
  OBVIOUS
<1> HIDE DEF p
<1>2. Laid(r, g, m, u, p)
  BY <1>1, JoinedIs
<1>3. Laid(s, g, m, u, q)
  BY JoinedIs
<1> HIDE DEF r, s, m
<1>4. s \in Seq(Frame)
  BY <1>3 DEF Laid
<1>5. /\ t \in Seq(Frame) /\ Len(t) = Len(s) + 1 /\ t[Len(s) + 1] = f
      /\ \A i \in 1..Len(s) : t[i] = s[i]
  BY <1>4
<1> HIDE DEF t
<1>6. r \in Seq(Frame) /\ Len(r) = Len(t) /\ Len(s) = Len(g) + m + Len(q)
  BY <1>1, <1>2, <1>3, <1>5 DEF Laid
<1>7. ASSUME NEW i \in 1..Len(t) PROVE r[i] = t[i]
  <2>1. CASE i <= Len(s)
    <3>1. t[i] = s[i] /\ i \in 1..Len(g)+m+Len(q) /\ i \in 1..Len(g)+m+Len(p)
      BY <2>1, <1>1, <1>5, <1>6
    <3>2. i <= Len(g) + m \/ i-Len(g)-m \in 1..Len(q)
      BY <2>1, <3>1, <1>1
    <3>3. r[i] = IF i <= Len(g) THEN g[i] ELSE IF i <= Len(g) + m THEN u ELSE p[i-Len(g)-m]
      BY <1>2, <3>1 DEF Laid
    <3>4. s[i] = IF i <= Len(g) THEN g[i] ELSE IF i <= Len(g) + m THEN u ELSE q[i-Len(g)-m]
      BY <1>3, <3>1 DEF Laid
    <3> QED BY <3>1, <3>2, <3>3, <3>4, <1>1
  <2>2. CASE i = Len(s) + 1
    <3>1. t[i] = f /\ i - Len(g) - m = Len(q) + 1 /\ i \in 1..Len(g)+m+Len(p)
      BY <2>2, <1>1, <1>5, <1>6
    <3> QED BY <3>1, <1>1, <1>2 DEF Laid
  <2> QED BY <2>1, <2>2, <1>1, <1>5, <1>6
<1>8. r = t
  BY <1>5, <1>6, <1>7, SameSeq
<1> QED BY <1>1, <1>8 DEF r, s, t, p

\* What is left of a stream when the rest of it is dropped.
Prefix(r, s) == Len(r) <= Len(s) /\ \A i \in 1..Len(r) : r[i] = s[i]

LEMMA JoinedCut ==
    ASSUME NEW g \in Seq(Frame), NEW u \in Frame \cup {None}, NEW q \in Seq(Frame)
    PROVE  /\ Joined(g, None, <<>>) = g
           /\ Joined(g, u, q) \in Seq(Frame)
           /\ Prefix(g, Joined(g, u, q))
           /\ u # None => /\ Append(g, u) \in Seq(Frame)
                          /\ Prefix(Append(g, u), Joined(g, u, q))
<1> DEFINE m == IF u = None THEN 0 ELSE 1
           s == Joined(g, u, q)
           h == Append(g, u)
<1>1. Len(g) \in Nat /\ Len(q) \in Nat /\ m \in 0..1 /\ (u # None => m = 1)
  OBVIOUS
<1>2. Laid(s, g, m, u, q)
  BY JoinedIs
<1>3. Joined(g, None, <<>>) = g
  BY DEF Joined
<1> HIDE DEF s, m
<1>4. s \in Seq(Frame) /\ Prefix(g, s)
  BY <1>1, <1>2 DEF Prefix, Laid
<1>5. u # None => h \in Seq(Frame) /\ Prefix(h, s)
  <2> SUFFICES ASSUME u # None PROVE h \in Seq(Frame) /\ Prefix(h, s)
    OBVIOUS
  <2>1. /\ h \in Seq(Frame) /\ Len(h) = Len(g) + 1 /\ h[Len(g)+1] = u
        /\ \A i \in 1..Len(g) : h[i] = g[i]
    OBVIOUS
  <2> HIDE DEF h
  <2> QED BY <1>1, <1>2, <2>1 DEF Prefix, Laid
<1> QED BY <1>3, <1>4, <1>5 DEF s, h

-----------------------------------------------------------------------------
(* Coherent streams *)

LEMMA FrontSame ==
    ASSUME NEW r \in Seq(Frame), NEW s \in Seq(Frame), Prefix(r, s),
           NEW k \in 0..Len(r), NEW m
    PROVE  /\ Silent(r, k) <=> Silent(s, k)
           /\ UpTo(r, k, m) <=> UpTo(s, k, m)
<1>1. Len(r) \in Nat /\ k \in Nat /\ \A i \in 1..k : r[i] = s[i]
  BY DEF Prefix
<1>2. Silent(r, k) <=> Silent(s, k)
  BY <1>1 DEF Silent
<1>3. \A i \in 1..k : \A j \in i+1..k : r[j] = s[j]
  BY <1>1
<1>4. UpTo(r, k, m) <=> UpTo(s, k, m)
  BY <1>1, <1>3 DEF UpTo
<1> QED BY <1>2, <1>4

\* What is left of a coherent stream is coherent.
LEMMA CoherentCut ==
    ASSUME NEW r \in Seq(Frame), NEW s \in Seq(Frame), Prefix(r, s),
           NEW m, NEW l, Coherent(s, m, l)
    PROVE  Coherent(r, m, l)
<1> SUFFICES ASSUME NEW k \in 1..Len(r) PROVE Fits(r, k, m, l)
  BY DEF Coherent
<1>1. /\ Len(r) \in Nat /\ Len(s) \in Nat /\ k \in 1..Len(s) /\ r[k] = s[k]
      /\ k-1 \in 0..Len(r) /\ k \in 0..Len(r)
      /\ \A j \in k+1..Len(r) : j \in k+1..Len(s) /\ r[j] = s[j]
  BY DEF Prefix
<1>2. Fits(s, k, m, l)
  BY <1>1 DEF Coherent
<1>3. GoesOn(s, k) => GoesOn(r, k)
  BY <1>1, FrontSame DEF GoesOn
<1>4. UpTo(s, k, m) => UpTo(r, k, m)
  BY <1>1, FrontSame
<1> QED BY <1>1, <1>2, <1>3, <1>4 DEF Fits

\* The stream that a browser has begins with what it got.
LEMMA AppendFront ==
    ASSUME NEW s \in Seq(Frame), NEW f \in Frame
    PROVE  /\ Append(s, f) \in Seq(Frame) /\ Len(s) \in Nat
           /\ Len(Append(s, f)) = Len(s) + 1 /\ Append(s, f)[Len(s) + 1] = f
           /\ Prefix(s, Append(s, f))
  BY DEF Prefix

\* A frame that is no output changes nothing in front of it.
LEMMA UpToControl ==
    ASSUME NEW s \in Seq(Frame), NEW f \in Frame, f.kind # "out",
           NEW m, UpTo(s, Len(s), m)
    PROVE  UpTo(Append(s, f), Len(Append(s, f)), m)
<1> DEFINE t == Append(s, f)
<1>1. /\ Len(s) \in Nat /\ Len(t) = Len(s) + 1 /\ t[Len(s) + 1] = f
      /\ \A i \in 1..Len(s) : t[i] = s[i]
  OBVIOUS
<1> HIDE DEF t
<1>2. PICK i \in 1..Len(s) : /\ s[i].kind = "out" /\ s[i].to = m
                             /\ \A j \in i+1..Len(s) : s[j].kind # "out"
  BY DEF UpTo
<1>3. i \in 1..Len(t) /\ t[i].kind = "out" /\ t[i].to = m
  BY <1>1, <1>2
<1>4. ASSUME NEW j \in i+1..Len(t) PROVE t[j].kind # "out"
  <2>1. CASE j = Len(s) + 1
    BY <2>1, <1>1
  <2>2. CASE j # Len(s) + 1
    <3>1. j \in 1..Len(s) /\ j \in i+1..Len(s)
      BY <2>2, <1>1, <1>2
    <3> QED BY <3>1, <1>1, <1>2
  <2> QED BY <2>1, <2>2
<1>5. UpTo(t, Len(t), m)
  BY <1>3, <1>4 DEF UpTo
<1> QED BY <1>5 DEF t

\* The last frame, and the others with what comes after them.
LEMMA CoherentAppend ==
    ASSUME NEW s \in Seq(Frame), NEW f \in Frame, NEW m, NEW l, Coherent(s, m, l),
           f.kind # "close" => \A k \in 1..Len(s) : s[k].kind # "exit",
           Fits(Append(s, f), Len(s) + 1, m, l)
    PROVE  Coherent(Append(s, f), m, l)
<1> DEFINE t == Append(s, f)
<1>1. /\ t \in Seq(Frame) /\ Len(s) \in Nat /\ Len(t) = Len(s) + 1
      /\ t[Len(s) + 1] = f /\ Prefix(s, t)
  BY AppendFront
<1>2. Fits(t, Len(s) + 1, m, l)
  OBVIOUS
<1> HIDE DEF t
<1>3. ASSUME NEW k \in 1..Len(s) PROVE Fits(t, k, m, l)
  <2>1. /\ t[k] = s[k] /\ k-1 \in 0..Len(s) /\ k \in 0..Len(s)
        /\ \A j \in k+1..Len(t) : (j \in k+1..Len(s) /\ t[j] = s[j])
                                  \/ (j = Len(s) + 1 /\ t[j] = f)
    BY <1>1 DEF Prefix
  <2>2. Fits(s, k, m, l)
    BY DEF Coherent
  <2>3. GoesOn(s, k) => GoesOn(t, k)
    BY <1>1, <2>1, FrontSame DEF GoesOn
  <2>4. UpTo(s, k, m) => UpTo(t, k, m)
    BY <1>1, <2>1, FrontSame
  <2>5. s[k].kind = "exit" => \A j \in k+1..Len(t) : t[j].kind = "close"
    BY <2>1, <2>2 DEF Fits
  <2> QED BY <2>1, <2>2, <2>3, <2>4, <2>5 DEF Fits
<1>4. Coherent(t, m, l)
  BY <1>1, <1>2, <1>3 DEF Coherent
<1> QED BY <1>4 DEF t

LEMMA ControlFrame ==
    /\ Control("close") \in Frame /\ Control("close").kind = "close"
    /\ Control("exit") \in Frame /\ Control("exit").kind = "exit"
    /\ Size(Control("close")) = 0 /\ Size(Control("exit")) = 0
<1>1. 0 \in 0..MaxOut
  BY WatermarkAssumption
<1> QED BY <1>1 DEF Control, Frame, Size

\* A close may enter any stream.
LEMMA CoherentClose ==
    ASSUME NEW s \in Seq(Frame), NEW m, NEW l, Coherent(s, m, l)
    PROVE  Coherent(Append(s, Control("close")), m, l)
<1> DEFINE f == Control("close")
<1>1. f \in Frame /\ f.kind = "close"
  BY ControlFrame
<1> HIDE DEF f
<1>2. Append(s, f)[Len(s) + 1] = f
  BY <1>1, AppendFront
<1>3. Fits(Append(s, f), Len(s) + 1, m, l)
  BY <1>1, <1>2 DEF Fits
<1>4. Coherent(Append(s, f), m, l)
  BY <1>1, <1>3, CoherentAppend
<1> QED BY <1>4 DEF f

\* A session that is not dead has streams without an exit text.
LEMMA NoExit ==
    ASSUME NEW s \in Seq(Frame), NEW m, NEW l, l # "dead", Coherent(s, m, l)
    PROVE  \A k \in 1..Len(s) : s[k].kind # "exit"
  BY DEF Coherent, Fits

\* The exit text enters a stream that has everything.
LEMMA CoherentExit ==
    ASSUME NEW s \in Seq(Frame), NEW m \in Nat, NEW l, l # "dead", Coherent(s, m, l),
           m > 0 => UpTo(s, Len(s), m)
    PROVE  Coherent(Append(s, Control("exit")), m, "dead")
<1> DEFINE f == Control("exit")
           t == Append(s, f)
<1>1. f \in Frame /\ f.kind = "exit"
  BY ControlFrame
<1> HIDE DEF f
<1>2. t \in Seq(Frame) /\ Len(t) = Len(s) + 1 /\ t[Len(s) + 1] = f /\ Len(s) \in Nat
  BY <1>1, AppendFront
<1>3. m > 0 => UpTo(t, Len(t), m)
  BY <1>1, UpToControl
<1>4. \A k \in 1..Len(s) : s[k].kind # "exit"
  BY NoExit
<1>5. Coherent(s, m, "dead")
  BY <1>4 DEF Coherent, Fits
<1>6. Fits(t, Len(s) + 1, m, "dead")
  <2> HIDE DEF t
  <2> QED BY <1>1, <1>2, <1>3 DEF Fits
<1>7. Coherent(t, m, "dead")
  BY <1>1, <1>4, <1>5, <1>6, CoherentAppend
<1> QED BY <1>7 DEF t, f

\* The death of the session, and a chunk that goes elsewhere.
LEMMA CoherentLater ==
    ASSUME NEW s \in Seq(Frame), NEW m \in Nat, NEW l, Coherent(s, m, l),
           NEW p \in Nat, NEW e, m <= p, p > m => l # "dead",
           l = "dead" => e = "dead"
    PROVE  Coherent(s, p, e)
<1> SUFFICES ASSUME NEW k \in 1..Len(s) PROVE Fits(s, k, p, e)
  BY DEF Coherent
<1>1. Fits(s, k, m, l) /\ s[k] \in Frame
  BY DEF Coherent
<1>2. s[k].to \in Nat
  BY <1>1 DEF Frame
<1>3. CASE p = m
  BY <1>1, <1>2, <1>3 DEF Fits
<1>4. CASE p > m
  BY <1>1, <1>2, <1>4 DEF Fits
<1> QED BY <1>3, <1>4

LEMMA OutFrame ==
    ASSUME NEW a \in 0..MaxOut, NEW b \in 0..MaxOut
    PROVE  /\ Out(a, b) \in Frame /\ Out(a, b).kind = "out"
           /\ Out(a, b).from = a /\ Out(a, b).to = b
           /\ Size(Out(a, b)) = b - a + 1
<1>1. Out(a, b) \in Frame /\ Out(a, b).kind = "out" /\ Out(a, b).from = a /\ Out(a, b).to = b
  BY DEF Out, Frame
<1>2. Out(a, b) # None
  BY <1>1, NoneFrame
<1> QED BY <1>1, <1>2 DEF Size

LEMMA UpToOut ==
    ASSUME NEW s \in Seq(Frame), NEW f \in Frame, f.kind = "out"
    PROVE  UpTo(Append(s, f), Len(Append(s, f)), f.to)
<1> DEFINE t == Append(s, f)
<1>1. Len(t) = Len(s) + 1 /\ t[Len(s) + 1] = f /\ Len(s) \in Nat
  BY AppendFront
<1> HIDE DEF t
<1>2. Len(t) \in 1..Len(t) /\ t[Len(t)].kind = "out" /\ t[Len(t)].to = f.to
      /\ \A j \in Len(t)+1..Len(t) : FALSE
  BY <1>1
<1>3. UpTo(t, Len(t), f.to)
  BY <1>2 DEF UpTo
<1> QED BY <1>3 DEF t

\* The next chunk enters a stream that has all the chunks before it.
LEMMA CoherentOut ==
    ASSUME NEW s \in Seq(Frame), NEW m \in Nat, m + 1 \in 0..MaxOut,
           NEW l, l # "dead", Coherent(s, m, l), m > 0 => UpTo(s, Len(s), m)
    PROVE  /\ Coherent(Append(s, Out(m + 1, m + 1)), m + 1, l)
           /\ UpTo(Append(s, Out(m + 1, m + 1)), Len(Append(s, Out(m + 1, m + 1))), m + 1)
<1> DEFINE f == Out(m + 1, m + 1)
           t == Append(s, f)
<1>1. f \in Frame /\ f.kind = "out" /\ f.from = m + 1 /\ f.to = m + 1 /\ Size(f) = 1
  BY OutFrame
<1> HIDE DEF f
<1>2. /\ t \in Seq(Frame) /\ Len(t) = Len(s) + 1 /\ t[Len(s) + 1] = f /\ Len(s) \in Nat
      /\ Prefix(s, t)
  BY <1>1, AppendFront
<1>3. UpTo(t, Len(t), m + 1)
  BY <1>1, UpToOut
<1>4. Coherent(s, m + 1, l)
  BY CoherentLater
<1>5. GoesOn(t, Len(s) + 1)
  <2>1. Len(s) + 1 - 1 = Len(s) /\ Len(s) \in 0..Len(s) /\ f.from - 1 = m
    BY <1>1, <1>2
  <2>2. CASE m > 0
    <3>1. UpTo(t, Len(s), m)
      BY <1>2, <2>1, <2>2, FrontSame
    <3> HIDE DEF t
    <3> QED BY <1>2, <2>1, <3>1 DEF GoesOn
  <2>3. CASE m = 0
    <3>1. \A k \in 1..Len(s) : s[k] \in Frame /\ Fits(s, k, m, l)
      BY DEF Coherent
    <3>2. \A k \in 1..Len(s) : s[k].kind # "out"
      BY <3>1, <2>3 DEF Fits, Frame
    <3>3. Silent(s, Len(s))
      BY <3>2 DEF Silent
    <3>4. Silent(t, Len(s))
      BY <1>2, <2>1, <3>3, FrontSame
    <3> HIDE DEF t
    <3> QED BY <2>1, <3>4 DEF GoesOn
  <2> QED BY <2>2, <2>3
<1>6. Fits(t, Len(s) + 1, m + 1, l)
  <2>1. 1 <= Buffer
    BY WatermarkAssumption
  <2> HIDE DEF t
  <2> QED BY <1>1, <1>2, <1>5, <2>1 DEF Fits
<1>7. Coherent(t, m + 1, l)
  <2>1. \A k \in 1..Len(s) : s[k].kind # "exit"
    BY NoExit
  <2> QED BY <1>1, <1>4, <1>6, <2>1, CoherentAppend
<1> QED BY <1>3, <1>7 DEF t, f

\* A replay begins a stream.
LEMMA CoherentReplay ==
    ASSUME NEW a \in Nat \ {0}, NEW m \in Nat, m \in 0..MaxOut, a <= m, m - a + 1 <= Buffer,
           NEW l
    PROVE  /\ Coherent(<<Out(a, m)>>, m, l)
           /\ UpTo(<<Out(a, m)>>, 1, m)
<1> DEFINE f == Out(a, m)
           t == <<f>>
<1>1. f \in Frame /\ f.kind = "out" /\ f.from = a /\ f.to = m /\ Size(f) = m - a + 1
  <2>1. a \in 0..MaxOut
    BY WatermarkAssumption
  <2> QED BY <2>1, OutFrame
<1> HIDE DEF f
<1>2. Len(t) = 1 /\ t[1] = f
  OBVIOUS
<1> HIDE DEF t
<1>3. GoesOn(t, 1)
  BY DEF GoesOn, Silent
<1>4. Fits(t, 1, m, l)
  BY <1>1, <1>2, <1>3 DEF Fits
<1>5. Coherent(t, m, l)
  BY <1>2, <1>4 DEF Coherent
<1>6. UpTo(t, 1, m)
  BY <1>1, <1>2 DEF UpTo
<1> QED BY <1>5, <1>6 DEF t, f

-----------------------------------------------------------------------------
(* What the invariant says of one socket *)

LEMMA SizeSized ==
    ASSUME NEW s \in Seq(Frame), NEW m \in Nat, NEW l, Coherent(s, m, l), NEW k \in 1..Len(s)
    PROVE  s[k] \in Sized /\ Size(s[k]) <= Buffer
<1>1. s[k] \in Frame /\ Fits(s, k, m, l)
  BY DEF Coherent
<1>2. s[k].from \in Nat /\ s[k].to \in Nat /\ Buffer \in Nat
  BY <1>1, WatermarkAssumption DEF Frame
<1>3. s[k] # None
  BY <1>1, NoneFrame
<1>4. CASE s[k].kind = "out"
  <2>1. Size(s[k]) = s[k].to - s[k].from + 1 /\ s[k].from <= s[k].to /\ Size(s[k]) <= Buffer
    BY <1>1, <1>3, <1>4 DEF Fits, Size
  <2>2. s[k].to - s[k].from + 1 \in Nat
    BY <1>2, <2>1
  <2> QED BY <1>1, <2>1, <2>2 DEF Sized
<1>5. CASE s[k].kind # "out"
  BY <1>1, <1>2, <1>5 DEF Sized, Size
<1> QED BY <1>4, <1>5

LEMMA SockTypes ==
    ASSUME TypeOK, NEW c \in Socks
    PROVE  /\ got[c] \in Seq(Frame) /\ queue[c] \in Seq(Frame)
           /\ current[c] \in Frame \cup {None}
           /\ Stream(c) = Joined(got[c], current[c], queue[c])
           /\ Stream(c) \in Seq(Frame)
<1>1. /\ got[c] \in Seq(Frame) /\ queue[c] \in Seq(Frame)
      /\ current[c] \in Frame \cup {None}
  BY DEF TypeOK
<1>2. Stream(c) = Joined(got[c], current[c], queue[c])
  BY StreamJoined
<1> QED BY <1>1, <1>2, JoinedCut

\* What is held for a socket is a part of what is pending.
LEMMA SockHolds ==
    ASSUME TypeOK, Streams, NEW c \in Socks
    PROVE  /\ queue[c] \in Seq(Sized) /\ current[c] \in Sized \cup {None}
           /\ Size(current[c]) \in Nat /\ Amount(queue[c]) \in Nat
           /\ Held(c) = Size(current[c]) + Amount(queue[c]) /\ Held(c) \in Nat
<1> DEFINE g == got[c]
           u == current[c]
           q == queue[c]
           s == Stream(c)
           m == IF u = None THEN 0 ELSE 1
<1>1. g \in Seq(Frame) /\ q \in Seq(Frame) /\ u \in Frame \cup {None} /\ s \in Seq(Frame)
      /\ s = Joined(g, u, q)
  BY SockTypes
<1>2. Coherent(s, n, life) /\ n \in Nat
  BY DEF Streams, TypeOK
<1>3. Held(c) = Size(u) + Amount(q)
  BY DEF Held, Amount
<1>4. Size(None) = 0
  BY DEF Size
<1>5. m \in 0..1 /\ (u # None <=> m = 1)
  OBVIOUS
<1>6. Laid(s, g, m, u, q)
  BY <1>1, JoinedIs
<1> HIDE DEF g, u, q, s, m
<1>7. \A k \in 1..Len(s) : s[k] \in Sized
  BY <1>1, <1>2, SizeSized
<1>8. u # None => u \in Sized
  <2> SUFFICES ASSUME u # None PROVE u \in Sized
    OBVIOUS
  <2>1. m = 1 /\ Len(g) \in Nat /\ Len(q) \in Nat
    BY <1>1, <1>5
  <2>2. Len(g) + 1 \in 1..Len(s) /\ s[Len(g) + 1] = u
    BY <2>1, <1>6 DEF Laid
  <2> QED BY <1>7, <2>2
<1>9. q \in Seq(Sized)
  <2>1. ASSUME NEW i \in 1..Len(q) PROVE q[i] \in Sized
    <3>1. Len(g) \in Nat /\ Len(q) \in Nat
      BY <1>1
    <3> DEFINE k == Len(g) + m + i
    <3>2. k \in 1..Len(g)+m+Len(q) /\ k > Len(g) + m /\ k - Len(g) - m = i
      BY <3>1, <1>5
    <3>3. k \in 1..Len(s) /\ s[k] = q[k - Len(g) - m]
      <4> HIDE DEF k
      <4>1. ~(k <= Len(g)) /\ ~(k <= Len(g) + m)
        BY <3>1, <3>2, <1>5
      <4> QED BY <3>2, <4>1, <1>6 DEF Laid
    <3> QED BY <1>7, <3>2, <3>3
  <2> QED BY <1>1, <2>1
<1>10. Amount(q) \in Nat
  BY <1>9, AmountNat
<1>11. Size(u) \in Nat
  BY <1>1, <1>4, <1>8 DEF Sized
<1> QED BY <1>3, <1>8, <1>1, <1>9, <1>10, <1>11 DEF u, q

LEMMA PendingHeld ==
    ASSUME TypeOK, Streams, Exact, NEW c \in Socks
    PROVE  Held(c) <= pending /\ Held(c) \in Nat /\ pending \in Nat
<1> DEFINE f == [d \in Socks |-> Held(d)]
<1>1. \A d \in Socks : Held(d) \in Nat
  BY SockHolds
<1>2. f \in [Socks -> Nat] /\ f[c] = Held(c) /\ pending = SumFunction(f) /\ pending \in Nat
  BY <1>1 DEF Exact, TypeOK
<1> HIDE DEF f
<1>3. f[c] <= SumFunction(f)
  BY <1>2, SumChange, SocksAssumption
<1> QED BY <1>1, <1>2, <1>3

\* The account after a change for one socket.
LEMMA ExactChange ==
    ASSUME TypeOK, Streams, Exact, NEW c \in Socks,
           \A d \in Socks \ {c} : queue'[d] = queue[d] /\ current'[d] = current[d],
           Held(c)' \in Nat, pending' = pending - Held(c) + Held(c)'
    PROVE  Exact'
<1> DEFINE f == [d \in Socks |-> Held(d)]
           e == [d \in Socks |-> Held(d)']
<1>1. \A d \in Socks : Held(d) \in Nat
  BY SockHolds
<1>2. \A d \in Socks \ {c} : Held(d)' = Held(d)
  BY DEF Held
<1>3. f \in [Socks -> Nat] /\ e \in [Socks -> Nat] /\ f[c] = Held(c) /\ e[c] = Held(c)'
      /\ \A d \in Socks \ {c} : f[d] = e[d]
  BY <1>1, <1>2
<1>4. pending = SumFunction(f)
  BY DEF Exact
<1> HIDE DEF f, e
<1>5. SumFunction(e) = SumFunction(f) - f[c] + e[c]
  BY <1>3, SumChange, SocksAssumption
<1>6. pending' = SumFunction(e)
  BY <1>3, <1>4, <1>5
<1> QED BY <1>6 DEF Exact, e

LEMMA ExactSame ==
    ASSUME Exact, UNCHANGED <<queue, current, pending>>
    PROVE  Exact'
<1>1. [d \in Socks |-> Held(d)]' = [d \in Socks |-> Held(d)]
  BY DEF Held
<1> QED BY <1>1 DEF Exact

-----------------------------------------------------------------------------
(* Types *)

States == {"init", "ready", "stop", "evict", "replay", "open", "leave", "close", "term",
           "done"}

\* The first chunk of a replay.
First == IF n > Buffer THEN n - Buffer + 1 ELSE 1

LEMMA FrameRead ==
    ASSUME TypeOK, n < MaxOut
    PROVE  /\ n + 1 \in 0..MaxOut /\ Out(n + 1, n + 1) \in Frame
           /\ Size(Out(n + 1, n + 1)) = 1
<1>1. n \in Nat /\ MaxOut \in Nat /\ n + 1 \in 0..MaxOut
  BY WatermarkAssumption DEF TypeOK
<1> QED BY <1>1, OutFrame

LEMMA FrameReplay ==
    ASSUME TypeOK, n # 0
    PROVE  /\ n \in Nat /\ First \in Nat \ {0} /\ First <= n /\ n - First + 1 <= Buffer
           /\ Out(First, n) \in Frame /\ Size(Out(First, n)) = n - First + 1
           /\ Size(Out(First, n)) \in Nat /\ Size(Out(First, n)) <= Buffer
<1>1. n \in 0..MaxOut /\ n \in Nat /\ MaxOut \in Nat /\ Buffer \in Nat \ {0}
  BY WatermarkAssumption DEF TypeOK
<1>2. First \in Nat \ {0} /\ First <= n /\ n - First + 1 <= Buffer /\ First \in 0..MaxOut
      /\ n - First + 1 \in Nat
  BY <1>1 DEF First
<1>3. Out(First, n) \in Frame /\ Size(Out(First, n)) = n - First + 1
  BY <1>1, <1>2, OutFrame
<1> QED BY <1>1, <1>2, <1>3

LEMMA EnqueuedTypes ==
    ASSUME TypeOK, NEW c \in Socks, NEW f \in Frame, Size(f) \in Nat, Enqueued(c, f)
    PROVE  /\ queue' \in [Socks -> Seq(Frame)] /\ pending' \in Nat
           /\ reading' \in BOOLEAN /\ paused' \in BOOLEAN
<1>1. queue' = [queue EXCEPT ![c] = Append(queue[c], f)] /\ pending' = pending + Size(f)
  BY DEF Enqueued
<1>2. queue \in [Socks -> Seq(Frame)] /\ pending \in Nat
      /\ reading \in BOOLEAN /\ paused \in BOOLEAN
  BY DEF TypeOK
<1>3. Append(queue[c], f) \in Seq(Frame)
  BY <1>2
<1>4. queue' \in [Socks -> Seq(Frame)]
  BY <1>1, <1>2, <1>3
<1>5. pending' \in Nat
  BY <1>1, <1>2
<1>6. reading' \in BOOLEAN /\ paused' \in BOOLEAN
  BY <1>2 DEF Enqueued
<1> QED BY <1>4, <1>5, <1>6

LEMMA ResumedTypes ==
    ASSUME TypeOK, NEW p, Resumed(p)
    PROVE  reading' \in BOOLEAN /\ paused' \in BOOLEAN
  BY DEF Resumed, TypeOK

LEMMA ReceivedTypes ==
    ASSUME TypeOK, NEW c \in Socks, current[c] # None, Received(c)
    PROVE  got' \in [Socks -> Seq(Frame)]
<1>1. got[c] \in Seq(Frame) /\ current[c] \in Frame
  BY DEF TypeOK
<1>2. Append(got[c], current[c]) \in Seq(Frame)
  BY <1>1
<1> QED BY <1>2 DEF Received, TypeOK

LEMMA EndedTypes ==
    ASSUME TypeOK, Streams, Exact, NEW c \in Socks, Ended(c)
    PROVE  /\ queue' \in [Socks -> Seq(Frame)] /\ current' \in [Socks -> Frame \cup {None}]
           /\ pending' \in Nat /\ reading' \in BOOLEAN /\ paused' \in BOOLEAN
           /\ task' \in [Socks -> {"none", "runs", "cancelled", "done"}]
           /\ writer' \in Socks \cup {None}
<1>1. pending - Held(c) \in Nat
  BY PendingHeld
<1>2. reading' \in BOOLEAN /\ paused' \in BOOLEAN
  BY ResumedTypes DEF Ended
<1>3. <<>> \in Seq(Frame)
  OBVIOUS
<1> QED BY <1>1, <1>2, <1>3 DEF Ended, TypeOK

LEMMA StopTypes ==
    ASSUME TypeOK, NEW c, Stop(c)
    PROVE  task' \in [Socks -> {"none", "runs", "cancelled", "done"}]
  BY DEF Stop, TypeOK

LEMMA AttachedTypes ==
    ASSUME TypeOK, NEW c \in Socks, Attached(c)
    PROVE  /\ ws' = c /\ writer' = c
           /\ task' \in [Socks -> {"none", "runs", "cancelled", "done"}]
           /\ pc' \in [Socks \cup Closers -> States]
           /\ queue' \in [Socks -> Seq(Frame)] /\ pending' \in Nat
           /\ reading' \in BOOLEAN /\ paused' \in BOOLEAN
<1>1. ws' = c /\ writer' = c /\ task' = [task EXCEPT ![c] = "runs"]
  BY DEF Attached
<1>2. CASE n = 0
  BY <1>1, <1>2 DEF Attached, TypeOK, States
<1>3. CASE n # 0
  <2>1. pc' = [pc EXCEPT ![c] = "replay"] /\ Enqueued(c, Out(First, n))
    BY <1>3 DEF Attached, First
  <2>2. /\ queue' \in [Socks -> Seq(Frame)] /\ pending' \in Nat
        /\ reading' \in BOOLEAN /\ paused' \in BOOLEAN
    <3> DEFINE f == Out(First, n)
    <3>1. f \in Frame /\ Size(f) \in Nat
      BY <1>3, FrameReplay
    <3> HIDE DEF f
    <3>2. Enqueued(c, f)
      BY <2>1 DEF f
    <3> QED BY <3>1, <3>2, EnqueuedTypes
  <2> QED BY <1>1, <2>1, <2>2 DEF TypeOK, States
<1> QED BY <1>2, <1>3

\* The queue of a socket with the texts of a close.
Ending(q, texts) == q \o texts \o <<Control("close")>>

LEMMA EndingIs ==
    ASSUME NEW q \in Seq(Frame)
    PROVE  /\ Ending(q, <<>>) = Append(q, Control("close"))
           /\ Ending(q, <<Control("exit")>>) = Append(Append(q, Control("exit")), Control("close"))
           /\ Ending(q, <<>>) \in Seq(Frame) /\ Ending(q, <<Control("exit")>>) \in Seq(Frame)
<1> DEFINE a == Control("exit")
           b == Control("close")
<1>1. a \in Frame /\ b \in Frame
  BY ControlFrame
<1> HIDE DEF a, b
<1>2. q \o <<>> \o <<b>> = Append(q, b) /\ q \o <<a>> \o <<b>> = Append(Append(q, a), b)
      /\ Append(q, b) \in Seq(Frame) /\ Append(Append(q, a), b) \in Seq(Frame)
  <2>1. q \o <<>> = q /\ q \o <<a>> = Append(q, a) /\ Append(q, a) \in Seq(Frame)
    BY <1>1
  <2>2. \A r \in Seq(Frame) : r \o <<b>> = Append(r, b) /\ Append(r, b) \in Seq(Frame)
    BY <1>1
  <2> QED BY <2>1, <2>2
<1> QED BY <1>2 DEF Ending, a, b

Texts == {<<>>, <<Control("exit")>>}

LEMMA CloseQueuedTypes ==
    ASSUME TypeOK, NEW x \in Closers, NEW c \in Socks \cup {None}, NEW texts \in Texts,
           NEW next \in States, CloseQueued(x, c, texts, next)
    PROVE  /\ queue' \in [Socks -> Seq(Frame)]
           /\ victim' \in [Socks \cup Closers -> Socks \cup {None}]
           /\ pc' \in [Socks \cup Closers -> States]
<1>1. CASE c # None /\ writer = c
  <2>1. c \in Socks
    BY <1>1
  <2>2. /\ queue' = [queue EXCEPT ![c] = Ending(queue[c], texts)]
        /\ victim' = [victim EXCEPT ![x] = c] /\ pc' = [pc EXCEPT ![x] = "close"]
    BY <1>1 DEF CloseQueued, Ending
  <2>3. Ending(queue[c], texts) \in Seq(Frame)
    BY <2>1, EndingIs DEF TypeOK, Texts
  <2> QED BY <2>1, <2>2, <2>3 DEF TypeOK, States
<1>2. CASE ~(c # None /\ writer = c)
  BY <1>2 DEF CloseQueued, TypeOK, States
<1> QED BY <1>1, <1>2

LEMMA NextType == TypeOK /\ Streams /\ Exact /\ [Next]_vars => TypeOK'
<1> SUFFICES ASSUME TypeOK, Streams, Exact, [Next]_vars PROVE TypeOK'
  OBVIOUS
<1>1. CASE Read
  <2>1. n + 1 \in 0..MaxOut /\ n' = n + 1
    BY <1>1, FrameRead DEF Read
  <2>2. CASE ws # None /\ writer # None
    <3>1. writer \in Socks /\ Enqueued(writer, Out(n + 1, n + 1))
      BY <1>1, <2>1, <2>2 DEF Read, TypeOK
    <3>2. /\ queue' \in [Socks -> Seq(Frame)] /\ pending' \in Nat
          /\ reading' \in BOOLEAN /\ paused' \in BOOLEAN
      BY <1>1, <3>1, FrameRead, EnqueuedTypes DEF Read
    <3> QED BY <1>1, <2>1, <3>2 DEF Read, TypeOK
  <2>3. CASE ~(ws # None /\ writer # None)
    BY <1>1, <2>1, <2>3 DEF Read, TypeOK
  <2> QED BY <2>2, <2>3
<1>2. CASE ChildExits \/ Eof \/ TermDone
  BY <1>2 DEF ChildExits, Eof, TermDone, TypeOK
<1>3. CASE End
  <2>1. /\ queue' \in [Socks -> Seq(Frame)]
        /\ victim' \in [Socks \cup Closers -> Socks \cup {None}]
        /\ pc' \in [Socks \cup Closers -> States]
    BY <1>3, CloseQueuedTypes DEF End, TypeOK, Closers, Texts, States
  <2> QED BY <1>3, <2>1 DEF End, TypeOK, States
<1>4. CASE HandleExit
  <2>1. /\ queue' \in [Socks -> Seq(Frame)]
        /\ victim' \in [Socks \cup Closers -> Socks \cup {None}]
        /\ pc' \in [Socks \cup Closers -> States]
    <3>1. CASE life = "dead"
      BY <1>4, <3>1 DEF HandleExit, TypeOK, States
    <3>2. CASE life # "dead"
      <4>1. CloseQueued("exit", ws, <<Control("exit")>>, "done")
        BY <1>4, <3>2 DEF HandleExit
      <4> QED BY <4>1, CloseQueuedTypes DEF TypeOK, Closers, Texts, States
    <3> QED BY <3>1, <3>2
  <2> QED BY <1>4, <2>1 DEF HandleExit, TypeOK, States
<1>5. ASSUME NEW c \in Socks, Take(c) PROVE TypeOK'
  <2>1. Head(queue[c]) \in Frame /\ Tail(queue[c]) \in Seq(Frame)
    BY <1>5, JoinedTake DEF Take, TypeOK
  <2> QED BY <1>5, <2>1 DEF Take, TypeOK
<1>6. ASSUME NEW c \in Socks, Sent(c) PROVE TypeOK'
  <2>1. got' \in [Socks -> Seq(Frame)]
    BY <1>6, ReceivedTypes DEF Sent
  <2>2. reading' \in BOOLEAN /\ paused' \in BOOLEAN
    BY <1>6, ResumedTypes DEF Sent
  <2>3. pending - Size(current[c]) \in Nat
    BY SockHolds, PendingHeld
  <2> QED BY <1>6, <2>1, <2>2, <2>3 DEF Sent, TypeOK
<1>7. ASSUME NEW c \in Socks, SentClose(c) \/ SendFails(c) \/ Cancelled(c) PROVE TypeOK'
  <2>1. got' \in [Socks -> Seq(Frame)]
    <3>1. CASE UNCHANGED got
      BY <3>1 DEF TypeOK
    <3>2. CASE current[c] # None /\ Received(c)
      BY <3>2, ReceivedTypes
    <3> QED BY <1>7, <3>1, <3>2 DEF SentClose, SendFails, Cancelled
  <2>2. Ended(c)
    BY <1>7 DEF SentClose, SendFails, Cancelled
  <2>3. /\ queue' \in [Socks -> Seq(Frame)] /\ current' \in [Socks -> Frame \cup {None}]
        /\ pending' \in Nat /\ reading' \in BOOLEAN /\ paused' \in BOOLEAN
        /\ task' \in [Socks -> {"none", "runs", "cancelled", "done"}]
        /\ writer' \in Socks \cup {None}
    BY <2>2, EndedTypes
  <2> QED BY <1>7, <2>1, <2>3 DEF SentClose, SendFails, Cancelled, TypeOK
<1>8. ASSUME NEW c \in Socks, Attach(c) PROVE TypeOK'
  <2>1. CASE ws = None
    <3>1. Attached(c) /\ UNCHANGED <<n, child, life, current, sock, got, victim>>
      BY <1>8, <2>1 DEF Attach
    <3> QED BY <3>1, AttachedTypes DEF TypeOK, States
  <2>2. CASE ws # None
    BY <1>8, <2>2, StopTypes DEF Attach, TypeOK
  <2> QED BY <2>1, <2>2
<1>9. ASSUME NEW c \in Socks, EvictDone(c) PROVE TypeOK'
  <2>1. Attached(c) /\ UNCHANGED <<n, child, life, current, got>>
        /\ sock' \in [Socks -> {"open", "gone", "closed"}]
        /\ victim' \in [Socks \cup Closers -> Socks \cup {None}]
    BY <1>9 DEF EvictDone, TypeOK
  <2> QED BY <2>1, AttachedTypes DEF TypeOK, States
<1>10. ASSUME NEW c \in Socks, Evict(c) \/ ReplayDone(c) \/ Disconnect(c) \/ DetachDone(c)
       PROVE  TypeOK'
  BY <1>10 DEF Evict, ReplayDone, Disconnect, DetachDone, TypeOK
<1>11. ASSUME NEW c \in Socks, Detach(c) PROVE TypeOK'
  BY <1>11, StopTypes DEF Detach, TypeOK
<1>12. ASSUME NEW c \in Socks, AuthCloses(c) PROVE TypeOK'
  <2>1. /\ queue' \in [Socks -> Seq(Frame)]
        /\ victim' \in [Socks \cup Closers -> Socks \cup {None}]
        /\ pc' \in [Socks \cup Closers -> States]
    BY <1>12, CloseQueuedTypes DEF AuthCloses, Closers, Texts, States
  <2> QED BY <1>12, <2>1 DEF AuthCloses, TypeOK, States
<1>13. ASSUME NEW x \in Closers, CloserStep(x) PROVE TypeOK'
  <2>1. CASE CloseDone(x)
    BY <2>1 DEF CloseDone, Onwards, TypeOK
  <2>2. CASE CloseTimesOut(x)
    BY <2>2, StopTypes DEF CloseTimesOut, TypeOK
  <2>3. CASE CloseForced(x)
    BY <2>3 DEF CloseForced, Onwards, TypeOK
  <2> QED BY <1>13, <2>1, <2>2, <2>3 DEF CloserStep
<1>14. CASE Rest \/ UNCHANGED vars
  BY <1>14 DEF Rest, vars, TypeOK
<1> QED
  BY <1>1, <1>2, <1>3, <1>4, <1>5, <1>6, <1>7, <1>8, <1>9, <1>10, <1>11, <1>12, <1>13, <1>14
  DEF Next, WriterStep, RouteStep

-----------------------------------------------------------------------------
(* Who has a part in a queue *)

LEMMA Apart == \A c \in Socks, x \in Closers : c # x
  BY SocksAssumption

\* A socket at work is not new.
LEMMA AtWork ==
    ASSUME Roles, NEW c \in Socks
    PROVE  /\ task[c] # "none" => ~New(c)
           /\ writer = c => ~New(c)
           /\ ws = c => ~New(c)
  BY DEF Roles

\* Steps that touch the queue of one socket at work only.
LEMMA RolesOf ==
    ASSUME TypeOK, Roles, NEW c \in Socks, ~New(c), UNCHANGED pc,
           \A d \in Socks \ {c} : /\ queue'[d] = queue[d] /\ current'[d] = current[d]
                                  /\ got'[d] = got[d] /\ task'[d] = task[d],
           writer' \in {writer, None}, writer' = c => task'[c] \in {"runs", "cancelled"},
           UNCHANGED ws
    PROVE  Roles'
<1>1. \A d \in Socks : New(d)' <=> New(d)
  BY DEF New
<1>2. ws' # None => writer' \in {ws', None}
  BY DEF Roles
<1>3. ASSUME NEW d \in Socks
      PROVE  /\ writer' = d => task'[d] \in {"runs", "cancelled"}
             /\ New(d)' => /\ ws' # d /\ writer' # d /\ task'[d] = "none"
                           /\ got'[d] = <<>> /\ current'[d] = None /\ queue'[d] = <<>>
  <2>1. CASE d = c
    BY <2>1, <1>1
  <2>2. CASE d # c
    BY <2>2, <1>1, NoneFrame DEF Roles
  <2> QED BY <2>1, <2>2
<1> QED BY <1>2, <1>3 DEF Roles

\* Steps of the routes and of the closers, which stop writers and let sockets go.
LEMMA RolesStay ==
    ASSUME TypeOK, Roles, UNCHANGED <<queue, current, got, writer>>,
           ws' \in {ws, None},
           task' = task \/ (writer \in Socks /\ task' = [task EXCEPT ![writer] = "cancelled"]),
           \A c \in Socks : New(c)' => New(c)
    PROVE  Roles'
<1>1. ws' # None => writer' \in {ws', None}
  BY DEF Roles
<1>2. ASSUME NEW d \in Socks
      PROVE  /\ writer' = d => task'[d] \in {"runs", "cancelled"}
             /\ New(d)' => /\ ws' # d /\ writer' # d /\ task'[d] = "none"
                           /\ got'[d] = <<>> /\ current'[d] = None /\ queue'[d] = <<>>
  BY NoneFrame DEF Roles, TypeOK
<1> QED BY <1>1, <1>2 DEF Roles

LEMMA StopStays ==
    ASSUME TypeOK, NEW c \in Socks \cup {None}, Stop(c)
    PROVE  task' = task \/ (writer \in Socks /\ task' = [task EXCEPT ![writer] = "cancelled"])
<1>1. CASE writer = c /\ c # None
  BY <1>1 DEF Stop
<1>2. CASE writer = c /\ c = None
  <2>1. task' = [task EXCEPT ![None] = "cancelled"] /\ None \notin DOMAIN task
    BY <1>2, NoneFrame DEF Stop, TypeOK
  <2>2. task' = task
    BY <2>1 DEF TypeOK
  <2> QED BY <2>2
<1>3. CASE writer # c
  BY <1>3 DEF Stop
<1> QED BY <1>1, <1>2, <1>3

LEMMA RolesAttached ==
    ASSUME TypeOK, Roles, NEW c \in Socks, Attached(c), UNCHANGED <<current, got>>
    PROVE  Roles'
<1>1. /\ ws' = c /\ writer' = c /\ task' = [task EXCEPT ![c] = "runs"]
      /\ pc'[c] \in {"open", "replay"} /\ \A d \in Socks \ {c} : pc'[d] = pc[d]
      /\ \A d \in Socks \ {c} : queue'[d] = queue[d]
  BY DEF Attached, Enqueued, TypeOK
<1>2. ~New(c)' /\ \A d \in Socks \ {c} : New(d)' <=> New(d)
  BY <1>1 DEF New
<1>3. ASSUME NEW d \in Socks
      PROVE  /\ writer' = d => task'[d] \in {"runs", "cancelled"}
             /\ New(d)' => /\ ws' # d /\ writer' # d /\ task'[d] = "none"
                           /\ got'[d] = <<>> /\ current'[d] = None /\ queue'[d] = <<>>
  <2>1. CASE d = c
    BY <2>1, <1>1, <1>2 DEF TypeOK
  <2>2. CASE d # c
    BY <2>2, <1>1, <1>2 DEF Roles, TypeOK
  <2> QED BY <2>1, <2>2
<1> QED BY <1>1, <1>3 DEF Roles

\* The queue gets the texts of a close, or nothing happens but for a closer.
LEMMA RolesQueued ==
    ASSUME TypeOK, Roles, NEW x \in Closers, NEW c \in Socks \cup {None}, NEW texts, NEW next,
           CloseQueued(x, c, texts, next), ws' \in {ws, None},
           UNCHANGED <<current, got, writer, task>>
    PROVE  Roles'
<1>1. \A d \in Socks : pc'[d] = pc[d]
  BY Apart DEF CloseQueued, TypeOK
<1>2. \A d \in Socks : New(d)' <=> New(d)
  BY <1>1 DEF New
<1>3. CASE c # None /\ writer = c
  <2>1. c \in Socks /\ ~New(c)
    BY <1>3, AtWork
  <2>2. \A d \in Socks \ {c} : queue'[d] = queue[d]
    BY <1>3 DEF CloseQueued, TypeOK
  <2>3. ASSUME NEW d \in Socks
        PROVE  /\ writer' = d => task'[d] \in {"runs", "cancelled"}
               /\ New(d)' => /\ ws' # d /\ writer' # d /\ task'[d] = "none"
                             /\ got'[d] = <<>> /\ current'[d] = None /\ queue'[d] = <<>>
    <3>1. CASE d = c
      BY <3>1, <1>2, <2>1 DEF Roles
    <3>2. CASE d # c
      BY <3>2, <1>2, <2>2, NoneFrame DEF Roles
    <3> QED BY <3>1, <3>2
  <2> QED BY <2>3 DEF Roles
<1>4. CASE ~(c # None /\ writer = c)
  <2>1. UNCHANGED queue
    BY <1>4 DEF CloseQueued
  <2> QED BY <1>2, <2>1, NoneFrame DEF Roles
<1> QED BY <1>3, <1>4

LEMMA NextRoles == TypeOK /\ Roles /\ [Next]_vars => Roles'
<1> SUFFICES ASSUME TypeOK, Roles, [Next]_vars PROVE Roles'
  OBVIOUS
<1>1. CASE Read
  <2>1. CASE ws # None /\ writer # None
    <3>1. /\ writer \in Socks /\ ~New(writer) /\ task[writer] \in {"runs", "cancelled"}
          /\ \A d \in Socks \ {writer} : queue'[d] = queue[d]
          /\ UNCHANGED <<pc, current, got, task, writer, ws>>
      BY <1>1, <2>1, AtWork DEF Read, Enqueued, TypeOK, Roles
    <3> QED BY <3>1, RolesOf
  <2>2. CASE ~(ws # None /\ writer # None)
    BY <1>1, <2>2 DEF Read, Roles, New
  <2> QED BY <2>1, <2>2
<1>2. CASE ChildExits \/ Eof \/ TermDone
  <2>1. UNCHANGED <<queue, current, got, writer, ws, task>>
    BY <1>2 DEF ChildExits, Eof, TermDone
  <2>2. \A c \in Socks : pc'[c] = pc[c]
    BY <1>2, Apart DEF ChildExits, Eof, TermDone, TypeOK, Closers
  <2> QED BY <2>1, <2>2, RolesStay DEF New
<1>3. CASE End
  BY <1>3, RolesQueued DEF End, TypeOK, Closers
<1>4. CASE HandleExit
  <2>1. CASE life = "dead"
    <3>1. UNCHANGED <<queue, current, got, writer, ws, task>> /\ \A c \in Socks : pc'[c] = pc[c]
      BY <1>4, <2>1, Apart DEF HandleExit, TypeOK, Closers
    <3> QED BY <3>1, RolesStay DEF New
  <2>2. CASE life # "dead"
    BY <1>4, <2>2, RolesQueued DEF HandleExit, TypeOK, Closers
  <2> QED BY <2>1, <2>2
<1>5. ASSUME NEW c \in Socks, Take(c) \/ Sent(c) PROVE Roles'
  <2>1. /\ ~New(c) /\ UNCHANGED <<pc, task, writer, ws>> /\ task[c] = "runs"
        /\ \A d \in Socks \ {c} : /\ queue'[d] = queue[d] /\ current'[d] = current[d]
                                  /\ got'[d] = got[d]
    BY <1>5, AtWork DEF Take, Sent, Received, TypeOK
  <2> QED BY <2>1, RolesOf
<1>6. ASSUME NEW c \in Socks, SentClose(c) \/ SendFails(c) \/ Cancelled(c) PROVE Roles'
  <2>1. ~New(c) /\ Ended(c) /\ UNCHANGED <<pc, ws>>
    BY <1>6, AtWork DEF SentClose, SendFails, Cancelled
  <2>2. \A d \in Socks \ {c} : got'[d] = got[d]
    BY <1>6 DEF SentClose, SendFails, Cancelled, Received, TypeOK
  <2>3. /\ writer' \in {writer, None} /\ writer' # c
        /\ \A d \in Socks \ {c} : /\ queue'[d] = queue[d] /\ current'[d] = current[d]
                                  /\ task'[d] = task[d]
    BY <2>1, NoneFrame DEF Ended, TypeOK
  <2> QED BY <2>1, <2>2, <2>3, RolesOf
<1>7. ASSUME NEW c \in Socks, Attach(c) PROVE Roles'
  <2>1. CASE ws = None
    BY <1>7, <2>1, RolesAttached DEF Attach
  <2>2. CASE ws # None
    <3>1. Stop(ws) /\ ws' = None /\ UNCHANGED <<queue, current, got, writer>>
          /\ pc[c] = "init" /\ pc' = [pc EXCEPT ![c] = "stop"]
      BY <1>7, <2>2 DEF Attach
    <3>2. \A d \in Socks : New(d)' => New(d)
      BY <3>1 DEF New, TypeOK
    <3>3. task' = task \/ (writer \in Socks /\ task' = [task EXCEPT ![writer] = "cancelled"])
      BY <3>1, StopStays DEF TypeOK
    <3> QED BY <3>1, <3>2, <3>3, RolesStay
  <2> QED BY <2>1, <2>2
<1>8. ASSUME NEW c \in Socks, EvictDone(c) PROVE Roles'
  BY <1>8, RolesAttached DEF EvictDone
<1>9. ASSUME NEW c \in Socks, Evict(c) \/ ReplayDone(c) \/ Disconnect(c) \/ DetachDone(c)
      PROVE  Roles'
  <2>1. UNCHANGED <<queue, current, got, writer, ws, task>>
    BY <1>9 DEF Evict, ReplayDone, Disconnect, DetachDone
  <2>2. \A d \in Socks : New(d)' => New(d)
    BY <1>9 DEF Evict, ReplayDone, Disconnect, DetachDone, New, TypeOK
  <2> QED BY <2>1, <2>2, RolesStay
<1>10. ASSUME NEW c \in Socks, Detach(c) PROVE Roles'
  <2>1. UNCHANGED <<queue, current, got, writer>> /\ ws' \in {ws, None}
    BY <1>10 DEF Detach
  <2>2. \A d \in Socks : New(d)' => New(d)
    BY <1>10 DEF Detach, New, TypeOK
  <2>3. task' = task \/ (writer \in Socks /\ task' = [task EXCEPT ![writer] = "cancelled"])
    BY <1>10, StopStays DEF Detach
  <2> QED BY <2>1, <2>2, <2>3, RolesStay
<1>11. ASSUME NEW c \in Socks, AuthCloses(c) PROVE Roles'
  BY <1>11, RolesQueued DEF AuthCloses, Closers
<1>12. ASSUME NEW x \in Closers, CloserStep(x) PROVE Roles'
  <2>1. UNCHANGED <<queue, current, got, writer, ws>>
    BY <1>12 DEF CloserStep, CloseDone, CloseTimesOut, CloseForced, Onwards
  <2>2. \A d \in Socks : pc'[d] = pc[d]
    BY <1>12, Apart DEF CloserStep, CloseDone, CloseTimesOut, CloseForced, Onwards, TypeOK
  <2>3. task' = task \/ (writer \in Socks /\ task' = [task EXCEPT ![writer] = "cancelled"])
    <3>1. CASE Stop(victim[x])
      BY <3>1, StopStays DEF TypeOK
    <3> QED BY <1>12, <3>1 DEF CloserStep, CloseDone, CloseTimesOut, CloseForced
  <2> QED BY <2>1, <2>2, <2>3, RolesStay DEF New
<1>13. CASE Rest \/ UNCHANGED vars
  BY <1>13 DEF Rest, vars, Roles, New
<1> QED
  BY <1>1, <1>2, <1>3, <1>4, <1>5, <1>6, <1>7, <1>8, <1>9, <1>10, <1>11, <1>12, <1>13
  DEF Next, WriterStep, RouteStep

-----------------------------------------------------------------------------
(* The reader and the lock *)

LEMMA ReaderResumed ==
    ASSUME TypeOK, Reader, NEW p \in Nat, p <= pending, Resumed(p), pending' = p,
           UNCHANGED life, pc'["exit"] = pc["exit"]
    PROVE  Reader'
<1>1. Low \in Nat /\ High \in Nat /\ Low < High /\ pending \in Nat
  BY WatermarkAssumption DEF TypeOK
<1>2. CASE paused /\ p <= Low
  <2>1. ~reading
    BY <1>2 DEF Reader
  <2>2. ~paused' /\ (reading' <=> life = "live")
    BY <1>2, <2>1 DEF Resumed
  <2>3. pending' < High
    BY <1>1, <1>2
  <2> QED BY <2>2, <2>3 DEF Reader
<1>3. CASE ~(paused /\ p <= Low)
  <2>1. paused' = paused /\ reading' = reading
    BY <1>3 DEF Resumed
  <2> QED BY <1>1, <1>3, <2>1 DEF Reader
<1> QED BY <1>2, <1>3

LEMMA ReaderEnqueued ==
    ASSUME TypeOK, Reader, NEW c, NEW f, Size(f) \in Nat, Enqueued(c, f),
           UNCHANGED life, pc'["exit"] = pc["exit"]
    PROVE  Reader'
<1>1. /\ Low \in Nat /\ High \in Nat /\ Low < High /\ pending \in Nat
      /\ pending' = pending + Size(f)
  BY WatermarkAssumption DEF TypeOK, Enqueued
<1>2. CASE pending' >= High /\ ~paused /\ life # "dead"
  <2>1. paused' = TRUE /\ reading' = FALSE
    BY <1>2 DEF Enqueued
  <2> QED BY <1>1, <1>2, <2>1 DEF Reader
<1>3. CASE ~(pending' >= High /\ ~paused /\ life # "dead")
  <2>1. paused' = paused /\ reading' = reading
    BY <1>3 DEF Enqueued
  <2>2. CASE paused
    BY <1>1, <2>1, <2>2 DEF Reader
  <2>3. CASE ~paused
    BY <1>1, <1>3, <2>1, <2>3 DEF Reader
  <2> QED BY <2>2, <2>3
<1> QED BY <1>2, <1>3

\* Nothing happens to the reader, but for the end of a session.
LEMMA ReaderStays ==
    ASSUME Reader, UNCHANGED <<reading, paused, pending>>,
           life' = life \/ (life # "dead" /\ life' = "terminating"),
           pc'["exit"] = "init" => pc["exit"] = "init"
    PROVE  Reader'
  BY DEF Reader

LEMMA ReaderDead ==
    ASSUME reading' = FALSE, paused' = FALSE, life' = "dead"
    PROVE  Reader'
  BY DEF Reader

LEMMA ReaderAttached ==
    ASSUME TypeOK, Reader, NEW c \in Socks, Attached(c), UNCHANGED life
    PROVE  Reader'
<1>1. pc'["exit"] = pc["exit"]
  BY Apart DEF Attached, TypeOK, Closers
<1>2. CASE n = 0
  BY <1>1, <1>2, ReaderStays DEF Attached
<1>3. CASE n # 0
  <2>1. Enqueued(c, Out(First, n))
    BY <1>3 DEF Attached, First
  <2>2. Size(Out(First, n)) \in Nat
    BY <1>3, FrameReplay
  <2> QED BY <1>1, <2>1, <2>2, ReaderEnqueued
<1> QED BY <1>2, <1>3

LEMMA OnwardsLife ==
    ASSUME TypeOK, NEW x \in Closers, pc[x] # "init", Onwards(x)
    PROVE  /\ life' = life \/ (life # "dead" /\ life' = "terminating")
           /\ \A y \in Closers : pc'[y] = "init" => pc[y] = "init"
           /\ \A y \in Closers \ {x} : pc'[y] = pc[y]
  BY DEF Onwards, TypeOK

LEMMA NextReader == TypeOK /\ Streams /\ Exact /\ Reader /\ [Next]_vars => Reader'
<1> SUFFICES ASSUME TypeOK, Streams, Exact, Reader, [Next]_vars PROVE Reader'
  OBVIOUS
<1>1. CASE Read
  <2>1. CASE ws # None /\ writer # None
    BY <1>1, <2>1, FrameRead, ReaderEnqueued DEF Read
  <2>2. CASE ~(ws # None /\ writer # None)
    BY <1>1, <2>2, ReaderStays DEF Read
  <2> QED BY <2>1, <2>2
<1>2. CASE ChildExits
  BY <1>2, ReaderStays DEF ChildExits
<1>3. CASE Eof
  <2>1. pc'["exit"] # "init" /\ reading' = FALSE /\ UNCHANGED <<paused, pending, life>>
    BY <1>3 DEF Eof, TypeOK, Closers
  <2> QED BY <2>1 DEF Reader
<1>4. CASE TermDone
  BY <1>4, ReaderDead DEF TermDone
<1>5. CASE End
  <2>1. pc'["exit"] = pc["exit"] /\ UNCHANGED <<reading, paused, pending>>
    BY <1>5 DEF End, CloseQueued, TypeOK, Closers
  <2>2. life' = life \/ (life # "dead" /\ life' = "terminating")
    BY <1>5 DEF End
  <2> QED BY <2>1, <2>2, ReaderStays
<1>6. CASE HandleExit
  <2>1. CASE life = "dead"
    <3>1. pc'["exit"] # "init" /\ UNCHANGED <<reading, paused, pending, life>>
      BY <1>6, <2>1 DEF HandleExit, TypeOK, Closers
    <3> QED BY <3>1, ReaderStays
  <2>2. CASE life # "dead"
    BY <1>6, <2>2, ReaderDead DEF HandleExit
  <2> QED BY <2>1, <2>2
<1>7. ASSUME NEW c \in Socks, Take(c) PROVE Reader'
  BY <1>7, ReaderStays DEF Take
<1>8. ASSUME NEW c \in Socks, Sent(c) PROVE Reader'
  <2>1. /\ Size(current[c]) \in Nat /\ Size(current[c]) <= Held(c) /\ Held(c) \in Nat
        /\ Held(c) <= pending /\ pending \in Nat
    BY SockHolds, PendingHeld
  <2>2. pending - Size(current[c]) \in Nat /\ pending - Size(current[c]) <= pending
    BY <2>1
  <2> QED BY <1>8, <2>2, ReaderResumed DEF Sent
<1>9. ASSUME NEW c \in Socks, SentClose(c) \/ SendFails(c) \/ Cancelled(c) PROVE Reader'
  <2>1. Ended(c) /\ UNCHANGED <<life, pc>>
    BY <1>9 DEF SentClose, SendFails, Cancelled
  <2>2. Held(c) \in Nat /\ Held(c) <= pending /\ pending \in Nat
    BY PendingHeld
  <2>3. pending' = pending - Held(c) /\ pending - Held(c) \in Nat
        /\ pending - Held(c) <= pending /\ Resumed(pending')
    BY <2>1, <2>2 DEF Ended
  <2> QED BY <2>1, <2>3, ReaderResumed
<1>10. ASSUME NEW c \in Socks, Attach(c) PROVE Reader'
  <2>1. CASE ws = None
    BY <1>10, <2>1, ReaderAttached DEF Attach
  <2>2. CASE ws # None
    <3>1. pc'["exit"] = pc["exit"] /\ UNCHANGED <<reading, paused, pending, life>>
      BY <1>10, <2>2, Apart DEF Attach, TypeOK, Closers
    <3> QED BY <3>1, ReaderStays
  <2> QED BY <2>1, <2>2
<1>11. ASSUME NEW c \in Socks, EvictDone(c) PROVE Reader'
  BY <1>11, ReaderAttached DEF EvictDone
<1>12. ASSUME NEW c \in Socks,
              Evict(c) \/ ReplayDone(c) \/ Disconnect(c) \/ Detach(c) \/ DetachDone(c)
       PROVE  Reader'
  <2>1. pc'["exit"] = pc["exit"] /\ UNCHANGED <<reading, paused, pending, life>>
    BY <1>12, Apart DEF Evict, ReplayDone, Disconnect, Detach, DetachDone, TypeOK, Closers
  <2> QED BY <2>1, ReaderStays
<1>13. ASSUME NEW c \in Socks, AuthCloses(c) PROVE Reader'
  <2>1. pc'["exit"] = pc["exit"] /\ UNCHANGED <<reading, paused, pending, life>>
    BY <1>13 DEF AuthCloses, CloseQueued, TypeOK, Closers
  <2> QED BY <2>1, ReaderStays
<1>14. ASSUME NEW x \in Closers, CloserStep(x) PROVE Reader'
  <2>1. UNCHANGED <<reading, paused, pending>>
    BY <1>14 DEF CloserStep, CloseDone, CloseTimesOut, CloseForced
  <2>2. CASE CloseDone(x) \/ CloseForced(x)
    <3>1. pc[x] # "init" /\ Onwards(x)
      BY <2>2 DEF CloseDone, CloseForced
    <3>2. pc'["exit"] = "init" => pc["exit"] = "init"
      BY <3>1, OnwardsLife DEF Closers
    <3> QED BY <2>1, <3>1, <3>2, OnwardsLife, ReaderStays
  <2>3. CASE CloseTimesOut(x)
    <3>1. (pc'["exit"] = "init" => pc["exit"] = "init") /\ UNCHANGED life
      BY <2>3 DEF CloseTimesOut, TypeOK, Closers
    <3> QED BY <2>1, <3>1, ReaderStays
  <2> QED BY <1>14, <2>2, <2>3 DEF CloserStep
<1>15. CASE Rest \/ UNCHANGED vars
  BY <1>15, ReaderStays DEF Rest, vars
<1> QED
  BY <1>1, <1>2, <1>3, <1>4, <1>5, <1>6, <1>7, <1>8, <1>9, <1>10, <1>11, <1>12, <1>13, <1>14,
     <1>15
  DEF Next, WriterStep, RouteStep

InLockEnd == pc["end"] \in {"close", "stop", "term"}

\* Nobody enters.
LEMMA LockStays ==
    ASSUME Lock, \A c \in Socks : InLock(c)' => InLock(c), InLockEnd' => InLockEnd
    PROVE  Lock'
  BY DEF Lock, InLockEnd

\* A socket that is inside, or enters when nobody is.
LEMMA LockMine ==
    ASSUME TypeOK, Lock, NEW c \in Socks, InLock(c) \/ ~Locked,
           \A d \in Socks \ {c} : pc'[d] = pc[d], pc'["end"] = pc["end"]
    PROVE  Lock'
<1>1. ~InLockEnd /\ \A d \in Socks \ {c} : ~InLock(d)
  <2>1. CASE InLock(c)
    BY <2>1 DEF Lock, InLockEnd
  <2>2. CASE ~Locked
    BY <2>2 DEF Locked, InLock, InLockEnd
  <2> QED BY <2>1, <2>2
<1>2. ~InLockEnd' /\ \A d \in Socks \ {c} : ~InLock(d)'
  BY <1>1 DEF InLock, InLockEnd
<1> QED BY <1>2 DEF Lock, InLockEnd

LEMMA NextLock == TypeOK /\ Lock /\ [Next]_vars => Lock'
<1> SUFFICES ASSUME TypeOK, Lock, [Next]_vars PROVE Lock'
  OBVIOUS
<1>1. CASE Read \/ ChildExits \/ Rest \/ UNCHANGED vars
  BY <1>1, LockStays DEF Read, ChildExits, Rest, vars, InLock, InLockEnd
<1>2. CASE Eof \/ TermDone
  <2>1. (InLockEnd' => InLockEnd) /\ \A c \in Socks : pc'[c] = pc[c]
    BY <1>2, Apart DEF Eof, TermDone, InLockEnd, TypeOK, Closers
  <2> QED BY <2>1, LockStays DEF InLock
<1>3. CASE End
  <2>1. \A c \in Socks : pc'[c] = pc[c] /\ ~InLock(c)
    BY <1>3, Apart DEF End, CloseQueued, TypeOK, Closers, Locked, InLock
  <2> QED BY <2>1 DEF Lock, InLock
<1>4. CASE HandleExit
  <2>1. pc'["end"] = pc["end"] /\ \A c \in Socks : pc'[c] = pc[c]
    BY <1>4, Apart DEF HandleExit, CloseQueued, TypeOK, Closers
  <2> QED BY <2>1, LockStays DEF InLock, InLockEnd
<1>5. ASSUME NEW c \in Socks, WriterStep(c) \/ Disconnect(c) PROVE Lock'
  <2>1. UNCHANGED pc
    BY <1>5 DEF WriterStep, Take, Sent, SentClose, SendFails, Cancelled, Disconnect
  <2> QED BY <2>1, LockStays DEF InLock, InLockEnd
<1>6. ASSUME NEW c \in Socks, Attach(c) \/ Evict(c) \/ EvictDone(c) PROVE Lock'
  <2>1. InLock(c) \/ ~Locked
    BY <1>6 DEF Attach, Evict, EvictDone, InLock
  <2>2. pc'["end"] = pc["end"] /\ \A d \in Socks \ {c} : pc'[d] = pc[d]
    BY <1>6, Apart DEF Attach, Attached, Evict, EvictDone, TypeOK, Closers
  <2> QED BY <2>1, <2>2, LockMine
<1>7. ASSUME NEW c \in Socks, ReplayDone(c) \/ Detach(c) \/ DetachDone(c) PROVE Lock'
  <2>1. pc'["end"] = pc["end"] /\ ~InLock(c)' /\ \A d \in Socks \ {c} : pc'[d] = pc[d]
    BY <1>7, Apart DEF ReplayDone, Detach, DetachDone, TypeOK, Closers, InLock
  <2> QED BY <2>1, LockStays DEF InLock, InLockEnd
<1>8. ASSUME NEW c \in Socks, AuthCloses(c) PROVE Lock'
  <2>1. pc'["end"] = pc["end"] /\ \A d \in Socks : pc'[d] = pc[d]
    BY <1>8, Apart DEF AuthCloses, CloseQueued, TypeOK, Closers
  <2> QED BY <2>1, LockStays DEF InLock, InLockEnd
<1>9. ASSUME NEW x \in Closers, CloserStep(x) PROVE Lock'
  <2>1. \A d \in Socks : pc'[d] = pc[d]
    BY <1>9, Apart DEF CloserStep, CloseDone, CloseTimesOut, CloseForced, Onwards, TypeOK
  <2>2. InLockEnd' => InLockEnd
    BY <1>9 DEF CloserStep, CloseDone, CloseTimesOut, CloseForced, Onwards, TypeOK, Closers,
                InLockEnd
  <2> QED BY <2>1, <2>2, LockStays DEF InLock
<1> QED
  BY <1>1, <1>2, <1>3, <1>4, <1>5, <1>6, <1>7, <1>8, <1>9
  DEF Next, RouteStep

-----------------------------------------------------------------------------
(* What is pending *)

LEMMA HeldNext == \A c : Held(c)' = Size(current'[c]) + Amount(queue'[c])
  BY DEF Held, Amount

LEMMA NoneSize == Size(None) = 0
  BY DEF Size

LEMMA ExactEnqueued ==
    ASSUME TypeOK, Streams, Exact, NEW c \in Socks, NEW f \in Sized, Enqueued(c, f),
           UNCHANGED current
    PROVE  Exact'
<1>1. /\ queue[c] \in Seq(Sized) /\ Size(current[c]) \in Nat /\ Amount(queue[c]) \in Nat
      /\ Held(c) = Size(current[c]) + Amount(queue[c])
  BY SockHolds
<1>2. Size(f) \in Nat /\ pending \in Nat
  BY DEF Sized, TypeOK
<1>3. queue'[c] = Append(queue[c], f) /\ pending' = pending + Size(f) /\ current'[c] = current[c]
      /\ \A d \in Socks \ {c} : queue'[d] = queue[d] /\ current'[d] = current[d]
  BY DEF Enqueued, TypeOK
<1>4. Amount(queue'[c]) = Amount(queue[c]) + Size(f)
  BY <1>1, <1>3, AmountAppend
<1>5. Held(c)' = Held(c) + Size(f)
  <2>1. Held(c)' = Size(current[c]) + (Amount(queue[c]) + Size(f))
    BY <1>3, <1>4, HeldNext
  <2> QED BY <1>1, <1>2, <2>1
<1>6. Held(c)' \in Nat /\ pending' = pending - Held(c) + Held(c)'
  BY <1>1, <1>2, <1>3, <1>5
<1> QED BY <1>3, <1>6, ExactChange

LEMMA ExactEnded ==
    ASSUME TypeOK, Streams, Exact, NEW c \in Socks, Ended(c)
    PROVE  Exact'
<1>1. queue'[c] = <<>> /\ current'[c] = None /\ pending' = pending - Held(c)
      /\ \A d \in Socks \ {c} : queue'[d] = queue[d] /\ current'[d] = current[d]
  BY DEF Ended, TypeOK
<1>2. Held(c)' = 0
  BY <1>1, HeldNext, NoneSize, AmountEmpty
<1>3. Held(c) \in Nat /\ pending \in Nat
  BY PendingHeld
<1> QED BY <1>1, <1>2, <1>3, ExactChange

LEMMA ExactAttached ==
    ASSUME TypeOK, Streams, Exact, NEW c \in Socks, Attached(c), UNCHANGED current
    PROVE  Exact'
<1>1. CASE n = 0
  BY <1>1, ExactSame DEF Attached
<1>2. CASE n # 0
  <2>1. Enqueued(c, Out(First, n))
    BY <1>2 DEF Attached, First
  <2>2. Out(First, n) \in Sized
    BY <1>2, FrameReplay DEF Sized
  <2> QED BY <2>1, <2>2, ExactEnqueued
<1> QED BY <1>1, <1>2

LEMMA ControlSized ==
    /\ Control("close") \in Sized /\ Control("exit") \in Sized
    /\ Size(Control("close")) = 0 /\ Size(Control("exit")) = 0
  BY ControlFrame DEF Sized

LEMMA EndingAmount ==
    ASSUME NEW q \in Seq(Sized), NEW texts \in Texts
    PROVE  Amount(Ending(q, texts)) = Amount(q)
<1> DEFINE a == Control("exit")
           b == Control("close")
<1>1. a \in Sized /\ b \in Sized /\ Size(a) = 0 /\ Size(b) = 0
  BY ControlSized
<1>2. q \in Seq(Frame)
  BY DEF Sized
<1>3. Ending(q, <<>>) = Append(q, b) /\ Ending(q, <<Control("exit")>>) = Append(Append(q, a), b)
  BY <1>2, EndingIs
<1> HIDE DEF a, b
<1>4. \A r \in Seq(Sized) : Amount(r) \in Nat
  BY AmountNat
<1>5. Append(q, b) \in Seq(Sized) /\ Amount(Append(q, b)) = Amount(q)
  BY <1>1, <1>4, AmountAppend
<1>6. Append(q, a) \in Seq(Sized) /\ Amount(Append(q, a)) = Amount(q)
  BY <1>1, <1>4, AmountAppend
<1>7. Amount(Append(Append(q, a), b)) = Amount(q)
  <2> DEFINE r == Append(q, a)
  <2>1. r \in Seq(Sized) /\ Amount(r) = Amount(q) /\ Amount(r) \in Nat
    BY <1>4, <1>6
  <2> HIDE DEF r
  <2>2. Amount(Append(r, b)) = Amount(r) + Size(b)
    BY <1>1, <2>1, AmountAppend
  <2>3. Amount(Append(r, b)) = Amount(q)
    BY <1>1, <2>1, <2>2
  <2> QED BY <2>3 DEF r
<1> QED BY <1>3, <1>5, <1>7 DEF Texts

LEMMA ExactQueued ==
    ASSUME TypeOK, Streams, Exact, NEW x, NEW c \in Socks \cup {None}, NEW texts \in Texts,
           NEW next, CloseQueued(x, c, texts, next), UNCHANGED <<current, pending>>
    PROVE  Exact'
<1>1. CASE c # None /\ writer = c
  <2>1. c \in Socks
    BY <1>1
  <2>2. queue'[c] = Ending(queue[c], texts) /\ current'[c] = current[c]
        /\ \A d \in Socks \ {c} : queue'[d] = queue[d] /\ current'[d] = current[d]
    BY <1>1, <2>1 DEF CloseQueued, Ending, TypeOK
  <2>3. /\ queue[c] \in Seq(Sized) /\ Held(c) \in Nat
        /\ Held(c) = Size(current[c]) + Amount(queue[c])
    BY <2>1, SockHolds
  <2>4. Held(c)' = Held(c)
    BY <2>2, <2>3, HeldNext, EndingAmount
  <2>5. pending' = pending - Held(c) + Held(c)'
    BY <2>3, <2>4 DEF TypeOK
  <2> QED BY <2>1, <2>2, <2>3, <2>4, <2>5, ExactChange
<1>2. CASE ~(c # None /\ writer = c)
  BY <1>2, ExactSame DEF CloseQueued
<1> QED BY <1>1, <1>2

LEMMA NextExact == TypeOK /\ Streams /\ Exact /\ [Next]_vars => Exact'
<1> SUFFICES ASSUME TypeOK, Streams, Exact, [Next]_vars PROVE Exact'
  OBVIOUS
<1>1. CASE Read
  <2>1. CASE ws # None /\ writer # None
    <3>1. writer \in Socks /\ Out(n + 1, n + 1) \in Sized
      BY <1>1, <2>1, FrameRead DEF Read, TypeOK, Sized
    <3>2. Enqueued(writer, Out(n + 1, n + 1)) /\ UNCHANGED current
      BY <1>1, <2>1 DEF Read
    <3> QED BY <3>1, <3>2, ExactEnqueued
  <2>2. CASE ~(ws # None /\ writer # None)
    BY <1>1, <2>2, ExactSame DEF Read
  <2> QED BY <2>1, <2>2
<1>2. CASE ChildExits \/ Eof \/ TermDone \/ Rest \/ UNCHANGED vars
  BY <1>2, ExactSame DEF ChildExits, Eof, TermDone, Rest, vars
<1>3. CASE End
  BY <1>3, ExactQueued DEF End, TypeOK, Texts
<1>4. CASE HandleExit
  <2>1. CASE life = "dead"
    BY <1>4, <2>1, ExactSame DEF HandleExit
  <2>2. CASE life # "dead"
    BY <1>4, <2>2, ExactQueued DEF HandleExit, TypeOK, Texts
  <2> QED BY <2>1, <2>2
<1>5. ASSUME NEW c \in Socks, Take(c) PROVE Exact'
  <2>1. /\ queue[c] \in Seq(Sized) /\ queue[c] # <<>> /\ current[c] = None
        /\ Held(c) = Size(current[c]) + Amount(queue[c]) /\ Held(c) \in Nat
        /\ Amount(queue[c]) \in Nat
    BY <1>5, SockHolds DEF Take
  <2>2. queue'[c] = Tail(queue[c]) /\ current'[c] = Head(queue[c]) /\ pending' = pending
        /\ \A d \in Socks \ {c} : queue'[d] = queue[d] /\ current'[d] = current[d]
    BY <1>5 DEF Take, TypeOK
  <2>3. Amount(queue[c]) = Size(Head(queue[c])) + Amount(Tail(queue[c]))
    BY <2>1, AmountHead
  <2>4. Held(c)' = Held(c)
    <3>1. Held(c)' = Amount(queue[c])
      BY <2>2, <2>3, HeldNext
    <3>2. Held(c) = Amount(queue[c])
      BY <2>1, NoneSize
    <3> QED BY <3>1, <3>2
  <2>5. pending' = pending - Held(c) + Held(c)'
    BY <2>1, <2>2, <2>4 DEF TypeOK
  <2> QED BY <2>1, <2>2, <2>4, <2>5, ExactChange
<1>6. ASSUME NEW c \in Socks, Sent(c) PROVE Exact'
  <2>1. /\ Size(current[c]) \in Nat /\ Amount(queue[c]) \in Nat
        /\ Held(c) = Size(current[c]) + Amount(queue[c]) /\ Held(c) \in Nat
        /\ pending \in Nat
    BY SockHolds DEF TypeOK
  <2>2. queue' = queue /\ current'[c] = None /\ pending' = pending - Size(current[c])
        /\ \A d \in Socks \ {c} : queue'[d] = queue[d] /\ current'[d] = current[d]
    BY <1>6 DEF Sent, TypeOK
  <2>3. Held(c)' = Amount(queue[c])
    BY <2>1, <2>2, HeldNext, NoneSize
  <2>4. pending' = pending - Held(c) + Held(c)'
    BY <2>1, <2>2, <2>3
  <2> QED BY <2>1, <2>2, <2>3, <2>4, ExactChange
<1>7. ASSUME NEW c \in Socks, SentClose(c) \/ SendFails(c) \/ Cancelled(c) PROVE Exact'
  BY <1>7, ExactEnded DEF SentClose, SendFails, Cancelled
<1>8. ASSUME NEW c \in Socks, Attach(c) \/ EvictDone(c) PROVE Exact'
  <2>1. CASE Attached(c)
    BY <1>8, <2>1, ExactAttached DEF Attach, EvictDone
  <2>2. CASE ~Attached(c)
    BY <1>8, <2>2, ExactSame DEF Attach, EvictDone
  <2> QED BY <2>1, <2>2
<1>9. ASSUME NEW c \in Socks,
             Evict(c) \/ ReplayDone(c) \/ Disconnect(c) \/ Detach(c) \/ DetachDone(c)
      PROVE  Exact'
  BY <1>9, ExactSame DEF Evict, ReplayDone, Disconnect, Detach, DetachDone
<1>10. ASSUME NEW c \in Socks, AuthCloses(c) PROVE Exact'
  BY <1>10, ExactQueued DEF AuthCloses, Texts
<1>11. ASSUME NEW x \in Closers, CloserStep(x) PROVE Exact'
  BY <1>11, ExactSame DEF CloserStep, CloseDone, CloseTimesOut, CloseForced
<1> QED
  BY <1>1, <1>2, <1>3, <1>4, <1>5, <1>6, <1>7, <1>8, <1>9, <1>10, <1>11
  DEF Next, WriterStep, RouteStep

-----------------------------------------------------------------------------
(* The streams *)

Fine(c) ==
    /\ Coherent(Stream(c), n, life)
    /\ ws = c /\ writer = c /\ n > 0 => UpTo(Stream(c), Len(Stream(c)), n)

LEMMA StreamsFine == Streams <=> \A c \in Socks : Fine(c)
  BY DEF Streams, Fine

LEMMA StreamsFineNext == (\A c \in Socks : Fine(c)') => Streams'
  BY DEF Streams, Fine

LEMMA StreamNext == \A c : Stream(c)' = Joined(got'[c], current'[c], queue'[c])
  BY DEF Stream, Joined

LEMMA StreamSame ==
    ASSUME NEW c, got'[c] = got[c], current'[c] = current[c], queue'[c] = queue[c]
    PROVE  Stream(c)' = Stream(c)
  BY StreamJoined, StreamNext

\* Steps that leave the stream of c alone.
LEMMA FineStays ==
    ASSUME TypeOK, NEW c \in Socks, Fine(c), Stream(c)' = Stream(c), n' \in Nat, n <= n',
           n' > n => life # "dead" /\ ~(ws' = c /\ writer' = c), life = "dead" => life' = "dead",
           ws' = c /\ writer' = c => ws = c /\ writer = c
    PROVE  Fine(c)'
<1>1. n \in Nat /\ Stream(c) \in Seq(Frame)
  BY SockTypes DEF TypeOK
<1>2. Coherent(Stream(c), n', life')
  <2>1. Coherent(Stream(c), n, life)
    BY DEF Fine
  <2> QED BY <1>1, <2>1, CoherentLater
<1>3. Coherent(Stream(c), n, life)'
  BY <1>2
<1>4. CASE n' = n
  BY <1>2, <1>4 DEF Fine
<1>5. CASE n' # n
  <2>1. ~(ws' = c /\ writer' = c)
    BY <1>1, <1>5
  <2> QED BY <1>2, <2>1 DEF Fine
<1> QED BY <1>4, <1>5

\* Steps that drop the end of it.
LEMMA FineCut ==
    ASSUME TypeOK, NEW c \in Socks, Fine(c), Stream(c)' \in Seq(Frame),
           Prefix(Stream(c)', Stream(c)), UNCHANGED <<n, life>>, writer' # c
    PROVE  Fine(c)'
<1>1. n \in Nat /\ Stream(c) \in Seq(Frame)
  BY SockTypes DEF TypeOK
<1>2. Coherent(Stream(c)', n, life)
  <2> DEFINE r == Stream(c)'
             s == Stream(c)
  <2>1. r \in Seq(Frame) /\ s \in Seq(Frame) /\ Prefix(r, s) /\ Coherent(s, n, life)
    BY <1>1 DEF Fine
  <2> HIDE DEF r, s
  <2>2. Coherent(r, n, life)
    BY <1>1, <2>1, CoherentCut
  <2> QED BY <2>2 DEF r
<1> QED BY <1>2 DEF Fine

LEMMA StreamAppend ==
    ASSUME TypeOK, NEW c \in Socks, NEW f \in Frame, queue'[c] = Append(queue[c], f),
           got'[c] = got[c], current'[c] = current[c]
    PROVE  Stream(c)' = Append(Stream(c), f)
<1> DEFINE g == got[c]
           u == current[c]
           q == queue[c]
<1>1. g \in Seq(Frame) /\ q \in Seq(Frame) /\ u \in Frame \cup {None}
      /\ Stream(c) = Joined(g, u, q)
  BY SockTypes
<1>2. Stream(c)' = Joined(g, u, Append(q, f))
  BY StreamNext
<1> HIDE DEF g, u, q
<1>3. Joined(g, u, Append(q, f)) = Append(Joined(g, u, q), f)
  BY <1>1, JoinedAppend
<1> QED BY <1>1, <1>2, <1>3

LEMMA StreamEnding ==
    ASSUME TypeOK, NEW c \in Socks, NEW texts \in Texts,
           queue'[c] = Ending(queue[c], texts), got'[c] = got[c], current'[c] = current[c]
    PROVE  Stream(c)' = Ending(Stream(c), texts)
<1> DEFINE a == Control("exit")
           b == Control("close")
           g == got[c]
           u == current[c]
           q == queue[c]
           s == Stream(c)
<1>1. a \in Frame /\ b \in Frame
  BY ControlFrame
<1>2. g \in Seq(Frame) /\ q \in Seq(Frame) /\ u \in Frame \cup {None}
      /\ s = Joined(g, u, q) /\ s \in Seq(Frame)
  BY SockTypes
<1>3. /\ Ending(q, <<>>) = Append(q, b) /\ Ending(q, <<Control("exit")>>) = Append(Append(q, a), b)
      /\ Ending(s, <<>>) = Append(s, b) /\ Ending(s, <<Control("exit")>>) = Append(Append(s, a), b)
  BY <1>2, EndingIs
<1>4. Stream(c)' = Joined(g, u, Ending(q, texts))
  BY StreamNext
<1> HIDE DEF a, b, g, u, q, s
<1>5. \A r \in Seq(Frame) : \A f \in Frame :
        Append(r, f) \in Seq(Frame) /\ Joined(g, u, Append(r, f)) = Append(Joined(g, u, r), f)
  BY <1>2, JoinedAppend
<1>6. Joined(g, u, Append(q, b)) = Append(s, b)
  BY <1>1, <1>2, <1>5
<1>7. Append(q, a) \in Seq(Frame) /\ Joined(g, u, Append(q, a)) = Append(s, a)
  BY <1>1, <1>2, <1>5
<1>8. Joined(g, u, Append(Append(q, a), b)) = Append(Append(s, a), b)
  <2> DEFINE r == Append(q, a)
  <2>1. r \in Seq(Frame) /\ Joined(g, u, r) = Append(s, a)
    BY <1>7
  <2> HIDE DEF r
  <2>2. Joined(g, u, Append(r, b)) = Append(Append(s, a), b)
    BY <1>1, <1>5, <2>1
  <2> QED BY <2>2 DEF r
<1>9. Joined(g, u, Ending(q, texts)) = Ending(s, texts)
  BY <1>3, <1>6, <1>8 DEF Texts
<1> QED BY <1>4, <1>9 DEF s

\* A close for c, whose session goes on or ends.
LEMMA FineClosing ==
    ASSUME TypeOK, NEW c \in Socks, Fine(c), queue'[c] = Ending(queue[c], <<>>),
           got'[c] = got[c], current'[c] = current[c], UNCHANGED n,
           life = "dead" => life' = "dead", ws' \in {ws, None}, UNCHANGED writer
    PROVE  Fine(c)'
<1> DEFINE s == Stream(c)
           b == Control("close")
<1>1. s \in Seq(Frame) /\ n \in Nat /\ b \in Frame /\ b.kind = "close"
  BY SockTypes, ControlFrame DEF TypeOK
<1>2. Coherent(s, n, life) /\ (ws = c /\ writer = c /\ n > 0 => UpTo(s, Len(s), n))
  BY DEF Fine
<1>3. Stream(c)' = Append(s, b)
  BY <1>1, StreamEnding, EndingIs DEF Texts
<1>4. Coherent(Append(s, b), n, life)
  BY <1>1, <1>2, CoherentClose
<1>5. Append(s, b) \in Seq(Frame)
  BY <1>1
<1> HIDE DEF s, b
<1>6. Coherent(Append(s, b), n, life')
  <2> DEFINE r == Append(s, b)
  <2>1. r \in Seq(Frame) /\ Coherent(r, n, life) /\ n \in Nat /\ n <= n /\ ~(n > n)
    BY <1>1, <1>4, <1>5
  <2> HIDE DEF r
  <2>2. Coherent(r, n, life')
    BY <2>1, CoherentLater
  <2> QED BY <2>2 DEF r
<1>7. ws = c /\ writer = c /\ n > 0 => UpTo(Append(s, b), Len(Append(s, b)), n)
  BY <1>1, <1>2, UpToControl
<1>8. ws' = c => ws = c
  BY NoneFrame
<1> QED BY <1>3, <1>6, <1>7, <1>8 DEF Fine

\* The exit text for the attached socket.
LEMMA FineExit ==
    ASSUME TypeOK, NEW c \in Socks, Fine(c), queue'[c] = Ending(queue[c], <<Control("exit")>>),
           got'[c] = got[c], current'[c] = current[c], UNCHANGED n,
           life # "dead", life' = "dead", ws = c, writer = c, ws' = None
    PROVE  Fine(c)'
<1> DEFINE s == Stream(c)
           a == Control("exit")
           b == Control("close")
<1>1. s \in Seq(Frame) /\ n \in Nat /\ a \in Frame
  BY SockTypes, ControlFrame DEF TypeOK
<1>2. Coherent(s, n, life) /\ (n > 0 => UpTo(s, Len(s), n))
  BY DEF Fine
<1>3. Stream(c)' = Append(Append(s, a), b)
  BY <1>1, StreamEnding, EndingIs DEF Texts
<1>4. Coherent(Append(s, a), n, "dead")
  BY <1>1, <1>2, CoherentExit
<1>5. Append(s, a) \in Seq(Frame)
  BY <1>1
<1>6. Coherent(Append(Append(s, a), b), n, "dead")
  <2> DEFINE r == Append(s, a)
  <2>1. r \in Seq(Frame) /\ Coherent(r, n, "dead")
    BY <1>4, <1>5
  <2> HIDE DEF r, s, a
  <2>2. Coherent(Append(r, b), n, "dead")
    BY <2>1, CoherentClose
  <2> QED BY <2>2 DEF r
<1>7. ws' # c
  BY NoneFrame
<1> QED BY <1>3, <1>6, <1>7 DEF Fine

\* Steps that concern the other sockets.
LEMMA FineElse ==
    ASSUME TypeOK, NEW c \in Socks, Fine(c), got'[c] = got[c], current'[c] = current[c],
           queue'[c] = queue[c], UNCHANGED n, life = "dead" => life' = "dead",
           ws' = c /\ writer' = c => ws = c /\ writer = c
    PROVE  Fine(c)'
<1>1. Stream(c)' = Stream(c)
  BY StreamSame
<1>2. n' \in Nat /\ n <= n' /\ ~(n' > n)
  BY DEF TypeOK
<1> QED BY <1>1, <1>2, FineStays

LEMMA StreamsStay ==
    ASSUME TypeOK, Streams, UNCHANGED <<got, current, queue, n, writer>>, ws' \in {ws, None},
           life = "dead" => life' = "dead"
    PROVE  Streams'
<1> SUFFICES ASSUME NEW c \in Socks PROVE Fine(c)'
  BY StreamsFineNext
<1>1. Fine(c) /\ (ws' = c => ws = c)
  BY StreamsFine, NoneFrame
<1> QED BY <1>1, FineElse

\* The next chunk, for the attached socket and for the others.
LEMMA FineRead ==
    ASSUME TypeOK, Roles, Streams, Reader, Read, NEW c \in Socks
    PROVE  Fine(c)'
<1>1. /\ Fine(c) /\ n \in Nat /\ n' = n + 1 /\ n + 1 \in 0..MaxOut /\ life # "dead"
      /\ UNCHANGED <<ws, writer, got, current, life>>
  <2>1. n \in Nat /\ MaxOut \in Nat /\ n < MaxOut /\ n' = n + 1 /\ life # "dead"
    BY WatermarkAssumption DEF Read, Reader, TypeOK
  <2>2. n + 1 \in 0..MaxOut
    BY <2>1
  <2>3. UNCHANGED <<ws, writer, got, current, life>> /\ Fine(c)
    BY StreamsFine DEF Read
  <2> QED BY <2>1, <2>2, <2>3
<1>2. CASE ws = c /\ writer = c
  <2> DEFINE s == Stream(c)
             f == Out(n + 1, n + 1)
  <2>1. s \in Seq(Frame) /\ f \in Frame
    BY <1>1, SockTypes, FrameRead DEF Read
  <2>2. Coherent(s, n, life) /\ (n > 0 => UpTo(s, Len(s), n))
    BY <1>1, <1>2 DEF Fine
  <2>3. queue'[c] = Append(queue[c], f)
    <3>1. Enqueued(c, f)
      BY <1>2, NoneFrame DEF Read
    <3> QED BY <3>1 DEF Enqueued, TypeOK
  <2>4. Stream(c)' = Append(s, f)
    BY <1>1, <2>1, <2>3, StreamAppend
  <2>5. /\ Coherent(Append(s, f), n + 1, life)
        /\ UpTo(Append(s, f), Len(Append(s, f)), n + 1)
    <3> HIDE DEF s
    <3> QED BY <1>1, <2>1, <2>2, CoherentOut
  <2> QED BY <1>1, <2>4, <2>5 DEF Fine
<1>3. CASE ~(ws = c /\ writer = c)
  <2>1. queue'[c] = queue[c]
    <3>1. CASE ws # None /\ writer # None
      <4>1. Enqueued(writer, Out(n + 1, n + 1)) /\ writer = ws /\ writer # c
        BY <3>1, <1>3 DEF Read, Roles
      <4> QED BY <4>1 DEF Enqueued, TypeOK
    <3>2. CASE ~(ws # None /\ writer # None)
      BY <3>2 DEF Read
    <3> QED BY <3>1, <3>2
  <2>2. Stream(c)' = Stream(c)
    BY <1>1, <2>1, StreamSame
  <2>3. n' \in Nat /\ n <= n' /\ ~(ws' = c /\ writer' = c)
    BY <1>1, <1>3
  <2> QED BY <1>1, <2>2, <2>3, FineStays
<1> QED BY <1>2, <1>3

LEMMA FineAttached ==
    ASSUME TypeOK, Roles, NEW c \in Socks, New(c), Attached(c),
           UNCHANGED <<n, life, current, got>>
    PROVE  Fine(c)'
<1>1. got'[c] = <<>> /\ current'[c] = None /\ queue[c] = <<>> /\ n \in Nat
  BY DEF Roles, TypeOK
<1>2. Stream(c)' = queue'[c]
  <2>1. Stream(c)' = <<>> \o <<>> \o queue'[c]
    BY <1>1 DEF Stream
  <2>2. queue'[c] \in Seq(Frame)
    BY AttachedTypes
  <2>3. \A q \in Seq(Frame) : <<>> \o <<>> \o q = q
    OBVIOUS
  <2> QED BY <2>1, <2>2, <2>3
<1>3. CASE n = 0
  <2>1. Stream(c)' = <<>>
    BY <1>1, <1>2, <1>3 DEF Attached
  <2>2. Coherent(<<>>, n, life)
    BY DEF Coherent
  <2> QED BY <1>3, <2>1, <2>2 DEF Fine
<1>4. CASE n # 0
  <2>1. Enqueued(c, Out(First, n))
    BY <1>4 DEF Attached, First
  <2>2. Stream(c)' = <<Out(First, n)>>
    <3>1. queue'[c] = Append(<<>>, Out(First, n))
      BY <1>1, <2>1 DEF Enqueued, TypeOK
    <3> QED BY <1>2, <3>1
  <2>3. /\ First \in Nat \ {0} /\ First <= n /\ n - First + 1 <= Buffer /\ n \in 0..MaxOut
    BY <1>4, FrameReplay DEF TypeOK
  <2>4. /\ Coherent(<<Out(First, n)>>, n, life)
        /\ UpTo(<<Out(First, n)>>, 1, n)
    BY <1>1, <2>3, CoherentReplay
  <2>5. Len(<<Out(First, n)>>) = 1
    OBVIOUS
  <2>6. UpTo(Stream(c)', Len(Stream(c)'), n) /\ Coherent(Stream(c)', n, life)
    BY <2>2, <2>4, <2>5
  <2> QED BY <2>6 DEF Fine
<1> QED BY <1>3, <1>4

LEMMA StreamsAttached ==
    ASSUME TypeOK, Roles, Streams, NEW c \in Socks, New(c), Attached(c),
           UNCHANGED <<n, life, current, got>>
    PROVE  Streams'
<1> SUFFICES ASSUME NEW d \in Socks PROVE Fine(d)'
  BY StreamsFineNext
<1>1. CASE d = c
  BY <1>1, FineAttached
<1>2. CASE d # c
  <2>1. ws' # d /\ queue'[d] = queue[d] /\ Fine(d)
    BY <1>2, StreamsFine DEF Attached, Enqueued, TypeOK
  <2> QED BY <2>1, FineElse
<1> QED BY <1>1, <1>2

\* The writer of c ends.
LEMMA FineEnded ==
    ASSUME TypeOK, Streams, NEW c \in Socks, Ended(c), UNCHANGED <<n, life>>,
           got'[c] = got[c] \/ (current[c] # None /\ Received(c))
    PROVE  Fine(c)'
<1> DEFINE g == got[c]
           u == current[c]
           q == queue[c]
           h == got'[c]
           s == Stream(c)
<1>1. Fine(c) /\ g \in Seq(Frame) /\ q \in Seq(Frame) /\ u \in Frame \cup {None}
      /\ s = Joined(g, u, q)
  BY StreamsFine, SockTypes
<1>2. h = g \/ (u # None /\ h = Append(g, u))
  BY DEF Received, TypeOK
<1>3. Stream(c)' = Joined(h, None, <<>>)
  <2>1. queue'[c] = <<>> /\ current'[c] = None
    BY DEF Ended, TypeOK
  <2> QED BY <2>1, StreamNext
<1>4. writer' # c
  BY NoneFrame DEF Ended
<1> HIDE DEF g, u, q, h, s
<1>5. h \in Seq(Frame) /\ Prefix(h, s)
  <2>1. CASE h = g
    BY <2>1, <1>1, JoinedCut
  <2>2. CASE u # None /\ h = Append(g, u)
    BY <2>2, <1>1, JoinedCut
  <2> QED BY <1>2, <2>1, <2>2
<1>6. Joined(h, None, <<>>) = h
  <2>1. <<>> \in Seq(Frame) /\ None \in Frame \cup {None}
    OBVIOUS
  <2> QED BY <1>5, <2>1, JoinedCut
<1>7. Stream(c)' \in Seq(Frame) /\ Prefix(Stream(c)', Stream(c))
  BY <1>3, <1>5, <1>6 DEF s
<1> QED BY <1>1, <1>4, <1>7, FineCut

LEMMA StreamsEnded ==
    ASSUME TypeOK, Streams, NEW c \in Socks, Ended(c), UNCHANGED <<n, life, ws>>,
           UNCHANGED got \/ (current[c] # None /\ Received(c))
    PROVE  Streams'
<1> SUFFICES ASSUME NEW d \in Socks PROVE Fine(d)'
  BY StreamsFineNext
<1>1. CASE d = c
  <2>1. got'[c] = got[c] \/ (current[c] # None /\ Received(c))
    OBVIOUS
  <2> QED BY <1>1, <2>1, FineEnded
<1>2. CASE d # c
  <2>1. /\ got'[d] = got[d] /\ current'[d] = current[d] /\ queue'[d] = queue[d]
        /\ (writer' = d => writer = d) /\ Fine(d)
    BY <1>2, StreamsFine, NoneFrame DEF Ended, Received, TypeOK
  <2> QED BY <2>1, FineElse
<1> QED BY <1>1, <1>2

\* A close, alone or after the exit text, for the socket that is attached.
LEMMA StreamsQueued ==
    ASSUME TypeOK, Streams, NEW x, NEW c \in Socks \cup {None}, NEW texts \in Texts, NEW next,
           CloseQueued(x, c, texts, next), UNCHANGED <<n, current, got, writer>>,
           life = "dead" => life' = "dead", ws' \in {ws, None},
           texts # <<>> => life # "dead" /\ life' = "dead" /\ c = ws /\ ws' = None
    PROVE  Streams'
<1>1. CASE c # None /\ writer = c
  <2>1. c \in Socks /\ queue'[c] = Ending(queue[c], texts)
        /\ \A d \in Socks \ {c} : queue'[d] = queue[d]
    BY <1>1 DEF CloseQueued, Ending, TypeOK
  <2> SUFFICES ASSUME NEW d \in Socks PROVE Fine(d)'
    BY StreamsFineNext
  <2>2. Fine(d) /\ (ws' = d => ws = d)
    BY StreamsFine, NoneFrame
  <2>3. CASE d # c
    BY <2>1, <2>2, <2>3, FineElse
  <2>4. CASE d = c /\ texts = <<>>
    BY <2>1, <2>2, <2>4, FineClosing
  <2>5. CASE d = c /\ texts # <<>>
    <3>1. texts = <<Control("exit")>>
      BY <2>5 DEF Texts
    <3> QED BY <1>1, <2>1, <2>2, <2>5, <3>1, FineExit
  <2> QED BY <2>3, <2>4, <2>5
<1>2. CASE ~(c # None /\ writer = c)
  <2>1. UNCHANGED queue
    BY <1>2 DEF CloseQueued
  <2> QED BY <2>1, StreamsStay
<1> QED BY <1>1, <1>2

\* A frame that is taken or sent stays where it is in its stream.
LEMMA TakeStream ==
    ASSUME TypeOK, NEW c \in Socks, Take(c) \/ Sent(c), NEW d \in Socks
    PROVE  Stream(d)' = Stream(d)
<1>1. CASE d # c
  <2>1. got'[d] = got[d] /\ current'[d] = current[d] /\ queue'[d] = queue[d]
    BY <1>1 DEF Take, Sent, Received, TypeOK
  <2> QED BY <2>1, StreamSame
<1>2. CASE d = c /\ Take(c)
  <2>1. /\ got'[c] = got[c] /\ current'[c] = Head(queue[c]) /\ queue'[c] = Tail(queue[c])
        /\ current[c] = None /\ queue[c] # <<>>
    BY <1>2 DEF Take, TypeOK
  <2>2. got[c] \in Seq(Frame) /\ queue[c] \in Seq(Frame)
        /\ Stream(c) = Joined(got[c], current[c], queue[c])
    BY SockTypes
  <2>3. Joined(got[c], Head(queue[c]), Tail(queue[c])) = Joined(got[c], None, queue[c])
    BY <2>1, <2>2, JoinedTake
  <2>4. Stream(c)' = Joined(got[c], Head(queue[c]), Tail(queue[c]))
    BY <2>1, StreamNext
  <2> QED BY <1>2, <2>1, <2>2, <2>3, <2>4
<1>3. CASE d = c /\ Sent(c)
  <2>1. /\ got'[c] = Append(got[c], current[c]) /\ current'[c] = None
        /\ queue'[c] = queue[c] /\ current[c] # None
    BY <1>3 DEF Sent, Received, TypeOK
  <2>2. got[c] \in Seq(Frame) /\ queue[c] \in Seq(Frame) /\ current[c] \in Frame
        /\ Stream(c) = Joined(got[c], current[c], queue[c])
    BY <2>1, SockTypes
  <2>3. Joined(Append(got[c], current[c]), None, queue[c])
          = Joined(got[c], current[c], queue[c])
    BY <2>2, JoinedSent
  <2>4. Stream(c)' = Joined(Append(got[c], current[c]), None, queue[c])
    BY <2>1, StreamNext
  <2> QED BY <1>3, <2>2, <2>3, <2>4
<1> QED BY <1>1, <1>2, <1>3

LEMMA NextStreams == TypeOK /\ Roles /\ Streams /\ Reader /\ [Next]_vars => Streams'
<1> SUFFICES ASSUME TypeOK, Roles, Streams, Reader, [Next]_vars PROVE Streams'
  OBVIOUS
<1>1. CASE Read
  BY <1>1, FineRead, StreamsFineNext
<1>2. CASE ChildExits \/ Eof \/ TermDone \/ Rest \/ UNCHANGED vars
  BY <1>2, StreamsStay DEF ChildExits, Eof, TermDone, Rest, vars
<1>3. CASE End
  <2>1. CloseQueued("end", ws, <<>>, "term") /\ UNCHANGED <<n, current, got, writer>>
        /\ ws' = None /\ life # "dead"
    BY <1>3 DEF End
  <2> QED BY <2>1, StreamsQueued DEF TypeOK, Texts
<1>4. CASE HandleExit
  <2>1. CASE life = "dead"
    BY <1>4, <2>1, StreamsStay DEF HandleExit
  <2>2. CASE life # "dead"
    <3>1. CloseQueued("exit", ws, <<Control("exit")>>, "done")
          /\ UNCHANGED <<n, current, got, writer>> /\ ws' = None /\ life' = "dead"
      BY <1>4, <2>2 DEF HandleExit
    <3> QED BY <2>2, <3>1, StreamsQueued DEF TypeOK, Texts
  <2> QED BY <2>1, <2>2
<1>5. ASSUME NEW c \in Socks, Take(c) \/ Sent(c) PROVE Streams'
  <2> SUFFICES ASSUME NEW d \in Socks PROVE Fine(d)'
    BY StreamsFineNext
  <2>1. Fine(d) /\ UNCHANGED <<n, life, ws, writer>>
    BY <1>5, StreamsFine DEF Take, Sent
  <2>2. Stream(d)' = Stream(d)
    BY <1>5, TakeStream
  <2>3. n' \in Nat /\ n <= n' /\ ~(n' > n)
    BY <2>1 DEF TypeOK
  <2> QED BY <2>1, <2>2, <2>3, FineStays
<1>6. ASSUME NEW c \in Socks, SentClose(c) \/ SendFails(c) \/ Cancelled(c) PROVE Streams'
  BY <1>6, StreamsEnded DEF SentClose, SendFails, Cancelled
<1>7. ASSUME NEW c \in Socks, Attach(c) \/ EvictDone(c) PROVE Streams'
  <2>1. New(c) /\ UNCHANGED <<n, life, current, got>>
    BY <1>7 DEF Attach, EvictDone, New
  <2>2. CASE Attached(c)
    BY <2>1, <2>2, StreamsAttached
  <2>3. CASE ~Attached(c)
    BY <1>7, <2>3, StreamsStay DEF Attach, EvictDone
  <2> QED BY <2>2, <2>3
<1>8. ASSUME NEW c \in Socks,
             Evict(c) \/ ReplayDone(c) \/ Disconnect(c) \/ Detach(c) \/ DetachDone(c)
      PROVE  Streams'
  BY <1>8, StreamsStay DEF Evict, ReplayDone, Disconnect, Detach, DetachDone
<1>9. ASSUME NEW c \in Socks, AuthCloses(c) PROVE Streams'
  <2>1. CloseQueued("auth", c, <<>>, "done") /\ UNCHANGED <<n, current, got, writer, life, ws>>
    BY <1>9 DEF AuthCloses
  <2> QED BY <2>1, StreamsQueued DEF Texts
<1>10. ASSUME NEW x \in Closers, CloserStep(x) PROVE Streams'
  <2>1. UNCHANGED <<n, got, current, queue, writer, ws>>
    BY <1>10 DEF CloserStep, CloseDone, CloseTimesOut, CloseForced
  <2>2. life = "dead" => life' = "dead"
    BY <1>10 DEF CloserStep, CloseDone, CloseTimesOut, CloseForced, Onwards
  <2> QED BY <2>1, <2>2, StreamsStay
<1> QED
  BY <1>1, <1>2, <1>3, <1>4, <1>5, <1>6, <1>7, <1>8, <1>9, <1>10
  DEF Next, WriterStep, RouteStep

-----------------------------------------------------------------------------
(* How much can be pending *)

\* The first frame of a stream of which nothing was received.
LEMMA HeldFirst ==
    ASSUME TypeOK, Streams, NEW c \in Socks, got[c] = <<>>, Stream(c) # <<>>
    PROVE  /\ Size(Stream(c)[1]) \in Nat /\ Size(Stream(c)[1]) <= Buffer
           /\ Size(Stream(c)[1]) <= Held(c)
           /\ current[c] # None => Stream(c)[1] = current[c]
<1> DEFINE u == current[c]
           q == queue[c]
           s == Stream(c)
<1>1. /\ q \in Seq(Sized) /\ u \in Sized \cup {None} /\ Size(u) \in Nat /\ Amount(q) \in Nat
      /\ Held(c) = Size(u) + Amount(q)
  BY SockHolds
<1>2. /\ s \in Seq(Frame) /\ q \in Seq(Frame) /\ n \in Nat /\ Coherent(s, n, life)
      /\ s = <<>> \o (IF u = None THEN <<>> ELSE <<u>>) \o q
      /\ u \in Frame \cup {None}
  <2>1. s \in Seq(Frame) /\ q \in Seq(Frame) /\ u \in Frame \cup {None}
    BY SockTypes
  <2>2. Coherent(s, n, life) /\ n \in Nat
    BY DEF Streams, TypeOK
  <2>3. s = <<>> \o (IF u = None THEN <<>> ELSE <<u>>) \o q
    BY DEF Stream
  <2> QED BY <2>1, <2>2, <2>3
<1>3. s # <<>>
  OBVIOUS
<1> HIDE DEF s, u, q
<1>4. 1 \in 1..Len(s)
  BY <1>2, <1>3
<1>5. Size(s[1]) \in Nat /\ Size(s[1]) <= Buffer
  BY <1>2, <1>4, SizeSized DEF Sized
<1>6. CASE u # None
  <2>1. s[1] = u
    BY <1>2, <1>6
  <2> QED BY <1>1, <1>5, <2>1 DEF s, u
<1>7. CASE u = None
  <2>1. s = q
    BY <1>2, <1>7
  <2>2. q # <<>> /\ q[1] = Head(q)
    BY <1>3, <2>1
  <2>3. Amount(q) = Size(Head(q)) + Amount(Tail(q)) /\ Tail(q) \in Seq(Sized)
        /\ Head(q) \in Sized
    BY <1>1, <2>2, AmountHead
  <2>4. Amount(Tail(q)) \in Nat /\ Size(Head(q)) \in Nat
    BY <2>3, AmountNat DEF Sized
  <2>5. Size(s[1]) <= Held(c)
    <3>1. Size(s[1]) = Size(Head(q))
      BY <2>1, <2>2
    <3> QED BY <1>1, <2>3, <2>4, <3>1
  <2> QED BY <1>5, <1>7, <2>5 DEF s, u
<1> QED BY <1>6, <1>7

\* The replay goes on, and no more is pending.
LEMMA BoundStays ==
    ASSUME TypeOK, Streams, Bound, pending' \in Nat, pending' <= pending,
           \A c \in Socks : Replaying(c) =>
             \/ Replaying(c)' /\ Stream(c)'[1] = Stream(c)[1]
             \/ pending' <= pending - Size(Stream(c)[1])
    PROVE  Bound'
<1>1. pending \in Nat /\ High \in Nat
  BY WatermarkAssumption DEF TypeOK
<1>2. CASE pending <= High
  BY <1>1, <1>2 DEF Bound
<1>3. ASSUME NEW c \in Socks, Replaying(c), pending <= High + Size(Stream(c)[1])
      PROVE  Bound'
  <2>1. Size(Stream(c)[1]) \in Nat
    BY <1>3, HeldFirst DEF Replaying
  <2>2. CASE Replaying(c)' /\ Stream(c)'[1] = Stream(c)[1]
    <3>1. pending' <= High + Size(Stream(c)'[1])
      <4>1. pending' <= High + Size(Stream(c)[1])
        BY <1>1, <1>3, <2>1
      <4> QED BY <2>2, <4>1
    <3>2. (pending <= High + Size(Stream(c)[1]))'
      <4>1. Size(Stream(c)[1])' = Size(Stream(c)'[1])
        BY DEF Size
      <4> QED BY <3>1, <4>1
    <3> QED BY <2>2, <3>2 DEF Bound
  <2>3. CASE pending' <= pending - Size(Stream(c)[1])
    <3>1. pending' <= High
      BY <1>1, <1>3, <2>1, <2>3
    <3> QED BY <3>1 DEF Bound
  <2> QED BY <1>3, <2>2, <2>3
<1> QED BY <1>2, <1>3 DEF Bound

\* Nothing happens to the streams.
LEMMA BoundQuiet ==
    ASSUME TypeOK, Streams, Bound, UNCHANGED <<pending, got, queue, current>>,
           \A c \in Socks : Replaying(c) => pc'[c] = "replay" /\ task'[c] # "done"
    PROVE  Bound'
<1>1. \A c \in Socks : Replaying(c) => Replaying(c)' /\ Stream(c)'[1] = Stream(c)[1]
  BY StreamSame DEF Replaying
<1>2. pending \in Nat /\ pending' \in Nat /\ pending' <= pending
  BY DEF TypeOK
<1> QED BY <1>1, <1>2, BoundStays

\* A close in the queue does not touch the first frame.
LEMMA BoundQueued ==
    ASSUME TypeOK, Streams, Bound, NEW x \in Closers, NEW c \in Socks \cup {None},
           NEW texts \in Texts, NEW next, CloseQueued(x, c, texts, next),
           UNCHANGED <<pending, got, current, task>>
    PROVE  Bound'
<1>1. \A d \in Socks : pc'[d] = pc[d]
  BY Apart DEF CloseQueued, TypeOK
<1>2. ASSUME NEW d \in Socks, Replaying(d)
      PROVE  Replaying(d)' /\ Stream(d)'[1] = Stream(d)[1]
  <2>1. CASE d = c /\ writer = c
    <3> DEFINE s == Stream(d)
               a == Control("exit")
               b == Control("close")
    <3>1. queue'[d] = Ending(queue[d], texts)
      BY <2>1, NoneFrame DEF CloseQueued, Ending, TypeOK
    <3>2. s \in Seq(Frame) /\ s # <<>> /\ a \in Frame /\ b \in Frame
      BY <1>2, SockTypes, ControlFrame DEF Replaying
    <3>3. Stream(d)' = Ending(s, texts)
      BY <3>1, StreamEnding
    <3>4. Ending(s, texts) = Append(s, b) \/ Ending(s, texts) = Append(Append(s, a), b)
      BY <3>2, EndingIs DEF Texts
    <3> HIDE DEF s, a, b
    <3>5. Ending(s, texts) # <<>> /\ Ending(s, texts)[1] = s[1]
      BY <3>2, <3>4
    <3> QED BY <1>1, <1>2, <3>3, <3>5 DEF Replaying, s
  <2>2. CASE ~(d = c /\ writer = c)
    <3>1. queue'[d] = queue[d]
      BY <2>2 DEF CloseQueued, TypeOK
    <3>2. Stream(d)' = Stream(d)
      BY <3>1, StreamSame
    <3> QED BY <1>1, <1>2, <3>2 DEF Replaying
  <2> QED BY <2>1, <2>2
<1>3. pending \in Nat /\ pending' \in Nat /\ pending' <= pending
  BY DEF TypeOK
<1> QED BY <1>2, <1>3, BoundStays

\* A replay begins when there is no other.
LEMMA BoundAttached ==
    ASSUME TypeOK, Roles, Streams, Bound, NEW c \in Socks, New(c), Attached(c),
           \A d \in Socks : pc[d] # "replay", UNCHANGED <<n, life, current, got>>
    PROVE  Bound'
<1>1. pending <= High /\ pending \in Nat /\ High \in Nat
  BY WatermarkAssumption DEF Bound, Replaying, TypeOK
<1>2. CASE n = 0
  BY <1>1, <1>2 DEF Attached, Bound
<1>3. CASE n # 0
  <2> DEFINE f == Out(First, n)
  <2>1. Enqueued(c, f) /\ pc'[c] = "replay" /\ task'[c] = "runs"
    BY <1>3 DEF Attached, First, TypeOK
  <2>2. Size(f) \in Nat /\ f \in Frame
    BY <1>3, FrameReplay
  <2>3. got'[c] = <<>> /\ current'[c] = None /\ queue'[c] = Append(<<>>, f)
    BY <2>1 DEF Roles, Enqueued, TypeOK
  <2> HIDE DEF f
  <2>4. Stream(c)' = <<f>>
    BY <2>2, <2>3 DEF Stream
  <2>5. pending' = pending + Size(f)
    BY <2>1 DEF Enqueued
  <2>6. Stream(c)' # <<>> /\ Stream(c)'[1] = f
    BY <2>4
  <2>7. Replaying(c)'
    BY <2>1, <2>3, <2>6 DEF Replaying
  <2>8. (pending <= High + Size(Stream(c)[1]))'
    <3>1. Size(Stream(c)[1])' = Size(f)
      BY <2>6 DEF Size
    <3>2. pending' <= High + Size(f)
      BY <1>1, <2>2, <2>5
    <3> QED BY <3>1, <3>2
  <2> QED BY <2>7, <2>8 DEF Bound
<1> QED BY <1>2, <1>3

\* The writer of c sends or ends.
LEMMA BoundPaid ==
    ASSUME TypeOK, Streams, Exact, Bound, NEW c \in Socks, UNCHANGED pc,
           \A d \in Socks \ {c} : /\ got'[d] = got[d] /\ current'[d] = current[d]
                                  /\ queue'[d] = queue[d] /\ task'[d] = task[d],
           \/ current[c] # None /\ pending' = pending - Size(current[c])
           \/ pending' = pending - Held(c)
    PROVE  Bound'
<1>1. /\ Held(c) \in Nat /\ Held(c) <= pending /\ pending \in Nat
      /\ Size(current[c]) \in Nat /\ Size(current[c]) <= Held(c)
  BY SockHolds, PendingHeld
<1>2. pending' \in Nat /\ pending' <= pending
  BY <1>1
<1>3. ASSUME NEW d \in Socks \ {c}, Replaying(d)
      PROVE  Replaying(d)' /\ Stream(d)'[1] = Stream(d)[1]
  <2>1. Stream(d)' = Stream(d)
    BY StreamSame
  <2> QED BY <1>3, <2>1 DEF Replaying
<1>4. Replaying(c) => pending' <= pending - Size(Stream(c)[1])
  <2> SUFFICES ASSUME Replaying(c) PROVE pending' <= pending - Size(Stream(c)[1])
    OBVIOUS
  <2>1. /\ Size(Stream(c)[1]) \in Nat /\ Size(Stream(c)[1]) <= Held(c)
        /\ current[c] # None => Stream(c)[1] = current[c]
    BY HeldFirst DEF Replaying
  <2> QED BY <1>1, <2>1
<1> QED BY <1>2, <1>3, <1>4, BoundStays

LEMMA NextBound ==
    TypeOK /\ Roles /\ Streams /\ Reader /\ Lock /\ Exact /\ Bound /\ [Next]_vars => Bound'
<1> SUFFICES ASSUME TypeOK, Roles, Streams, Reader, Lock, Exact, Bound, [Next]_vars
             PROVE  Bound'
  OBVIOUS
<1>1. CASE Read
  <2>1. pending < High /\ pending \in Nat /\ High \in Nat
    BY <1>1, WatermarkAssumption DEF Read, Reader, TypeOK
  <2>2. pending' = pending \/ pending' = pending + 1
    BY <1>1, FrameRead DEF Read, Enqueued
  <2>3. pending' <= High
    BY <2>1, <2>2
  <2> QED BY <2>3 DEF Bound
<1>2. CASE ChildExits \/ Rest \/ UNCHANGED vars
  BY <1>2, BoundQuiet DEF ChildExits, Rest, vars, Replaying
<1>3. CASE Eof \/ TermDone
  <2>1. UNCHANGED <<pending, got, queue, current, task>> /\ \A c \in Socks : pc'[c] = pc[c]
    BY <1>3, Apart DEF Eof, TermDone, TypeOK, Closers
  <2> QED BY <2>1, BoundQuiet DEF Replaying
<1>4. CASE End
  BY <1>4, BoundQueued DEF End, TypeOK, Closers, Texts
<1>5. CASE HandleExit
  <2>1. CASE life = "dead"
    <3>1. UNCHANGED <<pending, got, queue, current, task>> /\ \A c \in Socks : pc'[c] = pc[c]
      BY <1>5, <2>1, Apart DEF HandleExit, TypeOK, Closers
    <3> QED BY <3>1, BoundQuiet DEF Replaying
  <2>2. CASE life # "dead"
    BY <1>5, <2>2, BoundQueued DEF HandleExit, TypeOK, Closers, Texts
  <2> QED BY <2>1, <2>2
<1>6. ASSUME NEW c \in Socks, Take(c) PROVE Bound'
  <2>1. \A d \in Socks : Stream(d)' = Stream(d)
    BY <1>6, TakeStream
  <2>2. UNCHANGED <<pending, got, pc, task>> /\ pending \in Nat
    BY <1>6 DEF Take, TypeOK
  <2>3. \A d \in Socks : Replaying(d) => Replaying(d)' /\ Stream(d)'[1] = Stream(d)[1]
    BY <2>1, <2>2 DEF Replaying
  <2>4. pending' \in Nat /\ pending' <= pending
    BY <2>2
  <2> QED BY <2>3, <2>4, BoundStays
<1>7. ASSUME NEW c \in Socks, Sent(c) PROVE Bound'
  BY <1>7, BoundPaid DEF Sent, Received, TypeOK
<1>8. ASSUME NEW c \in Socks, SentClose(c) \/ SendFails(c) \/ Cancelled(c) PROVE Bound'
  <2>1. \A d \in Socks \ {c} : got'[d] = got[d]
    BY <1>8 DEF SentClose, SendFails, Cancelled, Received, TypeOK
  <2>2. UNCHANGED pc /\ Ended(c)
    BY <1>8 DEF SentClose, SendFails, Cancelled
  <2>3. /\ pending' = pending - Held(c)
        /\ \A d \in Socks \ {c} : /\ current'[d] = current[d] /\ queue'[d] = queue[d]
                                  /\ task'[d] = task[d]
    BY <2>2 DEF Ended, TypeOK
  <2> QED BY <2>1, <2>2, <2>3, BoundPaid
<1>9. ASSUME NEW c \in Socks, Attach(c) \/ EvictDone(c) PROVE Bound'
  <2>1. New(c) /\ UNCHANGED <<n, life, current, got>>
    BY <1>9 DEF Attach, EvictDone, New
  <2>2. \A d \in Socks : pc[d] # "replay"
    BY <1>9 DEF Attach, EvictDone, Lock, Locked, InLock
  <2>3. CASE Attached(c)
    BY <2>1, <2>2, <2>3, BoundAttached
  <2>4. CASE ~Attached(c)
    BY <1>9, <2>2, <2>4, BoundQuiet DEF Attach, EvictDone, Replaying
  <2> QED BY <2>3, <2>4
<1>10. ASSUME NEW c \in Socks, Evict(c) \/ Disconnect(c) \/ DetachDone(c) PROVE Bound'
  <2>1. UNCHANGED <<pending, got, queue, current, task>>
        /\ \A d \in Socks : pc[d] = "replay" => pc'[d] = "replay"
    BY <1>10 DEF Evict, Disconnect, DetachDone, TypeOK
  <2> QED BY <2>1, BoundQuiet DEF Replaying
<1>11. ASSUME NEW c \in Socks, ReplayDone(c) PROVE Bound'
  <2>1. UNCHANGED <<pending, got, queue, current, task>> /\ ~Replaying(c)
        /\ \A d \in Socks \ {c} : pc'[d] = pc[d]
    BY <1>11 DEF ReplayDone, Replaying, TypeOK
  <2> QED BY <2>1, BoundQuiet DEF Replaying
<1>12. ASSUME NEW c \in Socks, Detach(c) PROVE Bound'
  <2>1. UNCHANGED <<pending, got, queue, current>>
        /\ \A d \in Socks : pc[d] = "replay" => pc'[d] = "replay"
    BY <1>12 DEF Detach, TypeOK
  <2>2. \A d \in Socks : task'[d] # "done" \/ task'[d] = task[d]
    BY <1>12 DEF Detach, Stop, TypeOK
  <2> QED BY <2>1, <2>2, BoundQuiet DEF Replaying
<1>13. ASSUME NEW c \in Socks, AuthCloses(c) PROVE Bound'
  BY <1>13, BoundQueued DEF AuthCloses, Closers, Texts
<1>14. ASSUME NEW x \in Closers, CloserStep(x) PROVE Bound'
  <2>1. UNCHANGED <<pending, got, queue, current>>
    BY <1>14 DEF CloserStep, CloseDone, CloseTimesOut, CloseForced
  <2>2. \A d \in Socks : pc'[d] = pc[d]
    BY <1>14, Apart DEF CloserStep, CloseDone, CloseTimesOut, CloseForced, Onwards, TypeOK
  <2>3. \A d \in Socks : task'[d] # "done" \/ task'[d] = task[d]
    BY <1>14 DEF CloserStep, CloseDone, CloseTimesOut, CloseForced, Stop, TypeOK
  <2> QED BY <2>1, <2>2, <2>3, BoundQuiet DEF Replaying
<1> QED
  BY <1>1, <1>2, <1>3, <1>4, <1>5, <1>6, <1>7, <1>8, <1>9, <1>10, <1>11, <1>12, <1>13, <1>14
  DEF Next, WriterStep, RouteStep

-----------------------------------------------------------------------------
(* Outbound: what follows *)

LEMMA InitIInv == Init => IInv
<1> SUFFICES ASSUME Init PROVE IInv
  OBVIOUS
<1>1. TypeOK
  <2>1. <<>> \in Seq(Frame) /\ 0 \in 0..MaxOut
    BY WatermarkAssumption
  <2> QED BY <2>1 DEF Init, TypeOK
<1>2. Roles
  BY NoneFrame DEF Init, Roles
<1>3. Streams
  <2>1. \A c \in Socks : Stream(c) = <<>> /\ ws # c
    BY NoneFrame DEF Init, Stream
  <2> QED BY <2>1 DEF Streams, Coherent
<1>4. Reader
  BY WatermarkAssumption DEF Init, Reader
<1>5. Lock
  BY DEF Init, Lock, InLock
<1>6. Bound
  BY WatermarkAssumption DEF Init, Bound
<1>7. Exact
  <2> DEFINE f == [c \in Socks |-> Held(c)]
  <2>1. \A c \in Socks : Held(c) = 0
    <3>1. \A c \in Socks : Held(c) = Size(None) + Amount(<<>>)
      BY DEF Init, Held, Amount
    <3> QED BY <3>1, NoneSize, AmountEmpty
  <2>2. f \in [Socks -> Nat] /\ \A c \in Socks : f[c] = 0
    BY <2>1
  <2> HIDE DEF f
  <2>3. SumFunction(f) = 0
    BY <2>2, SumZero, SocksAssumption
  <2> QED BY <2>3 DEF Init, Exact, f
<1> QED BY <1>1, <1>2, <1>3, <1>4, <1>5, <1>6, <1>7 DEF IInv

LEMMA NextIInv == IInv /\ [Next]_vars => IInv'
  BY NextType, NextRoles, NextStreams, NextReader, NextLock, NextBound, NextExact DEF IInv

\* The invariant from which the four properties of the output follow: the reader,
\* the writers, the routes and the closers keep it in every interleaving, for any
\* number of sockets and any buffer and watermarks with Buffer <= Low < High.
THEOREM StreamInductive == Spec => []IInv
<1>1. Init => IInv
  BY InitIInv
<1>2. IInv /\ [Next]_vars => IInv'
  BY NextIInv
<1> QED BY <1>1, <1>2, PTL DEF Spec

\* Replay and live output reach each browser as one stream without a gap, a
\* repetition or an inversion, and what is queued for an attached browser goes up
\* to the last chunk read (attach, _on_pty_readable, _outbound_writer).
THEOREM SeamlessAlways == Spec => []Seamless
<1>1. IInv => Seamless
  BY DEF IInv, Streams, Coherent, Fits, Seamless
<1> QED BY <1>1, StreamInductive, PTL

\* No browser gets the exit text before everything the process wrote, and nothing
\* but the close after it (_handle_exit).
THEOREM ExitIsLastAlways == Spec => []ExitIsLast
<1>1. ASSUME IInv PROVE ExitIsLast
  <2> SUFFICES ASSUME NEW c \in Socks, NEW i \in 1..Len(got[c]), got[c][i].kind = "exit"
               PROVE  /\ n > 0 => UpTo(got[c], i, n)
                      /\ \A j \in i+1..Len(got[c]) : got[c][j].kind = "close"
    BY DEF ExitIsLast
  <2> DEFINE g == got[c]
             s == Stream(c)
  <2>1. /\ g \in Seq(Frame) /\ s \in Seq(Frame) /\ n \in Nat /\ Coherent(s, n, life)
        /\ queue[c] \in Seq(Frame) /\ current[c] \in Frame \cup {None}
        /\ s = Joined(g, current[c], queue[c])
    <3>1. Coherent(s, n, life) /\ n \in Nat /\ TypeOK
      BY <1>1 DEF IInv, Streams, TypeOK
    <3> QED BY <3>1, SockTypes
  <2> HIDE DEF g, s
  <2>2. Prefix(g, s)
    BY <2>1, JoinedCut
  <2>3. Coherent(g, n, life)
    BY <2>1, <2>2, CoherentCut
  <2>4. i \in 1..Len(g) /\ g[i].kind = "exit"
    BY DEF g
  <2>5. /\ n > 0 => UpTo(g, i, n)
        /\ \A j \in i+1..Len(g) : g[j].kind = "close"
    BY <2>3, <2>4 DEF Coherent, Fits
  <2> QED BY <2>5 DEF g
<1> QED BY <1>1, StreamInductive, PTL

\* What is pending is what the queues and the writers hold, through every failure
\* and cancellation, and it stays below the watermark and one replay
\* (_enqueue_output, _outbound_writer).
THEOREM AccountedAlways == Spec => []Accounted
<1>1. ASSUME IInv PROVE Accounted
  <2>1. /\ pending \in Nat /\ High \in Nat /\ Buffer \in Nat
        /\ pending = SumFunction([c \in Socks |-> Held(c)])
    BY <1>1, WatermarkAssumption DEF IInv, TypeOK, Exact
  <2>2. CASE pending <= High
    BY <2>1, <2>2 DEF Accounted
  <2>3. ASSUME NEW c \in Socks, Replaying(c), pending <= High + Size(Stream(c)[1])
        PROVE  Accounted
    <3>1. Size(Stream(c)[1]) \in Nat /\ Size(Stream(c)[1]) <= Buffer
      BY <1>1, <2>3, HeldFirst DEF IInv, Replaying
    <3>2. pending <= High + Buffer
      BY <2>1, <2>3, <3>1
    <3> QED BY <2>1, <3>2 DEF Accounted
  <2> QED BY <1>1, <2>2, <2>3 DEF IInv, Bound
<1> QED BY <1>1, StreamInductive, PTL

\* A live session whose reader is off has more than Low pending, and paying it back
\* puts the reader on again, or it has seen the end of the output
\* (_resume_pty_reader).
THEOREM NeverDeafAlways == Spec => []NeverDeaf
<1>1. IInv => NeverDeaf
  BY DEF IInv, Reader, NeverDeaf
<1> QED BY <1>1, StreamInductive, PTL

-----------------------------------------------------------------------------
(* InputBuffer: streams of bytes *)

LEMMA ByteConcat ==
    ASSUME NEW x \in Seq(Byte), NEW y \in Seq(Byte), NEW z \in Seq(Byte)
    PROVE  (x \o y) \o z = x \o (y \o z)
  BY ConcatAssociative

\* A prefix of a stream is a stream.
LEMMA PrefixInOrder ==
    ASSUME NEW t \in Seq(Byte), NEW b \in Seq(Byte), InOrder(t \o b)
    PROVE  InOrder(t)
<1>1. /\ Len(t) \in Nat /\ Len(b) \in Nat
      /\ Len(t \o b) = Len(t) + Len(b)
      /\ \A i \in 1..Len(t) : (t \o b)[i] = t[i]
  BY ConcatProperties
<1>2. t # <<>> => Len(t) >= 1 /\ t \o b # <<>>
  BY <1>1, EmptySeq
<1>3. t # <<>> => t[1].at = 1
  BY <1>1, <1>2 DEF InOrder
<1>4. ASSUME NEW i \in 1..Len(t)-1 PROVE Follows(t[i], t[i+1])
  <2>1. i \in 1..Len(t \o b)-1 /\ i \in 1..Len(t) /\ i+1 \in 1..Len(t)
    BY <1>1
  <2> QED BY <1>1, <2>1 DEF InOrder
<1> QED BY <1>3, <1>4 DEF InOrder

\* What a message is made of.
LEMMA BytesOfMessage ==
    ASSUME NEW k \in Nat, NEW size \in Nat \ {0}
    PROVE  /\ Bytes(k, size) \in Seq(Byte) /\ Len(Bytes(k, size)) = size
           /\ \A i \in 1..size : Bytes(k, size)[i] = [msg |-> k, at |-> i, of |-> size]
<1>1. \A i \in 1..size : [msg |-> k, at |-> i, of |-> size] \in Byte
  BY DEF Byte
<1>2. Bytes(k, size) \in [1..size -> Byte]
  BY <1>1 DEF Bytes
<1>3. Bytes(k, size) \in Seq(Byte)
  BY <1>2
<1>4. Len(Bytes(k, size)) = size
  BY <1>2, <1>3
<1> QED BY <1>3, <1>4 DEF Bytes

\* A complete stream takes the next message.
LEMMA Extended ==
    ASSUME NEW s \in Seq(Byte), NEW k \in Nat, NEW size \in Nat \ {0},
           InOrder(s), Complete(s), \A i \in 1..Len(s) : s[i].msg < k
    PROVE  /\ InOrder(s \o Bytes(k, size)) /\ Complete(s \o Bytes(k, size))
           /\ \A i \in 1..Len(s \o Bytes(k, size)) : (s \o Bytes(k, size))[i].msg <= k
<1> DEFINE m == Bytes(k, size)
           u == s \o m
<1>1. /\ m \in Seq(Byte) /\ Len(m) = size
      /\ \A i \in 1..size : m[i] = [msg |-> k, at |-> i, of |-> size]
  BY BytesOfMessage
<1>2. /\ u \in Seq(Byte) /\ Len(s) \in Nat /\ Len(u) = Len(s) + size
      /\ \A i \in 1..Len(u) : u[i] = IF i <= Len(s) THEN s[i] ELSE m[i - Len(s)]
  <2> HIDE DEF m
  <2>1. /\ s \o m \in Seq(Byte) /\ Len(s \o m) = Len(s) + Len(m)
        /\ \A i \in 1..Len(s) + Len(m) :
               (s \o m)[i] = IF i <= Len(s) THEN s[i] ELSE m[i - Len(s)]
    BY <1>1, ConcatProperties
  <2> QED BY <1>1, <2>1
<1> HIDE DEF u, m
<1>3. ASSUME NEW i \in 1..Len(u), i > Len(s)
      PROVE  u[i] = [msg |-> k, at |-> i - Len(s), of |-> size]
  <2>1. u[i] = m[i - Len(s)] /\ i - Len(s) \in 1..size
    BY <1>1, <1>2, <1>3
  <2> QED BY <1>1, <2>1
<1>4. u[1].at = 1
  <2>1. CASE s = <<>>
    BY <2>1, <1>2, <1>3, EmptySeq
  <2>2. CASE s # <<>>
    <3>1. Len(s) >= 1 BY <2>2, EmptySeq, <1>2
    <3> QED BY <2>2, <3>1, <1>2 DEF InOrder
  <2> QED BY <2>1, <2>2
<1>5. ASSUME NEW i \in 1..Len(u)-1 PROVE Follows(u[i], u[i+1])
  <2>1. CASE i < Len(s)
    BY <2>1, <1>2 DEF InOrder
  <2>2. CASE i = Len(s)
    <3>1. u[i] = s[Len(s)] /\ s # <<>>
      BY <2>2, <1>2, EmptySeq
    <3>2. u[i].at = u[i].of
      BY <3>1 DEF Complete
    <3>3. u[i].msg < k
      BY <3>1, <2>2, <1>2
    <3>4. u[i+1] = [msg |-> k, at |-> 1, of |-> size]
      BY <2>2, <1>2, <1>3
    <3>5. u[i].msg \in Nat
      <4>1. u[i] \in Byte
        BY <1>2
      <4> QED BY <4>1 DEF Byte
    <3> QED BY <3>2, <3>3, <3>4, <3>5 DEF Follows
  <2>3. CASE i > Len(s)
    BY <2>3, <1>2, <1>3 DEF Follows
  <2> QED BY <2>1, <2>2, <2>3, <1>2
<1>6. Complete(u)
  BY <1>2, <1>3 DEF Complete
<1>7. \A i \in 1..Len(u) : u[i].msg <= k
  <2> SUFFICES ASSUME NEW i \in 1..Len(u) PROVE u[i].msg <= k
    OBVIOUS
  <2>1. CASE i <= Len(s)
    <3>1. u[i] = s[i] /\ i \in 1..Len(s)
      BY <2>1, <1>2
    <3>2. s[i] \in Byte
      BY <3>1
    <3>3. s[i].msg \in Nat /\ s[i].msg < k
      BY <3>1, <3>2 DEF Byte
    <3> QED BY <3>1, <3>3
  <2>2. CASE i > Len(s)
    <3>1. u[i] = [msg |-> k, at |-> i - Len(s), of |-> size]
      BY <2>2, <1>3
    <3>2. u[i].msg = k
      BY <3>1
    <3> QED BY <3>2
  <2> QED BY <2>1, <2>2, <1>2
<1> QED BY <1>4, <1>5, <1>6, <1>7 DEF InOrder, u, m

-----------------------------------------------------------------------------
(* InputBuffer: the steps *)

\* What a flush of b does to the invariant, when the stream with b in the
\* buffer satisfies it.
LEMMA FlushKeeps ==
    ASSUME InputTypeOK, fd' \in BOOLEAN, UNCHANGED broken, sent' \in 0..MaxMsgs,
           NEW b \in Seq(Byte), Len(b) <= Limit, Flushed(b),
           InOrder(taken \o b),
           fd' /\ ~broken => Complete(taken \o b),
           \A i \in 1..Len(taken \o b) : (taken \o b)[i].msg <= sent'
    PROVE  InputIInv'
<1> USE LimitAssumption, RoomAssumption
<1>1. /\ taken \in Seq(Byte) /\ Len(b) \in Nat /\ room \in 0..Room
      /\ Len(taken) \in Nat
  BY DEF InputTypeOK
<1>2. CASE broken
  <2>1. Emptied /\ room' = room /\ taken' = taken
    BY <1>2 DEF Flushed
  <2>2. buffer' = <<>> /\ buffer' \in Seq(Byte) /\ Len(buffer') = 0
    BY <2>1 DEF Emptied
  <2>3. taken' \o buffer' = taken
    BY <2>1, <2>2, <1>1, ConcatEmptySeq
  <2>4. InOrder(taken)
    BY <1>1, PrefixInOrder
  <2>5. \A i \in 1..Len(taken) : taken[i].msg <= sent'
    <3>1. /\ Len(taken \o b) = Len(taken) + Len(b)
          /\ \A i \in 1..Len(taken) : (taken \o b)[i] = taken[i]
      BY <1>1, ConcatProperties
    <3> QED BY <3>1, <1>1
  <2>6. InputTypeOK'
    BY <2>1, <2>2 DEF InputTypeOK, Emptied
  <2>7. Pumped' /\ Bounded'
    BY <2>1, <2>2 DEF Pumped, Bounded, Emptied
  <2>8. Whole'
    BY <2>3, <2>4, <1>2 DEF Whole
  <2> QED BY <2>3, <2>5, <2>6, <2>7, <2>8 DEF InputIInv
<1>3. CASE ~broken
  <2> DEFINE cut == IF Len(b) <= room THEN Len(b) ELSE room
             p == SubSeq(b, 1, cut)
             q == SubSeq(b, cut + 1, Len(b))
  <2>1. cut \in 0..Len(b) /\ cut <= room /\ cut \in 0..Room
    BY <1>1
  <2>2. /\ taken' = taken \o p /\ room' = room - cut
        /\ IF cut = Len(b)
           THEN Emptied
           ELSE /\ buffer' = q /\ writing' = TRUE
                /\ UNCHANGED <<dropped, lost, told>>
    BY <1>3 DEF Flushed
  <2> HIDE DEF cut
  <2>3. p \in Seq(Byte) /\ q \in Seq(Byte) /\ p \o q = b
    <3>1. p \o q = SubSeq(b, 1, Len(b))
      <4>1. 1 \in 1..Len(b)+1 /\ cut \in 0..Len(b) /\ Len(b) \in cut..Len(b)
        BY <1>1, <2>1
      <4>2. \A i \in 1..Len(b)+1, j \in Nat, l \in Nat :
               j \in i-1..Len(b) /\ l \in j..Len(b)
                 => SubSeq(b, i, j) \o SubSeq(b, j+1, l) = SubSeq(b, i, l)
        BY ConcatAdjacentSubSeq
      <4>3. cut \in Nat /\ cut \in 1-1..Len(b)
        BY <4>1
      <4> QED BY <4>1, <4>2, <4>3, <1>1
    <3>2. SubSeq(b, 1, Len(b)) = b
      BY SubSeqFull
    <3>3. \A i \in 1..cut : b[i] \in Byte
      BY <2>1, <1>1
    <3>4. \A i \in cut+1..Len(b) : b[i] \in Byte
      BY <2>1, <1>1
    <3>5. p \in Seq(Byte)
      BY <3>3, <2>1, SubSeqProperties
    <3>6. q \in Seq(Byte)
      BY <3>4, <2>1, <1>1, SubSeqProperties
    <3> QED BY <3>1, <3>2, <3>5, <3>6
  <2>4. /\ buffer' = q
        /\ Len(q) = Len(b) - cut
        /\ writing' = (q # <<>>)
        /\ dropped' \in BOOLEAN /\ lost' \in BOOLEAN /\ told' \in Nat
    <3>1. Len(q) = Len(b) - cut
      <4>1. \A i \in cut+1..Len(b) : b[i] \in Byte
        BY <2>1, <1>1
      <4>2. Len(q) = IF cut+1 <= Len(b) THEN Len(b) - (cut+1) + 1 ELSE 0
        BY <4>1, <2>1, <1>1, SubSeqProperties
      <4> QED BY <4>2, <2>1, <1>1
    <3>2. CASE cut = Len(b)
      <4>1. q = <<>>
        BY <3>1, <3>2, <2>3, <1>1, EmptySeq
      <4>2. Emptied
        BY <2>2, <3>2
      <4> QED BY <4>1, <4>2, <3>1 DEF Emptied
    <3>3. CASE cut # Len(b)
      <4>1. q # <<>>
        <5>1. Len(q) # 0
          BY <3>1, <3>3, <2>1, <1>1
        <5>2. Len(<<>>) = 0
          OBVIOUS
        <5> QED BY <5>1, <5>2
      <4> QED BY <4>1, <2>2, <3>3, <3>1 DEF InputTypeOK
    <3> QED BY <3>2, <3>3
  <2> HIDE DEF p, q
  <2>5. taken' \o buffer' = taken \o b
    <3>1. taken \in Seq(Byte) /\ p \in Seq(Byte) /\ q \in Seq(Byte)
      BY <2>3, <1>1
    <3>2. (taken \o p) \o q = taken \o (p \o q)
      BY <3>1, ByteConcat, ZenonT(60)
    <3> QED BY <3>2, <2>2, <2>3, <2>4
  <2>6. InputTypeOK'
    <3>1. taken' \in Seq(Byte) /\ room' \in 0..Room
      BY <2>1, <2>2, <2>3, <1>1, ConcatProperties
    <3>2. broken' \in BOOLEAN /\ writing' \in BOOLEAN
      BY <2>4 DEF InputTypeOK
    <3> QED BY <3>1, <3>2, <2>3, <2>4 DEF InputTypeOK
  <2>7. Pumped' /\ Bounded'
    <3>1. Len(q) <= Limit
      BY <2>1, <2>4, <1>1
    <3> QED BY <3>1, <2>4 DEF Pumped, Bounded
  <2>8. Whole'
    BY <2>5 DEF Whole
  <2> QED BY <2>5, <2>6, <2>7, <2>8 DEF InputIInv
<1> QED BY <1>2, <1>3

LEMMA InitInput == InputInit => InputIInv
<1> SUFFICES ASSUME InputInit PROVE InputIInv
  OBVIOUS
<1> USE LimitAssumption, RoomAssumption DEF InputInit
<1>1. taken \o buffer = <<>>
  BY ConcatEmptySeq
<1>2. InputTypeOK
  <2>1. <<>> \in Seq(Byte) /\ 0 \in 0..MaxMsgs /\ Room \in 0..Room
    OBVIOUS
  <2> QED BY <2>1 DEF InputTypeOK
<1>3. Whole
  BY <1>1 DEF Whole, InOrder, Complete
<1>4. Bounded /\ Pumped
  BY DEF Bounded, Pumped
<1> QED BY <1>1, <1>2, <1>3, <1>4 DEF InputIInv

\* Each action keeps the invariant: what does not flush leaves the stream alone.
LEMMA NextInput == InputIInv /\ [InputNext]_inputVars => InputIInv'
<1> SUFFICES ASSUME InputIInv, [InputNext]_inputVars PROVE InputIInv'
  OBVIOUS
<1> USE LimitAssumption, RoomAssumption, SizesAssumption
<1>0. /\ buffer \in Seq(Byte) /\ taken \in Seq(Byte) /\ sent \in 0..MaxMsgs
      /\ Len(buffer) \in Nat /\ Len(buffer) <= Limit
  BY DEF InputIInv, InputTypeOK, Bounded
<1>1. ASSUME NEW size \in Sizes, WriteInput(size) PROVE InputIInv'
  <2>1. /\ sent < MaxMsgs /\ sent' = sent + 1 /\ UNCHANGED <<fd, broken>>
        /\ size \in Nat \ {0}
    BY <1>1 DEF WriteInput
  <2>2. sent' \in 0..MaxMsgs
    BY <2>1, <1>0
  <2>3. \A i \in 1..Len(taken \o buffer) :
           (taken \o buffer)[i].msg < sent' /\ (taken \o buffer)[i].msg <= sent'
    <3>1. taken \o buffer \in Seq(Byte)
      BY <1>0, ConcatProperties
    <3>2. \A i \in 1..Len(taken \o buffer) : (taken \o buffer)[i].msg \in Nat
      <4> SUFFICES ASSUME NEW i \in 1..Len(taken \o buffer)
                   PROVE  (taken \o buffer)[i].msg \in Nat
        OBVIOUS
      <4>1. (taken \o buffer)[i] \in Byte
        BY <3>1
      <4> QED BY <4>1 DEF Byte
    <3> QED BY <3>2, <2>1, <1>0 DEF InputIInv
  <2>4. CASE UNCHANGED <<buffer, writing, room, taken>> /\ dropped' \in BOOLEAN
             /\ lost' \in BOOLEAN /\ told' \in Nat
    <3>1. InputTypeOK'
      BY <2>1, <2>2, <2>4 DEF InputIInv, InputTypeOK
    <3>2. Whole' /\ Bounded' /\ Pumped'
      BY <2>1, <2>4 DEF InputIInv, Whole, Bounded, Pumped
    <3> QED BY <2>3, <2>4, <3>1, <3>2 DEF InputIInv
  <2>5. CASE ~fd
    BY <2>4, <2>5, <1>1 DEF WriteInput, InputIInv, InputTypeOK
  <2>6. CASE fd /\ Len(buffer) + size > Limit
    <3>1. Drop
      BY <2>6, <1>1 DEF WriteInput
    <3>2. told' \in Nat
      BY <3>1 DEF Drop, InputIInv, InputTypeOK
    <3> QED BY <2>4, <3>1, <3>2 DEF Drop
  <2>7. CASE fd /\ ~(Len(buffer) + size > Limit)
    <3> DEFINE b == buffer \o Bytes(sent', size)
    <3>1. Flushed(b)
      BY <2>7, <1>1 DEF WriteInput
    <3>2. /\ Bytes(sent', size) \in Seq(Byte) /\ Len(Bytes(sent', size)) = size
      BY <2>1, <1>0, BytesOfMessage
    <3>3. /\ b \in Seq(Byte) /\ Len(b) = Len(buffer) + size
          /\ taken \o b = (taken \o buffer) \o Bytes(sent', size)
          /\ taken \o buffer \in Seq(Byte)
      <4>1. \A x, y, z \in Seq(Byte) : (x \o y) \o z = x \o (y \o z)
        BY ByteConcat, Zenon
      <4>2. \A x, y \in Seq(Byte) : x \o y \in Seq(Byte) /\ Len(x \o y) = Len(x) + Len(y)
        BY ConcatProperties
      <4>3. b \in Seq(Byte) /\ Len(b) = Len(buffer) + size
        BY <4>2, <3>2, <1>0
      <4>4. taken \o buffer \in Seq(Byte)
        BY <4>2, <1>0
      <4>5. taken \o b = (taken \o buffer) \o Bytes(sent', size)
        <5> HIDE DEF b
        <5>1. b = buffer \o Bytes(sent', size)
          BY DEF b
        <5>2. (taken \o buffer) \o Bytes(sent', size) = taken \o (buffer \o Bytes(sent', size))
          BY <4>1, <3>2, <1>0, Zenon
        <5> QED BY <5>1, <5>2, Zenon
      <4> QED BY <4>3, <4>4, <4>5
    <3> HIDE DEF b
    <3>4. CASE broken
      \* The flush fails: only what the terminal has taken is left.
      <4>1. Emptied /\ room' = room /\ taken' = taken
        BY <3>1, <3>4 DEF Flushed
      <4>2. taken' \o buffer' = taken /\ buffer' = <<>> /\ buffer' \in Seq(Byte)
            /\ Len(buffer') = 0
        BY <4>1, <1>0, ConcatEmptySeq DEF Emptied
      <4>3. InOrder(taken)
        BY <1>0, PrefixInOrder DEF InputIInv, Whole
      <4>4. \A i \in 1..Len(taken) : taken[i].msg <= sent'
        <5>1. /\ Len(taken) \in Nat /\ Len(taken \o buffer) = Len(taken) + Len(buffer)
              /\ \A i \in 1..Len(taken) : (taken \o buffer)[i] = taken[i]
          BY <1>0, ConcatProperties
        <5> QED BY <5>1, <2>3, <1>0
      <4>5. InputTypeOK'
        BY <4>1, <4>2, <2>1, <2>2 DEF InputTypeOK, Emptied, InputIInv
      <4>6. Bounded' /\ Pumped'
        BY <4>1, <4>2 DEF Bounded, Pumped, Emptied
      <4>7. Whole'
        BY <4>2, <4>3, <3>4, <2>1 DEF Whole
      <4> QED BY <4>2, <4>4, <4>5, <4>6, <4>7 DEF InputIInv
    <3>5. CASE ~broken
      <4>1. InOrder(taken \o buffer) /\ Complete(taken \o buffer)
        BY <2>7, <3>5 DEF InputIInv, Whole
      <4>2. /\ InOrder(taken \o b) /\ Complete(taken \o b)
            /\ \A i \in 1..Len(taken \o b) : (taken \o b)[i].msg <= sent'
        <5>1. sent' \in Nat /\ \A i \in 1..Len(taken \o buffer) : (taken \o buffer)[i].msg < sent'
          BY <2>2, <2>3
        <5>2. /\ InOrder((taken \o buffer) \o Bytes(sent', size))
              /\ Complete((taken \o buffer) \o Bytes(sent', size))
              /\ \A i \in 1..Len((taken \o buffer) \o Bytes(sent', size)) :
                    ((taken \o buffer) \o Bytes(sent', size))[i].msg <= sent'
          BY <5>1, <4>1, <2>1, <3>3, Extended
        <5> QED BY <5>2, <3>3
      <4>3. InputTypeOK /\ fd' \in BOOLEAN /\ UNCHANGED broken /\ Len(b) <= Limit
        BY <2>1, <2>7, <3>3, <1>0 DEF InputIInv, InputTypeOK
      <4> QED BY <3>1, <3>3, <4>2, <4>3, <2>2, FlushKeeps
    <3> QED BY <3>4, <3>5
  <2> QED BY <2>5, <2>6, <2>7
<1>2. CASE FlushWrite
  <2>1. Flushed(buffer) /\ UNCHANGED <<fd, broken, sent>>
    BY <1>2 DEF FlushWrite
  <2>2. InputTypeOK /\ fd' \in BOOLEAN /\ sent' \in 0..MaxMsgs
    BY <2>1 DEF InputIInv, InputTypeOK
  <2>3. /\ InOrder(taken \o buffer)
        /\ fd' /\ ~broken => Complete(taken \o buffer)
        /\ \A i \in 1..Len(taken \o buffer) : (taken \o buffer)[i].msg <= sent'
    BY <2>1 DEF InputIInv, Whole
  <2> QED BY <2>1, <2>2, <2>3, <1>0, FlushKeeps
<1>3. CASE ChildReads
  <2>1. InputTypeOK'
    BY <1>3 DEF ChildReads, InputIInv, InputTypeOK
  <2> QED BY <2>1, <1>3 DEF ChildReads, InputIInv, Whole, Bounded, Pumped
<1>4. CASE ChildCloses
  <2>1. InputTypeOK'
    BY <1>4 DEF ChildCloses, InputIInv, InputTypeOK
  <2> QED BY <2>1, <1>4 DEF ChildCloses, InputIInv, Whole, Bounded, Pumped
<1>5. CASE CleanupFd
  <2>1. Emptied /\ fd' = FALSE /\ UNCHANGED <<broken, room, sent, taken>>
    BY <1>5 DEF CleanupFd
  <2>2. taken' \o buffer' = taken /\ buffer' = <<>> /\ buffer' \in Seq(Byte)
        /\ Len(buffer') = 0
    BY <2>1, <1>0, ConcatEmptySeq DEF Emptied
  <2>3. InOrder(taken)
    BY <1>0, PrefixInOrder DEF InputIInv, Whole
  <2>4. \A i \in 1..Len(taken) : taken[i].msg <= sent'
    <3>1. /\ Len(taken) \in Nat /\ Len(taken \o buffer) = Len(taken) + Len(buffer)
          /\ \A i \in 1..Len(taken) : (taken \o buffer)[i] = taken[i]
      BY <1>0, ConcatProperties
    <3> QED BY <3>1, <2>1, <1>0 DEF InputIInv
  <2>5. InputTypeOK'
    BY <2>1, <2>2 DEF InputTypeOK, Emptied, InputIInv
  <2>6. Bounded' /\ Pumped'
    BY <2>1, <2>2 DEF Bounded, Pumped, Emptied
  <2>7. Whole'
    BY <2>1, <2>2, <2>3 DEF Whole
  <2> QED BY <2>2, <2>4, <2>5, <2>6, <2>7 DEF InputIInv
<1>6. CASE UNCHANGED inputVars
  <2>1. InputTypeOK'
    BY <1>6 DEF inputVars, InputIInv, InputTypeOK
  <2> QED BY <2>1, <1>6 DEF inputVars, InputIInv, Whole, Bounded, Pumped
<1> QED BY <1>1, <1>2, <1>3, <1>4, <1>5, <1>6 DEF InputNext

\* InputIInv holds for every limit, every set of sizes and every terminal queue.
THEOREM InputInductive == InputSpec => []InputIInv
  BY InitInput, NextInput, PTL DEF InputSpec

\* No message is split, reordered or cut, whatever the terminal takes at a time
\* (write_input and _flush_write).
THEOREM WholeAlways == InputSpec => []Whole
<1>1. InputIInv => Whole
  BY DEF InputIInv
<1> QED BY <1>1, InputInductive, PTL

\* WRITE_BUFFER_LIMIT is kept.
THEOREM BoundedAlways == InputSpec => []Bounded
<1>1. InputIInv => Bounded
  BY DEF InputIInv
<1> QED BY <1>1, InputInductive, PTL

\* A callback is registered exactly while input waits.
THEOREM PumpedAlways == InputSpec => []Pumped
<1>1. InputIInv => Pumped
  BY DEF InputIInv
<1> QED BY <1>1, InputInductive, PTL

-----------------------------------------------------------------------------
(* InputBuffer: reports of an overflow *)

\* No message is longer than the whole buffer.
AllFit == \A size \in Sizes : size <= Limit

\* The flag says what happened, and goes with the last byte.
TellInv ==
    /\ dropped = lost
    /\ dropped => buffer # <<>>
    /\ ToldOnce

\* If every message fits into an empty buffer, an overflow is told once until
\* the buffer has been emptied (the promise of write_input's docstring).
THEOREM ToldOnceAlways == AllFit /\ InputSpec => []ToldOnce
<1>1. InputInit => TellInv
  BY DEF InputInit, TellInv, ToldOnce
<1>2. AllFit /\ InputIInv /\ TellInv /\ [InputNext]_inputVars => TellInv'
  <2> SUFFICES ASSUME AllFit, InputIInv, TellInv, [InputNext]_inputVars PROVE TellInv'
    OBVIOUS
  <2>0. buffer \in Seq(Byte) /\ Len(buffer) \in Nat /\ dropped \in BOOLEAN
        /\ lost \in BOOLEAN /\ told \in Nat /\ room \in 0..Room
    BY DEF InputIInv, InputTypeOK
  <2>1. ASSUME NEW b \in Seq(Byte), Flushed(b) PROVE TellInv'
    <3> DEFINE cut == IF Len(b) <= room THEN Len(b) ELSE room
               q == SubSeq(b, cut + 1, Len(b))
    <3>1. Emptied \/ (cut # Len(b) /\ buffer' = q /\ UNCHANGED <<dropped, lost, told>>)
      BY <2>1 DEF Flushed
    <3>2. CASE Emptied
      BY <3>2 DEF Emptied, TellInv, ToldOnce
    <3>3. CASE cut # Len(b) /\ buffer' = q /\ UNCHANGED <<dropped, lost, told>>
      <4>1. cut \in 0..Len(b) /\ cut < Len(b)
        BY <3>3, <2>0, RoomAssumption
      <4> HIDE DEF cut
      <4>2. \A i \in cut+1..Len(b) : b[i] \in Byte
        BY <4>1
      <4>3. Len(q) = Len(b) - cut
        BY <4>1, <4>2, SubSeqProperties
      <4>4. q # <<>>
        <5>1. Len(q) # 0
          BY <4>1, <4>3, <2>1
        <5>2. Len(<<>>) = 0
          OBVIOUS
        <5> QED BY <5>1, <5>2
      <4> QED BY <4>4, <3>3 DEF TellInv, ToldOnce
    <3> QED BY <3>1, <3>2, <3>3
  <2>2. ASSUME NEW size \in Sizes, WriteInput(size) PROVE TellInv'
    <3>1. CASE ~fd
      BY <3>1, <2>2 DEF WriteInput, TellInv, ToldOnce
    <3>2. CASE fd /\ Len(buffer) + size > Limit
      <4>1. buffer # <<>>
        BY <3>2, <2>0, SizesAssumption, LimitAssumption DEF AllFit
      <4>2. Drop
        BY <3>2, <2>2 DEF WriteInput
      <4> QED BY <4>1, <4>2, <2>0 DEF Drop, TellInv, ToldOnce
    <3>3. CASE fd /\ ~(Len(buffer) + size > Limit)
      <4>1. Flushed(buffer \o Bytes(sent', size))
        BY <3>3, <2>2 DEF WriteInput
      <4>2. sent' \in Nat /\ size \in Nat \ {0}
        BY <2>2, SizesAssumption DEF WriteInput, InputIInv, InputTypeOK
      <4>3. buffer \o Bytes(sent', size) \in Seq(Byte)
        BY <4>2, <2>0, BytesOfMessage, ConcatProperties
      <4> QED BY <4>1, <4>3, <2>1
    <3> QED BY <3>1, <3>2, <3>3
  <2>3. CASE FlushWrite
    BY <2>3, <2>0, <2>1 DEF FlushWrite
  <2>4. CASE ChildReads
    BY <2>4 DEF ChildReads, TellInv, ToldOnce
  <2>5. CASE ChildCloses
    BY <2>5 DEF ChildCloses, TellInv, ToldOnce
  <2>6. CASE CleanupFd
    BY <2>6 DEF CleanupFd, Emptied, TellInv, ToldOnce
  <2>7. CASE UNCHANGED inputVars
    BY <2>7 DEF inputVars, TellInv, ToldOnce
  <2> QED BY <2>2, <2>3, <2>4, <2>5, <2>6, <2>7 DEF InputNext
<1>3. TellInv => ToldOnce
  BY DEF TellInv
<1>4. AllFit => AllFit'
  BY DEF AllFit
<1> QED BY <1>1, <1>2, <1>3, <1>4, InputInductive, PTL DEF InputSpec
=============================================================================
