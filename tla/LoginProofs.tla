---------------------------- MODULE LoginProofs -----------------------------
(***************************************************************************)
(* TLAPS proofs about Login: what had not passed the check when a delay    *)
(* began is not verified during it, folding loses no rejection, and only   *)
(* a success, the time, a full dictionary or the overflow of the float     *)
(* make a delay shorter.                                                   *)
(***************************************************************************)
EXTENDS Login, SequenceTheorems, WellFoundedInduction, TLAPS

\* The types the first proofs need; that of the failures' dictionary is in Ordered.
Typed ==
    /\ fails \in [Addrs -> Nat] /\ due \in [Addrs -> Int]
    /\ pc \in [Reqs -> {"idle", "body", "line", "verify"}]
    /\ from \in [Reqs -> Addrs \cup {None}] /\ line \in Seq(Reqs)
    /\ held \in [Refused -> Nat] /\ untold \in [Refused -> Nat]

\* A request under way has an address.
Placed == \A r \in Reqs : pc[r] # "idle" => from[r] \in Addrs

\* The line holds requests that wait for a slot, each once.
Lined ==
    /\ \A i \in 1..Len(line) : pc[line[i]] = "line"
    /\ \A i, j \in 1..Len(line) : line[i] = line[j] => i = j

\* BlockHolds needs them all: the end of a verification moves the head of the
\* line on, which has to be a request under way, with an address.
LInv == Typed /\ Placed /\ Lined /\ BlockHolds /\ Folded

LEMMA InitLInv == Init => LInv
  BY DEF Init, LInv, Typed, Placed, Lined, BlockHolds, Folded, Blocked

-----------------------------------------------------------------------------
(* The power, and with it the delay *)

LEMMA LeastNatural ==
    ASSUME NEW S, S \subseteq Nat, S # {}
    PROVE  \E m \in S : \A k \in S : m <= k
<1>1. PICK m \in S : \A k \in S : <<k, m>> \notin OpToRel(<, Nat)
  BY NatLessThanWellFounded, WFMin
<1>2. \A k \in S : k \in Nat /\ m \in Nat /\ ~(k < m)
  BY <1>1 DEF OpToRel
<1> QED BY <1>2

LEMMA NatSet ==
    ASSUME NEW S, S \subseteq Nat, 0 \in S, \A k \in S : k + 1 \in S
    PROVE  S = Nat
<1> SUFFICES ASSUME S # Nat PROVE FALSE
  OBVIOUS
<1>1. PICK m \in Nat \ S : \A k \in Nat \ S : m <= k
  BY LeastNatural
<1>2. m # 0 /\ m - 1 \in Nat /\ m - 1 \in S
  BY <1>1
<1> QED BY <1>1, <1>2

\* h doubles from 1 on up to n.
Doubles(h, n) ==
    /\ h = [i \in 0..n |-> h[i]] /\ h[0] = 1
    /\ \A i \in 1..n : h[i] = 2 * h[i - 1]

LEMMA DoublesExists == \A n \in Nat : \E h : Doubles(h, n)
<1> DEFINE K == {n \in Nat : \E h : Doubles(h, n)}
<1>1. 0 \in K
  <2> DEFINE h == [i \in 0..0 |-> 1]
  <2>1. Doubles(h, 0)
    BY DEF Doubles
  <2> QED BY <2>1
<1>2. ASSUME NEW n \in K PROVE n + 1 \in K
  <2>1. PICK h : Doubles(h, n)
    OBVIOUS
  <2> DEFINE e == [i \in 0..n+1 |-> IF i = n + 1 THEN 2 * h[n] ELSE h[i]]
  <2>2. e = [i \in 0..n+1 |-> e[i]] /\ e[0] = 1
    BY <2>1 DEF Doubles
  <2>3. ASSUME NEW i \in 1..n+1 PROVE e[i] = 2 * e[i - 1]
    <3>1. CASE i = n + 1
      BY <3>1
    <3>2. CASE i # n + 1
      <4>1. i \in 1..n /\ e[i] = h[i] /\ e[i - 1] = h[i - 1]
        BY <3>2
      <4> QED BY <2>1, <4>1 DEF Doubles
    <3> QED BY <3>1, <3>2
  <2> HIDE DEF e
  <2>4. Doubles(e, n + 1)
    BY <2>2, <2>3 DEF Doubles
  <2> QED BY <2>4
<1>3. K = Nat
  <2> HIDE DEF K
  <2>1. K \subseteq Nat
    BY DEF K
  <2> QED BY <1>1, <1>2, <2>1, NatSet
<1> QED BY <1>3

LEMMA DoublesAgree ==
    ASSUME NEW n \in Nat, NEW m \in Nat, NEW h, NEW e, Doubles(h, n), Doubles(e, m), n <= m
    PROVE  h[n] = e[n]
<1> DEFINE K == {i \in Nat : i <= n => h[i] = e[i]}
<1>1. 0 \in K
  BY DEF Doubles
<1>2. ASSUME NEW i \in K PROVE i + 1 \in K
  <2>1. CASE i + 1 <= n
    <3>1. i + 1 \in 1..n /\ i + 1 \in 1..m /\ (i + 1) - 1 = i /\ h[i] = e[i]
      BY <2>1
    <3>2. h[i + 1] = 2 * h[i] /\ e[i + 1] = 2 * e[i]
      BY <3>1 DEF Doubles
    <3> QED BY <3>1, <3>2
  <2>2. CASE ~(i + 1 <= n)
    BY <2>2
  <2> QED BY <2>1, <2>2
<1>3. K = Nat
  <2> HIDE DEF K
  <2>1. K \subseteq Nat
    BY DEF K
  <2> QED BY <1>1, <1>2, <2>1, NatSet
<1> QED BY <1>3

\* The recursive definition of Power defines something.
LEMMA PowerUnfold ==
    Power = [n \in Nat |-> IF n = 0 THEN 1 ELSE 2 * Power[n - 1]]
<1> DEFINE up(n) == CHOOSE h : Doubles(h, n)
           g == [n \in Nat |-> up(n)[n]]
<1>1. \A n \in Nat : Doubles(up(n), n)
  BY DoublesExists
<1> HIDE DEF up
<1>2. g[0] = 1
  BY <1>1 DEF Doubles
<1>3. ASSUME NEW n \in Nat \ {0} PROVE g[n] = 2 * g[n - 1]
  <2>1. n - 1 \in Nat /\ n - 1 <= n /\ n \in 1..n
    OBVIOUS
  <2>2. up(n)[n] = 2 * up(n)[n - 1]
    BY <1>1, <2>1 DEF Doubles
  <2>3. up(n - 1)[n - 1] = up(n)[n - 1]
    BY <1>1, <2>1, DoublesAgree
  <2> QED BY <2>1, <2>2, <2>3
<1>4. g = [n \in Nat |-> g[n]]
  OBVIOUS
<1> HIDE DEF g
<1>5. g = [n \in Nat |-> IF n = 0 THEN 1 ELSE 2 * g[n - 1]]
  <2>1. \A n \in Nat : g[n] = IF n = 0 THEN 1 ELSE 2 * g[n - 1]
    BY <1>2, <1>3
  <2> QED BY <1>4, <2>1
<1>6. \E f : f = [n \in Nat |-> IF n = 0 THEN 1 ELSE 2 * f[n - 1]]
  BY <1>5
<1> QED BY <1>6 DEF Power

LEMMA PowerStep ==
    /\ Power[0] = 1
    /\ \A n \in Nat : Power[n] \in Nat \ {0} /\ Power[n + 1] = 2 * Power[n]
<1>1. Power[0] = 1
  BY PowerUnfold
<1>2. ASSUME NEW n \in Nat PROVE Power[n + 1] = 2 * Power[n]
  <2>1. n + 1 \in Nat /\ n + 1 # 0 /\ (n + 1) - 1 = n
    OBVIOUS
  <2> QED BY <2>1, PowerUnfold
<1> DEFINE K == {n \in Nat : Power[n] \in Nat \ {0}}
<1>3. 0 \in K
  BY <1>1
<1>4. ASSUME NEW n \in K PROVE n + 1 \in K
  BY <1>2
<1>5. K = Nat
  <2> HIDE DEF K
  <2>1. K \subseteq Nat
    BY DEF K
  <2> QED BY <1>3, <1>4, <2>1, NatSet
<1> QED BY <1>1, <1>2, <1>5

\* A delay is one, and not shorter for one failure more.
LEMMA DelayGrows ==
    ASSUME NEW n \in Nat
    PROVE  Delay(n) \in Nat /\ Delay(n + 1) \in Nat /\ Delay(n) <= Delay(n + 1)
<1> USE DelayAssumption
<1>1. CASE n < Free
  <2>1. Delay(n) = 0 /\ Delay(n + 1) = 0
    BY <1>1 DEF Delay
  <2> QED BY <2>1
<1>2. CASE n = Free
  <2>1. (n + 1) - Free = 1 /\ Power[1] \in Nat
    BY <1>2, PowerStep
  <2>2. Delay(n) = 0 /\ Delay(n + 1) \in Nat
    BY <1>2, <2>1 DEF Delay
  <2> QED BY <2>2
<1>3. CASE n > Free
  <2> DEFINE k == n - Free
  <2>1. k \in Nat /\ (n + 1) - Free = k + 1
    BY <1>3
  <2>2. /\ Power[k] \in Nat /\ Power[k + 1] \in Nat /\ Power[k] <= Power[k + 1]
    <3>1. Power[k] \in Nat /\ Power[k + 1] = 2 * Power[k]
      BY <2>1, PowerStep
    <3> QED BY <3>1
  <2>3. Delay(n) = IF Power[k] <= MaxDelay THEN Power[k] ELSE MaxDelay
    BY <1>3 DEF Delay
  <2>4. Delay(n + 1) = IF Power[k + 1] <= MaxDelay THEN Power[k + 1] ELSE MaxDelay
    BY <1>3, <2>1 DEF Delay
  <2> HIDE DEF k
  <2> QED BY <2>2, <2>3, <2>4
<1> QED BY <1>1, <1>2, <1>3

LEMMA DelayInt == ASSUME NEW n \in Nat PROVE Delay(n) \in Int
  BY DelayGrows

LEMMA NthNat == ASSUME Typed, NEW a \in Addrs PROVE Nth(a) \in Nat
  BY DelayAssumption DEF Nth, Typed

\* What counting a failure leaves of the types, and of the delays of others.
LEMMA RecordKeeps ==
    ASSUME Typed, NEW a \in Addrs, Record(a)
    PROVE  /\ fails' \in [Addrs -> Nat] /\ due' \in [Addrs -> Int]
           /\ \A b \in Addrs \ {a} : due'[b] > 0 => due[b] > 0
<1>1. CASE Nth(a) - Free >= MaxExponent
  <2>1. Forget(a)
    BY <1>1 DEF Record
  <2>2. fails' \in [Addrs -> Nat] /\ due' \in [Addrs -> Int]
    BY <2>1 DEF Forget, Typed
  <2>3. \A b \in Addrs \ {a} : due'[b] = due[b]
    BY <2>1 DEF Forget, Typed
  <2> QED BY <2>2, <2>3
<1>2. CASE ~(Nth(a) - Free >= MaxExponent)
  <2>1. Entered(a, Renewed(book, a))
    BY <1>2 DEF Record
  <2>2. Nth(a) \in Nat /\ Delay(Nth(a)) \in Int
    BY NthNat, DelayInt
  <2>3. fails' \in [Addrs -> Nat]
    BY <2>1, <2>2 DEF Entered, Typed
  <2>4. due' \in [Addrs -> Int]
    BY <2>1, <2>2 DEF Entered, Typed
  <2>5. ASSUME NEW b \in Addrs \ {a}, due'[b] > 0 PROVE due[b] > 0
    BY <2>1, <2>5 DEF Entered, Typed
  <2> QED BY <2>3, <2>4, <2>5
<1> QED BY <1>1, <1>2

\* The end of a verification moves at most one other request on, which waits.
LEMMA LeavesKeeps ==
    ASSUME Typed, Placed, Lined, NEW r \in Reqs, Leaves(r)
    PROVE  /\ pc' \in [Reqs -> {"idle", "body", "line", "verify"}]
           /\ from' \in [Reqs -> Addrs \cup {None}] /\ line' \in Seq(Reqs)
           /\ Placed' /\ Lined'
           /\ \A q \in Reqs : pc'[q] # "idle" =>
                 q # r /\ pc[q] # "idle" /\ from'[q] = from[q]
           /\ from[r] \in Addrs
<1>1. /\ pc' \in [Reqs -> {"idle", "body", "line", "verify"}]
      /\ from' \in [Reqs -> Addrs \cup {None}] /\ from[r] \in Addrs
  BY DEF Leaves, Typed, Placed
<1>2. CASE line = <<>>
  <2>1. line' = <<>> /\ \A q \in Reqs \ {r} : pc'[q] = pc[q] /\ from'[q] = from[q]
    BY <1>2 DEF Leaves, Typed
  <2>2. pc'[r] = "idle"
    BY DEF Leaves, Typed
  <2>3. line' \in Seq(Reqs) /\ Lined'
    BY <2>1 DEF Lined
  <2>4. Placed'
    BY <2>1, <2>2 DEF Placed
  <2> QED BY <1>1, <2>1, <2>2, <2>3, <2>4
<1>3. CASE line # <<>>
  <2>1. /\ Len(line) \in Nat \ {0} /\ Head(line) = line[1] /\ Head(line) \in Reqs
        /\ Tail(line) \in Seq(Reqs) /\ Len(Tail(line)) = Len(line) - 1
        /\ \A i \in 1..Len(Tail(line)) : Tail(line)[i] = line[i + 1]
    BY <1>3 DEF Typed
  <2>2. pc[Head(line)] = "line" /\ Head(line) # r
    BY <2>1 DEF Lined, Leaves
  <2>3. /\ pc'[r] = "idle" /\ pc'[Head(line)] = "verify"
        /\ \A q \in Reqs \ {r, Head(line)} : pc'[q] = pc[q]
    BY <1>3, <2>1, <2>2 DEF Leaves, Typed
  <2>4. \A q \in Reqs \ {r} : from'[q] = from[q]
    BY DEF Leaves, Typed
  <2>5. line' = Tail(line)
    BY <1>3 DEF Leaves
  <2>6. Placed'
    BY <2>2, <2>3, <2>4 DEF Placed
  <2>7. ASSUME NEW i \in 1..Len(line') PROVE pc'[line'[i]] = "line"
    <3>1. i + 1 \in 1..Len(line) /\ line'[i] = line[i + 1] /\ line[i + 1] \in Reqs
      BY <2>1, <2>5 DEF Typed
    <3>2. pc[line[i + 1]] = "line" /\ line[i + 1] # Head(line)
      BY <3>1, <2>1 DEF Lined
    <3>3. line[i + 1] # r
      BY <3>2 DEF Leaves
    <3> QED BY <3>1, <3>2, <3>3, <2>3
  <2>8. ASSUME NEW i \in 1..Len(line'), NEW j \in 1..Len(line'), line'[i] = line'[j]
        PROVE  i = j
    <3>1. /\ i + 1 \in 1..Len(line) /\ j + 1 \in 1..Len(line)
          /\ line[i + 1] = line[j + 1]
      BY <2>1, <2>5, <2>8
    <3>2. i + 1 = j + 1
      BY <3>1 DEF Lined
    <3> QED BY <3>2
  <2>9. Lined'
    BY <2>7, <2>8 DEF Lined
  <2> QED BY <1>1, <2>1, <2>2, <2>3, <2>4, <2>5, <2>6, <2>9
<1> QED BY <1>2, <1>3

-----------------------------------------------------------------------------
(* The steps *)

LEMMA AdmitStep ==
    ASSUME LInv, NEW r \in Reqs, NEW a \in Addrs, Admit(r, a)
    PROVE  LInv'
<1>1. Typed' /\ Placed'
  BY DEF LInv, Admit, delays, throttle, Typed, Placed
<1>2. Lined'
  BY DEF LInv, Admit, Typed, Lined
<1>3. BlockHolds'
  BY DEF LInv, Admit, delays, Typed, BlockHolds, Blocked
<1> QED BY <1>1, <1>2, <1>3 DEF LInv, Admit, throttle, Folded

LEMMA BodyStep ==
    ASSUME LInv, NEW r \in Reqs, GetsBody(r)
    PROVE  LInv'
<1> USE DEF LInv
<1>1. pc[r] = "body" /\ UNCHANGED <<delays, from, early, throttle>>
  BY DEF GetsBody
<1>2. CASE pc' = [pc EXCEPT ![r] = "verify"] /\ UNCHANGED line
  <2>1. Typed' /\ Placed'
    BY <1>1, <1>2 DEF delays, throttle, Typed, Placed
  <2>2. Lined'
    BY <1>1, <1>2 DEF Typed, Lined
  <2> QED BY <1>1, <1>2, <2>1, <2>2 DEF delays, throttle, Typed, BlockHolds, Blocked, Folded
<1>3. CASE pc' = [pc EXCEPT ![r] = "line"] /\ line' = Append(line, r)
  <2>1. Typed' /\ Placed'
    BY <1>1, <1>3 DEF delays, throttle, Typed, Placed
  <2>2. /\ Len(line) \in Nat /\ Len(line') = Len(line) + 1 /\ line'[Len(line) + 1] = r
        /\ \A i \in 1..Len(line) : line'[i] = line[i] /\ line[i] \in Reqs /\ line[i] # r
    BY <1>1, <1>3 DEF Typed, Lined
  <2>3. \A i \in 1..Len(line') : pc'[line'[i]] = "line"
    BY <1>3, <2>2 DEF Typed, Lined
  <2>4. \A i, j \in 1..Len(line') : line'[i] = line'[j] => i = j
    BY <2>2 DEF Lined
  <2>5. BlockHolds'
    BY <1>1, <1>3 DEF delays, Typed, BlockHolds, Blocked
  <2> QED BY <1>1, <2>1, <2>3, <2>4, <2>5 DEF throttle, Lined, Folded
<1> QED BY <1>2, <1>3 DEF GetsBody

LEMMA BadBodyStep ==
    ASSUME LInv, NEW r \in Reqs, BadBody(r)
    PROVE  LInv'
<1>1. Typed' /\ Placed'
  BY DEF LInv, BadBody, delays, throttle, Typed, Placed
<1>2. Lined'
  BY DEF LInv, BadBody, Typed, Lined
<1>3. BlockHolds'
  BY DEF LInv, BadBody, delays, Typed, BlockHolds, Blocked
<1> QED BY <1>1, <1>2, <1>3 DEF LInv, BadBody, throttle, Folded

\* The address that failed may get a delay: its requests are early from then on.
LEMMA FailsStep ==
    ASSUME LInv, NEW r \in Reqs, Fails(r)
    PROVE  LInv'
<1> DEFINE a == from[r]
<1>1. Leaves(r) /\ Record(a) /\ UNCHANGED throttle
      /\ early' = (early \ {r}) \cup {q \in Reqs \ {r} : from[q] = a /\ due'[a] > 0}
  BY DEF Fails
<1>2. /\ pc' \in [Reqs -> {"idle", "body", "line", "verify"}]
      /\ from' \in [Reqs -> Addrs \cup {None}] /\ line' \in Seq(Reqs)
      /\ Placed' /\ Lined'
      /\ \A q \in Reqs : pc'[q] # "idle" => q # r /\ pc[q] # "idle" /\ from'[q] = from[q]
      /\ a \in Addrs
  BY <1>1, LeavesKeeps DEF LInv
<1>3. /\ fails' \in [Addrs -> Nat] /\ due' \in [Addrs -> Int]
      /\ \A b \in Addrs \ {a} : due'[b] > 0 => due[b] > 0
  BY <1>1, <1>2, RecordKeeps DEF LInv
<1>4. Typed' /\ Folded'
  BY <1>1, <1>2, <1>3 DEF LInv, throttle, Typed, Folded
<1>5. ASSUME NEW q \in Reqs, pc'[q] # "idle", due'[from'[q]] > 0 PROVE q \in early'
  <2>1. q # r /\ pc[q] # "idle" /\ from'[q] = from[q] /\ from[q] \in Addrs
    BY <1>2, <1>5 DEF LInv, Placed
  <2>2. CASE from[q] = a
    BY <1>1, <1>5, <2>1, <2>2
  <2>3. CASE from[q] # a
    <3>1. due[from[q]] > 0
      BY <1>3, <1>5, <2>1, <2>3
    <3> QED BY <1>1, <2>1, <3>1 DEF LInv, BlockHolds, Blocked
  <2> QED BY <2>2, <2>3
<1>6. BlockHolds'
  BY <1>5 DEF BlockHolds, Blocked
<1> QED BY <1>2, <1>4, <1>6 DEF LInv

LEMMA SucceedsStep ==
    ASSUME LInv, NEW r \in Reqs, Succeeds(r)
    PROVE  LInv'
<1> DEFINE a == from[r]
<1>1. Leaves(r) /\ Forget(a) /\ UNCHANGED throttle /\ early' = early \ {r}
  BY DEF Succeeds
<1>2. /\ pc' \in [Reqs -> {"idle", "body", "line", "verify"}]
      /\ from' \in [Reqs -> Addrs \cup {None}] /\ line' \in Seq(Reqs)
      /\ Placed' /\ Lined'
      /\ \A q \in Reqs : pc'[q] # "idle" => q # r /\ pc[q] # "idle" /\ from'[q] = from[q]
      /\ a \in Addrs
  BY <1>1, LeavesKeeps DEF LInv
<1>3. /\ fails' \in [Addrs -> Nat] /\ due' \in [Addrs -> Int]
      /\ \A b \in Addrs : due'[b] > 0 => due[b] > 0
  BY <1>1, <1>2 DEF LInv, Forget, Typed
<1>4. Typed' /\ Folded'
  BY <1>1, <1>2, <1>3 DEF LInv, throttle, Typed, Folded
<1>5. ASSUME NEW q \in Reqs, pc'[q] # "idle", due'[from'[q]] > 0 PROVE q \in early'
  BY <1>1, <1>2, <1>3, <1>5 DEF LInv, Placed, BlockHolds, Blocked
<1>6. BlockHolds'
  BY <1>5 DEF BlockHolds, Blocked
<1> QED BY <1>2, <1>4, <1>6 DEF LInv

LEMMA RaisesStep ==
    ASSUME LInv, NEW r \in Reqs, Raises(r)
    PROVE  LInv'
<1>1. Leaves(r) /\ UNCHANGED <<delays, throttle>> /\ early' = early \ {r}
  BY DEF Raises
<1>2. /\ pc' \in [Reqs -> {"idle", "body", "line", "verify"}]
      /\ from' \in [Reqs -> Addrs \cup {None}] /\ line' \in Seq(Reqs)
      /\ Placed' /\ Lined'
      /\ \A q \in Reqs : pc'[q] # "idle" => q # r /\ pc[q] # "idle" /\ from'[q] = from[q]
  BY <1>1, LeavesKeeps DEF LInv
<1>3. Typed' /\ Folded'
  BY <1>1, <1>2 DEF LInv, delays, throttle, Typed, Folded
<1>4. BlockHolds'
  BY <1>1, <1>2 DEF LInv, delays, BlockHolds, Blocked
<1> QED BY <1>2, <1>3, <1>4 DEF LInv

\* A new line tells of what was held back; an entry that goes takes both counts.
LEMMA RejectStep ==
    ASSUME LInv, NEW k \in Refused, Reject(k)
    PROVE  LInv'
<1> USE DEF LInv
<1>1. UNCHANGED <<delays, requests, early>>
  BY DEF Reject
<1>2. held' \in [Refused -> Nat] /\ untold' = held'
  <2>1. CASE InWindow(k)
    <3>1. held' = [held EXCEPT ![k] = @ + 1] /\ untold' = [untold EXCEPT ![k] = @ + 1]
      BY <2>1 DEF Reject
    <3> QED BY <3>1 DEF Typed, Folded
  <2>2. CASE ~InWindow(k)
    <3>1. NewLine(k)
      BY <2>2 DEF Reject
    <3>2. PICK gone : /\ held' = [x \in Refused |-> IF x \in gone \cup {k} THEN 0 ELSE held[x]]
                      /\ untold' = [x \in Refused |-> IF x \in gone THEN 0
                                      ELSE IF x = k THEN untold[x] - held[x] ELSE untold[x]]
      BY <3>1, Zenon DEF NewLine
    <3> QED BY <3>2 DEF Typed, Folded
  <2> QED BY <2>1, <2>2
<1>3. Typed' /\ Placed' /\ Lined' /\ Folded'
  BY <1>1, <1>2 DEF delays, requests, Typed, Placed, Lined, Folded
<1> QED BY <1>1, <1>3 DEF delays, requests, BlockHolds, Blocked

LEMMA TickStep == ASSUME LInv, Tick PROVE LInv'
<1> USE DEF LInv
<1>1. due' \in [Addrs -> Int] /\ \A a \in Addrs : due'[a] > 0 => due[a] > 0
  BY DEF Tick, Typed
<1>2. UNCHANGED <<fails, requests, early, held, untold>>
  BY DEF Tick
<1>3. Typed' /\ Placed' /\ Lined' /\ Folded'
  BY <1>1, <1>2 DEF requests, Typed, Placed, Lined, Folded
<1>4. BlockHolds'
  BY <1>1, <1>2 DEF requests, Placed, BlockHolds, Blocked
<1> QED BY <1>3, <1>4

LEMMA NextLInv == LInv /\ [Next]_vars => LInv'
<1> SUFFICES ASSUME LInv, [Next]_vars PROVE LInv'
  OBVIOUS
<1>1. CASE UNCHANGED vars
  BY <1>1 DEF vars, delays, requests, throttle, LInv, Typed, Placed, Lined, BlockHolds,
              Blocked, Folded
<1>2. CASE Next
  <2>1. CASE Tick
    BY <2>1, TickStep
  <2>2. CASE \E k \in Refused : Reject(k)
    BY <2>2, RejectStep
  <2>3. ASSUME NEW r \in Reqs,
               \/ \E a \in Addrs : Admit(r, a)
               \/ GetsBody(r) \/ BadBody(r) \/ Fails(r) \/ Succeeds(r) \/ Raises(r)
        PROVE  LInv'
    BY <2>3, AdmitStep, BodyStep, BadBodyStep, FailsStep, SucceedsStep, RaisesStep
  <2> QED BY <1>2, <2>1, <2>2, <2>3 DEF Next
<1> QED BY <1>1, <1>2

-----------------------------------------------------------------------------
\* The strengthening is an invariant of the login and of the audit's folding.
THEOREM Inductive == Spec => []LInv
  BY InitLInv, NextLInv, PTL DEF Spec

\* Once a delay of an address has begun, no request of it that had not passed the
\* check of login() by then is verified (auth.py): for any number of addresses,
\* requests and slots, and any lengths of the delays.
THEOREM BlockHoldsAlways == Spec => []BlockHolds
<1>1. LInv => BlockHolds
  BY DEF LInv
<1> QED BY <1>1, Inductive, PTL

\* audit_throttled loses the count of no rejection as long as its entry is kept.
THEOREM FoldedAlways == Spec => []Folded
<1>1. LInv => Folded
  BY DEF LInv
<1> QED BY <1>1, Inductive, PTL
-----------------------------------------------------------------------------
(* What is forgotten *)

Distinct(q) == \A i, j \in 1..Len(q) : q[i] = q[j] => i = j
Before(q, x, y) == \E i, j \in 1..Len(q) : i < j /\ q[i] = x /\ q[j] = y

\* The dictionary of failures has its keys in the order of their last failures.
Ordered ==
    /\ book \in Seq(Addrs) /\ Distinct(book) /\ Len(book) <= Limit
    /\ recent \in Seq(Addrs) /\ Distinct(recent)
    /\ \A a \in Addrs : In(book, a) => In(recent, a)
    /\ \A a, b \in Addrs : Before(book, a, b) => Before(recent, a, b)

\* An entry has a failure to tell of, and no delay is longer than its count says.
Counted ==
    /\ \A a \in Addrs : fails[a] > 0 <=> In(book, a)
    /\ \A a \in Addrs : fails[a] = 0 => due[a] = 0
    /\ \A a \in Addrs : due[a] <= Delay(fails[a])

\* NotForgotten needs both: the first entry has to be the oldest one, and a
\* failure more may not make the delay shorter.
DInv == Ordered /\ Counted


-----------------------------------------------------------------------------
(* Ordered dictionaries *)

\* Sequence t is q without its element i.
Without(t, q, i) ==
    /\ Len(t) = Len(q) - 1
    /\ \A k \in 1..Len(t) : t[k] = IF k < i THEN q[k] ELSE q[k + 1]

LEMMA CutWithout ==
    ASSUME NEW S, NEW q \in Seq(S), NEW i \in 1..Len(q)
    PROVE  RemoveAt(q, i) \in Seq(S) /\ Without(RemoveAt(q, i), q, i)
<1> DEFINE a == SubSeq(q, 1, i - 1)
           b == SubSeq(q, i + 1, Len(q))
<1>1. /\ a \in Seq(S) /\ Len(a) = i - 1
      /\ \A k \in 1..i-1 : a[k] = q[k]
  OBVIOUS
<1>2. /\ b \in Seq(S) /\ Len(b) = Len(q) - i
      /\ \A k \in 1..Len(q)-i : b[k] = q[i + k]
  OBVIOUS
<1>3. RemoveAt(q, i) = a \o b
  BY DEF RemoveAt
<1> HIDE DEF a, b
<1>4. /\ a \o b \in Seq(S) /\ Len(a \o b) = Len(a) + Len(b)
      /\ \A k \in 1..Len(a)+Len(b) :
           (a \o b)[k] = IF k <= Len(a) THEN a[k] ELSE b[k - Len(a)]
  BY <1>1, <1>2, ConcatProperties
<1>5. ASSUME NEW k \in 1..Len(q)-1
      PROVE  (a \o b)[k] = IF k < i THEN q[k] ELSE q[k + 1]
  <2>1. CASE k < i
    <3>1. k \in 1..i-1 /\ k \in 1..Len(a)+Len(b) /\ k <= Len(a)
      BY <1>1, <1>2, <2>1
    <3>2. (a \o b)[k] = a[k] /\ a[k] = q[k]
      BY <1>1, <1>4, <3>1
    <3> QED BY <2>1, <3>2
  <2>2. CASE ~(k < i)
    <3>1. k - Len(a) \in 1..Len(q)-i /\ i + (k - Len(a)) = k + 1
      BY <1>1, <2>2
    <3>2. (a \o b)[k] = b[k - Len(a)]
      BY <1>1, <1>2, <1>4, <2>2
    <3> QED BY <1>2, <2>2, <3>1, <3>2
  <2> QED BY <2>1, <2>2
<1>6. Len(a \o b) = Len(q) - 1
  BY <1>1, <1>2, <1>4
<1> QED BY <1>3, <1>4, <1>5, <1>6 DEF Without

\* What is left when i goes: the others, in their order.
LEMMA WithoutKeeps ==
    ASSUME NEW S, NEW q \in Seq(S), Distinct(q), NEW i \in 1..Len(q),
           NEW t \in Seq(S), Without(t, q, i)
    PROVE  /\ Distinct(t) /\ ~In(t, q[i])
           /\ \A x : x # q[i] => (In(t, x) <=> In(q, x))
           /\ \A x, y : Before(t, x, y) => Before(q, x, y)
           /\ \A x, y : x # q[i] /\ y # q[i] /\ Before(q, x, y) => Before(t, x, y)
<1>0. Len(t) = Len(q) - 1 /\ Len(q) \in Nat
  BY DEF Without
<1> DEFINE old(k) == IF k < i THEN k ELSE k + 1
           new(k) == IF k < i THEN k ELSE k - 1
<1>1. \A k \in 1..Len(t) : old(k) \in 1..Len(q) \ {i} /\ t[k] = q[old(k)]
  BY <1>0 DEF Without
<1>2. \A k \in 1..Len(q) \ {i} : new(k) \in 1..Len(t) /\ t[new(k)] = q[k]
  <2> SUFFICES ASSUME NEW k \in 1..Len(q) \ {i}
               PROVE  new(k) \in 1..Len(t) /\ t[new(k)] = q[k]
    OBVIOUS
  <2>1. CASE k < i
    BY <1>0, <2>1 DEF Without
  <2>2. CASE k > i
    BY <1>0, <2>2 DEF Without
  <2> QED BY <1>0, <2>1, <2>2
<1>3. \A j, k \in 1..Len(t) : (j < k <=> old(j) < old(k)) /\ (old(j) = old(k) => j = k)
  BY <1>0
<1>4. \A j, k \in 1..Len(q) \ {i} : j < k => new(j) < new(k)
  BY <1>0
<1> HIDE DEF old, new
<1>5. \A j, k \in 1..Len(q) : q[j] = q[k] => j = k
  BY DEF Distinct
<1>6. Distinct(t)
  <2> SUFFICES ASSUME NEW j \in 1..Len(t), NEW k \in 1..Len(t), t[j] = t[k] PROVE j = k
    BY DEF Distinct
  <2>1. q[old(j)] = q[old(k)] /\ old(j) \in 1..Len(q) /\ old(k) \in 1..Len(q)
    BY <1>1
  <2>2. old(j) = old(k)
    BY <1>5, <2>1
  <2> QED BY <1>3, <2>2
<1>7. ~In(t, q[i])
  <2> SUFFICES ASSUME NEW k \in 1..Len(t), t[k] = q[i] PROVE FALSE
    BY DEF In
  <2>1. old(k) \in 1..Len(q) \ {i} /\ q[old(k)] = q[i]
    BY <1>1
  <2> QED BY <1>5, <2>1
<1>8. ASSUME NEW x, In(t, x) PROVE In(q, x)
  BY <1>1, <1>8 DEF In
<1>9. ASSUME NEW x, x # q[i], In(q, x) PROVE In(t, x)
  <2>1. PICK k \in 1..Len(q) : q[k] = x
    BY <1>9 DEF In
  <2>2. new(k) \in 1..Len(t) /\ t[new(k)] = x
    BY <1>2, <1>9, <2>1
  <2> QED BY <2>2 DEF In
<1>10. ASSUME NEW x, NEW y, Before(t, x, y) PROVE Before(q, x, y)
  <2>1. PICK j \in 1..Len(t), k \in 1..Len(t) : j < k /\ t[j] = x /\ t[k] = y
    BY <1>10 DEF Before
  <2>2. /\ old(j) \in 1..Len(q) /\ old(k) \in 1..Len(q) /\ old(j) < old(k)
        /\ q[old(j)] = x /\ q[old(k)] = y
    BY <1>1, <1>3, <2>1
  <2> QED BY <2>2 DEF Before
<1>11. ASSUME NEW x, NEW y, x # q[i], y # q[i], Before(q, x, y) PROVE Before(t, x, y)
  <2>1. PICK j \in 1..Len(q), k \in 1..Len(q) : j < k /\ q[j] = x /\ q[k] = y
    BY <1>11 DEF Before
  <2>2. /\ new(j) \in 1..Len(t) /\ new(k) \in 1..Len(t) /\ new(j) < new(k)
        /\ t[new(j)] = x /\ t[new(k)] = y
    BY <1>2, <1>4, <1>11, <2>1
  <2> QED BY <2>2 DEF Before
<1> QED BY <1>6, <1>7, <1>8, <1>9, <1>10, <1>11

LEMMA PoppedKeeps ==
    ASSUME NEW S, NEW q \in Seq(S), Distinct(q), NEW k
    PROVE  /\ Popped(q, k) \in Seq(S) /\ Distinct(Popped(q, k)) /\ ~In(Popped(q, k), k)
           /\ Len(Popped(q, k)) = IF In(q, k) THEN Len(q) - 1 ELSE Len(q)
           /\ \A x : x # k => (In(Popped(q, k), x) <=> In(q, x))
           /\ \A x, y : Before(Popped(q, k), x, y) => Before(q, x, y)
           /\ \A x, y : x # k /\ y # k /\ Before(q, x, y) => Before(Popped(q, k), x, y)
<1>1. CASE In(q, k)
  <2> DEFINE i == Place(q, k)
             t == RemoveAt(q, i)
  <2>1. i \in 1..Len(q) /\ q[i] = k
    BY <1>1 DEF In, Place
  <2>2. t \in Seq(S) /\ Without(t, q, i)
    BY <2>1, CutWithout
  <2>3. Popped(q, k) = t
    BY <1>1 DEF Popped
  <2> HIDE DEF t, i
  <2>4. Len(t) = Len(q) - 1
    BY <2>2 DEF Without
  <2>5. /\ Distinct(t) /\ ~In(t, q[i])
        /\ \A x : x # q[i] => (In(t, x) <=> In(q, x))
        /\ \A x, y : Before(t, x, y) => Before(q, x, y)
        /\ \A x, y : x # q[i] /\ y # q[i] /\ Before(q, x, y) => Before(t, x, y)
    BY <2>1, <2>2, WithoutKeeps
  <2> QED BY <1>1, <2>1, <2>2, <2>3, <2>4, <2>5
<1>2. CASE ~In(q, k)
  <2>1. Popped(q, k) = q
    BY <1>2 DEF Popped
  <2> QED BY <1>2, <2>1
<1> QED BY <1>1, <1>2

LEMMA AppendKeeps ==
    ASSUME NEW S, NEW q \in Seq(S), Distinct(q), NEW k \in S, ~In(q, k)
    PROVE  /\ Append(q, k) \in Seq(S) /\ Distinct(Append(q, k))
           /\ Len(Append(q, k)) = Len(q) + 1
           /\ \A x : In(Append(q, k), x) <=> In(q, x) \/ x = k
           /\ \A x, y : Before(Append(q, k), x, y) <=>
                Before(q, x, y) \/ (In(q, x) /\ y = k)
<1> DEFINE t == Append(q, k)
           n == Len(q) + 1
<1>1. /\ t \in Seq(S) /\ Len(t) = n /\ t[n] = k /\ Len(q) \in Nat
      /\ \A i \in 1..Len(q) : t[i] = q[i]
  OBVIOUS
<1>2. \A i \in 1..Len(q) : q[i] # k
  BY DEF In
<1> HIDE DEF t
<1>3. 1..Len(t) = 1..Len(q) \cup {n} /\ n \notin 1..Len(q) /\ \A i \in 1..Len(q) : i < n
  BY <1>1
<1>4. \A i, j \in 1..Len(q) : q[i] = q[j] => i = j
  BY DEF Distinct
<1> HIDE DEF n
<1>5. Distinct(t)
  BY <1>1, <1>2, <1>3, <1>4 DEF Distinct
<1>6. \A x : In(t, x) <=> In(q, x) \/ x = k
  BY <1>1, <1>3 DEF In
<1>7. ASSUME NEW x, NEW y, Before(t, x, y) PROVE Before(q, x, y) \/ (In(q, x) /\ y = k)
  <2>1. PICK i \in 1..Len(t), j \in 1..Len(t) : i < j /\ t[i] = x /\ t[j] = y
    BY <1>7 DEF Before
  <2>2. i \in 1..Len(q)
    BY <1>1, <1>3, <2>1 DEF n
  <2>3. CASE j = n
    BY <1>1, <2>1, <2>2, <2>3 DEF In
  <2>4. CASE j # n
    BY <1>1, <1>3, <2>1, <2>2, <2>4 DEF Before
  <2> QED BY <2>3, <2>4
<1>8. ASSUME NEW x, NEW y, Before(q, x, y) PROVE Before(t, x, y)
  BY <1>1, <1>3, <1>8 DEF Before
<1>9. ASSUME NEW x, In(q, x) PROVE Before(t, x, k)
  <2>1. PICK i \in 1..Len(q) : q[i] = x
    BY <1>9 DEF In
  <2>2. i \in 1..Len(t) /\ n \in 1..Len(t) /\ i < n /\ t[i] = x /\ t[n] = k
    BY <1>1, <1>3, <2>1
  <2> QED BY <2>2 DEF Before
<1>10. \A x, y : Before(t, x, y) <=> Before(q, x, y) \/ (In(q, x) /\ y = k)
  BY <1>7, <1>8, <1>9
<1>11. Len(t) = Len(q) + 1
  BY <1>1 DEF n
<1> QED BY <1>1, <1>5, <1>6, <1>10, <1>11 DEF t

\* pop and re-insertion make k the newest and leave the order of the others.
LEMMA RenewedKeeps ==
    ASSUME NEW S, NEW q \in Seq(S), Distinct(q), NEW k \in S
    PROVE  /\ Renewed(q, k) \in Seq(S) /\ Distinct(Renewed(q, k))
           /\ Len(Renewed(q, k)) = IF In(q, k) THEN Len(q) ELSE Len(q) + 1
           /\ \A x : In(Renewed(q, k), x) <=> In(q, x) \/ x = k
           /\ \A x, y : Before(Renewed(q, k), x, y) <=>
                /\ x # k
                /\ (Before(q, x, y) /\ y # k) \/ (In(q, x) /\ y = k)
<1> DEFINE p == Popped(q, k)
<1>1. /\ p \in Seq(S) /\ Distinct(p) /\ ~In(p, k)
      /\ Len(p) = IF In(q, k) THEN Len(q) - 1 ELSE Len(q)
      /\ \A x : x # k => (In(p, x) <=> In(q, x))
      /\ \A x, y : Before(p, x, y) => Before(q, x, y)
      /\ \A x, y : x # k /\ y # k /\ Before(q, x, y) => Before(p, x, y)
  BY PoppedKeeps
<1>2. Renewed(q, k) = Append(p, k)
  BY DEF Renewed
<1> HIDE DEF p
<1>3. /\ Append(p, k) \in Seq(S) /\ Distinct(Append(p, k))
      /\ Len(Append(p, k)) = Len(p) + 1
      /\ \A x : In(Append(p, k), x) <=> In(p, x) \/ x = k
      /\ \A x, y : Before(Append(p, k), x, y) <=> Before(p, x, y) \/ (In(p, x) /\ y = k)
  BY <1>1, AppendKeeps
<1>4. \A x, y : Before(p, x, y) => x # k /\ y # k
  BY <1>1 DEF Before, In
<1>5. \A x, y : Before(p, x, y) <=> Before(q, x, y) /\ x # k /\ y # k
  BY <1>1, <1>4
<1>6. Len(q) \in Nat
  OBVIOUS
<1>7. Len(Renewed(q, k)) = IF In(q, k) THEN Len(q) ELSE Len(q) + 1
  BY <1>1, <1>2, <1>3, <1>6
<1>8. \A x : In(Renewed(q, k), x) <=> In(q, x) \/ x = k
  BY <1>1, <1>2, <1>3
<1>10. \A x : In(p, x) <=> In(q, x) /\ x # k
  BY <1>1
<1>9. \A x, y : Before(Renewed(q, k), x, y) <=>
                /\ x # k
                /\ (Before(q, x, y) /\ y # k) \/ (In(q, x) /\ y = k)
  BY <1>2, <1>3, <1>5, <1>10
<1> QED BY <1>2, <1>3, <1>7, <1>8, <1>9

\* popitem takes the oldest, and only if there are too many.
LEMMA KeptKeeps ==
    ASSUME NEW S, NEW q \in Seq(S), Distinct(q), NEW size \in Nat \ {0}, Len(q) <= size + 1
    PROVE  /\ Kept(q, size) \in Seq(S) /\ Distinct(Kept(q, size)) /\ Len(Kept(q, size)) <= size
           /\ \A x : In(Kept(q, size), x) => In(q, x)
           /\ \A x : In(q, x) /\ ~In(Kept(q, size), x) => Len(q) = size + 1 /\ x = q[1]
           /\ \A x, y : Before(Kept(q, size), x, y) => Before(q, x, y)
           /\ q # <<>> => In(Kept(q, size), q[Len(q)])
<1>0. Len(q) \in Nat
  OBVIOUS
<1>1. CASE Len(q) > size
  <2> DEFINE t == SubSeq(q, 2, Len(q))
  <2>1. Kept(q, size) = t
    BY <1>1 DEF Kept
  <2>2. /\ t \in Seq(S) /\ Len(t) = Len(q) - 1
        /\ \A i \in 1..Len(q)-1 : t[i] = q[i + 1]
    BY <1>0, <1>1
  <2> HIDE DEF t
  <2>3. Without(t, q, 1) /\ 1 \in 1..Len(q)
    BY <1>0, <1>1, <2>2 DEF Without
  <2>4. /\ Distinct(t)
        /\ \A x : x # q[1] => (In(t, x) <=> In(q, x))
        /\ ~In(t, q[1])
        /\ \A x, y : Before(t, x, y) => Before(q, x, y)
    BY <2>2, <2>3, WithoutKeeps
  <2>5. In(q, q[1]) /\ In(q, q[Len(q)]) /\ q[1] # q[Len(q)]
    BY <1>0, <1>1, <2>3 DEF In, Distinct
  <2>6. Len(t) <= size /\ Len(q) = size + 1
    BY <1>0, <1>1, <2>2
  <2> QED BY <2>1, <2>2, <2>4, <2>5, <2>6
<1>2. CASE ~(Len(q) > size)
  <2>1. Kept(q, size) = q
    BY <1>0, <1>2 DEF Kept
  <2>2. Len(q) <= size
    BY <1>0, <1>2
  <2>3. q # <<>> => In(q, q[Len(q)])
    BY <1>0 DEF In
  <2> QED BY <2>1, <2>2, <2>3
<1> QED BY <1>1, <1>2

-----------------------------------------------------------------------------
(* The dictionary of failures *)

LEMMA BeforeIn == ASSUME NEW q, NEW x, NEW y, Before(q, x, y) PROVE In(q, x) /\ In(q, y)
  BY DEF Before, In

\* A new failure comes in last; only a new address pushes one out: the first.
LEMMA EnteredBook ==
    ASSUME Ordered, NEW a \in Addrs, book' = Kept(Renewed(book, a), Limit)
    PROVE  /\ book' \in Seq(Addrs) /\ Distinct(book') /\ Len(book') <= Limit
           /\ In(book', a)
           /\ \A x : In(book', x) => In(book, x) \/ x = a
           /\ \A x, y : Before(book', x, y) =>
                /\ x # a
                /\ (Before(book, x, y) /\ y # a) \/ (In(book, x) /\ y = a)
           /\ \A x : In(book, x) /\ ~In(book', x) =>
                Len(book) = Limit /\ ~In(book, a) /\ x = book[1]
<1> DEFINE q == Renewed(book, a)
<1>0. book \in Seq(Addrs) /\ Distinct(book) /\ Len(book) <= Limit /\ Len(book) \in Nat
  BY DEF Ordered
<1>1. /\ q \in Seq(Addrs) /\ Distinct(q)
      /\ Len(q) = IF In(book, a) THEN Len(book) ELSE Len(book) + 1
      /\ \A x : In(q, x) <=> In(book, x) \/ x = a
      /\ \A x, y : Before(q, x, y) <=>
           /\ x # a
           /\ (Before(book, x, y) /\ y # a) \/ (In(book, x) /\ y = a)
  BY <1>0, RenewedKeeps
<1>2. Popped(book, a) \in Seq(Addrs)
  BY <1>0, PoppedKeeps
<1>3. q # <<>> /\ q[Len(q)] = a
  BY <1>2 DEF Renewed
<1>4. ~In(book, a) => q = Append(book, a)
  BY DEF Renewed, Popped
<1> HIDE DEF q
<1>5. Limit \in Nat \ {0} /\ Len(q) <= Limit + 1
  BY <1>0, <1>1, SizeAssumption
<1>6. book' = Kept(q, Limit)
  BY DEF q
<1>7. /\ Kept(q, Limit) \in Seq(Addrs) /\ Distinct(Kept(q, Limit)) /\ Len(Kept(q, Limit)) <= Limit
      /\ \A x : In(Kept(q, Limit), x) => In(q, x)
      /\ \A x : In(q, x) /\ ~In(Kept(q, Limit), x) => Len(q) = Limit + 1 /\ x = q[1]
      /\ \A x, y : Before(Kept(q, Limit), x, y) => Before(q, x, y)
      /\ q # <<>> => In(Kept(q, Limit), q[Len(q)])
  BY <1>1, <1>5, KeptKeeps
<1>8. ASSUME NEW x, In(book, x), ~In(book', x)
      PROVE  Len(book) = Limit /\ ~In(book, a) /\ x = book[1]
  <2>1. Len(q) = Limit + 1 /\ x = q[1]
    BY <1>1, <1>6, <1>7, <1>8
  <2>2. ~In(book, a) /\ Len(book) = Limit
    BY <1>0, <1>1, <1>5, <2>1
  <2>3. q[1] = book[1]
    BY <1>0, <1>4, <1>5, <2>2
  <2> QED BY <2>1, <2>2, <2>3
<1>9. In(book', a)
  BY <1>3, <1>6, <1>7
<1>10. book' \in Seq(Addrs) /\ Distinct(book') /\ Len(book') <= Limit
  BY <1>6, <1>7
<1>11. \A x : In(book', x) => In(book, x) \/ x = a
  BY <1>1, <1>6, <1>7
<1>12. \A x, y : Before(book', x, y) =>
         /\ x # a
         /\ (Before(book, x, y) /\ y # a) \/ (In(book, x) /\ y = a)
  BY <1>1, <1>6, <1>7
<1> QED BY <1>8, <1>9, <1>10, <1>11, <1>12

\* The entry that is pushed out is the one that has not failed for the longest time.
LEMMA FirstIsOldest ==
    ASSUME Ordered, book # <<>>
    PROVE  Oldest(book[1])
<1> DEFINE f == book[1]
<1>0. book \in Seq(Addrs) /\ Len(book) \in Nat /\ 1 \in 1..Len(book) /\ f \in Addrs
  BY DEF Ordered
<1>1. In(book, f)
  BY <1>0 DEF In
<1>2. PICK i \in 1..Len(recent) : recent[i] = f
  BY <1>0, <1>1 DEF Ordered, In
<1>3. Len(recent) \in Nat /\ recent \in Seq(Addrs)
  BY DEF Ordered
<1>4. ASSUME NEW j \in 1..i-1, In(book, recent[j]) PROVE FALSE
  <2>1. j \in 1..Len(recent) /\ j < i /\ recent[j] \in Addrs
    BY <1>3
  <2>2. PICK n \in 1..Len(book) : book[n] = recent[j]
    BY <1>4 DEF In
  <2>3. recent[j] # f
    BY <1>2, <2>1 DEF Ordered, Distinct
  <2>4. 1 < n
    BY <1>0, <2>2, <2>3
  <2>5. Before(book, f, recent[j])
    BY <1>0, <2>2, <2>4 DEF Before
  <2>6. Before(recent, f, recent[j])
    BY <1>0, <2>1, <2>5 DEF Ordered
  <2>7. PICK k \in 1..Len(recent), m \in 1..Len(recent) :
          k < m /\ recent[k] = f /\ recent[m] = recent[j]
    BY <2>6 DEF Before
  <2>8. k = i /\ m = j
    BY <1>2, <2>1, <2>7 DEF Ordered, Distinct
  <2> QED BY <2>1, <2>7, <2>8
<1> QED BY <1>2, <1>4 DEF Oldest

\* The history after a failure.
LEMMA RecentOrdered ==
    ASSUME Ordered, NEW a \in Addrs, recent' = Renewed(recent, a)
    PROVE  /\ recent' \in Seq(Addrs) /\ Distinct(recent')
           /\ \A x : In(recent', x) <=> In(recent, x) \/ x = a
           /\ \A x, y : Before(recent', x, y) <=>
                /\ x # a
                /\ (Before(recent, x, y) /\ y # a) \/ (In(recent, x) /\ y = a)
<1>1. recent \in Seq(Addrs) /\ Distinct(recent)
  BY DEF Ordered
<1> DEFINE q == Renewed(recent, a)
<1>2. /\ q \in Seq(Addrs) /\ Distinct(q)
      /\ \A x : In(q, x) <=> In(recent, x) \/ x = a
      /\ \A x, y : Before(q, x, y) <=>
           /\ x # a
           /\ (Before(recent, x, y) /\ y # a) \/ (In(recent, x) /\ y = a)
  BY <1>1, RenewedKeeps
<1>3. recent' = q
  OBVIOUS
<1> HIDE DEF q
<1> QED BY <1>2, <1>3

\* Without a, the dictionary is in order with the old history and with the new one.
LEMMA ForgetOrdered ==
    ASSUME Ordered, NEW a \in Addrs, book' = Popped(book, a),
           recent' = recent \/ recent' = Renewed(recent, a)
    PROVE  /\ Ordered'
           /\ \A x : In(book', x) <=> In(book, x) /\ x # a
<1>0. book \in Seq(Addrs) /\ Distinct(book) /\ Len(book) <= Limit /\ Len(book) \in Nat
  BY DEF Ordered
<1> DEFINE p == Popped(book, a)
<1>1. /\ p \in Seq(Addrs) /\ Distinct(p) /\ ~In(p, a)
      /\ Len(p) = IF In(book, a) THEN Len(book) - 1 ELSE Len(book)
      /\ \A x : x # a => (In(p, x) <=> In(book, x))
      /\ \A x, y : Before(p, x, y) => Before(book, x, y)
  BY <1>0, PoppedKeeps
<1>2. book' = p
  OBVIOUS
<1> HIDE DEF p
<1>3. Limit \in Nat
  BY SizeAssumption
<1>4. book' \in Seq(Addrs) /\ Distinct(book') /\ Len(book') <= Limit
  BY <1>0, <1>1, <1>2, <1>3
<1>5. \A x : In(book', x) <=> In(book, x) /\ x # a
  BY <1>1, <1>2
<1>6. \A x, y : Before(book', x, y) => Before(book, x, y) /\ x # a /\ y # a
  BY <1>1, <1>2, BeforeIn
<1>7. CASE recent' = recent
  BY <1>4, <1>5, <1>6, <1>7 DEF Ordered
<1>8. CASE recent' = Renewed(recent, a)
  <2>1. /\ recent' \in Seq(Addrs) /\ Distinct(recent')
        /\ \A x : In(recent', x) <=> In(recent, x) \/ x = a
        /\ \A x, y : Before(recent', x, y) <=>
             /\ x # a
             /\ (Before(recent, x, y) /\ y # a) \/ (In(recent, x) /\ y = a)
    BY <1>8, RecentOrdered
  <2>2. \A b \in Addrs : In(book', b) => In(recent', b)
    BY <1>5, <2>1 DEF Ordered
  <2>3. \A b, c \in Addrs : Before(book', b, c) => Before(recent', b, c)
    BY <1>6, <2>1 DEF Ordered
  <2> QED BY <1>4, <1>5, <2>1, <2>2, <2>3 DEF Ordered
<1> QED BY <1>5, <1>7, <1>8

LEMMA EnteredOrdered ==
    ASSUME Ordered, NEW a \in Addrs, book' = Kept(Renewed(book, a), Limit),
           recent' = Renewed(recent, a)
    PROVE  Ordered'
<1>1. /\ book' \in Seq(Addrs) /\ Distinct(book') /\ Len(book') <= Limit
      /\ \A x : In(book', x) => In(book, x) \/ x = a
      /\ \A x, y : Before(book', x, y) =>
           /\ x # a
           /\ (Before(book, x, y) /\ y # a) \/ (In(book, x) /\ y = a)
  BY EnteredBook
<1>2. /\ recent' \in Seq(Addrs) /\ Distinct(recent')
      /\ \A x : In(recent', x) <=> In(recent, x) \/ x = a
      /\ \A x, y : Before(recent', x, y) <=>
           /\ x # a
           /\ (Before(recent, x, y) /\ y # a) \/ (In(recent, x) /\ y = a)
  BY RecentOrdered
<1>3. \A b \in Addrs : In(book', b) => In(recent', b)
  BY <1>1, <1>2 DEF Ordered
<1>4. ASSUME NEW b \in Addrs, NEW c \in Addrs, Before(book', b, c) PROVE Before(recent', b, c)
  <2>1. b # a /\ ((Before(book, b, c) /\ c # a) \/ (In(book, b) /\ c = a))
    BY <1>1, <1>4
  <2>2. CASE Before(book, b, c) /\ c # a
    BY <1>2, <2>1, <2>2 DEF Ordered
  <2>3. CASE In(book, b) /\ c = a
    BY <1>2, <2>1, <2>3 DEF Ordered
  <2> QED BY <2>1, <2>2, <2>3
<1> QED BY <1>1, <1>2, <1>3, <1>4 DEF Ordered

-----------------------------------------------------------------------------
(* The steps, again *)

\* What NotForgotten says of one step.
Remembered ==
    \A a \in Addrs :
       fails'[a] < fails[a] \/ (due'[a] < due[a] /\ ~Tick) =>
          \/ \E r \in Reqs : from[r] = a /\ Succeeds(r)
          \/ due[a] < -Decay
          \/ fails[a] + 1 - Free >= MaxExponent
          \/ Len(book) = Limit /\ Oldest(a)

LEMMA InitDInv == Init => DInv
<1> SUFFICES ASSUME Init PROVE DInv
  OBVIOUS
<1>1. book = <<>> /\ recent = <<>> /\ Limit \in Nat
  BY SizeAssumption DEF Init
<1>2. /\ book \in Seq(Addrs) /\ Distinct(book) /\ Len(book) <= Limit
      /\ recent \in Seq(Addrs) /\ Distinct(recent)
  BY <1>1 DEF Distinct
<1>3. \A x : ~In(book, x) /\ \A y : ~Before(book, x, y)
  BY <1>1 DEF In, Before
<1>4. Ordered
  BY <1>2, <1>3 DEF Ordered
<1>5. Delay(0) = 0
  BY DelayAssumption DEF Delay
<1>6. \A a \in Addrs : fails[a] = 0 /\ due[a] = 0
  BY DEF Init
<1>7. Counted
  BY <1>3, <1>5, <1>6 DEF Counted
<1> QED BY <1>4, <1>7 DEF DInv

LEMMA StillDInv == ASSUME Typed, DInv, UNCHANGED delays PROVE DInv' /\ Remembered
<1>1. book' = book /\ fails' = fails /\ due' = due /\ recent' = recent
  BY DEF delays
<1>2. Ordered'
  BY <1>1 DEF DInv, Ordered
<1>3. Counted'
  BY <1>1 DEF DInv, Counted
<1>4. \A a \in Addrs : ~(fails[a] < fails[a]) /\ ~(due[a] < due[a])
  BY DEF Typed
<1> QED BY <1>1, <1>2, <1>3, <1>4 DEF DInv, Remembered

\* The counts when a is forgotten.
LEMMA ForgetCounted ==
    ASSUME Typed, DInv, NEW a \in Addrs, Forget(a),
           recent' = recent \/ recent' = Renewed(recent, a)
    PROVE  /\ DInv'
           /\ \A b \in Addrs \ {a} : fails'[b] = fails[b] /\ due'[b] = due[b]
<1>1. Ordered' /\ \A x : In(book', x) <=> In(book, x) /\ x # a
  BY ForgetOrdered DEF DInv, Forget
<1>2. /\ fails'[a] = 0 /\ due'[a] = 0
      /\ \A b \in Addrs \ {a} : fails'[b] = fails[b] /\ due'[b] = due[b]
  BY DEF Forget, Typed
<1>3. Delay(0) = 0
  BY DelayAssumption DEF Delay
<1>4. ASSUME NEW b \in Addrs
      PROVE  /\ fails'[b] > 0 <=> In(book', b)
             /\ fails'[b] = 0 => due'[b] = 0
             /\ due'[b] <= Delay(fails'[b])
  <2>1. CASE b = a
    BY <1>1, <1>2, <1>3, <2>1
  <2>2. CASE b # a
    BY <1>1, <1>2, <2>2 DEF DInv, Counted
  <2> QED BY <2>1, <2>2
<1>5. Counted'
  BY <1>4 DEF Counted
<1> QED BY <1>1, <1>2, <1>5 DEF DInv

LEMMA EnteredCounted ==
    ASSUME Typed, DInv, NEW a \in Addrs, Entered(a, Renewed(book, a)),
           recent' = Renewed(recent, a)
    PROVE  /\ DInv' /\ fails'[a] = Nth(a) /\ due'[a] = Delay(Nth(a))
           /\ \A b \in Addrs \ {a} :
                 fails'[b] < fails[b] \/ due'[b] < due[b] => Len(book) = Limit /\ Oldest(b)
<1>0. book' = Kept(Renewed(book, a), Limit)
  BY DEF Entered
<1>1. Ordered'
  BY <1>0, EnteredOrdered DEF DInv
<1>2. /\ In(book', a)
      /\ \A x : In(book', x) => In(book, x) \/ x = a
      /\ \A x : In(book, x) /\ ~In(book', x) => Len(book) = Limit /\ x = book[1]
  BY <1>0, EnteredBook DEF DInv
<1>3. fails'[a] = Nth(a) /\ due'[a] = Delay(Nth(a))
  BY DEF Entered
<1>4. ASSUME NEW b \in Addrs \ {a}
      PROVE  /\ fails'[b] = IF In(book', b) THEN fails[b] ELSE 0
             /\ due'[b] = IF In(book', b) THEN due[b] ELSE 0
  BY <1>4 DEF Entered
<1>5. Nth(a) \in Nat /\ Nth(a) > 0
  BY DEF Nth, Typed
<1>6. Delay(0) = 0 /\ Delay(Nth(a)) \in Int
  BY <1>5, DelayInt, DelayAssumption DEF Delay
<1>7. ASSUME NEW b \in Addrs
      PROVE  /\ fails'[b] > 0 <=> In(book', b)
             /\ fails'[b] = 0 => due'[b] = 0
             /\ due'[b] <= Delay(fails'[b])
  <2>1. CASE b = a
    BY <1>2, <1>3, <1>5, <1>6, <2>1
  <2>2. CASE b # a /\ In(book', b)
    <3>1. fails'[b] = fails[b] /\ due'[b] = due[b] /\ In(book, b)
      BY <1>2, <1>4, <2>2
    <3> QED BY <2>2, <3>1 DEF DInv, Counted
  <2>3. CASE b # a /\ ~In(book', b)
    <3>1. fails'[b] = 0 /\ due'[b] = 0
      BY <1>4, <2>3
    <3> QED BY <1>6, <2>3, <3>1
  <2> QED BY <2>1, <2>2, <2>3
<1>8. Counted'
  BY <1>7 DEF Counted
<1>9. ASSUME NEW b \in Addrs \ {a}, fails'[b] < fails[b] \/ due'[b] < due[b]
      PROVE  Len(book) = Limit /\ Oldest(b)
  <2>1. fails[b] \in Nat /\ due[b] \in Int
    BY DEF Typed
  <2>2. ~In(book', b) /\ fails'[b] = 0 /\ due'[b] = 0
    BY <1>4, <1>9, <2>1
  <2>3. fails[b] > 0
    BY <1>9, <2>1, <2>2 DEF DInv, Counted
  <2>4. In(book, b)
    BY <2>3 DEF DInv, Counted
  <2>5. Len(book) = Limit /\ b = book[1]
    BY <1>2, <2>2, <2>4
  <2>6. book # <<>>
    BY <2>4 DEF In
  <2> QED BY <2>5, <2>6, FirstIsOldest DEF DInv
<1> QED BY <1>1, <1>3, <1>8, <1>9 DEF DInv

LEMMA FailsDInv == ASSUME LInv, DInv, NEW r \in Reqs, Fails(r) PROVE DInv' /\ Remembered
<1> DEFINE a == from[r]
<1>1. Leaves(r) /\ Record(a) /\ recent' = Renewed(recent, a)
  BY DEF Fails
<1>2. a \in Addrs
  BY <1>1, LeavesKeeps DEF LInv
<1>3. Typed /\ fails[a] \in Nat /\ due[a] \in Int
  BY <1>2 DEF LInv, Typed
<1> HIDE DEF a
<1>4. CASE Nth(a) - Free >= MaxExponent
  <2>1. Forget(a)
    BY <1>1, <1>4 DEF Record
  <2>2. /\ DInv'
        /\ \A b \in Addrs \ {a} : fails'[b] = fails[b] /\ due'[b] = due[b]
    BY <1>1, <1>2, <1>3, <2>1, ForgetCounted
  <2>3. due[a] < -Decay \/ fails[a] + 1 - Free >= MaxExponent
    BY <1>3, <1>4, DelayAssumption DEF Nth
  <2>4. \A b \in Addrs \ {a} : ~(fails'[b] < fails[b]) /\ ~(due'[b] < due[b])
    BY <1>3, <2>2 DEF Typed
  <2> QED BY <2>2, <2>3, <2>4 DEF Remembered
<1>5. CASE ~(Nth(a) - Free >= MaxExponent)
  <2>1. Entered(a, Renewed(book, a))
    BY <1>1, <1>5 DEF Record
  <2>2. /\ DInv' /\ fails'[a] = Nth(a) /\ due'[a] = Delay(Nth(a))
        /\ \A b \in Addrs \ {a} :
              fails'[b] < fails[b] \/ due'[b] < due[b] => Len(book) = Limit /\ Oldest(b)
    BY <1>1, <1>2, <1>3, <2>1, EnteredCounted
  <2>3. ASSUME ~(due[a] < -Decay) PROVE ~(fails'[a] < fails[a]) /\ ~(due'[a] < due[a])
    <3>1. Nth(a) = fails[a] + 1
      BY <1>3, <2>3 DEF Nth
    <3>2. /\ Delay(fails[a]) \in Nat /\ Delay(fails[a] + 1) \in Nat
          /\ Delay(fails[a]) <= Delay(fails[a] + 1)
      BY <1>3, DelayGrows
    <3>3. due[a] <= Delay(fails[a])
      BY <1>2 DEF DInv, Counted
    <3>4. fails'[a] = fails[a] + 1 /\ due'[a] = Delay(fails[a] + 1)
      BY <2>2, <3>1
    <3> QED BY <1>3, <3>2, <3>3, <3>4
  <2> QED BY <2>2, <2>3 DEF Remembered
<1> QED BY <1>4, <1>5

LEMMA SucceedsDInv == ASSUME LInv, DInv, NEW r \in Reqs, Succeeds(r) PROVE DInv' /\ Remembered
<1> DEFINE a == from[r]
<1>1. Leaves(r) /\ Forget(a) /\ recent' = recent
  BY DEF Succeeds
<1>2. a \in Addrs
  BY <1>1, LeavesKeeps DEF LInv
<1>3. Typed
  BY DEF LInv
<1>4. /\ DInv'
      /\ \A b \in Addrs \ {a} : fails'[b] = fails[b] /\ due'[b] = due[b]
  BY <1>1, <1>2, <1>3, ForgetCounted
<1>5. \A b \in Addrs \ {a} : ~(fails'[b] < fails[b]) /\ ~(due'[b] < due[b])
  BY <1>3, <1>4 DEF Typed
<1> QED BY <1>4, <1>5 DEF Remembered

LEMMA TickDInv == ASSUME LInv, DInv, Tick PROVE DInv' /\ Remembered
<1>1. book' = book /\ fails' = fails /\ recent' = recent
  BY DEF Tick
<1>2. Ordered'
  BY <1>1 DEF DInv, Ordered
<1>3. ASSUME NEW a \in Addrs
      PROVE  /\ fails[a] = 0 => due'[a] = 0
             /\ due'[a] <= Delay(fails[a])
  <2>1. fails[a] \in Nat /\ due[a] \in Int /\ Delay(fails[a]) \in Int
    BY DelayInt DEF LInv, Typed
  <2>2. due[a] <= Delay(fails[a]) /\ (fails[a] = 0 => due[a] = 0)
    BY DEF DInv, Counted
  <2>3. due'[a] = IF fails[a] > 0 /\ due[a] >= -Decay THEN due[a] - 1 ELSE due[a]
    BY DEF Tick
  <2> QED BY <2>1, <2>2, <2>3
<1>4. Counted'
  BY <1>1, <1>3 DEF DInv, Counted
<1>5. \A a \in Addrs : ~(fails'[a] < fails[a])
  BY <1>1 DEF LInv, Typed
<1> QED BY <1>2, <1>4, <1>5 DEF DInv, Remembered

LEMMA NextDInv == LInv /\ DInv /\ [Next]_vars => DInv' /\ [Remembered]_vars
<1> SUFFICES ASSUME LInv, DInv, [Next]_vars PROVE DInv' /\ Remembered
  OBVIOUS
<1>1. CASE UNCHANGED delays
  BY <1>1, StillDInv DEF LInv
<1>2. ASSUME ~UNCHANGED delays
      PROVE  Tick \/ \E r \in Reqs : Fails(r) \/ Succeeds(r)
  BY <1>2 DEF vars, Next, Admit, GetsBody, BadBody, Raises, Reject
<1>3. ASSUME NEW r \in Reqs, Fails(r) \/ Succeeds(r) PROVE DInv' /\ Remembered
  BY <1>3, FailsDInv, SucceedsDInv
<1> QED BY <1>1, <1>2, <1>3, TickDInv

\* _record_login_failure and _clear_login_failure: failures are forgotten and a
\* delay ends early only as NotForgotten says, for any number of addresses, size of
\* the dictionary, lengths of the delays and of the decay.
THEOREM NotForgottenAlways == Spec => NotForgotten
<1>1. DInv /\ LInv /\ [Next]_vars => [\A a \in Addrs :
          fails'[a] < fails[a] \/ (due'[a] < due[a] /\ ~Tick) =>
             \/ \E r \in Reqs : from[r] = a /\ Succeeds(r)
             \/ due[a] < -Decay
             \/ fails[a] + 1 - Free >= MaxExponent
             \/ Len(book) = Limit /\ Oldest(a)]_vars
  BY NextDInv DEF Remembered
<1>2. LInv /\ DInv /\ [Next]_vars => DInv'
  BY NextDInv
<1> QED BY <1>1, <1>2, InitDInv, Inductive, PTL DEF Spec, NotForgotten
=============================================================================
