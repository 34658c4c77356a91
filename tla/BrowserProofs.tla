--------------------------- MODULE BrowserProofs ---------------------------
(***************************************************************************)
(* TLAPS proofs about Browser, for any set of tabs and any bounds: which   *)
(* sockets a page has, which it may make again, and who may lock it.       *)
(***************************************************************************)
EXTENDS Browser, SequenceTheorems, TLAPS

-----------------------------------------------------------------------------
(* The inductive invariant *)

\* An event is among those that a page has not handled.
Has(q, e) == \E i \in 1..Len(q) : q[i] = e

\* A socket that is not in use has nothing to say; after an exit message or a
\* close the server is gone; it says 4401 only of a token that is not valid, and
\* nothing makes a token valid again, for a new one has a new number.
Honest(s) ==
    /\ s.phase \in {"free", "closed"} => s.mail = <<>> /\ s.server = "gone"
    /\ \A e \in Code \cup {"exit"} : Has(s.mail, e) => s.server = "gone"
    /\ Has(s.mail, "unauthed") => s.token \notin valid
    /\ s.token <= last

\* What a connection uses is a socket of its own that is being used.
InPlace == \A c \in Chan : ws[c] # 0 => sock[c][ws[c]].phase \in {"connecting", "open"}

\* NoReturn, and why: a tab that has been told will not dial again.
Resigned ==
    \A t \in told :
        /\ t \notin timer
        /\ ws[t] # 0 => t \in intentional /\ sock[t][ws[t]].server = "gone"

\* Why LoggedOutIsQuiet lasts: the page has no button that opens a tab.
Barred == out => ~listed /\ ~enabled /\ open = {}

\* The status channel goes by the cookie of the page.
SameToken == ws[Status] # 0 /\ cookie # 0 => sock[Status][ws[Status]].token = cookie

IInv ==
    /\ TypeOK /\ NoOrphans /\ InPlace
    /\ \A c \in Chan, n \in Slot : Honest(sock[c][n])
    /\ Resigned /\ Barred /\ NeverStranded /\ SameToken

-----------------------------------------------------------------------------
(* Mail *)

LEMMA HasNone == \A e : ~Has(<<>>, e)
  BY DEF Has

LEMMA HasTail ==
    ASSUME NEW q \in Seq(Event), q # <<>>, NEW e, Has(Tail(q), e)
    PROVE  Has(q, e)
  BY DEF Has

LEMMA HasHead ==
    ASSUME NEW q \in Seq(Event), q # <<>>
    PROVE  Has(q, Head(q))
  BY DEF Has

LEMMA HasConcat ==
    ASSUME NEW q \in Seq(Event), NEW r \in Seq(Event), NEW e, Has(q \o r, e)
    PROVE  Has(q, e) \/ Has(r, e)
  BY DEF Has

LEMMA HasOne ==
    ASSUME NEW a, NEW e, Has(<<a>>, e)
    PROVE  e = a
  BY DEF Has

LEMMA HasTwo ==
    ASSUME NEW a, NEW b, NEW e, Has(<<a, b>>, e)
    PROVE  e = a \/ e = b
  BY DEF Has

LEMMA HasSub ==
    ASSUME NEW q \in Seq(Event), NEW k \in 0..Len(q), NEW e, Has(SubSeq(q, 1, k), e)
    PROVE  \E i \in 1..k : q[i] = e
  BY DEF Has

LEMMA Tails ==
    ASSUME NEW q \in Seq(Event), q # <<>>
    PROVE  Tail(q) \in Seq(Event)
  OBVIOUS

-----------------------------------------------------------------------------
(* Sockets *)

LEMMA Types == Status \notin Tabs /\ Tabs \subseteq Chan /\ Status \in Chan
  BY ChannelAssumption DEF Chan

LEMMA ReadSocket ==
    ASSUME IInv, NEW c \in Chan, NEW n \in Slot, NEW e, Heard(c, n, e)
    PROVE  LET r == [sock[c][n] EXCEPT !.mail = Tail(@)] IN
           /\ Read(c, n) = [sock EXCEPT ![c][n] = r]
           /\ r \in Socket /\ Honest(r)
           /\ r.token = sock[c][n].token /\ r.server = sock[c][n].server
           /\ r.phase = sock[c][n].phase
           /\ sock[c][n].phase \in {"connecting", "open"} /\ ws[c] = n
<1> DEFINE s == sock[c][n]
           r == [s EXCEPT !.mail = Tail(@)]
<1>1. s \in Socket /\ ws[c] = n /\ s.mail # <<>> /\ Honest(s)
  BY DEF IInv, TypeOK, Heard
<1>2. s.phase \in {"connecting", "open"}
  BY <1>1 DEF IInv, InPlace, Slot
<1>3. Tail(s.mail) \in Seq(Event)
  BY <1>1, Tails DEF Socket
<1>4. r \in Socket /\ r.token = s.token /\ r.server = s.server /\ r.phase = s.phase
      /\ r.mail = Tail(s.mail)
  BY <1>1, <1>3 DEF Socket
<1>5. \A e2 : Has(r.mail, e2) => Has(s.mail, e2)
  BY <1>1, <1>4, HasTail DEF Socket
<1>6. Honest(r)
  BY <1>1, <1>2, <1>4, <1>5 DEF Honest
<1>7. Read(c, n) = [sock EXCEPT ![c][n] = r]
  BY DEF Read
<1> QED BY <1>1, <1>2, <1>4, <1>6, <1>7

\* An event of a socket in use, or a message: it goes on with other mail.
LEMMA Rewritten ==
    ASSUME IInv, NEW c \in Chan, NEW n \in Slot, NEW r \in Socket, Honest(r),
           sock' = [sock EXCEPT ![c][n] = r],
           r.token = sock[c][n].token,
           sock[c][n].server = "gone" => r.server = "gone",
           sock[c][n].phase \in {"connecting", "open"},
           r.phase \in {"connecting", "open"},
           UNCHANGED <<ws, timer, open, enabled, tokens>>
    PROVE  /\ sock' \in [Chan -> [Slot -> Socket]]
           /\ NoOrphans' /\ InPlace' /\ SameToken'
           /\ (\A d \in Chan, m \in Slot : Honest(sock[d][m]))'
           /\ \A t \in Tabs : ws[t] # 0 /\ sock[t][ws[t]].server = "gone"
                                => sock'[t][ws[t]].server = "gone"
<1>1. sock \in [Chan -> [Slot -> Socket]] /\ ws \in [Chan -> Slot \cup {0}]
  BY DEF IInv, TypeOK
<1>2. /\ sock' \in [Chan -> [Slot -> Socket]] /\ sock'[c][n] = r
      /\ \A d \in Chan, m \in Slot : d # c \/ m # n => sock'[d][m] = sock[d][m]
  BY <1>1
<1>3. NoOrphans'
  <2>1. ASSUME NEW d \in Chan, NEW m \in Slot, sock'[d][m].phase \in {"connecting", "open"}
        PROVE  sock[d][m].phase \in {"connecting", "open"}
    BY <1>2, <2>1
  <2> QED BY <2>1 DEF IInv, NoOrphans, InUse, tokens
<1>4. InPlace'
  BY <1>1, <1>2 DEF IInv, InPlace
<1>5. SameToken'
  BY <1>1, <1>2, Types DEF IInv, SameToken, tokens
<1>6. ASSUME NEW d \in Chan, NEW m \in Slot PROVE Honest(sock[d][m])'
  BY <1>2 DEF IInv, Honest, tokens
<1>7. \A t \in Tabs : ws[t] # 0 /\ sock[t][ws[t]].server = "gone"
                                => sock'[t][ws[t]].server = "gone"
  BY <1>1, <1>2, Types
<1> QED BY <1>2, <1>3, <1>4, <1>5, <1>6, <1>7

\* A socket that has been freed or closed by the page.
LEMMA Blank ==
    ASSUME NEW ph \in {"free", "closed"}
    PROVE  /\ [Free EXCEPT !.phase = ph] \in Socket
           /\ [Free EXCEPT !.phase = ph].phase = ph
           /\ [Free EXCEPT !.phase = "free"] = Free
           /\ last \in Nat => Honest([Free EXCEPT !.phase = ph])
<1> DEFINE r == [phase |-> ph, token |-> 0, mail |-> <<>>, server |-> "gone"]
<1>1. [Free EXCEPT !.phase = ph] = r /\ [Free EXCEPT !.phase = "free"] = Free
  BY DEF Free
<1>2. 0 \in Token /\ <<>> \in Seq(Event)
  BY BoundAssumption DEF Token
<1>3. r \in Socket
  BY <1>2 DEF Socket
<1>4. last \in Nat => Honest(r)
  BY HasNone DEF Honest
<1> QED BY <1>1, <1>3, <1>4

\* A close event: of the socket in use, or of one the page has closed.
LEMMA Emptied ==
    ASSUME IInv, NEW c \in Chan, NEW n \in Slot,
           sock' = [sock EXCEPT ![c][n] = Free],
           \/ ws[c] = n /\ ws' = [ws EXCEPT ![c] = 0] /\ timer' \in {timer, timer \cup {c}}
           \/ sock[c][n].phase = "closed" /\ UNCHANGED <<ws, timer>>,
           \A d \in Chan : d # c \/ timer' # timer \/ ws' = ws => InUse(d)' = InUse(d),
           timer' # timer => InUse(c),
           UNCHANGED tokens
    PROVE  /\ sock' \in [Chan -> [Slot -> Socket]] /\ ws' \in [Chan -> Slot \cup {0}]
           /\ NoOrphans' /\ InPlace' /\ SameToken'
           /\ (\A d \in Chan, m \in Slot : Honest(sock[d][m]))'
           /\ \A d \in Chan : ws'[d] # 0 => ws'[d] = ws[d] /\ sock'[d][ws[d]] = sock[d][ws[d]]
<1>1. sock \in [Chan -> [Slot -> Socket]] /\ ws \in [Chan -> Slot \cup {0}]
  BY DEF IInv, TypeOK
<1>2. Free \in Socket /\ Free.phase = "free" /\ Honest(Free)'
  <2>0. [Free EXCEPT !.phase = "free"] = Free /\ last \in Nat
    BY Blank DEF IInv, TypeOK
  <2>1. Free \in Socket /\ Free.phase = "free" /\ Honest(Free)
    BY <2>0, Blank
  <2> QED BY <2>1 DEF Honest, tokens
<1>3. /\ sock' \in [Chan -> [Slot -> Socket]] /\ sock'[c][n] = Free
      /\ \A d \in Chan, m \in Slot : d # c \/ m # n => sock'[d][m] = sock[d][m]
  BY <1>1, <1>2
<1>4. ws' \in [Chan -> Slot \cup {0}] /\ \A d \in Chan : ws'[d] = ws[d] \/ ws'[d] = 0
  BY <1>1
<1>5. ASSUME NEW d \in Chan, ws'[d] # 0
      PROVE  ws'[d] = ws[d] /\ sock'[d][ws[d]] = sock[d][ws[d]]
  <2>1. ws'[d] = ws[d] /\ ws[d] \in Slot /\ sock[d][ws[d]].phase \in {"connecting", "open"}
    BY <1>1, <1>4, <1>5 DEF IInv, InPlace
  <2>2. d # c \/ ws[d] # n
    BY <1>1, <1>5, <2>1
  <2> QED BY <1>3, <2>1, <2>2
<1>6. NoOrphans'
  <2>1. ASSUME NEW d \in Chan, NEW m \in Slot, sock'[d][m].phase \in {"connecting", "open"}
        PROVE  ws'[d] = m /\ d \notin timer' /\ InUse(d)'
    <3>1. (d # c \/ m # n) /\ sock'[d][m] = sock[d][m]
      BY <1>2, <1>3, <2>1
    <3>2. ws[d] = m /\ d \notin timer /\ InUse(d)
      BY <2>1, <3>1 DEF IInv, NoOrphans
    <3>3. d # c \/ UNCHANGED <<ws, timer>>
      BY <3>1, <3>2
    <3> QED BY <1>1, <3>2, <3>3
  <2>2. ASSUME NEW d \in Chan, d \in timer' PROVE ws'[d] = 0 /\ InUse(d)'
    <3>1. CASE d \in timer
      <4>1. ws[d] = 0 /\ InUse(d)
        BY <3>1 DEF IInv, NoOrphans
      <4>2. d # c \/ ws' = ws
        BY <1>1, <4>1 DEF Slot
      <4> QED BY <1>4, <4>1, <4>2
    <3>2. CASE d \notin timer
      <4>1. d = c /\ timer' # timer
        BY <2>2, <3>2
      <4> QED BY <1>1, <4>1
    <3> QED BY <3>1, <3>2
  <2> QED BY <2>1, <2>2 DEF NoOrphans
<1>7. InPlace'
  BY <1>5 DEF IInv, InPlace
<1>8. SameToken'
  BY <1>5, Types DEF IInv, SameToken, tokens
<1>9. ASSUME NEW d \in Chan, NEW m \in Slot PROVE Honest(sock[d][m])'
  BY <1>2, <1>3 DEF IInv, Honest, tokens
<1> QED BY <1>3, <1>4, <1>5, <1>6, <1>7, <1>8, <1>9

\* The page closes the sockets of some connections.
LEMMA Hung ==
    ASSUME IInv, NEW gone \in SUBSET Chan,
           sock' = [c \in Chan |-> IF c \in gone THEN HungUp(c, sock)[c] ELSE sock[c]],
           ws' = [c \in Chan |-> IF c \in gone THEN 0 ELSE ws[c]],
           timer' = timer \ gone,
           \A c \in Chan \ gone : InUse(c)' = InUse(c),
           cookie' \in {cookie, 0}, UNCHANGED <<last, valid>>
    PROVE  /\ sock' \in [Chan -> [Slot -> Socket]] /\ ws' \in [Chan -> Slot \cup {0}]
           /\ NoOrphans' /\ InPlace' /\ SameToken'
           /\ (\A d \in Chan, m \in Slot : Honest(sock[d][m]))'
           /\ \A d \in Chan : ws'[d] # 0 => ws'[d] = ws[d] /\ sock'[d] = sock[d]
<1> DEFINE closed == [Free EXCEPT !.phase = "closed"]
<1>1. sock \in [Chan -> [Slot -> Socket]] /\ ws \in [Chan -> Slot \cup {0}]
  BY DEF IInv, TypeOK
<1>2. closed \in Socket /\ closed.phase = "closed" /\ Honest(closed)'
  <2>1. closed \in Socket /\ closed.phase = "closed" /\ Honest(closed)
    BY Blank DEF IInv, TypeOK
  <2> QED BY <2>1 DEF Honest
<1> HIDE DEF closed
<1>3. ASSUME NEW c \in Chan
      PROVE  /\ sock'[c] \in [Slot -> Socket]
             /\ c \notin gone => sock'[c] = sock[c]
             /\ \A m \in Slot : \/ c \in gone /\ ws[c] = m /\ sock'[c][m] = closed
                                \/ (c \notin gone \/ ws[c] # m) /\ sock'[c][m] = sock[c][m]
  <2>1. CASE c \notin gone \/ ws[c] = 0
    BY <1>1, <2>1 DEF HungUp, Slot
  <2>2. CASE c \in gone /\ ws[c] # 0
    <3>1. sock'[c] = [sock[c] EXCEPT ![ws[c]] = closed] /\ ws[c] \in Slot
      BY <1>1, <2>2 DEF HungUp, closed
    <3>2. sock[c] \in [Slot -> Socket]
      BY <1>1
    <3> HIDE DEF closed
    <3>3. sock'[c] \in [Slot -> Socket]
      BY <1>2, <3>1, <3>2
    <3>4. \A m \in Slot : sock'[c][m] = IF ws[c] = m THEN closed ELSE sock[c][m]
      BY <3>1, <3>2
    <3> QED BY <2>2, <3>3, <3>4
  <2> QED BY <2>1, <2>2
<1>4. sock' \in [Chan -> [Slot -> Socket]] /\ ws' \in [Chan -> Slot \cup {0}]
  BY <1>1, <1>3
<1>5. ASSUME NEW d \in Chan, ws'[d] # 0 PROVE d \notin gone /\ ws'[d] = ws[d] /\ sock'[d] = sock[d]
  BY <1>3, <1>5
<1>6. NoOrphans'
  <2>1. ASSUME NEW d \in Chan, NEW m \in Slot, sock'[d][m].phase \in {"connecting", "open"}
        PROVE  ws'[d] = m /\ d \notin timer' /\ InUse(d)'
    <3>1. (d \notin gone \/ ws[d] # m) /\ sock'[d][m] = sock[d][m]
      BY <1>2, <1>3, <2>1
    <3>2. ws[d] = m /\ d \notin timer /\ InUse(d)
      BY <2>1, <3>1 DEF IInv, NoOrphans
    <3> QED BY <1>1, <3>1, <3>2
  <2>2. ASSUME NEW d \in Chan, d \in timer' PROVE ws'[d] = 0 /\ InUse(d)'
    BY <2>2 DEF IInv, NoOrphans
  <2> QED BY <2>1, <2>2 DEF NoOrphans
<1>7. InPlace'
  BY <1>5 DEF IInv, InPlace
<1>8. SameToken'
  BY <1>5, Types DEF IInv, SameToken
<1>9. ASSUME NEW d \in Chan, NEW m \in Slot PROVE Honest(sock[d][m])'
  <2>1. CASE sock'[d][m] = closed
    BY <1>2, <2>1 DEF Honest
  <2>2. CASE sock'[d][m] = sock[d][m]
    BY <2>2 DEF IInv, Honest
  <2> QED BY <1>3, <2>1, <2>2
<1> QED BY <1>4, <1>5, <1>6, <1>7, <1>8, <1>9

\* What sockets may be between two steps of one handler: one has been read.
Alike(S) ==
    /\ S \in [Chan -> [Slot -> Socket]]
    /\ \A d \in Chan, m \in Slot :
         /\ Honest(S[d][m])
         /\ S[d][m].phase = sock[d][m].phase /\ S[d][m].token = sock[d][m].token
         /\ S[d][m].server = sock[d][m].server

\* connect(): where the new socket is put, and what becomes of the old one.
LEMMA Placed ==
    ASSUME IInv, NEW c \in Chan, NEW S, Alike(S), CanDial(c), NEW k \in Token
    PROVE  /\ NextSlot(c, S) \in Slot /\ NextSlot(c, S) # ws[c]
           /\ Dialled(c, HungUp(c, S), k) \in [Chan -> [Slot -> Socket]]
           /\ \A d \in Chan, m \in Slot :
                Dialled(c, HungUp(c, S), k)[d][m] =
                    IF d = c /\ m = NextSlot(c, S)
                    THEN [phase |-> "connecting", token |-> k, mail |-> <<>>, server |-> "new"]
                    ELSE IF d = c /\ m = ws[c] THEN [Free EXCEPT !.phase = "closed"]
                    ELSE S[d][m]
<1> DEFINE closed == [Free EXCEPT !.phase = "closed"]
           new == [phase |-> "connecting", token |-> k, mail |-> <<>>, server |-> "new"]
           H == HungUp(c, S)
           m0 == NextSlot(c, S)
<1>1. S \in [Chan -> [Slot -> Socket]] /\ ws \in [Chan -> Slot \cup {0}]
  BY DEF IInv, TypeOK, Alike
<1>2. closed \in Socket /\ closed.phase = "closed" /\ new \in Socket
  <2>1. new \in Socket
    BY DEF Socket
  <2> QED BY <2>1, Blank
<1>3. m0 \in Slot /\ S[c][m0].phase = "free"
  <2>1. PICK m \in Slot : S[c][m].phase = "free"
    BY DEF CanDial, Alike
  <2>2. \E x \in {m2 \in Slot : S[c][m2].phase = "free"} :
           \A y \in {m2 \in Slot : S[c][m2].phase = "free"} : x <= y
    <3>1. CASE S[c][1].phase = "free"
      BY <3>1 DEF Slot
    <3>2. CASE S[c][1].phase # "free"
      BY <2>1, <3>2 DEF Slot
    <3> QED BY <3>1, <3>2
  <2> QED BY <2>2 DEF NextSlot, Min
<1>4. ws[c] # 0 => ws[c] \in Slot /\ S[c][ws[c]].phase # "free"
  BY <1>1 DEF IInv, InPlace, Alike
<1>5. m0 # ws[c]
  BY <1>3, <1>4 DEF Slot
<1> HIDE DEF closed, new
<1>6. /\ H \in [Chan -> [Slot -> Socket]]
      /\ \A d \in Chan, m \in Slot : H[d][m] = IF d = c /\ m = ws[c] THEN closed ELSE S[d][m]
  <2>1. CASE ws[c] = 0
    BY <1>1, <2>1 DEF HungUp, Slot
  <2>2. CASE ws[c] # 0
    <3>1. H = [S EXCEPT ![c][ws[c]] = closed]
      BY <2>2 DEF HungUp, closed
    <3> QED BY <1>1, <1>2, <1>4, <2>2, <3>1
  <2> QED BY <2>1, <2>2
<1> HIDE DEF H, m0
<1>7. NextSlot(c, H) = m0
  <2>1. ASSUME NEW m \in Slot PROVE H[c][m].phase = "free" <=> S[c][m].phase = "free"
    <3>1. CASE m = ws[c]
      <4>1. H[c][m] = closed /\ S[c][m].phase # "free"
        BY <1>4, <1>6, <3>1 DEF Slot
      <4> QED BY <1>2, <4>1
    <3>2. CASE m # ws[c]
      BY <1>6, <3>2
    <3> QED BY <3>1, <3>2
  <2>2. {m \in Slot : H[c][m].phase = "free"} = {m \in Slot : S[c][m].phase = "free"}
    BY <2>1
  <2> QED BY <2>2 DEF NextSlot, m0
<1>8. Dialled(c, H, k) = [H EXCEPT ![c][m0] = new]
  BY <1>7 DEF Dialled, new
<1>9. /\ Dialled(c, H, k) \in [Chan -> [Slot -> Socket]]
      /\ \A d \in Chan, m \in Slot :
           Dialled(c, H, k)[d][m] = IF d = c /\ m = m0 THEN new ELSE H[d][m]
  BY <1>2, <1>3, <1>6, <1>8
<1>10. \A d \in Chan, m \in Slot :
         Dialled(c, H, k)[d][m] =
           IF d = c /\ m = m0 THEN new ELSE IF d = c /\ m = ws[c] THEN closed ELSE S[d][m]
  BY <1>6, <1>9
<1> QED BY <1>3, <1>5, <1>9, <1>10 DEF m0, H, new, closed

LEMMA Dials ==
    ASSUME IInv, NEW c \in Chan, NEW S, Alike(S), CanDial(c), NEW k \in Token, k <= last',
           sock' = Dialled(c, HungUp(c, S), k),
           ws' = [ws EXCEPT ![c] = NextSlot(c, S)],
           timer' = timer \ {c}, InUse(c)',
           \A d \in Chan \ {c} : InUse(d)' = InUse(d),
           IF c = Status THEN cookie' = k ELSE cookie' = cookie,
           \/ UNCHANGED <<last, valid>>
           \/ last' = last + 1 /\ valid' = valid \cup {last'}
    PROVE  /\ sock' \in [Chan -> [Slot -> Socket]] /\ ws' \in [Chan -> Slot \cup {0}]
           /\ NoOrphans' /\ InPlace' /\ SameToken'
           /\ (\A d \in Chan, m \in Slot : Honest(sock[d][m]))'
           /\ ws'[c] # 0
           /\ \A t \in Tabs \ {c} :
                ws'[t] = ws[t] /\ (ws[t] # 0 => sock'[t][ws[t]].server = sock[t][ws[t]].server)
<1> DEFINE closed == [Free EXCEPT !.phase = "closed"]
           new == [phase |-> "connecting", token |-> k, mail |-> <<>>, server |-> "new"]
           m0 == NextSlot(c, S)
<1>1. sock \in [Chan -> [Slot -> Socket]] /\ ws \in [Chan -> Slot \cup {0}] /\ last \in Nat
      /\ S \in [Chan -> [Slot -> Socket]]
  BY DEF IInv, TypeOK, Alike
<1>2. /\ m0 \in Slot /\ m0 # ws[c]
      /\ sock' \in [Chan -> [Slot -> Socket]]
      /\ \A d \in Chan, m \in Slot :
           sock'[d][m] = IF d = c /\ m = m0 THEN new
                         ELSE IF d = c /\ m = ws[c] THEN closed ELSE S[d][m]
  BY Placed
<1>3. closed.phase = "closed" /\ new.phase = "connecting" /\ new.token = k
      /\ Honest(closed)' /\ Honest(new)'
  <2>1. closed.phase = "closed" /\ closed = [phase |-> "closed", token |-> 0, mail |-> <<>>, server |-> "gone"]
    BY DEF Free
  <2>2. last' \in Nat /\ k \in Nat
    BY <1>1 DEF Token
  <2>3. Honest(closed)'
    BY <2>1, <2>2, HasNone DEF Honest
  <2>4. Honest(new)'
    BY <2>2, HasNone DEF Honest
  <2> QED BY <2>1, <2>3, <2>4
<1> HIDE DEF closed, new, m0
<1>4. ws' \in [Chan -> Slot \cup {0}] /\ ws'[c] = m0 /\ \A d \in Chan \ {c} : ws'[d] = ws[d]
  BY <1>1, <1>2 DEF m0
<1>5. NoOrphans'
  <2>1. ASSUME NEW d \in Chan, NEW m \in Slot, sock'[d][m].phase \in {"connecting", "open"}
        PROVE  ws'[d] = m /\ d \notin timer' /\ InUse(d)'
    <3>1. CASE d = c
      <4>1. CASE m = m0
        BY <1>4, <3>1, <4>1
      <4>2. CASE m # m0
        <5>1. m # ws[c] /\ sock'[d][m] = S[d][m]
          BY <1>2, <1>3, <2>1, <3>1, <4>2
        <5>2. sock[d][m].phase \in {"connecting", "open"}
          BY <2>1, <5>1 DEF Alike
        <5> QED BY <3>1, <5>1, <5>2 DEF IInv, NoOrphans
      <4> QED BY <4>1, <4>2
    <3>2. CASE d # c
      <4>1. sock[d][m].phase \in {"connecting", "open"}
        BY <1>2, <2>1, <3>2 DEF Alike
      <4> QED BY <1>4, <3>2, <4>1 DEF IInv, NoOrphans
    <3> QED BY <3>1, <3>2
  <2>2. ASSUME NEW d \in Chan, d \in timer' PROVE ws'[d] = 0 /\ InUse(d)'
    BY <1>4, <2>2 DEF IInv, NoOrphans
  <2> QED BY <2>1, <2>2 DEF NoOrphans
<1>6. InPlace'
  <2>1. ASSUME NEW d \in Chan, ws'[d] # 0 PROVE sock'[d][ws'[d]].phase \in {"connecting", "open"}
    <3>1. CASE d = c
      BY <1>2, <1>3, <1>4, <3>1
    <3>2. CASE d # c
      <4>1. ws'[d] = ws[d] /\ ws[d] \in Slot /\ sock[d][ws[d]].phase \in {"connecting", "open"}
        BY <1>1, <1>4, <2>1, <3>2 DEF IInv, InPlace
      <4> QED BY <1>2, <3>2, <4>1 DEF Alike
    <3> QED BY <3>1, <3>2
  <2> QED BY <2>1 DEF InPlace
<1>7. SameToken'
  <2>1. CASE c = Status
    BY <1>2, <1>3, <1>4, <2>1 DEF SameToken
  <2>2. CASE c # Status
    <3>1. ASSUME ws[Status] # 0 PROVE sock'[Status][ws[Status]].token = sock[Status][ws[Status]].token
      BY <1>1, <1>2, <2>2, <3>1, Types DEF Alike
    <3> QED BY <1>4, <2>2, <3>1, Types DEF IInv, SameToken
  <2> QED BY <2>1, <2>2
<1>8. ASSUME NEW d \in Chan, NEW m \in Slot PROVE Honest(sock[d][m])'
  <2>1. CASE sock'[d][m] \in {closed, new}
    BY <1>3, <2>1 DEF Honest
  <2>2. CASE sock'[d][m] = S[d][m]
    <3>1. Honest(S[d][m]) /\ S[d][m].token \in Nat
      BY <1>1 DEF Alike, Socket, Token
    <3>2. S[d][m].token <= last' /\ (S[d][m].token \notin valid => S[d][m].token \notin valid')
      BY <1>1, <3>1 DEF Honest
    <3> QED BY <2>2, <3>1, <3>2 DEF Honest
  <2> QED BY <1>2, <2>1, <2>2
<1>9. ASSUME NEW t \in Tabs \ {c}
      PROVE  ws'[t] = ws[t] /\ (ws[t] # 0 => sock'[t][ws[t]].server = sock[t][ws[t]].server)
  BY <1>1, <1>2, <1>4, Types DEF Alike
<1> QED BY <1>2, <1>4, <1>5, <1>6, <1>7, <1>8, <1>9 DEF Slot

-----------------------------------------------------------------------------
(* The user *)

LEMMA Numbers ==
    IInv => /\ last \in Nat /\ last <= MaxLogins /\ MaxLogins \in Nat
            /\ cookie \in Token /\ cookie \in Nat /\ cookie <= last
<1> SUFFICES ASSUME IInv
             PROVE  /\ last \in Nat /\ last <= MaxLogins /\ MaxLogins \in Nat
                    /\ cookie \in Token /\ cookie \in Nat /\ cookie <= last
  OBVIOUS
<1>1. cookie \in 0..last /\ last \in 1..MaxLogins /\ MaxLogins \in Nat
  BY BoundAssumption DEF IInv, TypeOK
<1> QED BY <1>1 DEF Token

LEMMA Booleans == IInv => overlay \in BOOLEAN /\ enabled \in BOOLEAN
  BY DEF IInv, TypeOK

LEMMA OpenedKeeps ==
    ASSUME IInv, NEW t \in Tabs, NEW S, Alike(S), Opened(t, S), ~out, restored' \in BOOLEAN,
           listed' \in BOOLEAN,
           UNCHANGED <<enabled, overlay, entering, leaving, ending, out, tokens, losses>>
    PROVE  IInv'
<1>1. /\ t \in Chan /\ t # Status /\ cookie \in Token /\ cookie <= last
  BY Types, Numbers
<1>2. /\ CanDial(t) /\ sock' = Dialled(t, HungUp(t, S), cookie)
      /\ ws' = [ws EXCEPT ![t] = NextSlot(t, S)] /\ timer' = timer \ {t}
      /\ intentional' = intentional \ {t} /\ open' = open \cup {t} /\ told' = told \ {t}
      /\ attempts' = [attempts EXCEPT ![t] = IF t \in open THEN @ ELSE 0]
  BY DEF Opened, Connect
<1>3. InUse(t)' /\ \A d \in Chan \ {t} : InUse(d)' = InUse(d)
  BY <1>2 DEF InUse
<1>4. /\ sock' \in [Chan -> [Slot -> Socket]] /\ ws' \in [Chan -> Slot \cup {0}]
      /\ NoOrphans' /\ InPlace' /\ SameToken'
      /\ (\A d \in Chan, m \in Slot : Honest(sock[d][m]))'
      /\ \A u \in Tabs \ {t} :
           ws'[u] = ws[u] /\ (ws[u] # 0 => sock'[u][ws[u]].server = sock[u][ws[u]].server)
  BY <1>1, <1>2, <1>3, Dials DEF tokens
<1>5. TypeOK'
  <2>1. attempts' \in [Tabs -> 0..MaxAttempts]
    BY <1>2, BoundAssumption DEF IInv, TypeOK
  <2> QED BY <1>2, <1>4, <2>1 DEF IInv, TypeOK, tokens
<1>6. Resigned'
  <2> SUFFICES ASSUME NEW u \in told'
               PROVE  /\ u \notin timer'
                      /\ ws'[u] # 0 => u \in intentional' /\ sock'[u][ws'[u]].server = "gone"
    BY DEF Resigned
  <2>1. u \in told /\ u \in Tabs \ {t}
    BY <1>2 DEF IInv, TypeOK
  <2> QED BY <1>2, <1>4, <2>1 DEF IInv, Resigned
<1>7. NeverStranded' /\ Barred'
  <2>1. Status \in timer => Status \in timer'
    BY <1>1, <1>2
  <2>2. ws'[Status] = ws[Status]
    BY <1>1, <1>2, Types DEF IInv, TypeOK
  <2> QED BY <2>1, <2>2 DEF IInv, NeverStranded, Barred
<1> QED BY <1>4, <1>5, <1>6, <1>7 DEF IInv

LEMMA AlikeSock == IInv => Alike(sock)
  BY DEF IInv, TypeOK, Alike

LEMMA OpenTabKeeps ==
    ASSUME IInv, NEW t \in Tabs, OpenTab(t)
    PROVE  IInv'
<1>1. ~out /\ Opened(t, sock)
  BY DEF OpenTab, IInv, Barred
<1>2. /\ restored' \in BOOLEAN /\ listed' \in BOOLEAN
      /\ UNCHANGED <<enabled, overlay, entering, leaving, ending, out, tokens, losses>>
  BY DEF OpenTab, IInv, TypeOK, form
<1> QED BY <1>1, <1>2, AlikeSock, OpenedKeeps

\* closeTab, of some tabs, whatever it comes with.
LEMMA TabsClosedKeeps ==
    ASSUME IInv, NEW gone \in SUBSET open, TabsClosed(gone), attempts' = attempts,
           cookie' \in {cookie, 0}, UNCHANGED <<enabled, last, valid>>
    PROVE  /\ sock' \in [Chan -> [Slot -> Socket]] /\ ws' \in [Chan -> Slot \cup {0}]
           /\ NoOrphans' /\ InPlace' /\ SameToken' /\ Resigned'
           /\ (\A d \in Chan, m \in Slot : Honest(sock[d][m]))'
           /\ ws'[Status] = ws[Status] /\ (Status \in timer' <=> Status \in timer)
           /\ open' \subseteq Tabs /\ timer' \subseteq open' \cup {Status}
           /\ intentional' \subseteq Tabs /\ told' \subseteq open'
<1>1. gone \in SUBSET Chan /\ Status \notin gone
  BY Types DEF IInv, TypeOK
<1>2. /\ open' = open \ gone /\ timer' = timer \ gone /\ told' = told \ gone
      /\ intentional' = intentional \cup gone
      /\ sock' = [c \in Chan |-> IF c \in gone THEN HungUp(c, sock)[c] ELSE sock[c]]
      /\ ws' = [c \in Chan |-> IF c \in gone THEN 0 ELSE ws[c]]
  BY DEF TabsClosed
<1>3. \A c \in Chan \ gone : InUse(c)' = InUse(c)
  BY <1>2 DEF InUse
<1>4. /\ sock' \in [Chan -> [Slot -> Socket]] /\ ws' \in [Chan -> Slot \cup {0}]
      /\ NoOrphans' /\ InPlace' /\ SameToken'
      /\ (\A d \in Chan, m \in Slot : Honest(sock[d][m]))'
      /\ \A d \in Chan : ws'[d] # 0 => ws'[d] = ws[d] /\ sock'[d] = sock[d]
  BY <1>1, <1>2, <1>3, Hung
<1>5. Resigned'
  <2> SUFFICES ASSUME NEW u \in told'
               PROVE  /\ u \notin timer'
                      /\ ws'[u] # 0 => u \in intentional' /\ sock'[u][ws'[u]].server = "gone"
    BY DEF Resigned
  <2>1. u \in told /\ u \in Chan
    BY <1>2, Types DEF IInv, TypeOK
  <2> QED BY <1>2, <1>4, <2>1 DEF IInv, Resigned
<1>6. ws'[Status] = ws[Status] /\ (Status \in timer' <=> Status \in timer)
  BY <1>1, <1>2, Types
<1>7. /\ open' \subseteq Tabs /\ timer' \subseteq open' \cup {Status}
      /\ intentional' \subseteq Tabs /\ told' \subseteq open'
  BY <1>2 DEF IInv, TypeOK
<1> QED BY <1>4, <1>5, <1>6, <1>7

LEMMA CloseTabKeeps ==
    ASSUME IInv, NEW t \in Tabs, CloseTab(t)
    PROVE  IInv'
<1>1. {t} \in SUBSET open /\ TabsClosed({t}) /\ UNCHANGED <<attempts, form, tokens, losses>>
  BY DEF CloseTab
<1>2. TypeOK'
  BY <1>1, TabsClosedKeeps DEF IInv, TypeOK, form, tokens
<1>3. NeverStranded' /\ Barred'
  <2>1. ws'[Status] = ws[Status] /\ (Status \in timer' <=> Status \in timer)
    BY <1>1, TabsClosedKeeps DEF form, tokens
  <2>2. open' \subseteq open
    BY <1>1 DEF TabsClosed
  <2> QED BY <1>1, <2>1, <2>2 DEF IInv, NeverStranded, Barred, form
<1> QED BY <1>1, <1>2, <1>3, TabsClosedKeeps DEF IInv, form, tokens

LEMMA LogoutReturnsKeeps ==
    ASSUME IInv, LogoutReturns
    PROVE  IInv'
<1>1. /\ TabsClosed(open) /\ attempts' = attempts
      /\ cookie' \in {cookie, 0} /\ UNCHANGED <<enabled, last, valid>>
      /\ leaving' = None /\ listed' = FALSE /\ overlay' = TRUE /\ out' = ~enabled
      /\ UNCHANGED <<restored, entering, ending, losses>>
  BY DEF LogoutReturns
<1>2. TypeOK'
  <2>1. out' \in BOOLEAN /\ cookie' \in 0..last'
    BY <1>1 DEF IInv, TypeOK
  <2> QED BY <1>1, <2>1, TabsClosedKeeps DEF IInv, TypeOK
<1>3. NeverStranded' /\ Barred'
  BY <1>1 DEF NeverStranded, Barred, TabsClosed
<1> QED BY <1>1, <1>2, <1>3, TabsClosedKeeps DEF IInv

LEMMA LogoutClickKeeps ==
    ASSUME IInv, LogoutClick
    PROVE  IInv'
<1>1. /\ leaving' = cookie /\ enabled' = FALSE /\ timer' = timer \ {Status}
      /\ sock' = HungUp(Status, sock) /\ ws' = [ws EXCEPT ![Status] = 0]
      /\ UNCHANGED <<open, attempts, intentional, told, overlay, listed, restored, entering,
                     ending, out, tokens, losses>>
  BY DEF LogoutClick
<1>2. sock' = [c \in Chan |-> IF c \in {Status} THEN HungUp(c, sock)[c] ELSE sock[c]]
  BY <1>1, Types DEF HungUp, IInv, TypeOK
<1>3. ws' = [c \in Chan |-> IF c \in {Status} THEN 0 ELSE ws[c]]
  BY <1>1, Types DEF IInv, TypeOK
<1>4. \A c \in Chan \ {Status} : InUse(c)' = InUse(c)
  BY <1>1 DEF InUse
<1>5. {Status} \in SUBSET Chan /\ cookie' \in {cookie, 0} /\ UNCHANGED <<last, valid>>
  BY <1>1, Types DEF tokens
<1>6. /\ sock' \in [Chan -> [Slot -> Socket]] /\ ws' \in [Chan -> Slot \cup {0}]
      /\ NoOrphans' /\ InPlace' /\ SameToken'
      /\ (\A d \in Chan, m \in Slot : Honest(sock[d][m]))'
      /\ \A d \in Chan : ws'[d] # 0 => ws'[d] = ws[d] /\ sock'[d] = sock[d]
  BY <1>1, <1>2, <1>3, <1>4, <1>5, Hung
<1>7. TypeOK'
  <2>1. leaving' \in Token \cup {None}
    BY <1>1, Numbers
  <2> QED BY <1>1, <1>6, <2>1 DEF IInv, TypeOK, tokens
<1>8. Resigned'
  <2> SUFFICES ASSUME NEW u \in told'
               PROVE  /\ u \notin timer'
                      /\ ws'[u] # 0 => u \in intentional' /\ sock'[u][ws'[u]].server = "gone"
    BY DEF Resigned
  <2>1. u \in told /\ u \in Chan
    BY <1>1, Types DEF IInv, TypeOK
  <2> QED BY <1>1, <1>6, <2>1 DEF IInv, Resigned
<1>9. NeverStranded' /\ Barred'
  <2>1. leaving' # None
    BY <1>1, NoneAssumption DEF IInv, TypeOK
  <2> QED BY <1>1, <2>1 DEF IInv, NeverStranded, Barred
<1> QED BY <1>6, <1>7, <1>8, <1>9 DEF IInv

LEMMA LoginSucceedsKeeps ==
    ASSUME IInv, LoginSucceeds
    PROVE  IInv'
<1>1. /\ last' = last + 1 /\ valid' = valid \cup {last'} /\ cookie' = last' /\ last < MaxLogins
      /\ CanDial(Status)
      /\ overlay' = FALSE /\ entering' = FALSE /\ out' = FALSE /\ enabled' = TRUE
      /\ timer' = timer \ {Status}
      /\ sock' = Dialled(Status, HungUp(Status, sock), last')
      /\ ws' = [ws EXCEPT ![Status] = NextSlot(Status, sock)]
      /\ UNCHANGED <<open, attempts, intentional, told, listed, restored, leaving, ending, losses>>
  BY DEF LoginSucceeds, StatusStarted
<1>2. last' \in Token /\ last' <= last' /\ last' \in 1..MaxLogins
  BY <1>1, Numbers DEF Token
<1>3. InUse(Status)' /\ \A d \in Chan \ {Status} : InUse(d)' = InUse(d)
  BY <1>1 DEF InUse
<1>4. /\ sock' \in [Chan -> [Slot -> Socket]] /\ ws' \in [Chan -> Slot \cup {0}]
      /\ NoOrphans' /\ InPlace' /\ SameToken'
      /\ (\A d \in Chan, m \in Slot : Honest(sock[d][m]))'
      /\ ws'[Status] # 0
      /\ \A u \in Tabs \ {Status} :
           ws'[u] = ws[u] /\ (ws[u] # 0 => sock'[u][ws[u]].server = sock[u][ws[u]].server)
  BY <1>1, <1>2, <1>3, Types, AlikeSock, Dials
<1>5. TypeOK'
  <2>1. valid' \subseteq 1..last' /\ cookie' \in 0..last'
    <3>1. valid \subseteq 1..last /\ last \in Nat
      BY Numbers DEF IInv, TypeOK
    <3> QED BY <1>1, <3>1
  <2> QED BY <1>1, <1>2, <1>4, <2>1 DEF IInv, TypeOK
<1>6. Resigned'
  <2> SUFFICES ASSUME NEW u \in told
               PROVE  /\ u \notin timer'
                      /\ ws'[u] # 0 => u \in intentional' /\ sock'[u][ws'[u]].server = "gone"
    BY <1>1 DEF Resigned
  <2>1. u \in Tabs \ {Status}
    BY Types DEF IInv, TypeOK
  <2> QED BY <1>1, <1>4, <2>1 DEF IInv, Resigned
<1>7. NeverStranded' /\ Barred'
  BY <1>1, <1>4 DEF NeverStranded, Barred
<1> QED BY <1>4, <1>5, <1>6, <1>7 DEF IInv

\* Steps that leave the sockets and what they are for alone.
LEMMA FormKeeps ==
    ASSUME IInv, UNCHANGED <<page, sock, tokens, enabled, listed, out>>,
           {restored', entering'} \subseteq BOOLEAN,
           {leaving', ending'} \subseteq Token \cup {None}, losses' \in 0..MaxLosses,
           leaving' = leaving, overlay' \in {overlay, TRUE}
    PROVE  IInv'
<1>1. TypeOK'
  BY DEF IInv, TypeOK, page, tokens
<1>2. NoOrphans' /\ InPlace' /\ Resigned' /\ Barred' /\ NeverStranded' /\ SameToken'
  BY DEF IInv, NoOrphans, InUse, InPlace, Resigned, Barred, NeverStranded, SameToken, page, tokens
<1>3. (\A d \in Chan, m \in Slot : Honest(sock[d][m]))'
  BY DEF IInv, Honest, tokens
<1> QED BY <1>1, <1>2, <1>3 DEF IInv

LEMMA FormStepKeeps ==
    ASSUME IInv, LoginSubmit \/ LoginFails \/ EndClick \/ EndReturns
    PROVE  IInv'
<1> USE Numbers DEF IInv, TypeOK
<1>1. CASE LoginSubmit
  BY <1>1, FormKeeps DEF LoginSubmit
<1>2. CASE LoginFails
  BY <1>2, FormKeeps DEF LoginFails
<1>3. CASE EndClick
  BY <1>3, FormKeeps DEF EndClick
<1>4. CASE EndReturns
  <2>1. overlay' \in {overlay, TRUE}
    BY <1>4 DEF EndReturns
  <2> QED BY <1>4, <2>1, FormKeeps DEF EndReturns
<1> QED BY <1>1, <1>2, <1>3, <1>4

-----------------------------------------------------------------------------
(* Time-outs *)

LEMMA TabRetriesKeeps ==
    ASSUME IInv, NEW t \in Tabs, TabRetries(t)
    PROVE  IInv'
<1>1. /\ t \in timer /\ CanDial(t) /\ sock' = Dialled(t, HungUp(t, sock), cookie)
      /\ ws' = [ws EXCEPT ![t] = NextSlot(t, sock)] /\ timer' = timer \ {t}
      /\ intentional' = intentional \ {t}
      /\ UNCHANGED <<open, attempts, told, form, tokens, losses>>
  BY DEF TabRetries, Connect
<1>2. t \in Chan /\ t # Status /\ InUse(t)
  BY <1>1, Types DEF IInv, NoOrphans
<1>3. \A d \in Chan : InUse(d)' = InUse(d)
  BY <1>1 DEF InUse, form
<1>4. /\ sock' \in [Chan -> [Slot -> Socket]] /\ ws' \in [Chan -> Slot \cup {0}]
      /\ NoOrphans' /\ InPlace' /\ SameToken'
      /\ (\A d \in Chan, m \in Slot : Honest(sock[d][m]))'
      /\ \A u \in Tabs \ {t} :
           ws'[u] = ws[u] /\ (ws[u] # 0 => sock'[u][ws[u]].server = sock[u][ws[u]].server)
  <2>1. cookie \in Token /\ cookie <= last' /\ cookie' = cookie
    BY <1>1, Numbers DEF tokens
  <2>2. InUse(t)' /\ \A d \in Chan \ {t} : InUse(d)' = InUse(d)
    BY <1>2, <1>3
  <2> QED BY <1>1, <1>2, <2>1, <2>2, AlikeSock, Dials DEF tokens
<1>5. TypeOK'
  BY <1>1, <1>4 DEF IInv, TypeOK, form, tokens
<1>6. Resigned'
  <2> SUFFICES ASSUME NEW u \in told
               PROVE  /\ u \notin timer'
                      /\ ws'[u] # 0 => u \in intentional' /\ sock'[u][ws'[u]].server = "gone"
    BY <1>1 DEF Resigned
  <2>1. u \in Tabs \ {t}
    BY <1>1 DEF IInv, TypeOK, Resigned
  <2> QED BY <1>1, <1>4, <2>1 DEF IInv, Resigned
<1>7. NeverStranded' /\ Barred'
  <2>1. ws'[Status] = ws[Status] /\ (Status \in timer' <=> Status \in timer)
    BY <1>1, <1>2, Types DEF IInv, TypeOK
  <2> QED BY <1>1, <2>1 DEF IInv, NeverStranded, Barred, form
<1> QED BY <1>4, <1>5, <1>6, <1>7 DEF IInv

LEMMA StatusRetriesKeeps ==
    ASSUME IInv, StatusRetries
    PROVE  IInv'
<1>1. /\ enabled /\ CanDial(Status) /\ timer' = timer \ {Status}
      /\ sock' = Dialled(Status, HungUp(Status, sock), cookie)
      /\ ws' = [ws EXCEPT ![Status] = NextSlot(Status, sock)]
      /\ UNCHANGED <<open, attempts, intentional, told, form, tokens, losses>>
  BY DEF StatusRetries, StatusStarted
<1>2. InUse(Status)' /\ \A d \in Chan : InUse(d)' = InUse(d)
  BY <1>1 DEF InUse, form
<1>3. cookie \in Token /\ cookie <= last' /\ cookie' = cookie
  BY <1>1, Numbers DEF tokens
<1>4. /\ sock' \in [Chan -> [Slot -> Socket]] /\ ws' \in [Chan -> Slot \cup {0}]
      /\ NoOrphans' /\ InPlace' /\ SameToken'
      /\ (\A d \in Chan, m \in Slot : Honest(sock[d][m]))'
      /\ ws'[Status] # 0
      /\ \A u \in Tabs \ {Status} :
           ws'[u] = ws[u] /\ (ws[u] # 0 => sock'[u][ws[u]].server = sock[u][ws[u]].server)
  BY <1>1, <1>2, <1>3, Types, AlikeSock, Dials DEF tokens
<1>5. TypeOK'
  BY <1>1, <1>4 DEF IInv, TypeOK, form, tokens
<1>6. Resigned'
  <2> SUFFICES ASSUME NEW u \in told
               PROVE  /\ u \notin timer'
                      /\ ws'[u] # 0 => u \in intentional' /\ sock'[u][ws'[u]].server = "gone"
    BY <1>1 DEF Resigned
  <2>1. u \in Tabs \ {Status}
    BY Types DEF IInv, TypeOK
  <2> QED BY <1>1, <1>4, <2>1 DEF IInv, Resigned
<1>7. NeverStranded' /\ Barred'
  BY <1>1, <1>4 DEF IInv, NeverStranded, Barred, form
<1> QED BY <1>4, <1>5, <1>6, <1>7 DEF IInv

-----------------------------------------------------------------------------
(* Events of a socket in use *)

\* What an event or a message leaves of the page, but for the login form, the
\* list and the history.
LEMMA RewrittenKeeps ==
    ASSUME IInv, NEW c \in Chan, NEW n \in Slot, NEW r \in Socket, Honest(r),
           sock' = [sock EXCEPT ![c][n] = r],
           r.token = sock[c][n].token,
           sock[c][n].server = "gone" => r.server = "gone",
           sock[c][n].phase \in {"connecting", "open"},
           r.phase \in {"connecting", "open"},
           UNCHANGED <<ws, timer, open, tokens, enabled, overlay, entering, leaving, ending, out>>,
           attempts' \in [Tabs -> 0..MaxAttempts], losses' \in 0..MaxLosses,
           listed' \in BOOLEAN, restored' \in BOOLEAN, listed' = listed \/ ~out,
           \/ UNCHANGED <<told, intentional>>
           \/ /\ c \in open /\ ws[c] = n /\ r.server = "gone"
              /\ told' = told \cup {c} /\ intentional' = intentional \cup {c}
    PROVE  IInv'
<1>1. /\ sock' \in [Chan -> [Slot -> Socket]]
      /\ NoOrphans' /\ InPlace' /\ SameToken'
      /\ (\A d \in Chan, m \in Slot : Honest(sock[d][m]))'
      /\ \A t \in Tabs : ws[t] # 0 /\ sock[t][ws[t]].server = "gone"
                           => sock'[t][ws[t]].server = "gone"
  BY Rewritten
<1>2. TypeOK'
  BY <1>1 DEF IInv, TypeOK, tokens
<1>3. NeverStranded' /\ Barred'
  BY DEF IInv, NeverStranded, Barred
<1>4. Resigned'
  <2> SUFFICES ASSUME NEW u \in told'
               PROVE  /\ u \notin timer
                      /\ ws[u] # 0 => u \in intentional' /\ sock'[u][ws[u]].server = "gone"
    BY DEF Resigned
  <2>1. CASE u \in told
    <3>1. u \in Tabs /\ u \notin timer /\ (ws[u] # 0 => u \in intentional /\ sock[u][ws[u]].server = "gone")
      BY <2>1 DEF IInv, TypeOK, Resigned
    <3> QED BY <1>1, <3>1
  <2>2. CASE u \notin told
    <3>1. u = c /\ ws[c] = n /\ r.server = "gone" /\ intentional' = intentional \cup {c}
      BY <2>2
    <3>2. sock'[c][n] = r
      BY DEF IInv, TypeOK
    <3>3. c \notin timer
      BY DEF IInv, NoOrphans
    <3> QED BY <3>1, <3>2, <3>3
  <2> QED BY <2>1, <2>2
<1> QED BY <1>1, <1>2, <1>3, <1>4 DEF IInv

LEMMA OnOpenKeeps ==
    ASSUME IInv, NEW c \in Chan, NEW n \in Slot, OnOpen(c, n)
    PROVE  IInv'
<1> DEFINE q == [sock[c][n] EXCEPT !.mail = Tail(@)]
           r == [q EXCEPT !.phase = "open"]
<1>1. /\ Heard(c, n, "open") /\ sock' = [Read(c, n) EXCEPT ![c][n].phase = "open"]
      /\ attempts' = IF c = Status THEN attempts ELSE [attempts EXCEPT ![c] = 0]
      /\ UNCHANGED <<open, ws, timer, intentional, told, form, tokens, losses>>
  BY DEF OnOpen
<1>2. /\ Read(c, n) = [sock EXCEPT ![c][n] = q] /\ q \in Socket /\ Honest(q)
      /\ q.token = sock[c][n].token /\ q.server = sock[c][n].server
      /\ q.phase = sock[c][n].phase
      /\ sock[c][n].phase \in {"connecting", "open"} /\ ws[c] = n
  BY <1>1, ReadSocket
<1> HIDE DEF q
<1>3. /\ r \in Socket /\ r.phase = "open" /\ r.token = q.token /\ r.server = q.server
      /\ r.mail = q.mail
  BY <1>2 DEF Socket
<1>4. Honest(r)
  BY <1>2, <1>3 DEF Honest
<1>5. sock' = [sock EXCEPT ![c][n] = r]
  <2> DEFINE F == [sock EXCEPT ![c][n] = q]
  <2>1. sock \in [Chan -> [Slot -> Socket]] /\ sock[c] \in [Slot -> Socket]
    BY DEF IInv, TypeOK
  <2>2. F[c][n] = q
    BY <2>1
  <2>3. sock' = [F EXCEPT ![c][n] = r]
    BY <1>1, <1>2, <2>2
  <2> HIDE DEF r
  <2> QED BY <2>1, <2>3
<1>6. attempts' \in [Tabs -> 0..MaxAttempts]
  <2>1. 0 \in 0..MaxAttempts /\ (c # Status => c \in Tabs)
    BY BoundAssumption DEF Chan
  <2> QED BY <1>1, <2>1 DEF IInv, TypeOK
<1> HIDE DEF r
<1>7. /\ UNCHANGED <<ws, timer, open, tokens, enabled, overlay, entering, leaving, ending, out>>
      /\ losses' \in 0..MaxLosses /\ listed' \in BOOLEAN /\ restored' \in BOOLEAN
      /\ listed' = listed /\ UNCHANGED <<told, intentional>>
  BY <1>1 DEF IInv, TypeOK, form
<1> QED BY <1>2, <1>3, <1>4, <1>5, <1>6, <1>7, RewrittenKeeps

LEMMA TabExitKeeps ==
    ASSUME IInv, NEW t \in Tabs, NEW n \in Slot, TabExit(t, n)
    PROVE  IInv'
<1> DEFINE r == [sock[t][n] EXCEPT !.mail = Tail(@)]
<1>1. /\ Heard(t, n, "exit") /\ sock' = Read(t, n)
      /\ intentional' = intentional \cup {t} /\ told' = told \cup {t}
      /\ UNCHANGED <<open, ws, timer, attempts, form, tokens, losses>>
  BY DEF TabExit
<1>2. t \in Chan /\ t # Status
  BY Types
<1>3. /\ sock' = [sock EXCEPT ![t][n] = r] /\ r \in Socket /\ Honest(r)
      /\ r.token = sock[t][n].token /\ r.server = sock[t][n].server
      /\ r.phase = sock[t][n].phase
      /\ sock[t][n].phase \in {"connecting", "open"} /\ ws[t] = n
  BY <1>1, <1>2, ReadSocket
<1> HIDE DEF r
<1>4. t \in open
  BY <1>2, <1>3 DEF IInv, NoOrphans, InUse
<1>5. r.server = "gone"
  <2>1. sock[t][n].mail \in Seq(Event) /\ sock[t][n].mail # <<>> /\ Head(sock[t][n].mail) = "exit"
    BY <1>1, <1>2 DEF Heard, IInv, TypeOK, Socket
  <2>2. Has(sock[t][n].mail, "exit")
    BY <2>1, HasHead
  <2> QED BY <1>2, <1>3, <2>2 DEF IInv, Honest
<1>6. /\ UNCHANGED <<ws, timer, open, tokens, enabled, overlay, entering, leaving, ending, out>>
      /\ losses' \in 0..MaxLosses /\ listed' \in BOOLEAN /\ restored' \in BOOLEAN
      /\ listed' = listed /\ attempts' \in [Tabs -> 0..MaxAttempts]
  BY <1>1 DEF IInv, TypeOK, form
<1> QED BY <1>1, <1>2, <1>3, <1>4, <1>5, <1>6, RewrittenKeeps

LEMMA StatusProjectsKeeps ==
    ASSUME IInv, NEW n \in Slot, StatusProjects(n)
    PROVE  IInv'
<1> DEFINE r == [sock[Status][n] EXCEPT !.mail = Tail(@)]
           S == Read(Status, n)
<1>1. /\ Heard(Status, n, "projects") /\ listed' = TRUE /\ restored' = TRUE
      /\ UNCHANGED <<enabled, overlay, entering, leaving, ending, out, tokens, losses>>
      /\ \/ sock' = S /\ UNCHANGED page
         \/ \E t \in Tabs : Opened(t, S)
  BY DEF StatusProjects, Restored
<1>2. /\ S = [sock EXCEPT ![Status][n] = r] /\ r \in Socket /\ Honest(r)
      /\ r.token = sock[Status][n].token /\ r.server = sock[Status][n].server
      /\ r.phase = sock[Status][n].phase
      /\ sock[Status][n].phase \in {"connecting", "open"} /\ ws[Status] = n
  BY <1>1, Types, ReadSocket
<1> HIDE DEF r, S
<1>3. ~out
  <2>1. enabled
    BY <1>2, Types DEF IInv, NoOrphans, InUse, TypeOK
  <2> QED BY <2>1 DEF IInv, Barred
<1>4. CASE sock' = S /\ UNCHANGED page
  <2>1. /\ UNCHANGED <<ws, timer, open, told, intentional>>
        /\ attempts' \in [Tabs -> 0..MaxAttempts] /\ losses' \in 0..MaxLosses
    BY <1>1, <1>4 DEF page, IInv, TypeOK
  <2> QED BY <1>1, <1>2, <1>3, <1>4, <2>1, Types, RewrittenKeeps
<1>5. ASSUME NEW t \in Tabs, Opened(t, S) PROVE IInv'
  <2>1. Alike(S)
    BY <1>2, Types DEF Alike, IInv, TypeOK
  <2> QED BY <1>1, <1>3, <1>5, <2>1, OpenedKeeps
<1> QED BY <1>1, <1>4, <1>5

\* What is common to the close events of both.
LEMMA OnCloseKeeps ==
    ASSUME IInv, NEW c \in Chan, NEW n \in Slot, NEW code \in Code, Heard(c, n, code),
           sock' = [sock EXCEPT ![c][n] = Free], ws' = [ws EXCEPT ![c] = 0],
           timer' \in {timer, timer \cup {c}},
           \A d \in Chan : d # c \/ timer' # timer => InUse(d)' = InUse(d),
           attempts' \in [Tabs -> 0..MaxAttempts], overlay' \in {overlay, TRUE},
           enabled' \in {enabled, FALSE}, told \subseteq told',
           told' # told => timer' = timer /\ c \in open /\ told' = told \cup {c},
           timer' # timer => c \notin told,
           c = Status => overlay' \/ (timer' = timer \cup {c} /\ enabled' = enabled),
           c # Status => enabled' = enabled,
           UNCHANGED <<open, intentional, listed, restored, entering, leaving, ending, out,
                       tokens, losses>>
    PROVE  IInv'
<1>1. ws[c] = n /\ sock[c][n].phase \in {"connecting", "open"} /\ c \notin timer /\ InUse(c)
  <2>1. ws[c] = n /\ n # 0
    BY DEF Heard, Slot
  <2>2. sock[c][n].phase \in {"connecting", "open"}
    BY <2>1 DEF IInv, InPlace
  <2> QED BY <2>1, <2>2 DEF IInv, NoOrphans
<1>2. /\ sock' \in [Chan -> [Slot -> Socket]] /\ ws' \in [Chan -> Slot \cup {0}]
      /\ NoOrphans' /\ InPlace' /\ SameToken'
      /\ (\A d \in Chan, m \in Slot : Honest(sock[d][m]))'
      /\ \A d \in Chan : ws'[d] # 0 => ws'[d] = ws[d] /\ sock'[d][ws[d]] = sock[d][ws[d]]
  <2>1. ws' # ws
    BY <1>1 DEF IInv, TypeOK, Slot
  <2> QED BY <1>1, <2>1, Emptied
<1>3. TypeOK'
  <2>1. timer' \subseteq open' \cup {Status}
    BY <1>1 DEF IInv, TypeOK, InUse
  <2>2. told' \subseteq open'
    BY DEF IInv, TypeOK
  <2> QED BY <1>2, <2>1, <2>2 DEF IInv, TypeOK, tokens
<1>4. Resigned'
  <2> SUFFICES ASSUME NEW u \in told'
               PROVE  /\ u \notin timer'
                      /\ ws'[u] # 0 => u \in intentional /\ sock'[u][ws'[u]].server = "gone"
    BY DEF Resigned
  <2>1. CASE u = c
    <3>1. u \notin timer' /\ ws'[u] = 0
      BY <1>1, <2>1 DEF IInv, TypeOK
    <3> QED BY <3>1
  <2>2. CASE u # c
    <3>1. u \in told /\ u \in Chan
      BY <2>2, Types DEF IInv, TypeOK
    <3> QED BY <1>2, <2>2, <3>1 DEF IInv, Resigned
  <2> QED BY <2>1, <2>2
<1>5. NeverStranded' /\ Barred'
  <2>1. Barred'
    BY DEF IInv, Barred
  <2>2. CASE c = Status
    BY <2>1, <2>2 DEF IInv, NeverStranded
  <2>3. CASE c # Status
    <3>1. ws'[Status] = ws[Status] /\ (Status \in timer => Status \in timer')
      BY <2>3, Types DEF IInv, TypeOK
    <3> QED BY <2>1, <2>3, <3>1 DEF IInv, NeverStranded
  <2> QED BY <2>1, <2>2, <2>3
<1> QED BY <1>2, <1>3, <1>4, <1>5 DEF IInv

LEMMA TabOnCloseKeeps ==
    ASSUME IInv, NEW t \in Tabs, NEW n \in Slot, TabOnClose(t, n)
    PROVE  IInv'
<1>0. ASSUME NEW code PROVE (overlay \/ code = "unauthed") \in {overlay, TRUE}
  <2>1. CASE code = "unauthed"
    BY <2>1
  <2>2. CASE code # "unauthed"
    BY <2>2, Booleans
  <2> QED BY <2>1, <2>2
<1>1. PICK code \in Code :
      /\ Heard(t, n, code)
      /\ sock' = [sock EXCEPT ![t][n] = Free] /\ ws' = [ws EXCEPT ![t] = 0]
      /\ \/ /\ t \in intentional \/ code # "dropped"
            /\ overlay' \in {overlay, TRUE}
            /\ told' = IF code = "dropped" THEN told ELSE told \cup {t}
            /\ UNCHANGED <<timer, attempts>>
         \/ /\ t \notin intentional
            /\ \/ /\ attempts[t] < MaxAttempts
                  /\ attempts' = [attempts EXCEPT ![t] = @ + 1] /\ timer' = timer \cup {t}
               \/ UNCHANGED <<attempts, timer>>
            /\ UNCHANGED <<overlay, told>>
      /\ UNCHANGED <<open, intentional, enabled, listed, restored, entering, leaving, ending,
                     out, tokens, losses>>
  BY <1>0 DEF TabOnClose
<1>2. t \in Chan /\ t # Status
  BY Types
<1>3. ws[t] = n /\ ws[t] # 0 /\ t \in open
  <2>1. ws[t] = n /\ n # 0
    BY <1>1 DEF Heard, Slot
  <2>2. sock[t][n].phase \in {"connecting", "open"}
    BY <1>2, <2>1 DEF IInv, InPlace
  <2> QED BY <1>2, <2>1, <2>2 DEF IInv, NoOrphans, InUse
<1>4. attempts' \in [Tabs -> 0..MaxAttempts]
  <2>1. CASE attempts[t] < MaxAttempts /\ attempts' = [attempts EXCEPT ![t] = @ + 1]
    <3>1. attempts[t] \in 0..MaxAttempts /\ MaxAttempts \in Nat
      BY BoundAssumption DEF IInv, TypeOK
    <3>2. attempts[t] + 1 \in 0..MaxAttempts
      BY <2>1, <3>1
    <3> QED BY <2>1, <3>2 DEF IInv, TypeOK
  <2>2. CASE UNCHANGED attempts
    BY <2>2 DEF IInv, TypeOK
  <2> QED BY <1>1, <2>1, <2>2
<1>5. overlay' \in {overlay, TRUE} /\ enabled' \in {enabled, FALSE}
  BY <1>1
<1>6. timer' # timer => t \notin told
  BY <1>1, <1>3 DEF IInv, Resigned
<1>7. /\ timer' \in {timer, timer \cup {t}} /\ told \subseteq told'
      /\ told' # told => timer' = timer /\ t \in open /\ told' = told \cup {t}
  BY <1>1, <1>3
<1>8. \A d \in Chan : InUse(d)' = InUse(d)
  BY <1>1 DEF InUse
<1> QED BY <1>1, <1>2, <1>4, <1>5, <1>6, <1>7, <1>8, OnCloseKeeps

LEMMA StatusOnCloseKeeps ==
    ASSUME IInv, NEW n \in Slot, StatusOnClose(n)
    PROVE  IInv'
<1>1. PICK code \in Code :
      /\ Heard(Status, n, code)
      /\ sock' = [sock EXCEPT ![Status][n] = Free] /\ ws' = [ws EXCEPT ![Status] = 0]
      /\ \/ enabled' = FALSE /\ overlay' = TRUE /\ UNCHANGED timer
         \/ timer' = timer \cup {Status} /\ UNCHANGED <<enabled, overlay>>
      /\ UNCHANGED <<open, attempts, intentional, told, listed, restored, entering,
                     leaving, ending, out, tokens, losses>>
  BY DEF StatusOnClose
<1>2. /\ attempts' \in [Tabs -> 0..MaxAttempts]
      /\ overlay' \in {overlay, TRUE} /\ enabled' \in {enabled, FALSE}
  BY <1>1 DEF IInv, TypeOK
<1>3. \A d \in Chan : d # Status \/ timer' # timer => InUse(d)' = InUse(d)
  BY <1>1 DEF InUse
<1>4. Status \notin told
  BY Types DEF IInv, TypeOK
<1>5. /\ timer' \in {timer, timer \cup {Status}}
      /\ overlay' \/ (timer' = timer \cup {Status} /\ enabled' = enabled)
  BY <1>1
<1> QED BY <1>1, <1>2, <1>3, <1>4, <1>5, Types, OnCloseKeeps

LEMMA StaleCloseKeeps ==
    ASSUME IInv, NEW c \in Chan, NEW n \in Slot, StaleClose(c, n)
    PROVE  IInv'
<1>1. /\ sock[c][n].phase = "closed" /\ sock' = [sock EXCEPT ![c][n] = Free]
      /\ UNCHANGED <<page, form, tokens, losses>>
  BY DEF StaleClose
<1>2. UNCHANGED <<ws, timer, open, enabled, told, intentional>>
  BY <1>1 DEF page, form
<1>3. \A d \in Chan : InUse(d)' = InUse(d)
  BY <1>2 DEF InUse
<1>4. /\ sock' \in [Chan -> [Slot -> Socket]] /\ ws' \in [Chan -> Slot \cup {0}]
      /\ NoOrphans' /\ InPlace' /\ SameToken'
      /\ (\A d \in Chan, m \in Slot : Honest(sock[d][m]))'
      /\ \A d \in Chan : ws'[d] # 0 => ws'[d] = ws[d] /\ sock'[d][ws[d]] = sock[d][ws[d]]
  BY <1>1, <1>2, <1>3, Emptied
<1>5. TypeOK'
  BY <1>1, <1>4 DEF IInv, TypeOK, page, form, tokens
<1>6. Resigned'
  <2> SUFFICES ASSUME NEW u \in told
               PROVE  /\ u \notin timer'
                      /\ ws'[u] # 0 => u \in intentional' /\ sock'[u][ws'[u]].server = "gone"
    BY <1>2 DEF Resigned
  <2>1. u \in Chan
    BY Types DEF IInv, TypeOK
  <2> QED BY <1>2, <1>4, <2>1 DEF IInv, Resigned
<1>7. NeverStranded' /\ Barred'
  BY <1>1 DEF IInv, NeverStranded, Barred, page, form
<1> QED BY <1>4, <1>5, <1>6, <1>7 DEF IInv

-----------------------------------------------------------------------------
(* The server and the network *)

LEMMA Edited ==
    ASSUME NEW s \in Socket, NEW m, NEW v
    PROVE  [s EXCEPT !.mail = m, !.server = v] =
             [phase |-> s.phase, token |-> s.token, mail |-> m, server |-> v]
<1>1. s = [phase |-> s.phase, token |-> s.token, mail |-> s.mail, server |-> s.server]
  BY DEF Socket
<1>2. [s EXCEPT !.mail = m] =
        [phase |-> s.phase, token |-> s.token, mail |-> m, server |-> s.server]
  BY <1>1
<1>3. [s EXCEPT !.mail = m, !.server = v] = [[s EXCEPT !.mail = m] EXCEPT !.server = v]
  OBVIOUS
<1>4. [[phase |-> s.phase, token |-> s.token, mail |-> m, server |-> s.server]
         EXCEPT !.server = v] =
        [phase |-> s.phase, token |-> s.token, mail |-> m, server |-> v]
  OBVIOUS
<1> QED BY <1>2, <1>3, <1>4

\* The server sends some events over a socket and is, after that, as sv says.
LEMMA SendsKeeps ==
    ASSUME IInv, NEW c \in Chan, NEW n \in Slot, NEW es \in Seq(Event),
           NEW sv \in {"admitted", "gone"},
           sock[c][n].server # "gone",
           sock' = Sent(c, n, es, sv),
           \A e \in Code \cup {"exit"} : Has(es, e) => sv = "gone",
           Has(es, "unauthed") => sock[c][n].token \notin valid,
           UNCHANGED <<page, form, tokens, losses>>
    PROVE  IInv'
<1> DEFINE s == sock[c][n]
           r == [phase |-> s.phase, token |-> s.token, mail |-> s.mail \o es, server |-> sv]
<1>1. s \in Socket /\ Honest(s) /\ s.mail \in Seq(Event)
  BY DEF IInv, TypeOK, Socket
<1>2. s.phase \in {"connecting", "open"}
  BY <1>1 DEF Honest, Socket
<1>3. r \in Socket /\ r.mail = s.mail \o es /\ r.token = s.token /\ r.phase = s.phase
      /\ r.server = sv
  <2>1. s.mail \o es \in Seq(Event)
    BY <1>1
  <2> QED BY <1>1, <2>1 DEF Socket
<1>4. Honest(r)
  <2>1. \A e : Has(r.mail, e) => Has(s.mail, e) \/ Has(es, e)
    BY <1>1, <1>3, HasConcat
  <2>2. \A e \in Code \cup {"exit"} : ~Has(s.mail, e)
    BY <1>1 DEF Honest
  <2>3. "unauthed" \in Code
    BY DEF Code
  <2> QED BY <1>1, <1>2, <1>3, <2>1, <2>2, <2>3 DEF Honest
<1>5. sock' = [sock EXCEPT ![c][n] = r]
  <2> DEFINE m == s.mail \o es
  <2>1. sock' = [sock EXCEPT ![c][n] = [s EXCEPT !.mail = m, !.server = sv]]
    BY DEF Sent
  <2> HIDE DEF m
  <2>2. [s EXCEPT !.mail = m, !.server = sv] =
          [phase |-> s.phase, token |-> s.token, mail |-> m, server |-> sv]
    BY <1>1, Edited
  <2>3. sock' = [sock EXCEPT ![c][n] = [phase |-> s.phase, token |-> s.token, mail |-> m,
                                        server |-> sv]]
    BY <2>1, <2>2
  <2> QED BY <2>3 DEF m
<1> HIDE DEF r
<1>6. /\ UNCHANGED <<ws, timer, open, tokens, enabled, overlay, entering, leaving, ending, out>>
      /\ losses' \in 0..MaxLosses /\ listed' \in BOOLEAN /\ restored' \in BOOLEAN
      /\ attempts' \in [Tabs -> 0..MaxAttempts]
      /\ listed' = listed /\ UNCHANGED <<told, intentional>>
  BY DEF IInv, TypeOK, form, page
<1> QED BY <1>2, <1>3, <1>4, <1>5, <1>6, RewrittenKeeps

LEMMA AcceptKeeps ==
    ASSUME IInv, NEW c \in Chan, NEW n \in Slot, Accept(c, n)
    PROVE  IInv'
<1>1. sock[c][n].server = "new" /\ UNCHANGED <<page, form, tokens, losses>>
  BY DEF Accept
<1>2. <<"open">> \in Seq(Event) /\ <<"open", "unauthed">> \in Seq(Event)
  BY DEF Event, Code
<1>3. CASE sock' = Sent(c, n, <<"open">>, "admitted")
  <2>1. \A e \in Code \cup {"exit"} : ~Has(<<"open">>, e)
    BY HasOne DEF Code
  <2>2. "unauthed" \in Code
    BY DEF Code
  <2> QED BY <1>1, <1>2, <1>3, <2>1, <2>2, SendsKeeps
<1>4. CASE /\ sock[c][n].token \notin valid
           /\ sock' = Sent(c, n, <<"open", "unauthed">>, "gone")
  BY <1>1, <1>2, <1>4, SendsKeeps
<1> QED BY <1>3, <1>4 DEF Accept

LEMMA SaysKeeps ==
    ASSUME IInv, NEW c \in Chan, NEW n \in Slot, Says(c, n)
    PROVE  IInv'
<1>1. PICK es \in {<<"exit", "dropped">>, <<"final">>, <<"unauthed">>} :
      /\ sock[c][n].server = "admitted"
      /\ es = <<"unauthed">> => sock[c][n].token \notin valid
      /\ sock' = Sent(c, n, es, "gone")
      /\ UNCHANGED <<page, form, tokens, losses>>
  BY DEF Says
<1>2. es \in Seq(Event)
  <2>1. /\ <<"exit", "dropped">> \in Seq(Event) /\ <<"final">> \in Seq(Event)
        /\ <<"unauthed">> \in Seq(Event)
    BY DEF Event, Code
  <2> QED BY <2>1
<1>3. Has(es, "unauthed") => sock[c][n].token \notin valid
  <2>1. ~Has(<<"exit", "dropped">>, "unauthed")
    BY HasTwo
  <2>2. ~Has(<<"final">>, "unauthed")
    BY HasOne
  <2> QED BY <1>1, <2>1, <2>2
<1> QED BY <1>1, <1>2, <1>3, SendsKeeps

LEMMA SendsProjectsKeeps ==
    ASSUME IInv, NEW n \in Slot, SendsProjects(n)
    PROVE  IInv'
<1>1. /\ sock[Status][n].server = "admitted" /\ sock' = Sent(Status, n, <<"projects">>, "admitted")
      /\ UNCHANGED <<page, form, tokens, losses>>
  BY DEF SendsProjects
<1>2. <<"projects">> \in Seq(Event) /\ "unauthed" \in Code /\ Status \in Chan
  BY Types DEF Event, Code
<1>3. \A e \in Code \cup {"exit"} : ~Has(<<"projects">>, e)
  BY HasOne DEF Code
<1> QED BY <1>1, <1>2, <1>3, SendsKeeps

LEMMA BreaksKeeps ==
    ASSUME IInv, NEW c \in Chan, NEW n \in Slot, Breaks(c, n)
    PROVE  IInv'
<1> DEFINE s == sock[c][n]
<1>1. PICK k \in 0..Len(s.mail) :
      /\ losses < MaxLosses /\ losses' = losses + 1
      /\ s.phase \in {"connecting", "open"}
      /\ \A i \in 1..k : s.mail[i] \notin Code
      /\ sock' = [sock EXCEPT ![c][n] =
            [s EXCEPT !.mail = SubSeq(s.mail, 1, k) \o <<"dropped">>, !.server = "gone"]]
      /\ UNCHANGED <<page, form, tokens>>
  BY DEF Breaks
<1> DEFINE es == SubSeq(s.mail, 1, k)
           r == [phase |-> s.phase, token |-> s.token, mail |-> es \o <<"dropped">>,
                 server |-> "gone"]
<1>2. s \in Socket /\ Honest(s) /\ s.mail \in Seq(Event)
      /\ sock \in [Chan -> [Slot -> Socket]] /\ sock[c] \in [Slot -> Socket]
  BY DEF IInv, TypeOK, Socket
<1>3. es \in Seq(Event) /\ <<"dropped">> \in Seq(Event)
  <2>1. \A i \in 1..k : s.mail[i] \in Event
    BY <1>2
  <2>2. es = [i \in 1..k |-> s.mail[i]]
    BY <1>2
  <2> QED BY <1>2, <2>1, <2>2 DEF Event, Code
<1>4. \A e : Has(es, e) => \E i \in 1..k : s.mail[i] = e
  BY <1>2, HasSub
<1> HIDE DEF es
<1>5. es \o <<"dropped">> \in Seq(Event)
  BY <1>3
<1>6. r \in Socket /\ r.phase = s.phase /\ r.token = s.token /\ r.server = "gone"
      /\ r.mail = es \o <<"dropped">>
  BY <1>2, <1>5 DEF Socket
<1>7. Honest(r)
  <2>1. ~Has(r.mail, "unauthed")
    <3>1. ~Has(es, "unauthed")
      BY <1>1, <1>4 DEF Code
    <3>2. ~Has(<<"dropped">>, "unauthed")
      BY HasOne
    <3> QED BY <1>3, <1>6, <3>1, <3>2, HasConcat
  <2> QED BY <1>1, <1>2, <1>6, <2>1 DEF Honest
<1>8. sock' = [sock EXCEPT ![c][n] = r]
  <2> DEFINE m == es \o <<"dropped">>
  <2>1. sock' = [sock EXCEPT ![c][n] = [s EXCEPT !.mail = m, !.server = "gone"]]
    BY <1>1 DEF es
  <2> HIDE DEF m
  <2>2. [s EXCEPT !.mail = m, !.server = "gone"] =
          [phase |-> s.phase, token |-> s.token, mail |-> m, server |-> "gone"]
    BY <1>2, Edited
  <2>3. sock' = [sock EXCEPT ![c][n] = [phase |-> s.phase, token |-> s.token, mail |-> m,
                                        server |-> "gone"]]
    BY <2>1, <2>2
  <2> QED BY <2>3 DEF m
<1> HIDE DEF r
<1>9. /\ UNCHANGED <<ws, timer, open, tokens, enabled, overlay, entering, leaving, ending, out>>
      /\ listed' \in BOOLEAN /\ restored' \in BOOLEAN
      /\ attempts' \in [Tabs -> 0..MaxAttempts]
      /\ listed' = listed /\ UNCHANGED <<told, intentional>>
  BY <1>1 DEF IInv, TypeOK, form, page
<1>10. losses' \in 0..MaxLosses
  BY <1>1, BoundAssumption DEF IInv, TypeOK
<1> QED BY <1>1, <1>6, <1>7, <1>8, <1>9, <1>10, RewrittenKeeps

LEMMA ExpiresKeeps ==
    ASSUME IInv, NEW k \in Token, Expires(k)
    PROVE  IInv'
<1>1. valid' = valid \ {k} /\ UNCHANGED <<page, form, cookie, last, sock, losses>>
  BY DEF Expires
<1>2. TypeOK'
  BY <1>1 DEF IInv, TypeOK, page, form
<1>3. NoOrphans' /\ InPlace' /\ Resigned' /\ Barred' /\ NeverStranded' /\ SameToken'
  BY <1>1 DEF IInv, NoOrphans, InUse, InPlace, Resigned, Barred, NeverStranded, SameToken,
              page, form
<1>4. (\A d \in Chan, m \in Slot : Honest(sock[d][m]))'
  BY <1>1 DEF IInv, Honest
<1> QED BY <1>2, <1>3, <1>4 DEF IInv

-----------------------------------------------------------------------------
(* Theorems *)

LEMMA InitIInv == Init => IInv
<1> SUFFICES ASSUME Init PROVE IInv
  OBVIOUS
<1> DEFINE S == [c \in Chan |-> [n \in Slot |-> Free]]
           new == [phase |-> "connecting", token |-> cookie, mail |-> <<>>, server |-> "new"]
<1>1. Free \in Socket /\ Free.phase = "free" /\ Honest(Free)
  <2>1. [Free EXCEPT !.phase = "free"] = Free /\ last \in Nat
    BY Blank DEF Init
  <2> QED BY <2>1, Blank
<1>2. new \in Socket /\ new.phase = "connecting" /\ new.token = cookie /\ Honest(new)
  <2>1. cookie \in Token /\ cookie <= last
    BY BoundAssumption DEF Init, Token
  <2>2. new \in Socket
    BY <2>1 DEF Socket
  <2> QED BY <2>1, <2>2, HasNone DEF Honest
<1>3. NextSlot(Status, S) = 1
  <2>1. {n \in Slot : S[Status][n].phase = "free"} = {1, 2}
    BY <1>1, Types DEF Slot
  <2> QED BY <2>1 DEF NextSlot, Min
<1>4. sock = [S EXCEPT ![Status][1] = new]
  BY <1>3 DEF Init, Dialled
<1> HIDE DEF new
<1>5. /\ sock \in [Chan -> [Slot -> Socket]] /\ sock[Status][1] = new
      /\ \A c \in Chan, n \in Slot : c # Status \/ n # 1 => sock[c][n] = Free
  BY <1>1, <1>2, <1>4, Types DEF Slot
<1>6. ws \in [Chan -> Slot \cup {0}] /\ ws[Status] = 1 /\ \A c \in Chan \ {Status} : ws[c] = 0
  BY Types DEF Init, Slot
<1>7. TypeOK
  <2>1. attempts \in [Tabs -> 0..MaxAttempts] /\ losses \in 0..MaxLosses
    BY BoundAssumption DEF Init
  <2>2. cookie \in 0..last /\ last \in 1..MaxLogins /\ valid \subseteq 1..last
    BY BoundAssumption DEF Init
  <2> QED BY <1>5, <1>6, <2>1, <2>2 DEF Init, TypeOK
<1>8. NoOrphans /\ InPlace
  <2>1. NoOrphans
    BY <1>1, <1>2, <1>5, <1>6 DEF Init, NoOrphans, InUse
  <2>2. InPlace
    BY <1>2, <1>5, <1>6 DEF InPlace
  <2> QED BY <2>1, <2>2
<1>9. \A c \in Chan, n \in Slot : Honest(sock[c][n])
  BY <1>1, <1>2, <1>5
<1>10. Resigned /\ Barred /\ NeverStranded
  BY <1>6 DEF Init, Resigned, Barred, NeverStranded
<1>11. SameToken
  BY <1>2, <1>5, <1>6 DEF SameToken
<1> QED BY <1>7, <1>8, <1>9, <1>10, <1>11 DEF IInv

LEMMA NextIInv == IInv /\ [Next]_vars => IInv'
<1> SUFFICES ASSUME IInv, [Next]_vars PROVE IInv'
  OBVIOUS
<1>1. CASE LoginSubmit \/ LoginFails \/ EndClick \/ EndReturns
  BY <1>1, FormStepKeeps
<1>2. CASE LoginSucceeds
  BY <1>2, LoginSucceedsKeeps
<1>3. CASE LogoutClick
  BY <1>3, LogoutClickKeeps
<1>4. CASE LogoutReturns
  BY <1>4, LogoutReturnsKeeps
<1>5. CASE StatusRetries
  BY <1>5, StatusRetriesKeeps
<1>6. ASSUME NEW t \in Tabs, OpenTab(t) \/ CloseTab(t) \/ TabRetries(t) PROVE IInv'
  BY <1>6, OpenTabKeeps, CloseTabKeeps, TabRetriesKeeps
<1>7. ASSUME NEW n \in Slot, StatusProjects(n) \/ StatusOnClose(n) \/ SendsProjects(n)
      PROVE  IInv'
  BY <1>7, StatusProjectsKeeps, StatusOnCloseKeeps, SendsProjectsKeeps
<1>8. ASSUME NEW t \in Tabs, NEW n \in Slot, TabExit(t, n) \/ TabOnClose(t, n) PROVE IInv'
  BY <1>8, TabExitKeeps, TabOnCloseKeeps
<1>9. ASSUME NEW c \in Chan, NEW n \in Slot, OnOpen(c, n) \/ StaleClose(c, n) PROVE IInv'
  BY <1>9, OnOpenKeeps, StaleCloseKeeps
<1>10. ASSUME NEW c \in Chan, NEW n \in Slot, Accept(c, n) \/ Says(c, n) \/ Breaks(c, n)
       PROVE  IInv'
  BY <1>10, AcceptKeeps, SaysKeeps, BreaksKeeps
<1>11. ASSUME NEW k \in Token, Expires(k) PROVE IInv'
  BY <1>11, ExpiresKeeps
<1>12. CASE UNCHANGED vars
  <2>1. TypeOK' /\ UNCHANGED <<page, form, tokens, sock, losses>>
    BY <1>12 DEF IInv, TypeOK, vars, page, form, tokens
  <2>2. NoOrphans' /\ InPlace' /\ Resigned' /\ Barred' /\ NeverStranded' /\ SameToken'
    BY <2>1 DEF IInv, NoOrphans, InUse, InPlace, Resigned, Barred, NeverStranded, SameToken,
                page, form, tokens
  <2>3. (\A d \in Chan, m \in Slot : Honest(sock[d][m]))'
    BY <2>1 DEF IInv, Honest, tokens
  <2> QED BY <2>1, <2>2, <2>3 DEF IInv
<1> QED
  BY <1>1, <1>2, <1>3, <1>4, <1>5, <1>6, <1>7, <1>8, <1>9, <1>10, <1>11, <1>12 DEF Next

\* The invariant holds in every state the page and its server can reach.
THEOREM PageInductive == Spec => []IInv
  BY InitIInv, NextIInv, PTL DEF Spec

\* Every connection that lives or will be made is the only one of an open tab or
\* of the channel in use.
THEOREM NoOrphansAlways == Spec => []NoOrphans
<1>1. IInv => NoOrphans
  BY DEF IInv
<1> QED BY <1>1, PageInductive, PTL

\* No tab returns by itself to a session that it was told is over for it.
THEOREM NoReturnAlways == Spec => []NoReturn
<1>1. IInv => NoReturn
  BY DEF IInv, Resigned, NoReturn
<1> QED BY <1>1, PageInductive, PTL

\* Between a logout and the next login the page has no connection.
THEOREM LoggedOutIsQuietAlways == Spec => []LoggedOutIsQuiet
<1>1. IInv => LoggedOutIsQuiet
  <2> SUFFICES ASSUME IInv, out PROVE LoggedOutIsQuiet
    BY DEF LoggedOutIsQuiet
  <2>1. ~enabled /\ open = {}
    BY DEF IInv, Barred
  <2>2. \A c \in Chan : ~InUse(c)
    BY <2>1 DEF InUse
  <2>3. timer = {}
    BY <2>2, Types DEF IInv, TypeOK, NoOrphans, Chan
  <2>4. ASSUME NEW c \in Chan, NEW n \in Slot PROVE sock[c][n].phase \in {"free", "closed"}
    <3>1. sock[c][n] \in Socket
      BY DEF IInv, TypeOK
    <3> QED BY <2>2, <3>1 DEF IInv, NoOrphans, Socket
  <2> QED BY <2>1, <2>3, <2>4 DEF LoggedOutIsQuiet
<1> QED BY <1>1, PageInductive, PTL

\* A page that is not locked gets its updates or will ask for them.
THEOREM NeverStrandedAlways == Spec => []NeverStranded
<1>1. IInv => NeverStranded
  BY DEF IInv
<1> QED BY <1>1, PageInductive, PTL

\* Whatever an older socket still had to say, the status channel does not lock a
\* page whose token is valid.
THEOREM StatusKeepsLoginAlways == Spec => StatusKeepsLogin
<1> DEFINE Kept == \A n \in Slot : StatusOnClose(n) /\ overlay' /\ ~overlay => cookie \notin valid
<1>1. ASSUME IInv, NEW n \in Slot, StatusOnClose(n), overlay', ~overlay
      PROVE  cookie \notin valid
  <2>1. Heard(Status, n, "unauthed")
    BY <1>1 DEF StatusOnClose
  <2>2. ws[Status] = n /\ n # 0 /\ sock[Status][n].mail # <<>>
        /\ Head(sock[Status][n].mail) = "unauthed"
    BY <2>1 DEF Heard, Slot
  <2>3. sock[Status][n].mail \in Seq(Event)
    BY <1>1, Types DEF IInv, TypeOK, Socket
  <2>4. Has(sock[Status][n].mail, "unauthed")
    BY <2>2, <2>3, HasHead
  <2>5. sock[Status][n].token \notin valid
    BY <1>1, <2>4, Types DEF IInv, Honest
  <2>6. CASE cookie = 0
    BY <1>1, <2>6 DEF IInv, TypeOK
  <2>7. CASE cookie # 0
    BY <1>1, <2>2, <2>5, <2>7 DEF IInv, SameToken
  <2> QED BY <2>6, <2>7
<1>2. IInv /\ [Next]_vars => [Kept]_vars
  BY <1>1
<1> QED BY <1>2, PageInductive, PTL DEF Spec, StatusKeepsLogin
=============================================================================
