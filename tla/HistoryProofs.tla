--------------------------- MODULE HistoryProofs ----------------------------
(***************************************************************************)
(* TLAPS proofs about History: no conversation is passed over that the     *)
(* lookup could know of, no lookup leaves a helper behind but the one that *)
(* is cancelled while it deals with a time-out, and none takes longer than *)
(* one scan, or the time-out and the end of its helper.                    *)
(***************************************************************************)
EXTENDS History, SequenceTheorems, TLAPS

\* The types the proofs need; that of the line for the lock comes with Lined.
Typed ==
    /\ age \in [Places -> Nat] /\ scanned \in Nat
    /\ live \in [Places -> {"none", "resumed", "anew"}]
    /\ pc \in [Asks -> {"idle", "queue", "scan", "ssh", "reap", "leave"}]
    /\ place \in [Asks -> Places \cup {None}] /\ found \in [Asks -> SUBSET Places]
    /\ clock \in [Asks -> Nat]
    /\ helper \in [Asks -> {"none", "runs", "0", "1", "255"}]
    /\ reaper \in [Asks -> {"none", "term", "kill"}]

\* What an ask in each state has at hand.
Asked(r) ==
    /\ pc[r] \in {"queue", "scan"} =>
         place[r] \in Codex /\ helper[r] # "runs" /\ reaper[r] = "none"
    /\ pc[r] = "queue" => clock[r] = 0
    /\ pc[r] = "scan" => clock[r] <= ScanMax
    /\ pc[r] = "ssh" => /\ place[r] \in Remote /\ helper[r] # "none"
                        /\ helper[r] = "1" => place[r] \notin found[r]
    /\ pc[r] = "leave" => reaper[r] # "none"

\* A scan misses only what is younger than the scan.
Missed == \A r \in Asks, p \in Codex :
    pc[r] = "scan" /\ p \in records /\ p \notin found[r] => age[p] <= clock[r]

\* The cache lacks only what is younger than the cache and the scan it is from.
Lacking == \A p \in Codex :
    Fresh /\ p \in records /\ p \notin cached => age[p] <= ScanMax + scanned

\* What is not yet recorded has no age.
Ages == \A p \in Places : p \notin records => age[p] = 0

HInv == Typed /\ Ages /\ Missed /\ Lacking /\ \A r \in Asks : Asked(r)

LEMMA InitHInv == Init => HInv
  BY TimeAssumption
  DEF Init, HInv, Typed, Asked, Missed, Lacking, Ages, Fresh, Places, Asks

\* The end of an ask keeps the invariant, when its helper and the records stay.
LEMMA OverKeeps ==
    ASSUME HInv, NEW r \in Asks, Over(r)
    PROVE  /\ pc' \in [Asks -> {"idle", "queue", "scan", "ssh", "reap", "leave"}]
           /\ place' \in [Asks -> Places \cup {None}] /\ found' \in [Asks -> SUBSET Places]
           /\ clock' \in [Asks -> Nat]
           /\ pc'[r] = "idle"
           /\ \A q \in Asks \ {r} : /\ pc'[q] = pc[q] /\ place'[q] = place[q]
                                    /\ found'[q] = found[q] /\ clock'[q] = clock[q]
  BY DEF HInv, Typed, Over

LEMMA AnswerLive ==
    ASSUME Typed, NEW r \in Asks, NEW p \in Places, NEW yes, Answer(r, p, yes)
    PROVE  /\ live' \in [Places -> {"none", "resumed", "anew"}]
           /\ Over(r) /\ UNCHANGED <<records, age>>
           /\ \A o \in Places : live[o] = "none" /\ live'[o] = "anew" =>
                o = p /\ ~yes /\ r # Hub
  BY DEF Answer, Typed

\* The end of an ask keeps the invariant, whatever becomes of its own helper.
LEMMA EndKeeps ==
    ASSUME HInv, NEW r \in Asks, Over(r), UNCHANGED <<records, age>>,
           live' \in [Places -> {"none", "resumed", "anew"}],
           scanned' \in Nat, Lacking',
           helper' \in [Asks -> {"none", "runs", "0", "1", "255"}],
           reaper' \in [Asks -> {"none", "term", "kill"}],
           \A q \in Asks \ {r} : helper'[q] = helper[q] /\ reaper'[q] = reaper[q]
    PROVE  HInv'
<1>1. /\ pc' \in [Asks -> {"idle", "queue", "scan", "ssh", "reap", "leave"}]
      /\ place' \in [Asks -> Places \cup {None}] /\ found' \in [Asks -> SUBSET Places]
      /\ clock' \in [Asks -> Nat]
      /\ pc'[r] = "idle"
      /\ \A q \in Asks \ {r} : /\ pc'[q] = pc[q] /\ place'[q] = place[q]
                               /\ found'[q] = found[q] /\ clock'[q] = clock[q]
  BY OverKeeps
<1>2. Typed' /\ Ages'
  BY <1>1 DEF HInv, Typed, Ages
<1>3. Missed'
  BY <1>1 DEF HInv, Missed
<1>4. ASSUME NEW q \in Asks PROVE Asked(q)'
  <2>1. CASE q = r
    BY <1>1, <2>1 DEF Asked
  <2>2. CASE q # r
    BY <1>1, <2>2 DEF HInv, Asked
  <2> QED BY <2>1, <2>2
<1> QED BY <1>2, <1>3, <1>4 DEF HInv

LEMMA AnswerTyped ==
    ASSUME Typed, NEW r \in Asks, NEW p \in Places, NEW yes, Answer(r, p, yes)
    PROVE  /\ live' \in [Places -> {"none", "resumed", "anew"}]
           /\ Over(r) /\ UNCHANGED <<records, age>>
  BY DEF Answer, Typed

-----------------------------------------------------------------------------
(* The steps *)

LEMMA WorldStep ==
    ASSUME HInv, NEW p \in Places, Records(p) \/ Ends(p)
    PROVE  HInv'
<1> USE DEF HInv
<1>1. /\ UNCHANGED <<age, cache, asks, ssh>>
      /\ live' \in [Places -> {"none", "resumed", "anew"}]
      /\ \A q \in Places : q \in records' /\ q \notin records => age[q] = 0
      /\ \A q \in Places : q \in records => q \in records'
  BY DEF Records, Ends, Ages, Typed
<1>2. Typed' /\ Ages'
  BY <1>1 DEF cache, asks, ssh, Typed, Ages
<1>3. Missed'
  BY <1>1 DEF asks, Missed, Typed, Places
<1>4. Lacking'
  BY <1>1, TimeAssumption DEF cache, Lacking, Fresh, Typed, Places
<1>5. \A r \in Asks : Asked(r)'
  BY <1>1 DEF asks, ssh, Asked
<1> QED BY <1>2, <1>3, <1>4, <1>5

LEMMA AskClaudeStep ==
    ASSUME HInv, NEW r \in Asks, NEW p \in Places, AskClaude(r, p)
    PROVE  HInv'
<1>1. Answer(r, p, p \in records) /\ UNCHANGED <<cache, ssh, spoilt>>
  BY DEF AskClaude
<1>2. live' \in [Places -> {"none", "resumed", "anew"}] /\ Over(r)
      /\ UNCHANGED <<records, age>>
  BY <1>1, AnswerTyped DEF HInv
<1>3. Lacking' /\ UNCHANGED <<scanned, helper, reaper>>
  BY <1>1, <1>2 DEF cache, ssh, HInv, Lacking, Fresh
<1> QED BY <1>2, <1>3, EndKeeps DEF HInv, Typed

LEMMA AskCodexStep ==
    ASSUME HInv, NEW r \in Asks, NEW p \in Places, AskCodex(r, p)
    PROVE  HInv'
<1> USE DEF HInv
<1>1. /\ p \in Codex /\ helper[r] # "runs" /\ reaper[r] = "none"
      /\ pc' = [pc EXCEPT ![r] = "queue"] /\ place' = [place EXCEPT ![r] = p]
      /\ clock' = [clock EXCEPT ![r] = 0]
      /\ UNCHANGED <<records, age, live, cached, scanned, found, helper, reaper>>
  BY DEF AskCodex, Asking, MayAsk, world, ssh
<1>2. Typed' /\ Ages' /\ Lacking'
  BY <1>1 DEF Typed, Ages, Lacking, Fresh
<1>3. Missed'
  BY <1>1 DEF Missed, Typed
<1>4. \A q \in Asks : Asked(q)'
  BY <1>1 DEF Asked, Typed
<1> QED BY <1>2, <1>3, <1>4

LEMMA AskRemoteStep ==
    ASSUME HInv, NEW r \in Asks, NEW p \in Places, AskRemote(r, p)
    PROVE  HInv'
<1> USE DEF HInv
<1>1. /\ p \in Remote
      /\ pc' = [pc EXCEPT ![r] = "ssh"] /\ place' = [place EXCEPT ![r] = p]
      /\ clock' = [clock EXCEPT ![r] = 0]
      /\ found' = [found EXCEPT ![r] = records \cap {p}]
      /\ helper' = [helper EXCEPT ![r] = "runs"]
      /\ UNCHANGED <<records, age, live, cached, scanned, reaper>>
  BY DEF AskRemote, Asking, world, cache
<1>2. Typed' /\ Ages' /\ Lacking'
  BY <1>1 DEF Typed, Ages, Lacking, Fresh
<1>3. Missed'
  BY <1>1 DEF Missed, Typed
<1>4. \A q \in Asks : Asked(q)'
  BY <1>1 DEF Asked, Typed
<1> QED BY <1>2, <1>3, <1>4

\* A scan that begins finds all there is.
LEMMA LooksStep ==
    ASSUME HInv, NEW r \in Asks, Looks(r)
    PROVE  HInv'
<1>1. pc[r] = "queue" /\ place[r] \in Places /\ UNCHANGED <<helper, reaper>>
  BY DEF Looks, ssh, HInv, Asked, Places
<1>2. CASE Answer(r, place[r], place[r] \in cached) /\ UNCHANGED <<cached, scanned>>
  <2>1. live' \in [Places -> {"none", "resumed", "anew"}] /\ Over(r)
        /\ UNCHANGED <<records, age>>
    BY <1>1, <1>2, AnswerTyped DEF HInv
  <2>2. Lacking'
    BY <1>2, <2>1 DEF HInv, Lacking, Fresh
  <2> QED BY <1>1, <1>2, <2>1, <2>2, EndKeeps DEF HInv, Typed
<1>3. CASE /\ pc' = [pc EXCEPT ![r] = "scan"]
           /\ found' = [found EXCEPT ![r] = records \cap Codex]
           /\ UNCHANGED <<world, cache, place, clock, spent>>
  <2> USE DEF HInv
  <2>1. Typed' /\ Ages' /\ Lacking'
    BY <1>1, <1>3 DEF world, cache, Typed, Ages, Lacking, Fresh, Places
  <2>2. Missed'
    BY <1>3 DEF world, Missed, Typed
  <2>3. \A q \in Asks : Asked(q)'
    BY <1>1, <1>3, TimeAssumption DEF Asked, Typed
  <2> QED BY <2>1, <2>2, <2>3
<1> QED BY <1>2, <1>3 DEF Looks

LEMMA ScanEndsStep ==
    ASSUME HInv, NEW r \in Asks, ScanEnds(r)
    PROVE  HInv'
<1>1. /\ pc[r] = "scan" /\ place[r] \in Places /\ UNCHANGED <<helper, reaper>>
      /\ scanned' = 0 /\ found[r] \subseteq cached'
      /\ Answer(r, place[r], place[r] \in cached')
  BY DEF ScanEnds, ssh, HInv, Asked, Places
<1>2. live' \in [Places -> {"none", "resumed", "anew"}] /\ Over(r)
      /\ UNCHANGED <<records, age>>
  BY <1>1, AnswerTyped DEF HInv
<1>3. ASSUME NEW p \in Codex, p \in records', p \notin cached'
      PROVE  age'[p] <= ScanMax + scanned'
  <2>1. age[p] <= clock[r] /\ clock[r] <= ScanMax
    BY <1>1, <1>2, <1>3 DEF HInv, Missed, Asked
  <2> QED BY <1>1, <1>2, <2>1, TimeAssumption DEF HInv, Typed, Places
<1>4. Lacking'
  BY <1>3 DEF Lacking
<1> QED BY <1>1, <1>2, <1>4, EndKeeps DEF HInv, Typed

\* The ends without an answer.
LEMMA NoAnswerStep ==
    ASSUME HInv, NEW r \in Asks,
           \/ ScanFails(r) \/ CancelCodex(r) \/ ReaperDone(r) \/ CancelAgain(r)
    PROVE  HInv'
<1>1. Over(r) /\ UNCHANGED <<records, age, live, cached, scanned>>
  BY DEF ScanFails, CancelCodex, ReaperDone, CancelAgain, NoAnswer, world, cache
<1>2. /\ helper' \in [Asks -> {"none", "runs", "0", "1", "255"}]
      /\ reaper' \in [Asks -> {"none", "term", "kill"}]
      /\ \A q \in Asks \ {r} : helper'[q] = helper[q] /\ reaper'[q] = reaper[q]
  BY DEF ScanFails, CancelCodex, ReaperDone, CancelAgain, ssh, HInv, Typed
<1>3. Lacking'
  BY <1>1 DEF HInv, Lacking, Fresh
<1> QED BY <1>1, <1>2, <1>3, EndKeeps DEF HInv, Typed

LEMMA HelperExitsStep ==
    ASSUME HInv, NEW r \in Asks, NEW code \in {"0", "1", "255"}, HelperExits(r, code)
    PROVE  HInv'
<1> USE DEF HInv
<1>1. /\ code = "1" => place[r] \notin found[r]
      /\ helper' = [helper EXCEPT ![r] = IF pc[r] = "idle" THEN "none" ELSE code]
      /\ UNCHANGED <<records, age, live, cached, scanned, pc, place, found, clock, reaper>>
  BY DEF HelperExits, world, cache, asks
<1>2. Typed' /\ Ages' /\ Lacking' /\ Missed'
  BY <1>1 DEF Typed, Ages, Lacking, Fresh, Missed
<1>3. \A q \in Asks : Asked(q)'
  BY <1>1 DEF Asked, Typed
<1> QED BY <1>2, <1>3

LEMMA HelperAnswersStep ==
    ASSUME HInv, NEW r \in Asks, HelperAnswers(r)
    PROVE  HInv'
<1>1. /\ pc[r] = "ssh" /\ place[r] \in Places
      /\ helper' = [helper EXCEPT ![r] = "none"] /\ UNCHANGED <<cached, scanned, reaper>>
      /\ NoAnswer(r) \/ Answer(r, place[r], helper[r] = "0")
  BY DEF HelperAnswers, cache, HInv, Asked, Places
<1>2. live' \in [Places -> {"none", "resumed", "anew"}] /\ Over(r)
      /\ UNCHANGED <<records, age>>
  BY <1>1, AnswerTyped DEF HInv, NoAnswer, world, Typed
<1>3. Lacking'
  BY <1>1, <1>2 DEF HInv, Lacking, Fresh
<1> QED BY <1>1, <1>2, <1>3, EndKeeps DEF HInv, Typed

LEMMA ReapStep ==
    ASSUME HInv, NEW r \in Asks, TimesOut(r) \/ CancelSsh(r) \/ ReaperKills(r)
    PROVE  HInv'
<1> USE DEF HInv
<1>1. UNCHANGED <<records, age, live, cached, scanned, place, found, helper>>
  BY DEF TimesOut, CancelSsh, ReaperKills, Reap, world, cache, asks
<1>2. CASE \E how \in {"reap", "leave"} : Reap(r, how)
  <2>1. PICK how \in {"reap", "leave"} :
          /\ pc[r] = "ssh" /\ pc' = [pc EXCEPT ![r] = how]
          /\ reaper' = [reaper EXCEPT ![r] = "term"] /\ clock' = [clock EXCEPT ![r] = 0]
    BY <1>2 DEF Reap
  <2>2. Typed' /\ Ages' /\ Lacking'
    BY <1>1, <2>1 DEF Typed, Ages, Lacking, Fresh
  <2>3. Missed'
    BY <1>1, <2>1 DEF Missed, Typed
  <2>4. \A q \in Asks : Asked(q)'
    BY <1>1, <2>1 DEF Asked, Typed
  <2> QED BY <2>2, <2>3, <2>4
<1>3. CASE ReaperKills(r)
  <2>1. /\ reaper[r] = "term" /\ reaper' = [reaper EXCEPT ![r] = "kill"]
        /\ UNCHANGED <<pc, clock>>
    BY <1>3 DEF ReaperKills, asks
  <2>2. Typed' /\ Ages' /\ Lacking' /\ Missed'
    BY <1>1, <2>1 DEF Typed, Ages, Lacking, Fresh, Missed
  <2>3. \A q \in Asks : Asked(q)'
    BY <1>1, <2>1 DEF Asked, Typed
  <2> QED BY <2>2, <2>3
<1> QED BY <1>2, <1>3 DEF TimesOut, CancelSsh

\* A record ages with the scan that has missed it and with the cache that lacks it.
LEMMA TickStep == ASSUME HInv, Tick PROVE HInv'
<1> USE DEF HInv
<1>1. UNCHANGED <<records, live, cached, pc, place, found, helper, reaper>>
  BY DEF Tick, ssh
<1>2. /\ age' \in [Places -> Nat]
      /\ \A p \in Places : age'[p] <= age[p] + 1
      /\ \A p \in Places : p \notin records => age'[p] = age[p]
  BY DEF Tick, Older, Typed
<1>3. /\ scanned' \in Nat
      /\ scanned' < TTL => Fresh /\ scanned' = scanned + 1
  BY DEF Tick, Typed, Fresh
<1>4. /\ clock' \in [Asks -> Nat]
      /\ \A r \in Asks : pc[r] = "scan" => clock'[r] = clock[r] + 1 /\ clock[r] # ScanMax
      /\ \A r \in Asks : pc[r] = "queue" /\ reaper[r] = "none" => clock'[r] = clock[r]
  BY DEF Tick, Typed, Ready
<1> HIDE DEF HInv
<1>5. Typed'
  BY <1>1, <1>2, <1>3, <1>4 DEF HInv, Typed
<1>6. Ages'
  BY <1>1, <1>2 DEF HInv, Ages
<1>7. ASSUME NEW r \in Asks, NEW p \in Codex, pc[r] = "scan", p \in records, p \notin found[r]
      PROVE  age'[p] <= clock'[r]
  <2>1. clock'[r] = clock[r] + 1 /\ age[p] <= clock[r]
    BY <1>4, <1>7 DEF HInv, Missed
  <2>2. p \in Places /\ age[p] \in Nat /\ age'[p] \in Nat /\ clock[r] \in Nat
    BY <1>2 DEF HInv, Typed, Places
  <2>3. age'[p] <= age[p] + 1
    BY <1>2, <2>2
  <2> QED BY <2>1, <2>2, <2>3
<1>8. Missed'
  BY <1>1, <1>7 DEF Missed
<1>9. ASSUME NEW p \in Codex, Fresh', p \in records, p \notin cached
      PROVE  age'[p] <= ScanMax + scanned'
  <2>1. Fresh /\ scanned' = scanned + 1
    BY <1>3, <1>9 DEF Fresh
  <2>2. age[p] <= ScanMax + scanned
    BY <1>9, <2>1 DEF HInv, Lacking
  <2>3. p \in Places /\ age[p] \in Nat /\ age'[p] \in Nat /\ scanned \in Nat
    BY <1>2 DEF HInv, Typed, Places
  <2>4. age'[p] <= age[p] + 1
    BY <1>2, <2>3
  <2> QED BY <2>1, <2>2, <2>3, <2>4, TimeAssumption
<1>10. Lacking'
  BY <1>1, <1>9 DEF Lacking
<1>11. \A r \in Asks : Asked(r)'
  BY <1>1, <1>4, TimeAssumption DEF HInv, Asked, Typed
<1> QED BY <1>5, <1>6, <1>8, <1>10, <1>11 DEF HInv

LEMMA NextHInv == HInv /\ [Next]_vars => HInv'
<1> SUFFICES ASSUME HInv, [Next]_vars PROVE HInv'
  OBVIOUS
<1>1. CASE UNCHANGED vars
  BY <1>1 DEF vars, world, cache, asks, ssh, HInv, Typed, Asked, Missed, Lacking, Ages, Fresh
<1>2. CASE Next
  <2>1. CASE Tick
    BY <2>1, TickStep
  <2>2. ASSUME NEW p \in Places,
               \/ Records(p) \/ Ends(p)
               \/ \E r \in Asks : AskClaude(r, p) \/ AskCodex(r, p) \/ AskRemote(r, p)
        PROVE  HInv'
    BY <2>2, WorldStep, AskClaudeStep, AskCodexStep, AskRemoteStep
  <2>3. ASSUME NEW r \in Asks,
               \/ Looks(r) \/ ScanEnds(r) \/ ScanFails(r) \/ CancelCodex(r)
               \/ \E code \in {"0", "1", "255"} : HelperExits(r, code)
               \/ HelperAnswers(r) \/ TimesOut(r) \/ CancelSsh(r)
               \/ ReaperKills(r) \/ ReaperDone(r) \/ CancelAgain(r)
        PROVE  HInv'
    BY <2>3, LooksStep, ScanEndsStep, NoAnswerStep, HelperExitsStep, HelperAnswersStep,
       ReapStep
  <2> QED BY <1>2, <2>1, <2>2, <2>3 DEF Next
<1> QED BY <1>1, <1>2

\* The strengthening is an invariant of the lookup.
THEOREM Inductive == Spec => []HInv
  BY InitHInv, NextHInv, PTL DEF Spec

-----------------------------------------------------------------------------
(* What is passed over *)

Passed(p) == live[p] = "none" /\ live'[p] = "anew"

\* A conversation that the lookup of r could not know of.
Unknown(p) ==
    \/ p \notin records
    \/ p \in Codex /\ age[p] < TTL + ScanMax
    \/ p \in Remote /\ \E r \in Routes : place[r] = p /\ p \notin found[r]

\* Only a route that has its answer, and the answer no, starts a session anew.
LEMMA AnswerPasses ==
    ASSUME Typed, NEW r \in Asks, NEW o \in Places, NEW yes, Answer(r, o, yes),
           NEW p \in Places, Passed(p)
    PROVE  p = o /\ ~yes /\ r \in Routes
<1>1. r # Hub
  BY DEF Answer, Passed
<1>2. live' = [live EXCEPT ![o] = IF yes THEN "resumed" ELSE "anew"]
  BY <1>1 DEF Answer
<1>3. p = o
  BY <1>2 DEF Typed, Passed
<1>4. ~yes
  BY <1>2, <1>3 DEF Typed, Passed
<1> QED BY <1>1, <1>3, <1>4 DEF Asks

LEMMA LooksPasses ==
    ASSUME HInv, NEW r \in Asks, Looks(r) \/ ScanEnds(r), NEW p \in Places, Passed(p)
    PROVE  Unknown(p)
<1>1. place[r] \in Codex /\ place[r] \in Places
  BY DEF Looks, ScanEnds, HInv, Asked, Places
<1>2. CASE Looks(r)
  <2>1. Fresh /\ Answer(r, place[r], place[r] \in cached)
    BY <1>2 DEF Looks, world, Passed
  <2>2. p = place[r] /\ p \notin cached
    BY <1>1, <2>1, AnswerPasses DEF HInv
  <2>3. CASE p \in records
    <3>1. age[p] <= ScanMax + scanned /\ scanned < TTL
      BY <1>1, <2>1, <2>2, <2>3 DEF HInv, Lacking, Fresh
    <3> QED BY <1>1, <2>2, <3>1, TimeAssumption DEF Unknown, HInv, Typed
  <2> QED BY <2>3 DEF Unknown
<1>3. CASE ScanEnds(r)
  <2>1. pc[r] = "scan" /\ found[r] \subseteq cached'
        /\ Answer(r, place[r], place[r] \in cached')
    BY <1>3 DEF ScanEnds
  <2>2. p = place[r] /\ p \notin found[r]
    <3>1. PICK yes : yes = (place[r] \in cached')
      OBVIOUS
    <3>2. p = place[r] /\ ~yes
      BY <1>1, <2>1, <3>1, AnswerPasses DEF HInv
    <3> QED BY <2>1, <3>1, <3>2
  <2>3. CASE p \in records
    <3>1. age[p] <= clock[r] /\ clock[r] <= ScanMax
      BY <1>1, <2>1, <2>2, <2>3 DEF HInv, Missed, Asked
    <3> QED BY <1>1, <2>2, <3>1, TimeAssumption DEF Unknown, HInv, Typed
  <2> QED BY <2>3 DEF Unknown
<1> QED BY <1>2, <1>3

LEMMA HelperPasses ==
    ASSUME HInv, NEW r \in Asks, HelperAnswers(r), NEW p \in Places, Passed(p)
    PROVE  Unknown(p)
<1>1. pc[r] = "ssh" /\ place[r] \in Remote /\ place[r] \in Places
  BY DEF HelperAnswers, HInv, Asked, Places
<1>2. helper[r] \notin {"none", "runs", "255"} /\ Answer(r, place[r], helper[r] = "0")
  BY <1>1 DEF HelperAnswers, NoAnswer, world, Passed, HInv, Asked
<1>3. p = place[r] /\ helper[r] # "0" /\ r \in Routes
  BY <1>1, <1>2, AnswerPasses DEF HInv
<1>4. helper[r] = "1"
  BY <1>2, <1>3 DEF HInv, Typed
<1> QED BY <1>1, <1>3, <1>4 DEF HInv, Asked, Unknown

LEMMA NextPasses ==
    ASSUME HInv, [Next]_vars, NEW p \in Places, Passed(p)
    PROVE  Unknown(p)
<1>1. live' # live
  BY DEF Passed
<1>2. CASE \E r \in Asks, o \in Places : AskClaude(r, o)
  <2>1. PICK r \in Asks, o \in Places : Answer(r, o, o \in records)
    BY <1>2 DEF AskClaude
  <2>2. p = o /\ o \notin records
    BY <2>1, AnswerPasses DEF HInv
  <2> QED BY <2>2 DEF Unknown
<1>3. CASE \E r \in Asks : Looks(r) \/ ScanEnds(r)
  BY <1>3, LooksPasses
<1>4. CASE \E r \in Asks : HelperAnswers(r)
  BY <1>4, HelperPasses
<1>5. CASE \E o \in Places : Records(o) \/ Ends(o)
  BY <1>5 DEF Records, Ends, Passed, HInv, Typed
<1>6. CASE \E r \in Asks, o \in Places : AskCodex(r, o) \/ AskRemote(r, o)
  BY <1>1, <1>6 DEF AskCodex, AskRemote, world
<1>7. ASSUME NEW r \in Asks,
             \/ ScanFails(r) \/ CancelCodex(r)
             \/ \E code \in {"0", "1", "255"} : HelperExits(r, code)
             \/ TimesOut(r) \/ CancelSsh(r)
             \/ ReaperKills(r) \/ ReaperDone(r) \/ CancelAgain(r)
      PROVE  FALSE
  BY <1>1, <1>7 DEF ScanFails, CancelCodex, HelperExits, TimesOut, CancelSsh, Reap,
     ReaperKills, ReaperDone, CancelAgain, NoAnswer, world
<1>8. CASE Tick \/ UNCHANGED vars
  BY <1>1, <1>8 DEF Tick, vars, world
<1> QED BY <1>2, <1>3, <1>4, <1>5, <1>6, <1>7, <1>8 DEF Next

\* A session starts anew only where there was no record, or none that the lookup
\* could know of: for any TTL, any duration of a scan and any number of routes.
THEOREM NothingPassedOverAlways == Spec => NothingPassedOver
<1>1. HInv /\ [Next]_vars =>
        [\A p \in Places : live[p] = "none" /\ live'[p] = "anew" =>
            \/ p \notin records
            \/ p \in Codex /\ age[p] < TTL + ScanMax
            \/ p \in Remote /\ \E r \in Routes : place[r] = p /\ p \notin found[r]]_vars
  BY NextPasses DEF Passed, Unknown
<1> QED BY <1>1, Inductive, PTL DEF Spec, NothingPassedOver

-----------------------------------------------------------------------------
(* What is left behind *)

LEMMA OverOthers ==
    ASSUME Typed, NEW r \in Asks, Over(r)
    PROVE  \A q \in Asks \ {r} : pc'[q] = pc[q]
  BY DEF Typed, Over

LEMMA NextLeaves ==
    ASSUME HInv, [Next]_vars, NEW q \in Asks, Left(q)'
    PROVE  Left(q) \/ pc[q] = "reap"
<1> USE DEF Left
<1>0. helper'[q] = "runs" /\ pc'[q] = "idle" /\ reaper'[q] = "none"
  OBVIOUS
<1> HIDE DEF Left
<1>1. CASE UNCHANGED <<pc, ssh>>
  BY <1>0, <1>1 DEF ssh, Left
<1>2. ASSUME NEW r \in Asks, NEW p \in Places,
             AskClaude(r, p) \/ AskCodex(r, p) \/ AskRemote(r, p)
      PROVE  Left(q)
  <2>1. MayAsk(r, p) /\ \A o \in Asks \ {r} : pc'[o] = pc[o] /\ helper'[o] = helper[o]
    BY <1>2, OverOthers
    DEF AskClaude, AskCodex, AskRemote, Asking, Answer, ssh, HInv, Typed
  <2>2. reaper' = reaper
    BY <1>2 DEF AskClaude, AskCodex, AskRemote, ssh
  <2>3. CASE q = r
    BY <1>0, <1>2, <2>1, <2>3
    DEF AskClaude, AskCodex, AskRemote, Asking, MayAsk, ssh, HInv, Typed
  <2> QED BY <1>0, <2>1, <2>2, <2>3 DEF Left
<1>3. ASSUME NEW r \in Asks, Looks(r) \/ ScanEnds(r) \/ ScanFails(r) \/ CancelCodex(r)
      PROVE  Left(q)
  <2>1. helper[r] # "runs" /\ UNCHANGED ssh
    BY <1>3 DEF Looks, ScanEnds, ScanFails, CancelCodex, HInv, Asked
  <2>2. \A o \in Asks \ {r} : pc'[o] = pc[o]
    BY <1>3, OverOthers
    DEF Looks, ScanEnds, ScanFails, CancelCodex, Answer, NoAnswer, HInv, Typed
  <2> QED BY <1>0, <2>1, <2>2 DEF ssh, Left
<1>4. ASSUME NEW r \in Asks,
             \/ \E code \in {"0", "1", "255"} : HelperExits(r, code)
             \/ TimesOut(r) \/ CancelSsh(r) \/ ReaperKills(r)
      PROVE  Left(q)
  BY <1>0, <1>4 DEF HelperExits, TimesOut, CancelSsh, Reap, ReaperKills, asks, HInv, Typed, Left
<1>5. ASSUME NEW r \in Asks, HelperAnswers(r) \/ ReaperDone(r)
      PROVE  Left(q)
  <2>1. /\ helper' = [helper EXCEPT ![r] = "none"]
        /\ \A o \in Asks \ {r} : pc'[o] = pc[o] /\ reaper'[o] = reaper[o]
    BY <1>5, OverOthers
    DEF HelperAnswers, ReaperDone, Answer, NoAnswer, HInv, Typed
  <2> QED BY <1>0, <2>1 DEF HInv, Typed, Left
<1>6. ASSUME NEW r \in Asks, CancelAgain(r)
      PROVE  Left(q) \/ pc[q] = "reap"
  <2>1. /\ helper' = helper /\ pc[r] \in {"reap", "leave"}
        /\ \A o \in Asks \ {r} : pc'[o] = pc[o] /\ reaper'[o] = reaper[o]
        /\ pc[r] = "leave" => reaper'[r] = reaper[r] /\ reaper[r] # "none"
    BY <1>6, OverOthers DEF CancelAgain, NoAnswer, HInv, Asked, Typed
  <2> QED BY <1>0, <2>1 DEF Left
<1>7. CASE Tick \/ UNCHANGED vars \/ \E p \in Places : Records(p) \/ Ends(p)
  BY <1>1, <1>7 DEF Tick, Records, Ends, vars, asks
<1> QED BY <1>2, <1>3, <1>4, <1>5, <1>6, <1>7 DEF Next

\* Every helper of a lookup ends with the lookup or is reaped, unless the lookup is
\* cancelled while it reaps after a time-out (session.py:158).
THEOREM NoHelperLeftAlways == Spec => NoHelperLeft
<1>1. HInv /\ [Next]_vars => [\A r \in Routes : Left(r)' => Left(r) \/ pc[r] = "reap"]_vars
  BY NextLeaves DEF Asks
<1> QED BY <1>1, Inductive, PTL DEF Spec, NoHelperLeft

-----------------------------------------------------------------------------
(* How long a lookup takes *)

Waits(r) == pc[r] \in {"queue", "scan"}

\* The lock has those that wait for it, each once, and only its holder scans.
Lined ==
    /\ queue \in Seq(Asks)
    /\ \A i, j \in 1..Len(queue) : queue[i] = queue[j] => i = j
    /\ \A r \in Asks : Waits(r) <=> \E i \in 1..Len(queue) : queue[i] = r
    /\ \A i \in 2..Len(queue) : pc[queue[i]] = "queue"

\* Who asks for a project on this host has waited for the present scan only, or
\* for the one that has just filled the cache; as long as no scan is lost.
Punctual ==
    ~spoilt =>
        /\ \A r \in Asks : Waits(r) => spent[r] <= ScanMax
        /\ \A r, q \in Asks : pc[r] = "scan" /\ Waits(q) => spent[q] <= clock[r]
        /\ \/ Fresh
           \/ \E r \in Asks : pc[r] = "scan"
           \/ \A r \in Asks : Waits(r) => spent[r] = 0

\* Who asks another host waits for the helper, and then for its end.
Limited(r) ==
    /\ pc[r] = "idle" => spent[r] = 0
    /\ pc[r] = "ssh" => /\ reaper[r] = "none"
                        /\ clock[r] <= Timeout /\ spent[r] = clock[r]
    /\ pc[r] \in {"reap", "leave"} =>
         /\ reaper[r] # "none"
         /\ reaper[r] = "term" => clock[r] <= TermWait /\ spent[r] <= Timeout + clock[r]
         /\ reaper[r] = "kill" => spent[r] <= Timeout + TermWait

LInv ==
    /\ HInv /\ spent \in [Asks -> Nat] /\ spoilt \in BOOLEAN
    /\ Lined /\ Punctual /\ \A r \in Asks : Limited(r)

-----------------------------------------------------------------------------
(* Those who wait for the scan *)

\* Sequence t is q without its element i.
Without(t, q, i) ==
    /\ t \in Seq(Asks) /\ Len(t) = Len(q) - 1
    /\ \A k \in 1..Len(t) : t[k] = IF k < i THEN q[k] ELSE q[k + 1]

LEMMA TailWithout ==
    ASSUME NEW q \in Seq(Asks), q # <<>>
    PROVE  Without(Tail(q), q, 1)
  BY DEF Without

LEMMA CutWithout ==
    ASSUME NEW q \in Seq(Asks), NEW i \in 1..Len(q)
    PROVE  Without(SubSeq(q, 1, i - 1) \o SubSeq(q, i + 1, Len(q)), q, i)
<1> DEFINE a == SubSeq(q, 1, i - 1)
           b == SubSeq(q, i + 1, Len(q))
<1>1. /\ a \in Seq(Asks) /\ Len(a) = i - 1
      /\ \A k \in 1..i-1 : a[k] = q[k]
  OBVIOUS
<1>2. /\ b \in Seq(Asks) /\ Len(b) = Len(q) - i
      /\ \A k \in 1..Len(q)-i : b[k] = q[i + k]
  OBVIOUS
<1> HIDE DEF a, b
<1>3. /\ a \o b \in Seq(Asks) /\ Len(a \o b) = Len(a) + Len(b)
      /\ \A k \in 1..Len(a)+Len(b) :
           (a \o b)[k] = IF k <= Len(a) THEN a[k] ELSE b[k - Len(a)]
  BY <1>1, <1>2, ConcatProperties
<1>4. ASSUME NEW k \in 1..Len(q)-1
      PROVE  (a \o b)[k] = IF k < i THEN q[k] ELSE q[k + 1]
  <2>1. CASE k < i
    <3>1. k \in 1..i-1 /\ k \in 1..Len(a)+Len(b) /\ k <= Len(a)
      BY <1>1, <1>2, <2>1
    <3>2. (a \o b)[k] = a[k] /\ a[k] = q[k]
      BY <1>1, <1>3, <3>1
    <3> QED BY <2>1, <3>2
  <2>2. CASE ~(k < i)
    <3>1. k - Len(a) \in 1..Len(q)-i /\ i + (k - Len(a)) = k + 1
      BY <1>1, <2>2
    <3>2. (a \o b)[k] = b[k - Len(a)]
      BY <1>1, <1>2, <1>3, <2>2
    <3> QED BY <1>2, <2>2, <3>1, <3>2
  <2> QED BY <2>1, <2>2
<1>5. Len(a \o b) = Len(q) - 1
  BY <1>1, <1>2, <1>3
<1> QED BY <1>3, <1>4, <1>5 DEF Without, a, b

LEMMA LeavesLine ==
    ASSUME Lined, NEW i \in 1..Len(queue), Without(queue', queue, i),
           pc'[queue[i]] = "idle", \A q \in Asks \ {queue[i]} : pc'[q] = pc[q]
    PROVE  Lined'
<1>1. queue' \in Seq(Asks) /\ Len(queue') = Len(queue) - 1 /\ queue[i] \in Asks
  BY DEF Without, Lined
<1>2. ASSUME NEW k \in 1..Len(queue')
      PROVE  \E m \in 1..Len(queue) \ {i} : queue'[k] = queue[m] /\ k <= m
  <2>1. CASE k < i
    BY <1>1, <2>1 DEF Without
  <2>2. CASE k >= i
    BY <1>1, <2>2 DEF Without
  <2> QED BY <1>1, <2>1, <2>2
<1>3. ASSUME NEW m \in 1..Len(queue) \ {i}
      PROVE  \E k \in 1..Len(queue') : queue'[k] = queue[m]
  <2>1. CASE m < i
    <3>1. m \in 1..Len(queue') /\ queue'[m] = queue[m]
      BY <1>1, <2>1 DEF Without
    <3> QED BY <3>1
  <2>2. CASE m > i
    <3>1. m - 1 \in 1..Len(queue') /\ queue'[m - 1] = queue[m]
      BY <1>1, <2>2 DEF Without
    <3> QED BY <3>1
  <2> QED BY <2>1, <2>2
<1>4. ASSUME NEW j \in 1..Len(queue'), NEW k \in 1..Len(queue'), queue'[j] = queue'[k]
      PROVE  j = k
  <2>1. PICK x \in 1..Len(queue) : x = (IF j < i THEN j ELSE j + 1) /\ queue'[j] = queue[x]
    BY <1>1 DEF Without
  <2>2. PICK y \in 1..Len(queue) : y = (IF k < i THEN k ELSE k + 1) /\ queue'[k] = queue[y]
    BY <1>1 DEF Without
  <2>3. queue[x] = queue[y] => x = y
    BY DEF Lined
  <2>4. x = y
    BY <1>4, <2>1, <2>2, <2>3
  <2> QED BY <2>1, <2>2, <2>4
<1>5. ASSUME NEW r \in Asks PROVE Waits(r)' <=> \E k \in 1..Len(queue') : queue'[k] = r
  <2>1. CASE r = queue[i]
    <3>1. ~Waits(r)'
      BY <2>1 DEF Waits
    <3>2. \A k \in 1..Len(queue') : queue'[k] # r
      BY <1>2, <2>1 DEF Lined
    <3> QED BY <3>1, <3>2
  <2>2. CASE r # queue[i]
    <3>1. Waits(r)' <=> \E m \in 1..Len(queue) : queue[m] = r
      BY <2>2 DEF Lined, Waits
    <3> QED BY <1>2, <1>3, <2>2, <3>1
  <2> QED BY <2>1, <2>2
<1>6. ASSUME NEW k \in 2..Len(queue') PROVE pc'[queue'[k]] = "queue"
  <2>0. k \in 1..Len(queue') /\ 2 <= k
    BY <1>1 DEF Lined
  <2>1. PICK m \in 1..Len(queue) \ {i} : queue'[k] = queue[m] /\ k <= m
    BY <1>2, <2>0
  <2>2. m \in 2..Len(queue) /\ queue[m] \in Asks /\ queue[m] # queue[i]
    BY <1>1, <2>0, <2>1 DEF Lined
  <2> QED BY <2>1, <2>2 DEF Lined
<1> QED BY <1>1, <1>4, <1>5, <1>6 DEF Lined

LEMMA JoinsLine ==
    ASSUME Lined, Typed, NEW r \in Asks, ~Waits(r), queue' = Append(queue, r),
           pc' = [pc EXCEPT ![r] = "queue"]
    PROVE  Lined'
<1>1. /\ queue' \in Seq(Asks) /\ Len(queue') = Len(queue) + 1 /\ queue'[Len(queue) + 1] = r
      /\ \A k \in 1..Len(queue) : queue'[k] = queue[k]
  BY DEF Lined
<1>2. \A k \in 1..Len(queue) : queue[k] \in Asks /\ queue[k] # r
  BY DEF Lined
<1>3. Waits(r)' /\ \A q \in Asks \ {r} : pc'[q] = pc[q]
  BY DEF Typed, Waits
<1>4. ASSUME NEW j \in 1..Len(queue'), NEW k \in 1..Len(queue'), queue'[j] = queue'[k]
      PROVE  j = k
  BY <1>1, <1>2, <1>4 DEF Lined
<1>5. ASSUME NEW q \in Asks PROVE Waits(q)' <=> \E k \in 1..Len(queue') : queue'[k] = q
  <2>1. CASE q = r
    <3>1. Len(queue) + 1 \in 1..Len(queue')
      BY <1>1 DEF Lined
    <3> QED BY <1>1, <1>3, <2>1, <3>1
  <2>2. CASE q # r
    <3>1. Waits(q)' <=> \E k \in 1..Len(queue) : queue[k] = q
      BY <1>3, <2>2 DEF Lined, Waits
    <3>2. ASSUME NEW k \in 1..Len(queue'), queue'[k] = q
          PROVE  k \in 1..Len(queue) /\ queue[k] = q
      BY <1>1, <2>2, <3>2 DEF Lined
    <3>3. ASSUME NEW k \in 1..Len(queue), queue[k] = q
          PROVE  k \in 1..Len(queue') /\ queue'[k] = q
      BY <1>1, <3>3 DEF Lined
    <3> QED BY <3>1, <3>2, <3>3
  <2> QED BY <2>1, <2>2
<1>6. ASSUME NEW k \in 2..Len(queue') PROVE pc'[queue'[k]] = "queue"
  <2>1. CASE k = Len(queue) + 1
    BY <1>1, <2>1 DEF Typed
  <2>2. CASE k # Len(queue) + 1
    <3>1. k \in 2..Len(queue) /\ queue'[k] = queue[k]
      BY <1>1, <2>2 DEF Lined
    <3> QED BY <1>2, <1>3, <3>1 DEF Lined
  <2> QED BY <2>1, <2>2
<1> QED BY <1>1, <1>4, <1>5, <1>6 DEF Lined

\* Who scans is the head.
LEMMA ScansFirst ==
    ASSUME Lined, NEW r \in Asks, pc[r] = "scan"
    PROVE  queue # <<>> /\ Head(queue) = r /\ 1 \in 1..Len(queue) /\ queue[1] = r
<1>1. PICK i \in 1..Len(queue) : queue[i] = r
  BY DEF Lined, Waits
<1>2. i = 1
  BY <1>1 DEF Lined
<1> QED BY <1>1, <1>2 DEF Lined

\* Whoever stands behind is somebody else.
LEMMA Behind ==
    ASSUME Lined, NEW i \in 2..Len(queue)
    PROVE  queue[i] \in Asks /\ queue[i] # queue[1]
<1>1. Len(queue) \in Nat /\ i \in 1..Len(queue) /\ 1 \in 1..Len(queue) /\ i # 1
  BY DEF Lined
<1>2. queue[i] \in Asks
  BY <1>1 DEF Lined
<1>3. queue[i] = queue[1] => i = 1
  BY <1>1 DEF Lined
<1> QED BY <1>1, <1>2, <1>3

-----------------------------------------------------------------------------
(* The steps, and how long they take *)

LEMMA InitLInv == Init => LInv
<1> SUFFICES ASSUME Init PROVE LInv
  OBVIOUS
<1>1. HInv
  BY InitHInv
<1>2. queue = <<>> /\ \A r \in Asks : pc[r] = "idle" /\ spent[r] = 0
  BY DEF Init
<1>3. Lined
  BY <1>2 DEF Lined, Waits
<1>4. Punctual /\ \A r \in Asks : Limited(r)
  BY <1>2 DEF Punctual, Limited, Waits
<1> QED BY <1>1, <1>3, <1>4 DEF Init, LInv

\* What the end of an ask does to the times of all.
LEMMA OverTimes ==
    ASSUME HInv, spent \in [Asks -> Nat], NEW r \in Asks, Over(r)
    PROVE  /\ spent' \in [Asks -> Nat] /\ pc'[r] = "idle" /\ spent'[r] = 0
           /\ \A q \in Asks \ {r} : /\ pc'[q] = pc[q] /\ clock'[q] = clock[q]
                                    /\ spent'[q] = spent[q]
  BY DEF HInv, Typed, Over

\* The line stays when nobody comes to it or leaves it.
LEMMA SameLine ==
    ASSUME Lined, UNCHANGED queue,
           \A q \in Asks : Waits(q) \/ Waits(q)' => pc'[q] = pc[q]
    PROVE  Lined'
<1>1. \A q \in Asks : Waits(q)' <=> Waits(q)
  BY DEF Waits
<1>2. ASSUME NEW i \in 2..Len(queue) PROVE pc'[queue[i]] = "queue"
  <2>1. queue[i] \in Asks /\ pc[queue[i]] = "queue"
    BY DEF Lined
  <2> QED BY <2>1 DEF Waits
<1> QED BY <1>1, <1>2 DEF Lined

\* An ask that is not in the line ends.
LEMMA OtherEnds ==
    ASSUME LInv, NEW r \in Asks, ~Waits(r), Over(r), HInv',
           UNCHANGED <<queue, scanned, spoilt>>,
           \A q \in Asks \ {r} : reaper'[q] = reaper[q]
    PROVE  LInv'
<1>1. /\ spent' \in [Asks -> Nat] /\ pc'[r] = "idle" /\ spent'[r] = 0
      /\ \A q \in Asks \ {r} : /\ pc'[q] = pc[q] /\ clock'[q] = clock[q]
                               /\ spent'[q] = spent[q]
  BY OverTimes DEF LInv
<1>2. \A q \in Asks : Waits(q) \/ Waits(q)' => q # r /\ pc'[q] = pc[q]
  BY <1>1 DEF Waits
<1>3. Lined'
  BY <1>2, SameLine DEF LInv
<1>4. Punctual'
  <2>1. \A q \in Asks : Waits(q)' => Waits(q) /\ spent'[q] = spent[q]
    BY <1>1, <1>2 DEF Waits
  <2>2. \A q \in Asks : pc[q] = "scan" \/ pc'[q] = "scan" =>
          pc'[q] = pc[q] /\ clock'[q] = clock[q]
    BY <1>1, <1>2 DEF Waits
  <2> QED BY <2>1, <2>2 DEF LInv, Punctual, Fresh
<1>5. ASSUME NEW q \in Asks PROVE Limited(q)'
  <2>1. CASE q = r
    BY <1>1, <2>1 DEF Limited
  <2>2. CASE q # r
    BY <1>1, <2>2 DEF LInv, Limited
  <2> QED BY <2>1, <2>2
<1> QED BY <1>1, <1>3, <1>4, <1>5 DEF LInv

\* One in the line ends, for whatever reason.
LEMMA LineEnds ==
    ASSUME LInv, NEW r \in Asks, Over(r), HInv',
           NEW i \in 1..Len(queue), queue[i] = r, Without(queue', queue, i),
           UNCHANGED reaper, spoilt' \in BOOLEAN, spoilt => spoilt',
           \/ spoilt'
           \/ scanned' = 0
           \/ pc[r] = "queue" /\ UNCHANGED scanned
    PROVE  LInv'
<1>1. /\ spent' \in [Asks -> Nat] /\ pc'[r] = "idle" /\ spent'[r] = 0
      /\ \A q \in Asks \ {r} : /\ pc'[q] = pc[q] /\ clock'[q] = clock[q]
                               /\ spent'[q] = spent[q]
  BY OverTimes DEF LInv
<1>2. Lined'
  BY <1>1, LeavesLine DEF LInv
<1>3. \A q \in Asks : Waits(q)' => q # r /\ Waits(q) /\ spent'[q] = spent[q]
  BY <1>1 DEF Waits
<1>4. \A q \in Asks : pc'[q] = "scan" => pc[q] = "scan" /\ clock'[q] = clock[q]
  BY <1>1
<1>5. ASSUME ~spoilt' PROVE Fresh' \/ (pc[r] = "queue" /\ UNCHANGED scanned)
  BY <1>5, TimeAssumption DEF Fresh
<1>6. ASSUME ~spoilt', pc[r] = "queue", UNCHANGED scanned
      PROVE  \/ Fresh'
             \/ \E q \in Asks : pc'[q] = "scan"
             \/ \A q \in Asks : Waits(q)' => spent'[q] = 0
  <2>1. \A q \in Asks : pc[q] = "scan" => pc'[q] = "scan"
    BY <1>1, <1>6
  <2> QED BY <1>3, <1>6, <2>1 DEF LInv, Punctual, Fresh
<1>7. Punctual'
  BY <1>3, <1>4, <1>5, <1>6 DEF LInv, Punctual
<1>8. ASSUME NEW q \in Asks PROVE Limited(q)'
  <2>1. CASE q = r
    BY <1>1, <2>1 DEF Limited
  <2>2. CASE q # r
    BY <1>1, <2>2 DEF LInv, Limited
  <2> QED BY <2>1, <2>2
<1> QED BY <1>1, <1>2, <1>7, <1>8 DEF LInv

LEMMA WorldTimes ==
    ASSUME LInv, HInv', UNCHANGED <<cache, asks, ssh, spoilt>>
    PROVE  LInv'
  BY DEF LInv, Lined, Punctual, Limited, Waits, Fresh, cache, asks, ssh

LEMMA AskTimes ==
    ASSUME LInv, HInv', NEW r \in Asks, NEW p \in Places,
           AskClaude(r, p) \/ AskCodex(r, p) \/ AskRemote(r, p)
    PROVE  LInv'
<1> USE DEF LInv
<1>1. pc[r] = "idle" /\ spent[r] = 0 /\ reaper[r] = "none" /\ ~Waits(r)
  BY DEF AskClaude, AskCodex, AskRemote, Asking, MayAsk, Limited, Waits
<1> HIDE DEF LInv
<1>2. CASE AskClaude(r, p)
  <2>1. Over(r) /\ UNCHANGED <<cache, ssh, spoilt>>
    BY <1>2 DEF AskClaude, Answer
  <2> QED BY <1>1, <2>1, OtherEnds DEF cache, ssh
<1>3. CASE AskCodex(r, p)
  <2> USE DEF LInv, HInv, Typed
  <2>1. /\ pc' = [pc EXCEPT ![r] = "queue"] /\ clock' = [clock EXCEPT ![r] = 0]
        /\ queue' = Append(queue, r) /\ UNCHANGED <<scanned, spent, reaper, spoilt>>
    BY <1>3 DEF AskCodex, Asking, ssh
  <2>2. Lined'
    BY <1>1, <2>1, JoinsLine
  <2>3. \A q \in Asks : /\ Waits(q)' <=> Waits(q) \/ q = r
                        /\ pc'[q] = "scan" <=> pc[q] = "scan"
                        /\ pc[q] = "scan" => clock'[q] = clock[q]
    BY <1>1, <2>1 DEF Waits
  <2>4. \A q \in Asks : pc[q] = "scan" => clock[q] >= 0
    BY DEF HInv
  <2>5. Punctual'
    BY <1>1, <2>1, <2>3, <2>4, TimeAssumption DEF Punctual, Fresh
  <2>6. ASSUME NEW q \in Asks PROVE Limited(q)'
    BY <1>1, <2>1 DEF Limited
  <2> QED BY <2>1, <2>2, <2>5, <2>6
<1>4. CASE AskRemote(r, p)
  <2> USE DEF LInv, HInv, Typed
  <2>1. /\ pc' = [pc EXCEPT ![r] = "ssh"] /\ clock' = [clock EXCEPT ![r] = 0]
        /\ UNCHANGED <<queue, scanned, spent, reaper, spoilt>>
    BY <1>4 DEF AskRemote, Asking, cache
  <2>2. \A q \in Asks : Waits(q) \/ Waits(q)' => q # r /\ pc'[q] = pc[q] /\ clock'[q] = clock[q]
    BY <1>1, <2>1 DEF Waits
  <2>3. Lined'
    BY <2>1, <2>2, SameLine
  <2>4. Punctual'
    BY <2>1, <2>2 DEF Punctual, Fresh, Waits
  <2>5. ASSUME NEW q \in Asks PROVE Limited(q)'
    BY <1>1, <2>1, TimeAssumption DEF Limited
  <2> QED BY <2>1, <2>3, <2>4, <2>5
<1> QED BY <1>2, <1>3, <1>4

LEMMA LooksTimes ==
    ASSUME LInv, HInv', NEW r \in Asks, Looks(r)
    PROVE  LInv'
<1>1. /\ pc[r] = "queue" /\ UNCHANGED <<ssh, spoilt>>
      /\ queue \in Seq(Asks) /\ 1 \in 1..Len(queue) /\ queue # <<>> /\ queue[1] = r
  <2>1. pc[r] = "queue" /\ Head(queue) = r /\ UNCHANGED <<ssh, spoilt>>
    BY DEF Looks
  <2>2. queue \in Seq(Asks) /\ \E i \in 1..Len(queue) : queue[i] = r
    BY <2>1 DEF LInv, Lined, Waits
  <2> QED BY <2>1, <2>2
<1>2. CASE /\ Answer(r, place[r], place[r] \in cached)
           /\ queue' = Tail(queue) /\ UNCHANGED <<cached, scanned>>
  <2>1. Over(r) /\ Without(queue', queue, 1)
    BY <1>1, <1>2, TailWithout DEF Answer
  <2>2. spoilt' \in BOOLEAN /\ (spoilt => spoilt') /\ UNCHANGED <<reaper, scanned>>
    BY <1>1, <1>2 DEF ssh, LInv
  <2> QED BY <1>1, <2>1, <2>2, LineEnds
<1>3. CASE /\ ~Fresh /\ pc' = [pc EXCEPT ![r] = "scan"]
           /\ UNCHANGED <<world, cache, place, clock, spent>>
  <2> USE DEF LInv, HInv, Typed
  <2>1. UNCHANGED <<queue, scanned, clock, spent, reaper, spoilt>>
    BY <1>1, <1>3 DEF cache, ssh
  <2>2. \A q \in Asks : pc[q] # "scan"
    BY <1>1, ScansFirst
  <2>3. ~spoilt => \A q \in Asks : Waits(q) => spent[q] = 0
    BY <1>3, <2>2 DEF Punctual
  <2>4. Lined'
    <3>1. \A q \in Asks : Waits(q)' <=> Waits(q)
      BY <1>1, <1>3 DEF Waits
    <3>2. ASSUME NEW i \in 2..Len(queue) PROVE pc'[queue[i]] = "queue"
      <4>1. queue[i] \in Asks /\ queue[i] # r
        BY <1>1, Behind
      <4> QED BY <1>3, <4>1 DEF Lined
    <3> QED BY <2>1, <3>1, <3>2 DEF Lined
  <2>5. \A q \in Asks : (Waits(q)' <=> Waits(q)) /\ (pc'[q] = "scan" <=> q = r)
    BY <1>1, <1>3, <2>2 DEF Waits
  <2>6. clock[r] = 0
    BY <1>1 DEF Asked
  <2>7. Punctual'
    BY <2>1, <2>3, <2>5, <2>6, TimeAssumption DEF Punctual
  <2>8. ASSUME NEW q \in Asks PROVE Limited(q)'
    BY <1>1, <1>3, <2>1 DEF Limited
  <2> QED BY <2>1, <2>4, <2>7, <2>8
<1> QED BY <1>2, <1>3 DEF Looks

LEMMA ScanEndsTimes ==
    ASSUME LInv, HInv', NEW r \in Asks, ScanEnds(r) \/ ScanFails(r)
    PROVE  LInv'
<1>1. pc[r] = "scan" /\ queue' = Tail(queue) /\ Over(r) /\ UNCHANGED reaper
  BY DEF ScanEnds, ScanFails, Answer, NoAnswer, ssh
<1>2. queue \in Seq(Asks) /\ queue # <<>> /\ 1 \in 1..Len(queue) /\ queue[1] = r
  BY <1>1, ScansFirst DEF LInv, Lined
<1>3. Without(queue', queue, 1)
  BY <1>1, <1>2, TailWithout
<1>4. spoilt' \in BOOLEAN /\ (spoilt => spoilt') /\ (spoilt' \/ scanned' = 0)
  BY DEF ScanEnds, ScanFails, LInv
<1> QED BY <1>1, <1>2, <1>3, <1>4, LineEnds

LEMMA CancelTimes ==
    ASSUME LInv, HInv', NEW r \in Asks, CancelCodex(r)
    PROVE  LInv'
<1>1. /\ pc[r] \in {"queue", "scan"} /\ spoilt' = (spoilt \/ pc[r] = "scan")
      /\ Over(r) /\ UNCHANGED <<reaper, scanned>>
  BY DEF CancelCodex, NoAnswer, ssh
<1>2. PICK i \in 1..Len(queue) :
        /\ queue[i] = r
        /\ queue' = SubSeq(queue, 1, i - 1) \o SubSeq(queue, i + 1, Len(queue))
  BY DEF CancelCodex
<1>3. Without(queue', queue, i)
  BY <1>2, CutWithout DEF LInv, Lined
<1>4. /\ spoilt' \in BOOLEAN /\ (spoilt => spoilt')
      /\ spoilt' \/ (pc[r] = "queue" /\ UNCHANGED scanned)
  BY <1>1 DEF LInv
<1> QED BY <1>1, <1>2, <1>3, <1>4, LineEnds

LEMMA HelperTimes ==
    ASSUME LInv, HInv', NEW r \in Asks,
           \/ HelperAnswers(r) \/ ReaperDone(r) \/ CancelAgain(r)
    PROVE  LInv'
<1>1. /\ Over(r) /\ UNCHANGED <<queue, scanned, spoilt>>
      /\ \A q \in Asks \ {r} : reaper'[q] = reaper[q]
  BY DEF HelperAnswers, ReaperDone, CancelAgain, Answer, NoAnswer, cache, LInv, HInv, Typed
<1>2. ~Waits(r)
  BY DEF HelperAnswers, ReaperDone, CancelAgain, Waits, LInv, HInv, Asked
<1> QED BY <1>1, <1>2, OtherEnds

LEMMA ReapTimes ==
    ASSUME LInv, HInv', NEW r \in Asks,
           \/ \E code \in {"0", "1", "255"} : HelperExits(r, code)
           \/ TimesOut(r) \/ CancelSsh(r) \/ ReaperKills(r)
    PROVE  LInv'
<1> USE DEF LInv, HInv, Typed
<1>1. UNCHANGED <<queue, scanned, spent, spoilt>>
  BY DEF HelperExits, TimesOut, CancelSsh, Reap, ReaperKills, cache, asks
<1>2. CASE \E code \in {"0", "1", "255"} : HelperExits(r, code)
  BY <1>1, <1>2 DEF HelperExits, asks, Lined, Punctual, Limited, Waits, Fresh
<1>3. CASE ReaperKills(r)
  <2>1. /\ reaper[r] = "term" /\ clock[r] = TermWait
        /\ reaper' = [reaper EXCEPT ![r] = "kill"] /\ UNCHANGED <<pc, clock>>
    BY <1>3 DEF ReaperKills, asks
  <2>2. Lined' /\ Punctual'
    BY <1>1, <2>1 DEF Lined, Punctual, Waits, Fresh
  <2>3. \A q \in Asks : Limited(q)'
    BY <1>1, <2>1, TimeAssumption DEF Limited
  <2> QED BY <1>1, <2>2, <2>3
<1>4. CASE TimesOut(r) \/ CancelSsh(r)
  <2>1. PICK how \in {"reap", "leave"} :
          /\ pc[r] = "ssh" /\ pc' = [pc EXCEPT ![r] = how]
          /\ reaper' = [reaper EXCEPT ![r] = "term"] /\ clock' = [clock EXCEPT ![r] = 0]
    BY <1>4 DEF TimesOut, CancelSsh, Reap
  <2>2. \A q \in Asks : Waits(q) \/ Waits(q)' => q # r /\ pc'[q] = pc[q] /\ clock'[q] = clock[q]
    BY <2>1 DEF Waits
  <2>3. Lined'
    BY <1>1, <2>2, SameLine
  <2>4. Punctual'
    BY <1>1, <2>2 DEF Punctual, Fresh, Waits
  <2>5. \A q \in Asks : Limited(q)'
    BY <1>1, <2>1, TimeAssumption DEF Limited
  <2> QED BY <1>1, <2>3, <2>4, <2>5
<1> QED BY <1>2, <1>3, <1>4

\* One more tick within a limit.
LEMMA OneMore ==
    ASSUME NEW s \in Nat, NEW c \in Nat, NEW base \in Nat, NEW most \in Nat,
           s <= base + c, c <= most, c # most
    PROVE  s + 1 <= base + (c + 1) /\ c + 1 <= most
  OBVIOUS

\* While somebody waits there is no time but that of a scan, and a scan that is
\* over leaves a cache that answers all.
LEMMA TickTimes == ASSUME LInv, HInv', Tick PROVE LInv'
<1> USE DEF LInv, HInv, Typed
<1>1. /\ UNCHANGED <<queue, pc, reaper, spoilt>>
      /\ clock' = [r \in Asks |->
           IF pc[r] \in {"scan", "ssh"} \/ reaper[r] = "term" THEN clock[r] + 1 ELSE clock[r]]
      /\ spent' = [r \in Asks |-> IF pc[r] # "idle" THEN spent[r] + 1 ELSE 0]
      /\ \A r \in Asks : ~Ready(r)
  BY DEF Tick, ssh
<1>2. spent' \in [Asks -> Nat]
  BY <1>1
<1>3. Lined'
  BY <1>1 DEF Lined, Waits
<1>4. ASSUME NEW q \in Asks, Waits(q)
      PROVE  \E r \in Asks : pc[r] = "scan"
  <2>1. queue \in Seq(Asks) /\ 1 \in 1..Len(queue)
    BY <1>4 DEF Lined
  <2>2. Head(queue) \in Asks /\ Waits(Head(queue))
    BY <2>1 DEF Lined
  <2> QED BY <1>1, <2>2 DEF Waits, Ready
<1>5. Punctual'
  <2> SUFFICES ASSUME ~spoilt PROVE Punctual'
    BY <1>1 DEF Punctual
  <2>1. ASSUME NEW r \in Asks, NEW q \in Asks, pc[r] = "scan", Waits(q)
        PROVE  /\ spent'[q] = spent[q] + 1 /\ clock'[r] = clock[r] + 1
               /\ spent'[q] <= clock'[r] /\ clock'[r] <= ScanMax
    <3>1. spent[q] <= clock[r] /\ clock[r] <= ScanMax /\ clock[r] # ScanMax
      BY <1>1, <2>1 DEF Punctual, Asked, Ready
    <3>2. spent'[q] = spent[q] + 1 /\ clock'[r] = clock[r] + 1
      BY <1>1, <2>1 DEF Waits
    <3>3. spent[q] \in Nat /\ clock[r] \in Nat
      OBVIOUS
    <3> HIDE DEF LInv, HInv, Typed
    <3>4. spent[q] <= 0 + clock[r] /\ 0 \in Nat
      BY <3>1, <3>3
    <3>5. spent[q] + 1 <= 0 + (clock[r] + 1) /\ clock[r] + 1 <= ScanMax
      BY <3>1, <3>3, <3>4, OneMore, TimeAssumption
    <3> QED BY <3>2, <3>3, <3>5
  <2>2. \A q \in Asks : Waits(q) => spent'[q] <= ScanMax
    <3> SUFFICES ASSUME NEW q \in Asks, Waits(q) PROVE spent'[q] <= ScanMax
      OBVIOUS
    <3>1. PICK r \in Asks : pc[r] = "scan"
      BY <1>4
    <3>2. spent'[q] <= clock'[r] /\ clock'[r] <= ScanMax
      BY <2>1, <3>1
    <3>3. spent'[q] \in Nat /\ clock'[r] \in Nat
      BY <1>1
    <3> QED BY <3>2, <3>3, TimeAssumption
  <2>3. \A q \in Asks : Waits(q)' <=> Waits(q)
    BY <1>1 DEF Waits
  <2> QED BY <1>1, <1>4, <2>1, <2>2, <2>3 DEF Punctual
<1>6. ASSUME NEW q \in Asks PROVE Limited(q)'
  <2>1. CASE pc[q] = "idle" \/ Waits(q)
    BY <1>1, <2>1 DEF Limited, Waits
  <2>2. CASE pc[q] = "ssh"
    <3>1. clock[q] # Timeout /\ clock'[q] = clock[q] + 1 /\ spent'[q] = spent[q] + 1
      BY <1>1, <2>2 DEF Ready
    <3>2. reaper[q] = "none" /\ clock[q] <= Timeout /\ spent[q] = clock[q]
      BY <2>2 DEF Limited
    <3>3. clock[q] \in Nat /\ Timeout \in Nat
      BY TimeAssumption
    <3> HIDE DEF LInv, HInv, Typed
    <3>4. clock[q] + 1 <= Timeout /\ clock[q] + 1 = spent[q] + 1
      BY <3>1, <3>2, <3>3
    <3>5. clock'[q] <= Timeout /\ spent'[q] = clock'[q]
      BY <3>1, <3>4
    <3>6. pc'[q] = "ssh" /\ reaper'[q] = "none"
      BY <1>1, <2>2, <3>2
    <3> QED BY <3>5, <3>6 DEF Limited
  <2>3. CASE pc[q] \in {"reap", "leave"} /\ reaper[q] = "term"
    <3>1. clock[q] # TermWait /\ clock'[q] = clock[q] + 1 /\ spent'[q] = spent[q] + 1
      BY <1>1, <2>3 DEF Ready
    <3>2. clock[q] <= TermWait /\ spent[q] <= Timeout + clock[q]
      BY <2>3 DEF Limited
    <3>3. spent[q] \in Nat /\ clock[q] \in Nat
      OBVIOUS
    <3>4. pc'[q] = pc[q] /\ reaper'[q] = "term"
      BY <1>1, <2>3
    <3> HIDE DEF LInv, HInv, Typed
    <3>5. spent[q] + 1 <= Timeout + (clock[q] + 1) /\ clock[q] + 1 <= TermWait
      BY <3>1, <3>2, <3>3, OneMore, TimeAssumption
    <3>6. clock'[q] <= TermWait /\ spent'[q] <= Timeout + clock'[q]
      BY <3>1, <3>5
    <3> QED BY <2>3, <3>4, <3>6 DEF Limited
  <2>4. CASE pc[q] \in {"reap", "leave"} /\ reaper[q] # "term"
    BY <1>1, <2>4 DEF Limited, Ready
  <2> QED BY <2>1, <2>2, <2>3, <2>4 DEF Waits
<1> QED BY <1>1, <1>2, <1>3, <1>5, <1>6

LEMMA NextLInv == LInv /\ [Next]_vars => LInv'
<1> SUFFICES ASSUME LInv, [Next]_vars PROVE LInv'
  OBVIOUS
<1>0. HInv'
  BY NextHInv DEF LInv
<1>1. CASE UNCHANGED vars
  BY <1>0, <1>1, WorldTimes DEF vars
<1>2. CASE Next
  <2>1. CASE Tick
    BY <1>0, <2>1, TickTimes
  <2>2. ASSUME NEW p \in Places, Records(p) \/ Ends(p) PROVE LInv'
    BY <1>0, <2>2, WorldTimes DEF Records, Ends
  <2>3. ASSUME NEW p \in Places, NEW r \in Asks,
               AskClaude(r, p) \/ AskCodex(r, p) \/ AskRemote(r, p)
        PROVE  LInv'
    BY <1>0, <2>3, AskTimes
  <2>4. ASSUME NEW r \in Asks, Looks(r) \/ ScanEnds(r) \/ ScanFails(r) \/ CancelCodex(r)
        PROVE  LInv'
    BY <1>0, <2>4, LooksTimes, ScanEndsTimes, CancelTimes
  <2>5. ASSUME NEW r \in Asks,
               \/ \E code \in {"0", "1", "255"} : HelperExits(r, code)
               \/ HelperAnswers(r) \/ TimesOut(r) \/ CancelSsh(r)
               \/ ReaperKills(r) \/ ReaperDone(r) \/ CancelAgain(r)
        PROVE  LInv'
    BY <1>0, <2>5, HelperTimes, ReapTimes
  <2> QED BY <1>2, <2>1, <2>2, <2>3, <2>4, <2>5 DEF Next
<1> QED BY <1>1, <1>2

\* The lock of a key is held for one scan, or for the time-out of the helper and the
\* second for its end, however many routes ask and whoever is cancelled.
THEOREM LookupBoundedAlways == Spec => []LookupBounded
<1>1. LInv => LookupBounded
  <2> SUFFICES ASSUME LInv, NEW r \in Asks
               PROVE  /\ pc[r] \in {"queue", "scan"} /\ ~spoilt => spent[r] <= ScanMax
                      /\ pc[r] \in {"ssh", "reap", "leave"} => spent[r] <= Timeout + TermWait
    BY DEF LookupBounded
  <2>1. pc[r] \in {"queue", "scan"} /\ ~spoilt => spent[r] <= ScanMax
    BY DEF LInv, Punctual, Waits
  <2>2. pc[r] \in {"ssh", "reap", "leave"} => spent[r] <= Timeout + TermWait
    <3> USE DEF LInv, HInv, Typed
    <3>1. CASE pc[r] = "ssh"
      BY <3>1, TimeAssumption DEF Limited
    <3>2. CASE pc[r] \in {"reap", "leave"}
      BY <3>2, TimeAssumption DEF Limited
    <3> QED BY <3>1, <3>2
  <2> QED BY <2>1, <2>2
<1> QED BY <1>1, InitLInv, NextLInv, PTL DEF Spec
=============================================================================
