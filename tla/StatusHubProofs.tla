-------------------------- MODULE StatusHubProofs --------------------------
(***************************************************************************)
(* TLAPS proofs about StatusHub: its invariant IInv, and from it that no   *)
(* change and no newcomer is lost between a snapshot, its broadcast and    *)
(* the clearing of the event, for any number of subscribers and projects;  *)
(* and that a snapshot which is not sent would have told nobody anything.  *)
(***************************************************************************)
EXTENDS StatusHub, TLAPS

USE DEF Project

\* Flipping one flag of one project.
LEMMA LiveFlipped ==
    ASSUME NEW p \in Project, now \in Flags
    PROVE  [now EXCEPT ![p].live = ~@] \in Flags
<1>1. now[p] \in [live : BOOLEAN, hist : BOOLEAN]
  BY DEF Flags
<1>2. [now[p] EXCEPT !.live = ~@] \in [live : BOOLEAN, hist : BOOLEAN]
  BY <1>1
<1> QED BY <1>2 DEF Flags

LEMMA HistFlipped ==
    ASSUME NEW p \in Project, now \in Flags
    PROVE  /\ [now EXCEPT ![p].hist = ~@] \in Flags
           /\ \A q \in Project : [now EXCEPT ![p].hist = ~@][q].live = now[q].live
<1>1. now[p] \in [live : BOOLEAN, hist : BOOLEAN]
  BY DEF Flags
<1>2. /\ [now[p] EXCEPT !.hist = ~@] \in [live : BOOLEAN, hist : BOOLEAN]
      /\ [now[p] EXCEPT !.hist = ~@].live = now[p].live
  BY <1>1
<1> QED BY <1>2 DEF Flags

LEMMA InitIInv == Init => IInv
<1> SUFFICES ASSUME Init PROVE IInv
  OBVIOUS
<1> USE NAssumption, BoundAssumption DEF Init
<1>1. AllOff \in Flags
  BY DEF AllOff, Flags
<1>2. 1 \in 1..N+1 /\ 0 \in 0..MaxChanges /\ 0 \in 0..MaxFails
  OBVIOUS
<1>3. /\ conn \in [Subs -> {"new", "open", "gone", "closed"}]
      /\ shown \in [Subs -> Flags \cup {None}]
  OBVIOUS
<1>4. TypeOK
  BY <1>1, <1>2, <1>3 DEF TypeOK
<1> QED BY <1>4 DEF IInv, Open

\* A step of the run() task's waiting: it begins a snapshot, or sees that
\* nobody is subscribed.
LEMMA BeganType ==
    ASSUME TypeOK, NEW why \in BOOLEAN, Began(why)
    PROVE  /\ pc' \in {"idle", "snap"} /\ triggered' \in BOOLEAN
           /\ next' \in 1..N+1
  BY NAssumption DEF Began, Top, TypeOK

LEMMA NextIInv == IInv /\ [Next]_vars => IInv'
<1> SUFFICES ASSUME IInv, [Next]_vars PROVE IInv'
  OBVIOUS
<1> USE NAssumption, BoundAssumption
<1>0. TypeOK
  BY DEF IInv
<1>1. ASSUME NEW p \in Project, LiveChanges(p) PROVE IInv'
  <2>1. now' \in Flags
    BY <1>0, <1>1, LiveFlipped DEF LiveChanges, TypeOK
  <2>a. changes' \in 0..MaxChanges
    BY <1>0, <1>1 DEF LiveChanges, TypeOK
  <2>b. dirty' = TRUE /\ UNCHANGED <<fails, sockets, runVars, conn, shown>>
    BY <1>1 DEF LiveChanges
  <2>2. TypeOK'
    BY <1>0, <2>1, <2>a, <2>b DEF TypeOK, runVars
  <2>3. dirty' /\ UNCHANGED <<fails, sockets, runVars, conn, shown>>
    BY <1>1 DEF LiveChanges
  <2> QED BY <2>2, <2>3 DEF IInv, runVars, Open
<1>2. ASSUME NEW p \in Project, HistChanges(p) PROVE IInv'
  <2>1. now' \in Flags /\ \A q \in Project : now'[q].live = now[q].live
    BY <1>0, <1>2, HistFlipped DEF HistChanges, TypeOK
  <2>a. changes' \in 0..MaxChanges
    BY <1>0, <1>2 DEF HistChanges, TypeOK
  <2>b. UNCHANGED <<fails, dirty, sockets, runVars, conn, shown>>
    BY <1>2 DEF HistChanges
  <2>2. TypeOK'
    BY <1>0, <2>1, <2>a, <2>b DEF TypeOK, runVars
  <2>3. UNCHANGED <<fails, dirty, sockets, runVars, conn, shown>>
    BY <1>2 DEF HistChanges
  <2>4. Live(now)' = Live(now)
    BY <2>1 DEF Live
  <2>5. Live(acc)' = Live(acc) /\ Live(last)' = Live(last)
    BY <2>3 DEF Live, runVars
  <2>6. pc' = "snap" /\ ~dirty' => \A q \in 1..next'-1 : acc'[q].live = now'[q].live
    BY <1>0, <2>1, <2>3 DEF IInv, TypeOK, runVars
  <2> QED BY <2>2, <2>3, <2>4, <2>5, <2>6 DEF IInv, runVars, Open
<1>3. ASSUME NEW w \in Subs, Join(w) PROVE IInv'
  <2>1. TypeOK'
    BY <1>0, <1>3 DEF Join, TypeOK, runVars
  <2>2. \A v \in Subs : conn'[v] = "new" => v # w /\ conn[v] = "new"
    BY <1>0, <1>3 DEF Join, TypeOK
  <2>3. pc = "send" => w \notin failed
    BY <1>3 DEF Join, IInv
  <2> QED BY <1>0, <1>3, <2>1, <2>2, <2>3 DEF Join, IInv, TypeOK, runVars, Open
<1>4. ASSUME NEW w \in Subs, Leave(w) PROVE IInv'
  <2>1. TypeOK'
    BY <1>0, <1>4 DEF Leave, TypeOK, runVars
  <2>2. \A v \in Subs : Open(v)' => Open(v)
    BY <1>0, <1>4 DEF Leave, TypeOK, Open
  <2>3. \A v \in Subs : /\ conn'[v] = "new" => conn[v] = "new"
                        /\ conn[v] \in {"gone", "closed"} => conn'[v] = conn[v]
    BY <1>0, <1>4 DEF Leave, TypeOK
  <2>4. UNCHANGED <<now, fails, dirty, sockets, runVars, shown>>
    BY <1>4 DEF Leave
  <2>5. Live(now)' = Live(now) /\ Live(acc)' = Live(acc) /\ Live(last)' = Live(last)
    BY <2>4 DEF Live, runVars
  <2>6. pc' = "send" => \A v \in failed' : conn'[v] \in {"gone", "closed"}
    BY <1>0, <2>3, <2>4 DEF IInv, TypeOK, runVars
  <2> QED BY <2>1, <2>2, <2>3, <2>4, <2>5, <2>6 DEF IInv, runVars
<1>5. ASSUME NEW w \in Subs, Discard(w) PROVE IInv'
  <2>1. TypeOK'
    BY <1>0, <1>5 DEF Discard, TypeOK, runVars
  <2>2. \A v \in Subs : Open(v)' => Open(v)
    BY <1>0, <1>5 DEF Discard, TypeOK, Open
  <2>3. \A v \in Subs : /\ conn'[v] = "new" => conn[v] = "new"
                        /\ conn[v] \in {"gone", "closed"} => conn'[v] \in {"gone", "closed"}
    BY <1>0, <1>5 DEF Discard, TypeOK
  <2>4. UNCHANGED <<now, fails, dirty, runVars, shown>> /\ sockets' \subseteq sockets
    BY <1>5 DEF Discard
  <2>5. Live(now)' = Live(now) /\ Live(acc)' = Live(acc) /\ Live(last)' = Live(last)
    BY <2>4 DEF Live, runVars
  <2>6. pc' = "send" => \A v \in failed' : conn'[v] \in {"gone", "closed"}
    BY <1>0, <2>3, <2>4 DEF IInv, TypeOK, runVars
  <2> QED BY <2>1, <2>2, <2>3, <2>4, <2>5, <2>6 DEF IInv, runVars
<1>6. ASSUME NEW w \in Subs, Sent(w) PROVE IInv'
  <2>1. TypeOK'
    BY <1>0, <1>6 DEF Sent, TypeOK
  <2>2. pc = "send" /\ pc' = "send"
    BY <1>6 DEF Sent, IInv
  <2>3. UNCHANGED <<now, fails, dirty, sockets, acc, last, failed, conn>>
    BY <1>6 DEF Sent
  <2>4. \A v \in Subs : Open(v)' = Open(v)
    BY <2>3 DEF Open
  <2>5. \A v \in Subs : v \notin sending' => v = w \/ v \notin sending
    BY <1>6 DEF Sent
  <2>6. /\ shown'[w] = acc
        /\ \A v \in Subs : v # w => shown'[v] = shown[v]
    BY <1>0, <1>6 DEF Sent, TypeOK
  <2>7. Live(now)' = Live(now) /\ Live(acc)' = Live(acc)
    BY <2>3 DEF Live
  <2>8. ~dirty' => \A v \in Subs : Open(v)' => v \in sending' \/ shown'[v] = acc'
    BY <2>2, <2>3, <2>4, <2>5, <2>6 DEF IInv
  <2>9. \A v \in Subs : conn'[v] = "new" => v \notin sockets' \cup sending'
    BY <1>6, <2>3 DEF Sent, IInv
  <2> QED BY <2>1, <2>2, <2>3, <2>7, <2>8, <2>9 DEF IInv
<1>7. ASSUME NEW w \in Subs, SendFails(w) PROVE IInv'
  <2>1. TypeOK'
    BY <1>0, <1>7 DEF SendFails, TypeOK
  <2>2. pc = "send" /\ pc' = "send"
    BY <1>7 DEF SendFails, IInv
  <2>3. UNCHANGED <<now, fails, dirty, sockets, acc, last, conn, shown>>
    BY <1>7 DEF SendFails
  <2>4. \A v \in Subs : Open(v)' = Open(v)
    BY <2>3 DEF Open
  <2>5. \A v \in Subs : v \notin sending' => v = w \/ v \notin sending
    BY <1>7 DEF SendFails
  <2>6. ~Open(w)
    BY <1>7 DEF SendFails, Open
  <2>7. Live(now)' = Live(now) /\ Live(acc)' = Live(acc)
    BY <2>3 DEF Live
  <2>8. ~dirty' => \A v \in Subs : Open(v)' => v \in sending' \/ shown'[v] = acc'
    BY <2>2, <2>3, <2>4, <2>5, <2>6 DEF IInv
  <2>9. \A v \in Subs : conn'[v] = "new" => v \notin sockets' \cup sending'
    BY <1>7, <2>3 DEF SendFails, IInv
  <2>10. conn[w] \in {"gone", "closed"}
    <3>1. conn[w] # "new"
      BY <1>7 DEF SendFails, IInv
    <3> QED BY <3>1, <1>0, <1>7 DEF SendFails, TypeOK
  <2>11. \A v \in failed' : conn'[v] \in {"gone", "closed"}
    BY <1>7, <2>2, <2>3, <2>10 DEF SendFails, IInv
  <2> QED BY <2>1, <2>2, <2>3, <2>7, <2>8, <2>9, <2>11 DEF IInv
<1>8. CASE Woken \/ Refresh
  <2>1. PICK why \in BOOLEAN :
           /\ Began(why) /\ (why = FALSE => ~dirty)
           /\ pc \in {"idle", "wait"} /\ ~dirty'
           /\ UNCHANGED <<now, changes, fails, sockets, acc, last, sending, failed, conn,
                          shown>>
    <3>1. CASE Woken
      BY <3>1 DEF Woken
    <3>2. CASE Refresh
      BY <3>2 DEF Refresh
    <3> QED BY <1>8, <3>1, <3>2
  <2>2. /\ dirty' \in BOOLEAN
        /\ pc \in {"idle", "wait"} /\ ~dirty' /\ (why = FALSE => ~dirty)
        /\ UNCHANGED <<now, changes, fails, sockets, acc, last, sending, failed, conn,
                       shown>>
    BY <1>0, <1>8, <2>1 DEF Woken, Refresh, TypeOK
  <2>3. TypeOK'
    BY <1>0, <2>1, <2>2, BeganType DEF TypeOK
  <2>4. sending = {}
    BY <2>2 DEF IInv
  <2>5. \A v \in Subs : Open(v)' = Open(v)
    BY <2>2 DEF Open
  <2>6. Live(now)' = Live(now) /\ Live(last)' = Live(last)
    BY <2>2 DEF Live
  <2>7. CASE sockets = {}
    <3>1. pc' = "idle" /\ \A v \in Subs : ~Open(v)'
      BY <2>1, <2>5, <2>7 DEF Began, Top, Open
    <3> QED BY <2>2, <2>3, <2>4, <3>1 DEF IInv
  <2>8. CASE sockets # {}
    <3>1. pc' = "snap" /\ next' = 1 /\ triggered' = why
      BY <2>1, <2>8 DEF Began
    <3>2. \/ why
          \/ fails = 0 => \A w \in Subs : Open(w) =>
                shown[w] # None /\ shown[w] = last /\ Live(last) = Live(now)
      BY <2>1, <2>2 DEF IInv
    <3>3. fails' = 0 /\ ~dirty' =>
         \/ pc' = "snap" /\ triggered'
         \/ \A w \in Subs : Open(w)' =>
                shown'[w] # None /\ shown'[w] = last' /\ Live(last)' = Live(now)'
      BY <3>1, <3>2, <2>2, <2>5, <2>6
    <3>4. \A q \in 1..next'-1 : FALSE
      BY <3>1
    <3> QED BY <2>2, <2>3, <2>4, <3>1, <3>3, <3>4 DEF IInv
  <2> QED BY <2>7, <2>8
<1>9. CASE SnapshotReads
  <2>1. /\ pc = "snap" /\ pc' = "snap" /\ next \in 1..N /\ next' = next + 1
        /\ acc' = [acc EXCEPT ![next] = now[next]]
        /\ UNCHANGED <<now, changes, fails, dirty, sockets, triggered, last, sending,
                       failed, conn, shown>>
    BY <1>0, <1>9 DEF SnapshotReads, TypeOK
  <2>2. now[next] \in [live : BOOLEAN, hist : BOOLEAN]
    BY <1>0, <2>1 DEF TypeOK, Flags
  <2>3. acc' \in Flags
    BY <1>0, <2>1, <2>2 DEF TypeOK, Flags
  <2>4. TypeOK'
    BY <1>0, <2>1, <2>3 DEF TypeOK
  <2>5. ~dirty' => \A q \in 1..next'-1 : acc'[q].live = now'[q].live
    <3> SUFFICES ASSUME ~dirty, NEW q \in 1..next PROVE acc'[q].live = now[q].live
      BY <2>1
    <3>1. CASE q = next
      BY <1>0, <2>1, <3>1 DEF TypeOK, Flags
    <3>2. CASE q # next
      <4>1. q \in 1..next-1
        BY <2>1, <3>2
      <4>2. acc'[q] = acc[q]
        BY <1>0, <2>1, <3>2, <4>1 DEF TypeOK, Flags
      <4> QED BY <4>1, <4>2, <2>1 DEF IInv
    <3> QED BY <3>1, <3>2
  <2>6. \A v \in Subs : Open(v)' = Open(v)
    BY <2>1 DEF Open
  <2>7. Live(now)' = Live(now) /\ Live(last)' = Live(last)
    BY <2>1 DEF Live
  <2> QED BY <2>1, <2>4, <2>5, <2>6, <2>7 DEF IInv
<1>10. CASE SnapshotFails
  <2>1. /\ pc = "snap" /\ fails' = fails + 1 /\ fails' \in 0..MaxFails /\ fails' # 0
        /\ pc' = (IF sockets = {} THEN "idle" ELSE "wait")
        /\ UNCHANGED <<now, changes, dirty, sockets, triggered, next, acc, last, sending,
                       failed, conn, shown>>
    BY <1>0, <1>10 DEF SnapshotFails, Top, TypeOK
  <2>2. TypeOK'
    BY <1>0, <2>1 DEF TypeOK
  <2>3. pc' = "idle" => \A v \in Subs : ~Open(v)'
    BY <2>1 DEF Open
  <2>4. sending = {}
    BY <2>1 DEF IInv
  <2> QED BY <2>1, <2>2, <2>3, <2>4 DEF IInv
<1>11. CASE Broadcast
  <2>1. /\ pc = "snap" /\ next = N + 1
        /\ UNCHANGED <<now, changes, fails, dirty, sockets, triggered, next, acc, conn,
                       shown>>
    BY <1>11 DEF Broadcast
  <2>2. ~dirty => Live(acc) = Live(now)
    BY <2>1 DEF IInv, Live
  <2>3. \A v \in Subs : Open(v)' = Open(v)
    BY <2>1 DEF Open
  <2>4. Live(now)' = Live(now) /\ Live(acc)' = Live(acc)
    BY <2>1 DEF Live
  <2>5. CASE (triggered \/ acc # last) /\ sockets # {}
    <3>1. pc' = "send" /\ sending' = sockets /\ failed' = {} /\ UNCHANGED last
      BY <1>11, <2>5 DEF Broadcast
    <3>2. TypeOK'
      BY <1>0, <2>1, <3>1 DEF TypeOK
    <3>3. \A v \in Subs : Open(v)' => v \in sending'
      BY <2>1, <3>1 DEF Open
    <3>4. \A v \in Subs : conn'[v] = "new" => v \notin sockets' \cup sending'
      BY <2>1, <3>1 DEF IInv
    <3> QED BY <2>1, <2>2, <2>4, <3>1, <3>2, <3>3, <3>4 DEF IInv
  <2>6. CASE ~((triggered \/ acc # last) /\ sockets # {})
    <3>1. /\ pc' = (IF sockets = {} THEN "idle" ELSE "wait")
          /\ last' = acc /\ UNCHANGED <<sending, failed>>
      BY <1>11, <2>6 DEF Broadcast, Top
    <3>2. TypeOK'
      BY <1>0, <2>1, <3>1 DEF TypeOK
    <3>3. sending' = {}
      BY <2>1, <3>1 DEF IInv
    <3>4. pc' = "idle" => \A v \in Subs : ~Open(v)'
      BY <2>3, <3>1 DEF Open
    <3>5. \A v \in Subs : conn'[v] = "new" => v \notin sockets' \cup sending'
      BY <2>1, <3>1 DEF IInv
    <3>6. fails' = 0 /\ ~dirty' =>
            \A w \in Subs : Open(w)' =>
                shown'[w] # None /\ shown'[w] = last' /\ Live(last)' = Live(now)'
      <4> SUFFICES ASSUME fails = 0, ~dirty, NEW w \in Subs, Open(w)
                   PROVE  shown[w] # None /\ shown[w] = last' /\ Live(last)' = Live(now)
        BY <2>1, <2>3, <2>4
      <4>1. ~triggered /\ acc = last
        BY <2>6 DEF Open
      <4>2. shown[w] # None /\ shown[w] = last /\ Live(last) = Live(now)
        BY <4>1, <2>1 DEF IInv
      <4>3. Live(last)' = Live(last)
        BY <4>1, <3>1 DEF Live
      <4> QED BY <4>1, <4>2, <4>3, <3>1
    <3> QED BY <3>1, <3>2, <3>3, <3>4, <3>5, <3>6 DEF IInv
  <2> QED BY <2>5, <2>6
<1>12. CASE BroadcastDone
  <2>1. /\ pc = "send" /\ sending = {} /\ sockets' = sockets \ failed /\ last' = acc
        /\ pc' = (IF sockets' = {} THEN "idle" ELSE "wait")
        /\ UNCHANGED <<now, changes, fails, dirty, triggered, next, acc, sending, failed,
                       conn, shown>>
    BY <1>12 DEF BroadcastDone, Top
  <2>2. TypeOK'
    BY <1>0, <2>1 DEF TypeOK
  <2>3. \A v \in Subs : Open(v)' => Open(v)
    BY <2>1 DEF Open
  <2>4. pc' = "idle" => \A v \in Subs : ~Open(v)'
    BY <2>1 DEF Open
  <2>5. \A v \in Subs : conn'[v] = "new" => v \notin sockets' \cup sending'
    BY <2>1 DEF IInv
  <2>6. ~dirty' => \A w \in Subs : Open(w)' =>
                shown'[w] # None /\ shown'[w] = last' /\ Live(last)' = Live(now)'
    <3> SUFFICES ASSUME ~dirty, NEW w \in Subs, Open(w)
                 PROVE  shown[w] # None /\ shown[w] = acc /\ Live(last)' = Live(now)'
      BY <2>1, <2>3
    <3>1. shown[w] = acc /\ Live(acc) = Live(now)
      BY <2>1 DEF IInv
    <3>2. acc # None
      BY <1>0, NoneAssumption DEF TypeOK, Flags
    <3>3. Live(last)' = Live(acc) /\ Live(now)' = Live(now)
      BY <2>1 DEF Live
    <3> QED BY <3>1, <3>2, <3>3
  <2> QED BY <2>1, <2>2, <2>4, <2>5, <2>6 DEF IInv
<1>13. CASE UNCHANGED vars
  <2>1. TypeOK'
    BY <1>0, <1>13 DEF vars, runVars, TypeOK
  <2>2. Live(now)' = Live(now) /\ Live(acc)' = Live(acc) /\ Live(last)' = Live(last)
    BY <1>13 DEF vars, runVars, Live
  <2>3. \A v \in Subs : Open(v)' = Open(v)
    BY <1>13 DEF vars, Open
  <2> QED BY <1>13, <2>1, <2>2, <2>3 DEF vars, runVars, IInv
<1> QED BY <1>1, <1>2, <1>3, <1>4, <1>5, <1>6, <1>7, <1>8, <1>9, <1>10, <1>11, <1>12,
           <1>13 DEF Next, RunStep

\* IInv holds for any number of subscribers, projects and failures.
THEOREM Inductive == Spec => []IInv
  BY InitIInv, NextIInv, PTL DEF Spec

\* While run() waits with nothing to do, every open subscriber has the latest
\* live flags, as long as no snapshot has failed.
THEOREM UpToDateAlways == Spec => []UpToDate
<1>1. IInv => UpToDate
  <2> SUFFICES ASSUME IInv, pc \in {"idle", "wait"}, ~dirty, fails = 0,
                      NEW w \in Subs, Open(w)
               PROVE  shown[w] # None /\ Live(shown[w]) = Live(now)
    BY DEF UpToDate
  <2>1. shown[w] # None /\ shown[w] = last /\ Live(last) = Live(now)
    BY DEF IInv
  <2> QED BY <2>1
<1> QED BY <1>1, Inductive, PTL

-----------------------------------------------------------------------------
(* What the next snapshot is compared with *)

\* Every browser that has seen a payload shows the last one; during the sends,
\* the new one or, as long as it is yet to get it, the one before.
Abreast == \A w \in Subs :
    Open(w) /\ shown[w] # None =>
        IF pc = "send" THEN shown[w] = acc \/ (w \in sending /\ shown[w] = last)
        ELSE shown[w] = last

\* A snapshot that is not sent, since nothing has changed and it equals last_payload,
\* is what every browser that has seen one shows already.
UnsentIsShown ==
    [][Broadcast /\ pc' # "send" =>
         \A w \in Subs : Open(w) /\ shown[w] # None => shown[w] = acc]_vars

LEMMA InitAbreast == Init => Abreast
  BY DEF Init, Abreast, Open

\* A step that opens no other socket than a new one, changes no payload and does
\* not touch the sends.
LEMMA AbreastStays ==
    ASSUME Abreast, UNCHANGED <<acc, last, sending, shown>>,
           pc' = "send" <=> pc = "send",
           \A w \in Subs : Open(w)' => Open(w) \/ shown[w] = None
    PROVE  Abreast'
  BY DEF Abreast

\* A socket that has not been opened has shown nothing.
Blank == \A w \in Subs : conn[w] = "new" => shown[w] = None

LEMMA NextBlank == TypeOK /\ Blank /\ [Next]_vars => Blank'
<1> SUFFICES ASSUME TypeOK, Blank, [Next]_vars PROVE Blank'
  OBVIOUS
<1>1. ASSUME NEW w \in Subs, Join(w) \/ Leave(w) \/ Discard(w) PROVE Blank'
  <2>1. shown' = shown /\ \A v \in Subs : conn'[v] = "new" => conn[v] = "new"
    BY <1>1 DEF Join, Leave, Discard, TypeOK
  <2> QED BY <2>1 DEF Blank
<1>2. ASSUME NEW w \in Subs, Sent(w) PROVE Blank'
  <2>1. conn' = conn /\ conn[w] = "open" /\ \A v \in Subs \ {w} : shown'[v] = shown[v]
    BY <1>2 DEF Sent, TypeOK
  <2> QED BY <2>1 DEF Blank
<1>3. CASE UNCHANGED <<conn, shown>>
  BY <1>3 DEF Blank
<1>4. ASSUME ~UNCHANGED <<conn, shown>>
      PROVE  \E w \in Subs : Join(w) \/ Leave(w) \/ Discard(w) \/ Sent(w)
  BY <1>4 DEF Next, RunStep, vars, LiveChanges, HistChanges, SendFails, Woken, Refresh,
              SnapshotReads, SnapshotFails, Broadcast, BroadcastDone
<1> QED BY <1>1, <1>2, <1>3, <1>4

LEMMA NextAbreast == IInv /\ Blank /\ Abreast /\ [Next]_vars => Abreast'
<1> SUFFICES ASSUME IInv, Blank, Abreast, [Next]_vars PROVE Abreast'
  OBVIOUS
<1>0. TypeOK
  BY DEF IInv
<1>1. ASSUME NEW w \in Subs, Join(w) \/ Leave(w) \/ Discard(w) PROVE Abreast'
  <2>1. UNCHANGED <<pc, acc, last, sending, shown>>
    BY <1>1 DEF Join, Leave, Discard, runVars
  <2>2. \A v \in Subs : Open(v)' => Open(v) \/ conn[v] = "new"
    BY <1>0, <1>1 DEF Join, Leave, Discard, TypeOK, Open
  <2> QED BY <2>1, <2>2, AbreastStays DEF Blank
<1>2. ASSUME NEW w \in Subs, Sent(w) PROVE Abreast'
  <2>1. /\ UNCHANGED <<pc, acc, last, sockets, conn>> /\ w \in sending
        /\ sending' = sending \ {w} /\ shown' = [shown EXCEPT ![w] = acc]
    BY <1>2 DEF Sent
  <2>2. pc = "send"
    BY <2>1 DEF IInv
  <2> QED BY <1>0, <2>1, <2>2 DEF TypeOK, Abreast, Open
<1>3. ASSUME NEW w \in Subs, SendFails(w) PROVE Abreast'
  <2>1. /\ UNCHANGED <<pc, acc, last, sockets, conn, shown>> /\ conn[w] # "open"
        /\ sending' = sending \ {w}
    BY <1>3 DEF SendFails
  <2> QED BY <2>1 DEF Abreast, Open
<1>4. CASE Woken \/ Refresh \/ SnapshotFails
  <2>1. UNCHANGED <<acc, last, sending, shown, sockets, conn>>
    BY <1>4 DEF Woken, Refresh, SnapshotFails
  <2>2. pc # "send" /\ pc' # "send"
    BY <1>4 DEF Woken, Refresh, SnapshotFails, Began, Top
  <2> QED BY <2>1, <2>2, AbreastStays DEF Open
<1>5. CASE SnapshotReads
  <2>1. pc = "snap" /\ UNCHANGED <<pc, last, shown, sockets, conn>>
    BY <1>5 DEF SnapshotReads
  <2> QED BY <2>1 DEF Abreast, Open
<1>6. CASE Broadcast
  <2>1. pc = "snap" /\ UNCHANGED <<acc, sockets, conn, shown>>
    BY <1>6 DEF Broadcast
  <2>2. CASE (triggered \/ acc # last) /\ sockets # {}
    <3>1. pc' = "send" /\ sending' = sockets /\ last' = last
      BY <1>6, <2>2 DEF Broadcast
    <3> QED BY <2>1, <3>1 DEF Abreast, Open
  <2>3. CASE ~((triggered \/ acc # last) /\ sockets # {})
    <3>1. pc' # "send" /\ last' = acc
      BY <1>6, <2>3 DEF Broadcast, Top
    <3>2. acc = last \/ sockets = {}
      BY <2>3
    <3> QED BY <2>1, <3>1, <3>2 DEF Abreast, Open
  <2> QED BY <2>2, <2>3
<1>7. CASE BroadcastDone
  <2>1. /\ pc = "send" /\ sending = {} /\ pc' # "send" /\ last' = acc
        /\ sockets' \subseteq sockets /\ UNCHANGED <<acc, conn, shown>>
    BY <1>7 DEF BroadcastDone, Top
  <2> QED BY <2>1 DEF Abreast, Open
<1>8. CASE UNCHANGED <<pc, acc, last, sending, shown, sockets, conn>>
  BY <1>8, AbreastStays DEF Open
<1>9. ASSUME NEW p \in Project, LiveChanges(p) \/ HistChanges(p)
      PROVE  UNCHANGED <<pc, acc, last, sending, shown, sockets, conn>>
  BY <1>9 DEF LiveChanges, HistChanges, runVars
<1>10. UNCHANGED vars => UNCHANGED <<pc, acc, last, sending, shown, sockets, conn>>
  BY DEF vars, runVars
<1> QED BY <1>1, <1>2, <1>3, <1>4, <1>5, <1>6, <1>7, <1>8, <1>9, <1>10 DEF Next, RunStep

LEMMA UnsentStep == IInv /\ Abreast /\ Broadcast /\ pc' # "send" =>
         \A w \in Subs : Open(w) /\ shown[w] # None => shown[w] = acc
<1> SUFFICES ASSUME Abreast, Broadcast, pc' # "send", NEW w \in Subs, Open(w), shown[w] # None
             PROVE  shown[w] = acc
  OBVIOUS
<1>1. pc = "snap" /\ (acc = last \/ sockets = {})
  BY DEF Broadcast
<1> QED BY <1>1 DEF Abreast, Open

\* run() compares a snapshot with last_payload only, not with what each browser
\* shows: what it then does not send, nobody lacks who has seen a payload, however
\* many come, go, fail to take one or miss a snapshot that raises.
THEOREM UnsentIsShownAlways == Spec => UnsentIsShown
<1>1. Init => Blank
  BY DEF Init, Blank
<1>2. IInv /\ Blank /\ [Next]_vars => Blank'
  BY NextBlank DEF IInv
<1>3. IInv /\ Abreast /\ [Next]_vars =>
        [Broadcast /\ pc' # "send" =>
           \A w \in Subs : Open(w) /\ shown[w] # None => shown[w] = acc]_vars
  BY UnsentStep
<1> QED BY <1>1, <1>2, <1>3, InitAbreast, NextAbreast, Inductive, PTL DEF Spec, UnsentIsShown
=============================================================================
