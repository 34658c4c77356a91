------------------------------ MODULE History -------------------------------
(***************************************************************************)
(* Is there a conversation to go on with?  The route of a terminal asks    *)
(* while it holds the lock of its key, and starts the agent by the answer  *)
(* (main.py); the status hub asks to draw its buttons.  The answer comes   *)
(* from the records of Claude, from a cached scan of those of Codex, or    *)
(* from another host by way of an ssh helper (session.py).                 *)
(*                                                                         *)
(* The loop takes no time.  A scan takes up to ScanMax, a helper as long   *)
(* as it likes, and SIGKILL works at once.  Routes are cancelled when the  *)
(* server goes down.                                                       *)
(***************************************************************************)
EXTENDS Integers, Sequences, FiniteSets

CONSTANTS Routes,   \* connections in mode "resume" or "continue"
          Hub,      \* the refresh of the hub
          Claude, Codex, Remote, \* the projects, by where their records are
          TTL,      \* CODEX_CACHE_TTL
          ScanMax,  \* bound: how long a scan takes
          Timeout,  \* REMOTE_HISTORY_TIMEOUT
          TermWait, \* the second after SIGTERM
          None

Asks == Routes \cup {Hub}
Places == Claude \cup Codex \cup Remote

ASSUME AskAssumption == Hub \notin Routes /\ None \notin Places
ASSUME PlaceAssumption ==
    Claude \cap Codex = {} /\ Claude \cap Remote = {} /\ Codex \cap Remote = {}
ASSUME TimeAssumption ==
    /\ TTL \in Nat \ {0} /\ ScanMax \in Nat
    /\ Timeout \in Nat /\ TermWait \in Nat

VARIABLES
    records, \* the projects that have one
    age,     \* how long those of Codex have had it, up to TTL + ScanMax
    live,    \* the session of each: "none", or how it was started
    cached,  \* _codex_cwds
    scanned, \* the time since _codex_scanned_at, up to TTL
    queue,   \* _codex_scan_lock: its holder and those that wait
    pc,      \* each ask: "idle", "queue", "scan", "ssh", "reap" (its time is
             \* up) or "leave" (it was cancelled)
    place,   \* what it asks for
    found,   \* records that its scan, or its helper, cannot miss
    clock,   \* time spent in its scan, or in its present wait for the helper
    spent,   \* history: time since it asked
    helper,  \* its ssh: "none", "runs" or the exit code 0, 1 or 255
    reaper,  \* _reap_subprocess at work for it: "none", "term" or "kill"
    spoilt   \* history: a scan has failed or was cancelled

world == <<records, age, live>>
cache == <<cached, scanned, queue>>
asks == <<pc, place, found, clock, spent>>
ssh == <<helper, reaper>>
vars == <<world, cache, asks, ssh, spoilt>>

TypeOK ==
    /\ records \subseteq Places /\ cached \subseteq Codex
    /\ live \in [Places -> {"none", "resumed", "anew"}]
    /\ age \in [Places -> 0..(TTL + ScanMax)] /\ scanned \in 0..TTL
    /\ queue \in Seq(Asks)
    /\ pc \in [Asks -> {"idle", "queue", "scan", "ssh", "reap", "leave"}]
    /\ place \in [Asks -> Places \cup {None}] /\ found \in [Asks -> SUBSET Places]
    /\ clock \in [Asks -> Nat] /\ spent \in [Asks -> Nat]
    /\ helper \in [Asks -> {"none", "runs", "0", "1", "255"}]
    /\ reaper \in [Asks -> {"none", "term", "kill"}]
    /\ spoilt \in BOOLEAN

Init ==
    /\ records = {} /\ cached = {} /\ queue = <<>> /\ spoilt = FALSE
    /\ live = [p \in Places |-> "none"] /\ age = [p \in Places |-> 0] /\ scanned = TTL
    /\ pc = [r \in Asks |-> "idle"] /\ place = [r \in Asks |-> None]
    /\ found = [r \in Asks |-> {}]
    /\ clock = [r \in Asks |-> 0] /\ spent = [r \in Asks |-> 0]
    /\ helper = [r \in Asks |-> "none"] /\ reaper = [r \in Asks |-> "none"]

-----------------------------------------------------------------------------
(* The agents *)

\* A conversation gets its record some time after the start, or from outside.
Records(p) ==
    /\ p \notin records
    /\ records' = records \cup {p}
    /\ UNCHANGED <<age, live, cache, asks, ssh, spoilt>>

\* The session ends; what it wrote stays.
Ends(p) ==
    /\ live[p] # "none"
    /\ live' = [live EXCEPT ![p] = "none"]
    /\ UNCHANGED <<records, age, cache, asks, ssh, spoilt>>

-----------------------------------------------------------------------------
(* A question and its end *)

\* A route holds the lock of its key, and has found no live session.
MayAsk(r, p) ==
    /\ pc[r] = "idle" /\ helper[r] # "runs" /\ reaper[r] = "none"
    /\ r # Hub => live[p] = "none" /\ \A q \in Routes : place[q] # p

Asking(r, p, how) ==
    /\ MayAsk(r, p)
    /\ pc' = [pc EXCEPT ![r] = how] /\ place' = [place EXCEPT ![r] = p]
    /\ clock' = [clock EXCEPT ![r] = 0]

Over(r) ==
    /\ pc' = [pc EXCEPT ![r] = "idle"] /\ place' = [place EXCEPT ![r] = None]
    /\ found' = [found EXCEPT ![r] = {}]
    /\ spent' = [spent EXCEPT ![r] = 0]
    /\ clock' = [clock EXCEPT ![r] = IF helper[r] = "runs" THEN @ ELSE 0]

\* The route goes on without giving way: a session starts either way.
Answer(r, p, yes) ==
    /\ Over(r)
    /\ live' = IF r = Hub THEN live
               ELSE [live EXCEPT ![p] = IF yes THEN "resumed" ELSE "anew"]
    /\ UNCHANGED <<records, age>>

\* The route closes with HISTORY_CHECK_CLOSE_CODE and starts nothing, or an
\* exception ends it.
NoAnswer(r) == Over(r) /\ UNCHANGED world

\* latest_session_id has its answer at once.  (If a file vanishes between the
\* listing and stat, the route ends and nothing changes.)
AskClaude(r, p) ==
    /\ p \in Claude /\ r # Hub /\ MayAsk(r, p)
    /\ Answer(r, p, p \in records)
    /\ UNCHANGED <<cache, ssh, spoilt>>

-----------------------------------------------------------------------------
(* has_codex_history *)

AskCodex(r, p) ==
    /\ p \in Codex /\ Asking(r, p, "queue")
    /\ queue' = Append(queue, r)
    /\ UNCHANGED <<world, cached, scanned, found, spent, ssh, spoilt>>

Fresh == scanned < TTL

\* Mutant: a question renews the cache.
LooksRenewing(r) ==
    /\ pc[r] = "queue" /\ Head(queue) = r
    /\ \/ /\ Fresh
          /\ Answer(r, place[r], place[r] \in cached)
          /\ queue' = Tail(queue) /\ scanned' = 0 /\ UNCHANGED cached
       \/ /\ ~Fresh
          /\ pc' = [pc EXCEPT ![r] = "scan"]
          /\ found' = [found EXCEPT ![r] = records \cap Codex]
          /\ UNCHANGED <<world, cache, place, clock, spent>>
    /\ UNCHANGED <<ssh, spoilt>>

\* It has the lock: the cache will do, or a scan begins, which finds what there
\* is by now.
Looks(r) ==
    /\ pc[r] = "queue" /\ Head(queue) = r
    /\ \/ /\ Fresh
          /\ Answer(r, place[r], place[r] \in cached)
          /\ queue' = Tail(queue) /\ UNCHANGED <<cached, scanned>>
       \/ /\ ~Fresh
          /\ pc' = [pc EXCEPT ![r] = "scan"]
          /\ found' = [found EXCEPT ![r] = records \cap Codex]
          /\ UNCHANGED <<world, cache, place, clock, spent>>
    /\ UNCHANGED <<ssh, spoilt>>

\* What was written meanwhile may be among it or not.
ScanEnds(r) ==
    /\ pc[r] = "scan"
    /\ \E late \in SUBSET ((records \cap Codex) \ found[r]) : cached' = found[r] \cup late
    /\ scanned' = 0 /\ queue' = Tail(queue)
    /\ Answer(r, place[r], place[r] \in cached')
    /\ UNCHANGED <<ssh, spoilt>>

ScanFails(r) ==
    /\ pc[r] = "scan"
    /\ queue' = Tail(queue) /\ spoilt' = TRUE
    /\ NoAnswer(r)
    /\ UNCHANGED <<cached, scanned, ssh>>

\* The thread goes on, for nobody.
CancelCodex(r) ==
    /\ pc[r] \in {"queue", "scan"}
    /\ \E i \in 1..Len(queue) :
         /\ queue[i] = r
         /\ queue' = SubSeq(queue, 1, i - 1) \o SubSeq(queue, i + 1, Len(queue))
    /\ spoilt' = (spoilt \/ pc[r] = "scan")
    /\ NoAnswer(r)
    /\ UNCHANGED <<cached, scanned, ssh>>

-----------------------------------------------------------------------------
(* remote_has_history *)

AskRemote(r, p) ==
    /\ p \in Remote /\ r # Hub /\ Asking(r, p, "ssh")
    /\ found' = [found EXCEPT ![r] = records \cap {p}]
    /\ helper' = [helper EXCEPT ![r] = "runs"]
    /\ UNCHANGED <<world, cache, spent, reaper, spoilt>>

\* The shell on the other host says 0 or 1; ssh or grep have failed otherwise.
HelperExits(r, code) ==
    /\ helper[r] = "runs"
    /\ code = "0" => place[r] \in records
    /\ code = "1" => place[r] \notin found[r]
    /\ helper' = [helper EXCEPT ![r] = IF pc[r] = "idle" THEN "none" ELSE code]
    /\ UNCHANGED <<world, cache, asks, reaper, spoilt>>

HelperAnswers(r) ==
    /\ pc[r] = "ssh" /\ helper[r] # "runs"
    /\ helper' = [helper EXCEPT ![r] = "none"]
    /\ IF helper[r] = "255" THEN NoAnswer(r)
       ELSE Answer(r, place[r], helper[r] = "0")
    /\ UNCHANGED <<cache, reaper, spoilt>>

\* The wait is over, by the time-out or by a cancellation; SIGTERM.
Reap(r, how) ==
    /\ pc[r] = "ssh"
    /\ helper[r] = "runs"
    /\ pc' = [pc EXCEPT ![r] = how]
    /\ reaper' = [reaper EXCEPT ![r] = "term"]
    /\ clock' = [clock EXCEPT ![r] = 0]
    /\ UNCHANGED <<world, cache, place, found, spent, helper, spoilt>>

TimesOut(r) == clock[r] = Timeout /\ Reap(r, "reap")

CancelSsh(r) == Reap(r, "leave")

\* Mutant: another SIGTERM, and another wait.
ReaperInsists(r) ==
    /\ reaper[r] = "term" /\ helper[r] = "runs" /\ clock[r] = TermWait
    /\ clock' = [clock EXCEPT ![r] = 0]
    /\ UNCHANGED <<world, cache, pc, place, found, spent, ssh, spoilt>>

ReaperKills(r) ==
    /\ reaper[r] = "term" /\ helper[r] = "runs" /\ clock[r] = TermWait
    /\ reaper' = [reaper EXCEPT ![r] = "kill"]
    /\ UNCHANGED <<world, cache, asks, helper, spoilt>>

\* The helper has gone, and with it the reason to wait.
ReaperDone(r) ==
    /\ reaper[r] # "none" /\ helper[r] # "runs"
    /\ reaper' = [reaper EXCEPT ![r] = "none"] /\ helper' = [helper EXCEPT ![r] = "none"]
    /\ NoAnswer(r)
    /\ UNCHANGED <<cache, spoilt>>

\* Mutant: the reaper is not shielded.
CancelsReaper(r) ==
    /\ pc[r] \in {"reap", "leave"}
    /\ reaper' = [reaper EXCEPT ![r] = "none"]
    /\ NoAnswer(r)
    /\ UNCHANGED <<cache, helper, spoilt>>

\* A cancellation during the wait for the reaper: it is shielded from that if
\* it works for a cancellation already, but not after a time-out.
CancelAgain(r) ==
    /\ pc[r] \in {"reap", "leave"}
    /\ reaper' = IF pc[r] = "reap" THEN [reaper EXCEPT ![r] = "none"] ELSE reaper
    /\ NoAnswer(r)
    /\ UNCHANGED <<cache, helper, spoilt>>

-----------------------------------------------------------------------------
Ready(r) ==
    \/ pc[r] = "queue" /\ Head(queue) = r
    \/ pc[r] = "scan" /\ clock[r] = ScanMax
    \/ pc[r] = "ssh" /\ (helper[r] # "runs" \/ clock[r] = Timeout)
    \/ reaper[r] # "none" /\ (helper[r] # "runs" \/ clock[r] = TermWait)
    \/ reaper[r] = "kill"

Older(p) == IF p \in records \cap Codex /\ age[p] < TTL + ScanMax THEN age[p] + 1 ELSE age[p]

Tick ==
    /\ \A r \in Asks : ~Ready(r)
    /\ age' = [p \in Places |-> Older(p)]
    /\ scanned' = IF Fresh THEN scanned + 1 ELSE scanned
    /\ clock' = [r \in Asks |->
         IF pc[r] \in {"scan", "ssh"} \/ reaper[r] = "term" THEN clock[r] + 1 ELSE clock[r]]
    /\ spent' = [r \in Asks |-> IF pc[r] # "idle" THEN spent[r] + 1 ELSE 0]
    /\ UNCHANGED <<records, live, cached, queue, pc, place, found, ssh, spoilt>>

Next ==
    \/ \E p \in Places :
         \/ Records(p) \/ Ends(p)
         \/ \E r \in Asks :
              AskClaude(r, p) \/ AskCodex(r, p) \/ AskRemote(r, p)
    \/ \E r \in Asks :
         \/ Looks(r) \/ ScanEnds(r) \/ ScanFails(r) \/ CancelCodex(r)
         \/ \E code \in {"0", "1", "255"} : HelperExits(r, code)
         \/ HelperAnswers(r) \/ TimesOut(r) \/ CancelSsh(r)
         \/ ReaperKills(r) \/ ReaperDone(r) \/ CancelAgain(r)
    \/ Tick

Spec == Init /\ [][Next]_vars

-----------------------------------------------------------------------------
(* Properties *)

\* A conversation that could be gone on with is not passed over in silence: a
\* session starts anew only if there was no record, on another host when the
\* question was put ("새 프로세스로 조용히 폴백하면 사용자가 원래 이어야 할 대화를 놓치므로",
\* session.py:63), or if Codex wrote it less than CODEX_CACHE_TTL and the time of
\* a scan ago.
NothingPassedOver ==
    [][\A p \in Places : live[p] = "none" /\ live'[p] = "anew" =>
          \/ p \notin records
          \/ p \in Codex /\ age[p] < TTL + ScanMax
          \/ p \in Remote /\ \E r \in Routes : place[r] = p /\ p \notin found[r]]_vars

\* The lock of a key is held for no longer than one scan, whoever else asks, or
\* the time-out of the helper and the second for its end ("ConnectTimeout은 연결
\* 단계만 덮으므로", session.py:186), as long as no scan is lost.
LookupBounded ==
    \A r \in Asks :
        /\ pc[r] \in {"queue", "scan"} /\ ~spoilt => spent[r] <= ScanMax
        /\ pc[r] \in {"ssh", "reap", "leave"} => spent[r] <= Timeout + TermWait

\* A helper that nobody waits for.
Left(r) == helper[r] = "runs" /\ pc[r] = "idle" /\ reaper[r] = "none"

\* A lookup leaves no helper behind that nobody reaps ("timeout/cancel된 조회
\* subprocess를 확실히 거둔다", session.py:160), unless it is cancelled while it
\* deals with a time-out.
NoHelperLeft ==
    [][\A r \in Routes : Left(r)' => Left(r) \/ pc[r] = "reap"]_vars
=============================================================================
