----------------------------- MODULE StatusHub -----------------------------
(***************************************************************************)
(* ProjectStatusHub (project_status.py): one task that computes a snapshot *)
(* of all projects and sends it to every subscribed WebSocket, at once     *)
(* after a session has changed and now and then for the histories, which   *)
(* change without a word.                                                  *)
(*                                                                         *)
(* A project is a number, its place in the configuration; its three live   *)
(* flags are one here, and its two history flags another.                  *)
(***************************************************************************)
EXTENDS Integers

CONSTANTS Subs,       \* WebSockets of the status channel, each used once
          N,          \* projects
          MaxChanges, \* bound: changes of the flags
          MaxFails,   \* bound: snapshots that raise an exception
          None

ASSUME NAssumption == N \in Nat \ {0}
ASSUME NoneAssumption == None \notin [1..N -> [live : BOOLEAN, hist : BOOLEAN]]
ASSUME BoundAssumption == MaxChanges \in Nat /\ MaxFails \in Nat

VARIABLES
    now,       \* the flags of each project as they are
    changes,   \* changes so far
    fails,     \* failed snapshots so far
    dirty,     \* _dirty
    sockets,   \* _sockets
    pc,        \* run(): "idle" or "wait" for _dirty, "snap" or "send"
    triggered, \* run()'s local
    next,      \* the next project of snapshot()
    acc,       \* its result so far, then the payload
    last,      \* last_payload
    sending,   \* sockets whose send_text has not returned
    failed,    \* sockets whose send_text raised
    conn,      \* each socket: "new", "open", "gone" (unnoticed) or "closed"
    shown      \* the last payload each browser received, or None

runVars == <<pc, triggered, next, acc, last, sending, failed>>
vars == <<now, changes, fails, dirty, sockets, runVars, conn, shown>>

Project == 1..N
Flags == [Project -> [live : BOOLEAN, hist : BOOLEAN]]

TypeOK ==
    /\ now \in Flags /\ acc \in Flags
    /\ last \in Flags \cup {None}
    /\ changes \in 0..MaxChanges /\ fails \in 0..MaxFails
    /\ dirty \in BOOLEAN /\ triggered \in BOOLEAN
    /\ sockets \subseteq Subs /\ sending \subseteq Subs /\ failed \subseteq Subs
    /\ pc \in {"idle", "wait", "snap", "send"}
    /\ next \in 1..N+1
    /\ conn \in [Subs -> {"new", "open", "gone", "closed"}]
    /\ shown \in [Subs -> Flags \cup {None}]

AllOff == [p \in Project |-> [live |-> FALSE, hist |-> FALSE]]

Init ==
    /\ now = AllOff /\ changes = 0 /\ fails = 0
    /\ dirty = FALSE /\ sockets = {}
    /\ pc = "idle" /\ triggered = FALSE /\ next = 1 /\ acc = AllOff /\ last = None
    /\ sending = {} /\ failed = {}
    /\ conn = [w \in Subs |-> "new"] /\ shown = [w \in Subs |-> None]

-----------------------------------------------------------------------------
(* The world: sessions, histories and browsers *)

\* A session becomes live or stops being it, and calls changed().
LiveChanges(p) ==
    /\ changes < MaxChanges /\ changes' = changes + 1
    /\ now' = [now EXCEPT ![p].live = ~@]
    /\ dirty' = TRUE
    /\ UNCHANGED <<fails, sockets, runVars, conn, shown>>

\* A CLI outside of this program writes or deletes a session file.
HistChanges(p) ==
    /\ changes < MaxChanges /\ changes' = changes + 1
    /\ now' = [now EXCEPT ![p].hist = ~@]
    /\ UNCHANGED <<fails, dirty, sockets, runVars, conn, shown>>

\* The route project_status_ws: add().
Join(w) ==
    /\ conn[w] = "new"
    /\ conn' = [conn EXCEPT ![w] = "open"]
    /\ sockets' = sockets \cup {w}
    /\ dirty' = TRUE
    /\ UNCHANGED <<now, changes, fails, runVars, shown>>

Leave(w) ==
    /\ conn[w] = "open"
    /\ conn' = [conn EXCEPT ![w] = "gone"]
    /\ UNCHANGED <<now, changes, fails, dirty, sockets, runVars, shown>>

\* The route notices: discard().
Discard(w) ==
    /\ conn[w] = "gone"
    /\ conn' = [conn EXCEPT ![w] = "closed"]
    /\ sockets' = sockets \ {w}
    /\ UNCHANGED <<now, changes, fails, dirty, runVars, shown>>

-----------------------------------------------------------------------------
(* run() *)

\* The top of its loop: how it waits depends on whether anybody subscribes.
Top(subscribed) == pc' = IF subscribed = {} THEN "idle" ELSE "wait"

\* It begins a snapshot, because of a change or not.
Began(why) ==
    IF sockets = {}
    THEN Top({}) /\ UNCHANGED <<triggered, next>>
    ELSE /\ pc' = "snap" /\ next' = 1 /\ triggered' = why

\* _dirty was set.
Woken ==
    /\ pc \in {"idle", "wait"} /\ dirty
    /\ dirty' = FALSE
    /\ Began(TRUE)
    /\ UNCHANGED <<now, changes, fails, sockets, acc, last, sending, failed, conn,
                   shown>>

\* PROJECT_STATUS_REFRESH_INTERVAL is over; wait_for prefers an event that is set.
Refresh ==
    /\ pc = "wait" /\ ~dirty
    /\ Began(FALSE)
    /\ UNCHANGED <<now, changes, fails, dirty, sockets, acc, last, sending, failed,
                   conn, shown>>

\* snapshot() reads the next project; the history of Codex is awaited, so
\* anything may happen before the one after it.
SnapshotReads ==
    /\ pc = "snap" /\ next <= N
    /\ acc' = [acc EXCEPT ![next] = now[next]]
    /\ next' = next + 1
    /\ UNCHANGED <<now, changes, fails, dirty, sockets, pc, triggered, last, sending,
                   failed, conn, shown>>

\* Mutant: a failed snapshot ends the task.
SnapshotFailsForGood ==
    /\ pc = "snap" /\ fails < MaxFails
    /\ fails' = fails + 1
    /\ pc' = "dead"
    /\ UNCHANGED <<now, changes, dirty, sockets, triggered, next, acc, last, sending, failed,
                   conn, shown>>

\* A session file vanishes between listing and reading it, say.
SnapshotFails ==
    /\ pc = "snap" /\ fails < MaxFails
    /\ fails' = fails + 1
    /\ Top(sockets)
    /\ UNCHANGED <<now, changes, dirty, sockets, triggered, next, acc, last, sending,
                   failed, conn, shown>>

\* Mutant: what became dirty during the snapshot is taken for done.
BroadcastClearing ==
    /\ pc = "snap" /\ next = N + 1
    /\ dirty' = FALSE
    /\ IF (triggered \/ acc # last) /\ sockets # {}
       THEN pc' = "send" /\ sending' = sockets /\ failed' = {} /\ UNCHANGED last
       ELSE Top(sockets) /\ last' = acc /\ UNCHANGED <<sending, failed>>
    /\ UNCHANGED <<now, changes, fails, sockets, triggered, next, acc, conn, shown>>

\* The snapshot is complete; what it is worth sending goes to all who are
\* subscribed at this moment.
Broadcast ==
    /\ pc = "snap" /\ next = N + 1
    /\ IF (triggered \/ acc # last) /\ sockets # {}
       THEN pc' = "send" /\ sending' = sockets /\ failed' = {} /\ UNCHANGED last
       ELSE Top(sockets) /\ last' = acc /\ UNCHANGED <<sending, failed>>
    /\ UNCHANGED <<now, changes, fails, dirty, sockets, triggered, next, acc, conn,
                   shown>>

\* One browser takes the payload.
Sent(w) ==
    /\ w \in sending /\ conn[w] = "open"
    /\ shown' = [shown EXCEPT ![w] = acc]
    /\ sending' = sending \ {w}
    /\ UNCHANGED <<now, changes, fails, dirty, sockets, pc, triggered, next, acc, last,
                   failed, conn>>

\* A socket that is not open any more: send_text raises, or returns all the same.
SendFails(w) ==
    /\ w \in sending /\ conn[w] # "open"
    /\ sending' = sending \ {w}
    /\ failed' \in {failed, failed \cup {w}}
    /\ UNCHANGED <<now, changes, fails, dirty, sockets, pc, triggered, next, acc, last,
                   conn, shown>>

\* All sends have returned: gather() does, and failed sockets are discarded.
BroadcastDone ==
    /\ pc = "send" /\ sending = {}
    /\ sockets' = sockets \ failed
    /\ last' = acc
    /\ Top(sockets')
    /\ UNCHANGED <<now, changes, fails, dirty, triggered, next, acc, sending, failed,
                   conn, shown>>

-----------------------------------------------------------------------------
RunStep == Woken \/ SnapshotReads \/ Broadcast \/ BroadcastDone

Next ==
    \/ \E p \in Project : LiveChanges(p) \/ HistChanges(p)
    \/ \E w \in Subs : Join(w) \/ Leave(w) \/ Discard(w) \/ Sent(w) \/ SendFails(w)
    \/ RunStep \/ Refresh \/ SnapshotFails

Spec == Init /\ [][Next]_vars

\* The loop runs what is ready and the time-out expires.  Whether a browser
\* reads is a matter of its own.
FairSpec ==
    /\ Spec
    /\ WF_vars(RunStep) /\ WF_vars(Refresh)
    /\ \A w \in Subs : WF_vars(Discard(w)) /\ WF_vars(SendFails(w))
                        /\ WF_vars(Sent(w))

-----------------------------------------------------------------------------
(* Properties *)

Open(w) == w \in sockets /\ conn[w] = "open"

Live(payload) == [p \in Project |-> payload[p].live]

\* While the task waits and nothing is dirty, every open subscriber has the
\* live flags as they are: no change and no newcomer falls between the
\* snapshot, the sends and the clearing of the event (unless a snapshot failed).
UpToDate ==
    pc \in {"idle", "wait"} /\ ~dirty /\ fails = 0 =>
        \A w \in Subs : Open(w) => shown[w] # None /\ Live(shown[w]) = Live(now)

\* The invariant from which UpToDate follows.
IInv ==
    /\ TypeOK
    /\ \A w \in Subs : conn[w] = "new" => w \notin sockets \cup sending
    /\ pc # "send" => sending = {}
    /\ pc = "idle" => dirty \/ \A w \in Subs : ~Open(w)
    /\ pc = "snap" /\ ~dirty => \A p \in 1..next-1 : acc[p].live = now[p].live
    /\ pc = "send" /\ ~dirty => Live(acc) = Live(now)
    /\ pc = "send" => \A w \in failed : conn[w] \in {"gone", "closed"}
    /\ pc = "send" /\ ~dirty =>
         \A w \in Subs : Open(w) => w \in sending \/ shown[w] = acc
    /\ fails = 0 /\ ~dirty =>
         \/ pc = "send"
         \/ pc = "snap" /\ triggered
         \/ \A w \in Subs : Open(w) =>
                shown[w] # None /\ shown[w] = last /\ Live(last) = Live(now)

\* A browser that has seen a snapshot and stays sees the latest state in the
\* end, failed snapshots notwithstanding ("조회 실패 하나로 이 태스크가 죽으면 이후 세션
\* 변화도 사라진다", project_status.py:116).
ChangesSurvive ==
    <>[](\A w \in Subs : Open(w) /\ shown[w] # None => shown[w] = now)

\* Every subscriber gets a first snapshot ("첫 스냅샷도 단일 계산 경로를 탄다", :36).
FirstSnapshot == \A w \in Subs : Open(w) ~> ~Open(w) \/ shown[w] # None

=============================================================================
