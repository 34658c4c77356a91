----------------------------- MODULE SessionKey -----------------------------
(***************************************************************************)
(* One session key ("<project>#<agent>") of the session manager: the PTY   *)
(* sessions registered under it one after the other, and every task of the *)
(* event loop that touches them.                                           *)
(*                                                                         *)
(*   conn c   the route terminal_ws serving one WebSocket c                *)
(*   end e    one POST /api/session/end                                    *)
(*   grace c  the grace timer created when socket c detached               *)
(*   idle s   the idle countdown of session s                              *)
(*   exit s   the task _handle_exit of session s                           *)
(*   main     SessionManager.shutdown, run by the lifespan hook            *)
(*                                                                         *)
(* The loop is single threaded, so an action is what a task does between   *)
(* two suspension points.  The per-key asyncio.Lock hands itself over in   *)
(* FIFO order: lockQ is its queue and Head(lockQ) the task inside          *)
(* transition().  Keys share no state, so one key stands for all.          *)
(***************************************************************************)
EXTENDS Naturals, Sequences

CONSTANTS Conns,     \* WebSocket connections, each used once
          Enders,    \* end requests, each used once
          Sessions,  \* Session objects, each used once
          IdleOn,    \* idle_seconds > 0
          None       \* Python's None

ASSUME NoneAssumption == None \notin Conns \cup Sessions
ASSUME IdleAssumption == IdleOn \in BOOLEAN

VARIABLES
    lockQ,       \* the tasks holding (head) and awaiting the key's lock
    reg,         \* SessionManager.sessions[key]
    alive,       \* Session.alive
    terminating, \* Session.terminating
    child,       \* the forked process, as the kernel sees it
    ws,          \* Session.websocket
    writer,      \* Session._out_writer_ws
    graceRef,    \* Session._grace_task, named by the socket that left
    quiet,       \* now - last_activity has reached idle_seconds
    pc,          \* where each task is suspended
    on,          \* the Session a task works on
    victim,      \* the socket a task is waiting to see closed
    sock,        \* each WebSocket, as the server's side sees it
    left,        \* history: the last socket to detach from a session
    late,        \* history: the sockets attached to a session that had ended
    told         \* history: liveness at the last state_changed callback

vars == <<lockQ, reg, alive, terminating, child, ws, writer, graceRef, quiet,
          pc, on, victim, sock, left, late, told>>

Conn(c)  == <<"conn", c>>
End(e)   == <<"end", e>>
Grace(c) == <<"grace", c>>
Idle(s)  == <<"idle", s>>
Exit(s)  == <<"exit", s>>
Main     == <<"main", None>>

Task == ({"conn", "grace"} \X Conns) \cup ({"end"} \X Enders)
          \cup ({"idle", "exit"} \X Sessions) \cup {Main}

PC == {"init", "lock", "evict", "replay", "history", "oust", "close", "term",
       "open", "detach", "sleep", "ready", "done"}

\* The suspension points inside `async with manager.transition(key)`.
Critical == {"evict", "replay", "history", "oust", "close", "term"}

TypeOK ==
    /\ lockQ \in Seq(Task)
    /\ reg \in Sessions \cup {None}
    /\ alive \in [Sessions -> BOOLEAN]
    /\ terminating \in [Sessions -> BOOLEAN]
    /\ child \in [Sessions -> {"unborn", "running", "exited", "reaped"}]
    /\ ws \in [Sessions -> Conns \cup {None}]
    /\ writer \in [Sessions -> Conns \cup {None}]
    /\ graceRef \in [Sessions -> Conns \cup {None}]
    /\ quiet \in [Sessions -> BOOLEAN]
    /\ pc \in [Task -> PC]
    /\ on \in [Task -> Sessions \cup {None}]
    /\ victim \in [Task -> Conns \cup {None}]
    /\ sock \in [Conns -> {"init", "open", "stuck", "gone", "closed"}]
    /\ left \in [Sessions -> Conns \cup {None}]
    /\ late \subseteq Conns
    /\ told \in BOOLEAN

Init ==
    /\ lockQ = <<>>
    /\ reg = None
    /\ alive = [s \in Sessions |-> FALSE]
    /\ terminating = [s \in Sessions |-> FALSE]
    /\ child = [s \in Sessions |-> "unborn"]
    /\ ws = [s \in Sessions |-> None]
    /\ writer = [s \in Sessions |-> None]
    /\ graceRef = [s \in Sessions |-> None]
    /\ quiet = [s \in Sessions |-> FALSE]
    /\ pc = [t \in Task |-> "init"]
    /\ on = [t \in Task |-> IF t[1] \in {"idle", "exit"} THEN t[2] ELSE None]
    /\ victim = [t \in Task |-> None]
    /\ sock = [c \in Conns |-> "init"]
    /\ left = [s \in Sessions |-> None]
    /\ late = {}
    /\ told = FALSE

-----------------------------------------------------------------------------
(* Helpers shared by the handlers. *)

\* Mutant: transition() without the lock.
HoldsAnyway(t) == t \in Task

\* Task t is inside transition(): it has been handed the lock.
Holds(t) == lockQ # <<>> /\ Head(lockQ) = t

Release == lockQ' = Tail(lockQ)

\* get_live(key) is not None.
Live == reg # None /\ alive[reg] /\ ~terminating[reg]

\* get_live drops a registered session that is dead.
Pruned == IF reg # None /\ ~alive[reg] THEN None ELSE reg

\* Every change of Live is reported through the state_changed callback.
Notify == told' = Live'

\* cancel_grace: only the timer _grace_task refers to is cancelled.
GraceCancelled(s) ==
    IF graceRef[s] = None THEN pc ELSE [pc EXCEPT ![Grace(graceRef[s])] = "done"]

\* _cancel_idle: a countdown that already fired has cleared its reference.
IdleCancelled(at, s) ==
    IF at[Idle(s)] = "sleep" THEN [at EXCEPT ![Idle(s)] = "done"] ELSE at

\* Mutant: terminating is not set on entry.
TerminateUnmarked(t, s, at) ==
    /\ pc' = [IdleCancelled(at, s) EXCEPT ![t] = "term"]
    /\ on' = [on EXCEPT ![t] = s]
    /\ UNCHANGED <<lockQ, reg, alive, child, terminating, told>>

\* terminate() of a session that is alive, up to its first wait.  "at" is pc
\* after what the caller did before.
Terminate(t, s, at) ==
    /\ terminating' = [terminating EXCEPT ![s] = TRUE]
    /\ pc' = [IdleCancelled(at, s) EXCEPT ![t] = "term"]
    /\ on' = [on EXCEPT ![t] = s]
    /\ UNCHANGED <<lockQ, reg, alive, child>>
    /\ IF terminating[s] THEN UNCHANGED told ELSE Notify

\* A new session is spawned and registered and the socket attached to it: its
\* replay buffer is empty, so attach() suspends nowhere.
Spawned(c, s, aliveNow, childNow, sockNow) ==
    /\ child[s] = "unborn"
    /\ alive' = [aliveNow EXCEPT ![s] = TRUE]
    /\ child' = [childNow EXCEPT ![s] = "running"]
    /\ reg' = s
    /\ ws' = [ws EXCEPT ![s] = c]
    /\ writer' = [writer EXCEPT ![s] = c]
    /\ quiet' = [quiet EXCEPT ![s] = FALSE]
    /\ on' = [on EXCEPT ![Conn(c)] = s]
    /\ pc' = [pc EXCEPT ![Conn(c)] = "open",
                        ![Idle(s)] = IF IdleOn THEN "sleep" ELSE @]
    /\ sock' = sockNow
    /\ Release
    /\ UNCHANGED <<terminating, graceRef, left, late>>
    /\ Notify

\* pty.fork failed: the route raises, the server drops the socket.
SpawnFailed(c, aliveNow, childNow, sockNow) ==
    /\ alive' = aliveNow
    /\ child' = childNow
    /\ reg' = None
    /\ sock' = [sockNow EXCEPT ![c] = "closed"]
    /\ pc' = [pc EXCEPT ![Conn(c)] = "done"]
    /\ Release
    /\ UNCHANGED <<terminating, ws, writer, graceRef, quiet, on, left, late,
                   told>>

\* start_locked, its spawn included, after the previous session is gone.
Launch(c, aliveNow, childNow, sockNow) ==
    \/ \E s \in Sessions : Spawned(c, s, aliveNow, childNow, sockNow)
    \/ SpawnFailed(c, aliveNow, childNow, sockNow)

\* The wait for the victim of a close is over: the socket is closed, or the
\* browser did not read within the timeouts and is left alone ("stuck").
Closed(t) ==
    \E end \in {"closed", "stuck"} :
        sock' = [sock EXCEPT ![victim[t]] = IF @ = "open" THEN end ELSE @]

-----------------------------------------------------------------------------
(* terminal_ws: waiting for the lock, then get_live and its branches. *)

\* The route accepted the socket and asks for the lock.
Connect(c) ==
    /\ pc[Conn(c)] = "init" /\ pc[Main] = "init"
    /\ pc' = [pc EXCEPT ![Conn(c)] = "lock"]
    /\ sock' = [sock EXCEPT ![c] = "open"]
    /\ lockQ' = Append(lockQ, Conn(c))
    /\ UNCHANGED <<reg, alive, terminating, child, ws, writer, graceRef, quiet,
                   on, victim, left, late, told>>

\* attach() from its second half on: the socket owns the session and its
\* writer.  With output to replay the route suspends, still holding the lock.
Attached(c, s, at) ==
    /\ ws' = [ws EXCEPT ![s] = c]
    /\ writer' = [writer EXCEPT ![s] = c]
    /\ \/ /\ pc' = [at EXCEPT ![Conn(c)] = "replay"]
          /\ UNCHANGED lockQ
       \/ /\ pc' = [at EXCEPT ![Conn(c)] = "open"]
          /\ Release

\* A live session and a mode other than "new".  A socket still attached is
\* detached at once and then closed with 4000; the close is awaited.
Reattach(c) ==
    /\ pc[Conn(c)] = "lock" /\ Holds(Conn(c)) /\ Live
    /\ on' = [on EXCEPT ![Conn(c)] = reg]
    /\ graceRef' = [graceRef EXCEPT ![reg] = None]
    /\ quiet' = [quiet EXCEPT ![reg] = FALSE]
    /\ IF ws[reg] = None
       THEN Attached(c, reg, GraceCancelled(reg)) /\ UNCHANGED victim
       ELSE /\ victim' = [victim EXCEPT ![Conn(c)] = ws[reg]]
            /\ ws' = [ws EXCEPT ![reg] = None]
            /\ pc' = [GraceCancelled(reg) EXCEPT ![Conn(c)] = "evict"]
            /\ UNCHANGED <<writer, lockQ>>
    /\ UNCHANGED <<reg, alive, terminating, child, sock, left, late, told>>

\* old.close(4000) returned: the newcomer takes the session, without looking
\* whether it still lives.
EvictDone(c) ==
    /\ pc[Conn(c)] = "evict"
    /\ Attached(c, on[Conn(c)], pc)
    /\ sock' = [sock EXCEPT ![victim[Conn(c)]] = IF @ = "open" THEN "closed" ELSE @]
    /\ victim' = [victim EXCEPT ![Conn(c)] = None]
    /\ late' = IF alive[on[Conn(c)]] THEN late ELSE late \cup {c}
    /\ UNCHANGED <<reg, alive, terminating, child, graceRef, quiet, on, left,
                   told>>

\* The writer sent the replay frame, or failed to.
ReplayDone(c) ==
    /\ pc[Conn(c)] = "replay"
    /\ pc' = [pc EXCEPT ![Conn(c)] = "open"]
    /\ Release
    /\ UNCHANGED <<reg, alive, terminating, child, ws, writer, graceRef, quiet,
                   on, victim, sock, left, late, told>>

\* No live session and nothing to ask: mode "attach" or "new", the shell, or
\* a local Claude project, whose history is looked up synchronously.
StartFresh(c) ==
    /\ pc[Conn(c)] = "lock" /\ Holds(Conn(c)) /\ ~Live
    /\ Launch(c, alive, child, sock)
    /\ UNCHANGED victim

\* No live session and mode "resume" or "continue": the lookup is awaited.
AskHistory(c) ==
    /\ pc[Conn(c)] = "lock" /\ Holds(Conn(c)) /\ ~Live
    /\ reg' = Pruned
    /\ pc' = [pc EXCEPT ![Conn(c)] = "history"]
    /\ UNCHANGED <<lockQ, alive, terminating, child, ws, writer, graceRef,
                   quiet, on, victim, sock, left, late, told>>

\* The lookup said PRESENT or ABSENT: a process is started either way.
HistoryDone(c) ==
    /\ pc[Conn(c)] = "history"
    /\ Launch(c, alive, child, sock)
    /\ UNCHANGED victim

\* Mutant: a failed lookup is retried from the start.
HistoryErrorRetrying(c) ==
    /\ pc[Conn(c)] = "history"
    /\ pc' = [pc EXCEPT ![Conn(c)] = "lock"]
    /\ lockQ' = Append(Tail(lockQ), Conn(c))
    /\ UNCHANGED <<reg, alive, terminating, child, ws, writer, graceRef, quiet,
                   on, victim, sock, left, late, told>>

\* The remote lookup failed: status text, close 4410, no process.
HistoryError(c) ==
    /\ pc[Conn(c)] = "history"
    /\ pc' = [pc EXCEPT ![Conn(c)] = "done"]
    /\ sock' = [sock EXCEPT ![c] = IF @ = "open" THEN "closed" ELSE @]
    /\ Release
    /\ UNCHANGED <<reg, alive, terminating, child, ws, writer, graceRef, quiet,
                   on, victim, left, late, told>>

\* Mutant: the old socket is detached and forgotten.
ReplaceSilently(c) ==
    /\ pc[Conn(c)] = "lock" /\ Holds(Conn(c)) /\ Live
    /\ graceRef' = [graceRef EXCEPT ![reg] = None]
    /\ ws' = [ws EXCEPT ![reg] = None]
    /\ Terminate(Conn(c), reg, GraceCancelled(reg))
    /\ UNCHANGED <<writer, quiet, victim, sock, left, late>>

\* Mode "new" with a live session: start_locked ousts the attached socket
\* (closing it is awaited) or goes straight to terminate().
Replace(c) ==
    /\ pc[Conn(c)] = "lock" /\ Holds(Conn(c)) /\ Live
    /\ graceRef' = [graceRef EXCEPT ![reg] = None]
    /\ ws' = [ws EXCEPT ![reg] = None]
    /\ IF ws[reg] = None
       THEN Terminate(Conn(c), reg, GraceCancelled(reg)) /\ UNCHANGED victim
       ELSE /\ victim' = [victim EXCEPT ![Conn(c)] = ws[reg]]
            /\ pc' = [GraceCancelled(reg) EXCEPT ![Conn(c)] = "oust"]
            /\ on' = [on EXCEPT ![Conn(c)] = reg]
            /\ UNCHANGED <<lockQ, reg, alive, terminating, child, told>>
    /\ UNCHANGED <<writer, quiet, sock, left, late>>

\* The ousted socket is closed; a session that died meanwhile needs no
\* terminate() and the replacement starts at once.
OustDone(c) ==
    LET t == Conn(c)
        sockNow == [sock EXCEPT ![victim[t]] = IF @ = "open" THEN "closed" ELSE @]
    IN
    /\ pc[t] = "oust"
    /\ victim' = [victim EXCEPT ![t] = None]
    /\ IF alive[on[t]]
       THEN /\ Terminate(t, on[t], pc)
            /\ sock' = sockNow
            /\ UNCHANGED <<ws, writer, graceRef, quiet, left, late>>
       ELSE Launch(c, alive, child, sockNow)

-----------------------------------------------------------------------------
(* terminal_ws: the receive loop and detach. *)

\* The browser closes or vanishes, or the auth watchdog closes the socket.
Disconnect(c) ==
    /\ sock[c] \in {"open", "stuck"}
    /\ sock' = [sock EXCEPT ![c] = "gone"]
    /\ UNCHANGED <<lockQ, reg, alive, terminating, child, ws, writer, graceRef,
                   quiet, pc, on, victim, left, late, told>>

\* The outbound writer ends on its own: its socket is no longer open.
WriterEnds(s) ==
    /\ writer[s] # None
    /\ sock[writer[s]] # "open"
    /\ writer' = [writer EXCEPT ![s] = None]
    /\ UNCHANGED <<lockQ, reg, alive, terminating, child, ws, graceRef, quiet,
                   pc, on, victim, sock, left, late, told>>

\* Mutant: no timer when a writer had to be stopped first.
GraceStartedAtOnceOnly(c, s) ==
    IF alive[s] /\ pc[Conn(c)] # "detach"
    THEN /\ graceRef' = [graceRef EXCEPT ![s] = c]
         /\ on' = [on EXCEPT ![Grace(c)] = s]
         /\ pc' = [pc EXCEPT ![Conn(c)] = "done", ![Grace(c)] = "sleep"]
    ELSE /\ pc' = [pc EXCEPT ![Conn(c)] = "done"]
         /\ UNCHANGED <<graceRef, on>>

\* The end of detach(): the grace timer starts if the process still lives.
GraceStarted(c, s) ==
    IF alive[s]
    THEN /\ graceRef' = [graceRef EXCEPT ![s] = c]
         /\ on' = [on EXCEPT ![Grace(c)] = s]
         /\ pc' = [pc EXCEPT ![Conn(c)] = "done", ![Grace(c)] = "sleep"]
    ELSE /\ pc' = [pc EXCEPT ![Conn(c)] = "done"]
         /\ UNCHANGED <<graceRef, on>>

\* The receive loop saw its socket end.  A socket that still owns the session
\* gives it up; stopping its writer, if there is one, suspends.
Detach(c) ==
    LET s == on[Conn(c)] IN
    /\ pc[Conn(c)] = "open" /\ sock[c] \in {"gone", "closed"}
    /\ IF ws[s] # c
       THEN /\ pc' = [pc EXCEPT ![Conn(c)] = "done"]
            /\ UNCHANGED <<ws, graceRef, on, left>>
       ELSE /\ ws' = [ws EXCEPT ![s] = None]
            /\ left' = [left EXCEPT ![s] = c]
            /\ IF writer[s] = c
               THEN /\ pc' = [pc EXCEPT ![Conn(c)] = "detach"]
                    /\ UNCHANGED <<graceRef, on>>
               ELSE GraceStarted(c, s)
    /\ UNCHANGED <<lockQ, reg, alive, terminating, child, writer, quiet, victim,
                   sock, late, told>>

\* The writer is gone.  Whoever attached meanwhile is not looked at.
DetachDone(c) ==
    LET s == on[Conn(c)] IN
    /\ pc[Conn(c)] = "detach"
    /\ writer' = [writer EXCEPT ![s] = IF @ = c THEN None ELSE @]
    /\ GraceStarted(c, s)
    /\ UNCHANGED <<lockQ, reg, alive, terminating, child, ws, quiet, victim,
                   sock, left, late, told>>

-----------------------------------------------------------------------------
(* terminate(): the wait for the child, and what its callers do after it. *)

\* Task t lets the key go without having anything (more) to do.
Leaves(t) ==
    /\ pc' = [pc EXCEPT ![t] = "done"]
    /\ Release

\* _wait_reaped saw the child gone (escalating up to SIGKILL if need be).  The
\* entry is deleted only if it is still this session; "new" goes on to spawn.
TermDone(t) ==
    LET s == on[t]
        aliveNow == [alive EXCEPT ![s] = FALSE]
        childNow == [child EXCEPT ![s] = "reaped"]
    IN
    /\ pc[t] = "term" /\ t # Main
    /\ ~alive[s] \/ child[s] # "running"
    /\ IF t[1] = "conn"
       THEN Launch(t[2], aliveNow, childNow, sock)
       ELSE /\ alive' = aliveNow
            /\ child' = childNow
            /\ reg' = IF reg = s THEN None ELSE reg
            /\ Leaves(t)
            /\ UNCHANGED <<terminating, ws, writer, graceRef, quiet, on, sock,
                           left, late, told>>
    /\ UNCHANGED victim

\* _notify_and_terminate: the attached socket is detached at once and gets the
\* reason through the writer; closing it is awaited, for a bounded time.
NotifyAndTerminate(t, s, at) ==
    /\ ws' = [ws EXCEPT ![s] = None]
    /\ IF ws[s] # None /\ writer[s] = ws[s]
       THEN /\ victim' = [victim EXCEPT ![t] = ws[s]]
            /\ pc' = [at EXCEPT ![t] = "close"]
            /\ on' = [on EXCEPT ![t] = s]
            /\ UNCHANGED <<lockQ, reg, alive, terminating, child, told>>
       ELSE Terminate(t, s, at) /\ UNCHANGED victim

\* The reason was delivered or given up on: terminate(), which returns at once
\* if the process died by itself meanwhile.
CloseDone(t) ==
    LET s == on[t] IN
    /\ pc[t] = "close" /\ t[1] # "exit"
    /\ Closed(t)
    /\ victim' = [victim EXCEPT ![t] = None]
    /\ writer' = [writer EXCEPT ![s] = IF @ = victim[t] THEN None ELSE @]
    /\ IF alive[s]
       THEN Terminate(t, s, pc)
       ELSE /\ reg' = IF reg = s THEN None ELSE reg
            /\ Leaves(t)
            /\ UNCHANGED <<alive, terminating, child, on, told>>
    /\ UNCHANGED <<ws, graceRef, quiet, left, late>>

-----------------------------------------------------------------------------
(* SessionManager.end *)

EndRequest(e) ==
    /\ pc[End(e)] = "init" /\ pc[Main] = "init"
    /\ pc' = [pc EXCEPT ![End(e)] = "lock"]
    /\ lockQ' = Append(lockQ, End(e))
    /\ UNCHANGED <<reg, alive, terminating, child, ws, writer, graceRef, quiet,
                   on, victim, sock, left, late, told>>

\* With a live session: cancel_grace and end_now.
EndLive(e) ==
    /\ pc[End(e)] = "lock" /\ Holds(End(e)) /\ Live
    /\ graceRef' = [graceRef EXCEPT ![reg] = None]
    /\ NotifyAndTerminate(End(e), reg, GraceCancelled(reg))
    /\ UNCHANGED <<writer, quiet, sock, left, late>>

\* Mutant: with nothing to end, the request queues again.
EndNothingRetrying(e) ==
    /\ pc[End(e)] = "lock" /\ Holds(End(e)) /\ ~Live
    /\ reg' = Pruned
    /\ lockQ' = Append(Tail(lockQ), End(e))
    /\ UNCHANGED <<alive, terminating, child, ws, writer, graceRef, quiet, pc,
                   on, victim, sock, left, late, told>>

EndNothing(e) ==
    /\ pc[End(e)] = "lock" /\ Holds(End(e)) /\ ~Live
    /\ reg' = Pruned
    /\ Leaves(End(e))
    /\ UNCHANGED <<alive, terminating, child, ws, writer, graceRef, quiet, on,
                   victim, sock, left, late, told>>

-----------------------------------------------------------------------------
(* The grace timer *)

\* The sleep is over: the reference is dropped and the key's lock awaited.
GraceFires(c) ==
    /\ pc[Grace(c)] = "sleep"
    /\ pc' = [pc EXCEPT ![Grace(c)] = "lock"]
    /\ graceRef' = [graceRef EXCEPT ![on[Grace(c)]] = None]
    /\ lockQ' = Append(lockQ, Grace(c))
    /\ UNCHANGED <<reg, alive, terminating, child, ws, writer, quiet, on,
                   victim, sock, left, late, told>>

\* Mutant: attachment is not rechecked under the lock.
GraceExpiresBlindly(c) ==
    LET s == on[Grace(c)] IN
    /\ pc[Grace(c)] = "lock" /\ Holds(Grace(c))
    /\ IF reg = s /\ alive[s]
       THEN Terminate(Grace(c), s, pc)
       ELSE /\ Leaves(Grace(c))
            /\ UNCHANGED <<reg, alive, terminating, child, on, told>>
    /\ UNCHANGED <<ws, writer, graceRef, quiet, victim, sock, left, late>>

\* _expire_grace rechecks registration, attachment and life under the lock.
GraceExpires(c) ==
    LET s == on[Grace(c)] IN
    /\ pc[Grace(c)] = "lock" /\ Holds(Grace(c))
    /\ IF reg = s /\ ws[s] = None /\ alive[s]
       THEN Terminate(Grace(c), s, pc)
       ELSE /\ Leaves(Grace(c))
            /\ UNCHANGED <<reg, alive, terminating, child, on, told>>
    /\ UNCHANGED <<ws, writer, graceRef, quiet, victim, sock, left, late>>

-----------------------------------------------------------------------------
(* The idle countdown *)

\* idle_seconds pass without input, output or reattachment.
TimePasses(s) ==
    /\ IdleOn /\ alive[s] /\ ~quiet[s]
    /\ quiet' = [quiet EXCEPT ![s] = TRUE]
    /\ UNCHANGED <<lockQ, reg, alive, terminating, child, ws, writer, graceRef,
                   pc, on, victim, sock, left, late, told>>

\* Input of an attached browser or output of the process.
Activity(s) ==
    /\ alive[s] /\ quiet[s]
    /\ quiet' = [quiet EXCEPT ![s] = FALSE]
    /\ UNCHANGED <<lockQ, reg, alive, terminating, child, ws, writer, graceRef,
                   pc, on, victim, sock, left, late, told>>

\* The countdown finds no time remaining and goes for the lock.
IdleFires(s) ==
    /\ pc[Idle(s)] = "sleep" /\ quiet[s]
    /\ pc' = [pc EXCEPT ![Idle(s)] = "lock"]
    /\ lockQ' = Append(lockQ, Idle(s))
    /\ UNCHANGED <<reg, alive, terminating, child, ws, writer, graceRef, quiet,
                   on, victim, sock, left, late, told>>

\* _expire_idle rechecks registration and life under the lock.
IdleExpires(s) ==
    /\ pc[Idle(s)] = "lock" /\ Holds(Idle(s))
    /\ IF reg = s /\ alive[s]
       THEN NotifyAndTerminate(Idle(s), s, pc)
       ELSE /\ Leaves(Idle(s))
            /\ UNCHANGED <<reg, alive, terminating, child, ws, on, victim, told>>
    /\ UNCHANGED <<writer, graceRef, quiet, sock, left, late>>

-----------------------------------------------------------------------------
(* The end of the process by itself, or by a signal of terminate() *)

ChildExits(s) ==
    /\ child[s] = "running"
    /\ child' = [child EXCEPT ![s] = "exited"]
    /\ UNCHANGED <<lockQ, reg, alive, terminating, ws, writer, graceRef, quiet,
                   pc, on, victim, sock, left, late, told>>

\* _on_pty_readable reads EOF and creates the exit task.
Eof(s) ==
    /\ alive[s] /\ child[s] = "exited" /\ pc[Exit(s)] = "init"
    /\ pc' = [pc EXCEPT ![Exit(s)] = "ready"]
    /\ UNCHANGED <<lockQ, reg, alive, terminating, child, ws, writer, graceRef,
                   quiet, on, victim, sock, left, late, told>>

\* _handle_exit, without the lock: the child is reaped, and the socket that is
\* attached right now gets the exit code and is closed.
HandleExit(s) ==
    LET t == Exit(s)
        waits == ws[s] # None /\ writer[s] = ws[s]
        next == [pc EXCEPT ![t] = IF waits THEN "close" ELSE "done"]
    IN
    /\ pc[t] = "ready"
    /\ IF ~alive[s]
       THEN /\ pc' = [pc EXCEPT ![t] = "done"]
            /\ UNCHANGED <<alive, child, ws, victim, told>>
       ELSE /\ alive' = [alive EXCEPT ![s] = FALSE]
            /\ child' = [child EXCEPT ![s] = "reaped"]
            /\ ws' = [ws EXCEPT ![s] = None]
            /\ victim' = [victim EXCEPT ![t] = IF waits THEN ws[s] ELSE None]
            /\ pc' = IdleCancelled(next, s)
            /\ UNCHANGED <<reg, terminating>>
            /\ IF waits \/ terminating[s] THEN UNCHANGED told ELSE Notify
    /\ UNCHANGED <<lockQ, reg, terminating, writer, graceRef, quiet, on, sock,
                   left, late>>

\* Mutant: a natural exit is not reported.
ExitClosedSilently(s) ==
    LET t == Exit(s) IN
    /\ pc[t] = "close"
    /\ Closed(t)
    /\ pc' = [pc EXCEPT ![t] = "done"]
    /\ victim' = [victim EXCEPT ![t] = None]
    /\ writer' = [writer EXCEPT ![s] = IF @ = victim[t] THEN None ELSE @]
    /\ UNCHANGED <<lockQ, reg, alive, terminating, child, ws, graceRef, quiet,
                   on, left, late, told>>

\* The close is over; only a natural exit is news to the observers.
ExitClosed(s) ==
    LET t == Exit(s) IN
    /\ pc[t] = "close"
    /\ Closed(t)
    /\ pc' = [pc EXCEPT ![t] = "done"]
    /\ victim' = [victim EXCEPT ![t] = None]
    /\ writer' = [writer EXCEPT ![s] = IF @ = victim[t] THEN None ELSE @]
    /\ told' = IF terminating[s] THEN told ELSE Live
    /\ UNCHANGED <<lockQ, reg, alive, terminating, child, ws, graceRef, quiet,
                   on, left, late>>

-----------------------------------------------------------------------------
(* SessionManager.shutdown *)

\* Mutant: a session somebody else is terminating is not waited for.
BeginShutdownLive ==
    /\ pc[Main] = "init"
    /\ \A c \in Conns : pc[Conn(c)] \in {"init", "done"}
    /\ \A e \in Enders : pc[End(e)] \in {"init", "done"}
    /\ IF ~Live
       THEN /\ reg' = None
            /\ pc' = [pc EXCEPT ![Main] = "done"]
            /\ UNCHANGED <<lockQ, alive, terminating, child, graceRef, on, told>>
       ELSE /\ graceRef' = [graceRef EXCEPT ![reg] = None]
            /\ Terminate(Main, reg, GraceCancelled(reg))
    /\ UNCHANGED <<ws, writer, quiet, victim, sock, left, late>>

\* The server stops accepting and waits for its routes before the lifespan
\* hook runs; timers and exit tasks are still about.
BeginShutdown ==
    /\ pc[Main] = "init"
    /\ \A c \in Conns : pc[Conn(c)] \in {"init", "done"}
    /\ \A e \in Enders : pc[End(e)] \in {"init", "done"}
    /\ IF reg = None \/ ~alive[reg]
       THEN /\ reg' = None
            /\ pc' = [IF reg = None THEN pc ELSE GraceCancelled(reg)
                        EXCEPT ![Main] = "done"]
            /\ graceRef' = IF reg = None THEN graceRef
                           ELSE [graceRef EXCEPT ![reg] = None]
            /\ UNCHANGED <<lockQ, alive, terminating, child, on, told>>
       ELSE /\ graceRef' = [graceRef EXCEPT ![reg] = None]
            /\ Terminate(Main, reg, GraceCancelled(reg))
    /\ UNCHANGED <<ws, writer, quiet, victim, sock, left, late>>

ShutdownDone ==
    LET s == on[Main] IN
    /\ pc[Main] = "term"
    /\ ~alive[s] \/ child[s] # "running"
    /\ alive' = [alive EXCEPT ![s] = FALSE]
    /\ child' = [child EXCEPT ![s] = "reaped"]
    /\ ws' = [ws EXCEPT ![s] = None]
    /\ writer' = [writer EXCEPT ![s] = None]
    /\ reg' = None
    /\ pc' = [pc EXCEPT ![Main] = "done"]
    /\ UNCHANGED <<lockQ, terminating, graceRef, quiet, on, victim, sock, left,
                   late, told>>

\* The server has ended; a timer that is left may run until the loop closes.
Exited == pc[Main] = "done" /\ UNCHANGED vars

-----------------------------------------------------------------------------
ConnStep(c) ==
    \/ Reattach(c) \/ EvictDone(c) \/ ReplayDone(c) \/ StartFresh(c)
    \/ AskHistory(c) \/ HistoryDone(c) \/ HistoryError(c) \/ Replace(c)
    \/ OustDone(c) \/ Detach(c) \/ DetachDone(c)

EndStep(e) == EndLive(e) \/ EndNothing(e)

SessionStep(s) ==
    \/ IdleFires(s) \/ IdleExpires(s) \/ Eof(s) \/ HandleExit(s) \/ ExitClosed(s)

Environment ==
    \/ \E c \in Conns : Connect(c) \/ Disconnect(c)
    \/ \E e \in Enders : EndRequest(e)
    \/ \E s \in Sessions : \/ WriterEnds(s) \/ TimePasses(s) \/ Activity(s)
                           \/ ChildExits(s)
    \/ BeginShutdown

Next ==
    \/ \E c \in Conns : ConnStep(c) \/ GraceFires(c) \/ GraceExpires(c)
    \/ \E e \in Enders : EndStep(e)
    \/ \E s \in Sessions : SessionStep(s)
    \/ \E t \in Task : TermDone(t) \/ CloseDone(t)
    \/ ShutdownDone
    \/ Environment
    \/ Exited

Spec == Init /\ [][Next]_vars

(***************************************************************************)
(* Fairness.  The loop runs every ready task, timers expire, the writer's   *)
(* closes time out (3 s + 1 s), and SIGKILL ends a process that terminate() *)
(* waits for.  A step that awaits a browser without a timeout is fair only  *)
(* once that browser's socket has ended; FairSpec assumes in addition that  *)
(* browsers keep reading.  Nothing is assumed of requests, disconnections,  *)
(* natural exits and activity.                                              *)
(***************************************************************************)
\* The socket whose close task t awaits has ended.
VictimEnded(t) == victim[t] # None => sock[victim[t]] # "open"

ServerFairness ==
    /\ \A c \in Conns :
        /\ WF_vars(Reattach(c) \/ StartFresh(c) \/ Replace(c))
        /\ WF_vars(VictimEnded(Conn(c)) /\ EvictDone(c))
        /\ WF_vars(VictimEnded(Conn(c)) /\ OustDone(c))
        /\ WF_vars(sock[c] # "open" /\ ReplayDone(c))
        /\ WF_vars(HistoryDone(c) \/ (sock[c] # "open" /\ HistoryError(c)))
        /\ WF_vars(Detach(c))
        /\ WF_vars(DetachDone(c))
        /\ WF_vars(GraceFires(c))
        /\ WF_vars(GraceExpires(c))
    /\ \A e \in Enders : WF_vars(EndStep(e))
    /\ \A s \in Sessions :
        /\ WF_vars(IdleExpires(s))
        /\ WF_vars(HandleExit(s))
        /\ WF_vars(ExitClosed(s))
        /\ WF_vars(terminating[s] /\ ChildExits(s))
    /\ \A t \in Task : WF_vars(TermDone(t)) /\ WF_vars(CloseDone(t))
    /\ WF_vars(ShutdownDone)

BrowsersRead ==
    \A c \in Conns : WF_vars(EvictDone(c)) /\ WF_vars(OustDone(c))
                       /\ WF_vars(ReplayDone(c))

FairSpec == Spec /\ ServerFairness /\ BrowsersRead

-----------------------------------------------------------------------------
(* Safety *)

\* A process that is not reaped yet belongs to the one registered session, and
\* that session counts as alive: no second process runs under the key, and end,
\* new and shutdown can reach the one there is.
OneProcess ==
    \A s \in Sessions :
        child[s] \in {"running", "exited"} => alive[s] /\ reg = s

\* A socket is never attached to a session whose termination has begun
\* (terminal_ws, _expire_grace and _expire_idle decide under one lock); only
\* shutdown terminates under an attached socket.
NoneAttachedToDying ==
    \A s \in Sessions :
        ws[s] # None /\ terminating[s] => pc[Main] # "init"

\* A browser whose socket is open in the receive loop owns its session and the
\* session lives, or somebody is about to close the socket: whatever takes a
\* browser off its session, the end of the session included, tells it.  The one
\* exception is a browser that attach() put on a session that had already ended
\* during the close of the evicted socket (NotOnDeadPty, below).
NobodyForgotten ==
    \A c \in Conns :
        pc[Conn(c)] = "open" /\ sock[c] = "open"
          => \/ ws[on[Conn(c)]] = c /\ (alive[on[Conn(c)]] \/ c \in late)
             \/ \E t \in Task : victim[t] = c

\* cancel_grace can only hit a timer that is still asleep: a timer that waits
\* for the lock or terminates is out of reach (_grace_countdown, comment).
CancelHitsSleepers ==
    \A s \in Sessions :
        graceRef[s] # None => /\ pc[Grace(graceRef[s])] = "sleep"
                              /\ on[Grace(graceRef[s])] = s

\* The observers were last told the present liveness, except while a natural
\* exit waits for its socket to close before it reports.
ObserversKnow ==
    told # Live => \E s \in Sessions : pc[Exit(s)] = "close"

\* When shutdown() returns every child ever started has been reaped.
ShutdownReaps ==
    pc[Main] = "done" => \A s \in Sessions : child[s] \in {"unborn", "reaped"}

\* A task between two suspension points of transition() holds the lock.  (An
\* exit task closes, and shutdown terminates, without it.)
LockHeld ==
    \A t \in Task : pc[t] \in Critical /\ t[1] # "exit" /\ t # Main => Holds(t)

\* A living session is the registered one; an unused one is untouched.
LivesRegistered ==
    \A s \in Sessions : /\ alive[s] => reg = s
                        /\ child[s] = "unborn" => ~alive[s] /\ ~terminating[s]

\* A termination that has begun has somebody to finish it.
DyingIsHandled ==
    \A s \in Sessions :
        alive[s] /\ terminating[s] => \E t \in Task : pc[t] = "term" /\ on[t] = s

\* Whoever is about to start a process in place of s, or shuts s down, knows of
\* no other living session.
NoOtherLives ==
    \A t \in Task : \A s \in Sessions :
        /\ pc[t] = "history" => ~alive[s]
        /\ pc[t] \in {"oust", "close", "term"} /\ (t[1] = "conn" \/ t = Main)
             /\ alive[s] => on[t] = s

\* Whoever ousts, closes or terminates does it to a session; a route past its
\* judgment and a timer have theirs.
HasTarget ==
    \A t \in Task :
        \/ pc[t] \in {"oust", "close", "term"} /\ t[1] # "exit"
        \/ pc[t] \in {"evict", "replay", "open", "detach"} /\ t[1] = "conn"
        \/ pc[t] # "init" /\ t[1] = "grace"
        => on[t] \in Sessions

\* Shutdown finds no route at work and none starts afterwards.
RoutesGone ==
    pc[Main] # "init" =>
        /\ \A c \in Conns : pc[Conn(c)] \in {"init", "done"}
        /\ \A e \in Enders : pc[End(e)] \in {"init", "done"}

\* The suspension points each kind of task has, as far as the proof needs them,
\* and: the timer of a socket does not exist before its route is done.
OwnSteps ==
    /\ \A t \in Task : pc[t] = "history" => t[1] = "conn"
    /\ \A s \in Sessions : pc[Exit(s)] \in {"init", "ready", "close", "done"}
    /\ pc[Main] \in {"init", "term", "done"}
    /\ \A c \in Conns : pc[Conn(c)] # "done" => pc[Grace(c)] = "init"

\* The inductive invariant behind OneProcess and CancelHitsSleepers.
IInv ==
    /\ TypeOK
    /\ OneProcess
    /\ LivesRegistered
    /\ CancelHitsSleepers
    /\ LockHeld
    /\ DyingIsHandled
    /\ NoOtherLives
    /\ HasTarget
    /\ RoutesGone
    /\ OwnSteps

\* The manager implements the promise of LiveSlot.
Current == IF \E s \in Sessions : alive[s]
           THEN CHOOSE s \in Sessions : alive[s] ELSE None
Condemned == \E s \in Sessions : alive[s] /\ terminating[s]
Spent == {s \in Sessions : child[s] # "unborn"}

Slot == INSTANCE LiveSlot WITH slot <- Current, condemned <- Condemned, spent <- Spent

ImplementsSlot == Slot!Spec

-----------------------------------------------------------------------------
(* Liveness *)

\* An end request is answered.
EndCompletes ==
    \A e \in Enders : pc[End(e)] = "lock" ~> pc[End(e)] = "done"

\* A connection that waits for the key ends up attached or refused.
ConnectSettles ==
    \A c \in Conns : pc[Conn(c)] = "lock" ~> pc[Conn(c)] \in {"open", "done"}

\* A session that nobody is attached to is taken up again or ends: none runs
\* on without a timer.
AbandonedSettles ==
    \A s \in Sessions : (alive[s] /\ ws[s] = None)
                          ~> (~alive[s] \/ ws[s] # None)

-----------------------------------------------------------------------------
(* Statements of the documentation that the code does not keep *)

\* "죽어가는 PTY에 붙는 경합을 막았다" (CHANGELOG.md:18, of concurrent requests for
\* one key): no browser sits on a session that has ended, unless somebody is
\* about to close its socket.  attach() (session.py:680-683) lets one.
NotOnDeadPty ==
    \A c \in Conns :
        pc[Conn(c)] = "open" /\ sock[c] = "open"
          => alive[on[Conn(c)]] \/ \E t \in Task : victim[t] = c

\* "WebSocket이 끊겨도 유예 시간 동안 프로세스를 유지하고" (session.py:4): the timer
\* that ends a session was started by the last socket that left it.
GraceKillsAfterItsDetach ==
    [][\A c \in Conns :
        LET s == on[Grace(c)] IN
        pc[Grace(c)] = "lock" /\ pc'[Grace(c)] = "term" => left[s] = c]_vars

=============================================================================
