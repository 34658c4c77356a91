------------------------------ MODULE ChildEnd ------------------------------
(***************************************************************************)
(* How the process of a session is ended and reaped (session.py): every    *)
(* terminate() sends SIGHUP, SIGTERM and SIGKILL one after the other and   *)
(* polls for the end of the process in between, several of them may run at *)
(* a time, and _handle_exit reaps too when the terminal reports its end.   *)
(* A tick is the tenth of a second that the polling sleeps.                *)
(***************************************************************************)
EXTENDS Integers

CONSTANTS Terms,     \* calls of terminate(): by end, expiry, shutdown, ...
          HupWait,   \* SIGHUP_WAIT, in ticks
          TermWait,  \* SIGTERM_WAIT, in ticks
          KillWait,  \* the second after SIGKILL, in ticks
          Deaf,      \* the signals the process ignores
          CanDetach  \* the process may close its terminal and run on

ASSUME WaitAssumption ==
    /\ HupWait \in Nat \ {0} /\ TermWait \in Nat /\ HupWait < TermWait
    /\ KillWait \in Nat /\ KillWait >= 2
ASSUME ChildAssumption == Deaf \subseteq {"HUP", "TERM"} /\ CanDetach \in BOOLEAN

VARIABLES
    child,       \* the process: "runs", "zombie" or "reaped"
    doomed,      \* it is about to die of a signal
    killed,      \* SIGKILL was sent
    tty,         \* some process has the terminal open
    alive,       \* Session.alive
    terminating, \* Session.terminating
    reader,      \* _reader_registered
    exit,        \* the task _handle_exit: "none", "ready" or "done"
    blocked,     \* the whole loop is blocked in _reap
    stage,       \* each terminate(): "idle", "hup", "term", "kill" or "done"
    left,        \* polls it has left in this phase
    spent        \* ticks it has slept

endVars == <<child, doomed, killed, tty, alive, terminating, reader, exit, blocked,
             stage, left, spent>>

EndTypeOK ==
    /\ child \in {"runs", "zombie", "reaped"}
    /\ doomed \in BOOLEAN /\ killed \in BOOLEAN /\ tty \in BOOLEAN
    /\ alive \in BOOLEAN /\ terminating \in BOOLEAN /\ reader \in BOOLEAN
    /\ exit \in {"none", "ready", "done"} /\ blocked \in BOOLEAN
    /\ stage \in [Terms -> {"idle", "hup", "term", "kill", "done"}]
    /\ left \in [Terms -> Nat] /\ spent \in [Terms -> Nat]

EndInit ==
    /\ child = "runs" /\ doomed = FALSE /\ killed = FALSE /\ tty = TRUE
    /\ alive = TRUE /\ terminating = FALSE /\ reader = TRUE
    /\ exit = "none" /\ blocked = FALSE
    /\ stage = [t \in Terms |-> "idle"]
    /\ left = [t \in Terms |-> 0] /\ spent = [t \in Terms |-> 0]

-----------------------------------------------------------------------------
(* The process *)

\* By itself, or of a signal.
ChildDies ==
    /\ child = "runs"
    /\ child' = "zombie"
    /\ UNCHANGED <<doomed, killed, tty, alive, terminating, reader, exit, blocked,
                   stage, left, spent>>

\* The last descriptor of the terminal is closed: after the process, which jobs
\* of its own may survive, or while it runs on.
TtyCloses ==
    /\ tty /\ (child # "runs" \/ CanDetach)
    /\ tty' = FALSE
    /\ UNCHANGED <<child, doomed, killed, alive, terminating, reader, exit, blocked,
                   stage, left, spent>>

\* _signal_group; a process that is reaped already is none of its business.
Signal(sig) ==
    /\ doomed' = (doomed \/ (child = "runs" /\ sig \notin Deaf))
    /\ killed' = (killed \/ sig = "KILL")

-----------------------------------------------------------------------------
(* terminate() *)

\* Its end: alive is cleared and the descriptor closed (_cleanup_fd).
Finish(t) ==
    /\ stage' = [stage EXCEPT ![t] = "done"]
    /\ alive' = FALSE /\ reader' = FALSE
    /\ UNCHANGED <<left, spent>>

\* One round of _wait_reaped in a phase that has n rounds left, this one
\* included.  It is over if _handle_exit or another terminate() was first.
Poll(t, phase, n) ==
    IF ~alive \/ child # "runs"
    THEN /\ child' = IF alive THEN "reaped" ELSE child
         /\ Finish(t)
    ELSE /\ stage' = [stage EXCEPT ![t] = phase]
         /\ left' = [left EXCEPT ![t] = n - 1]
         /\ spent' = [spent EXCEPT ![t] = @ + 1]
         /\ UNCHANGED <<child, alive, reader>>

\* Mutant: only the first of several calls does the work.
TerminateOnce(t) ==
    /\ ~blocked /\ stage[t] = "idle"
    /\ IF ~alive \/ terminating
       THEN /\ stage' = [stage EXCEPT ![t] = "done"]
            /\ UNCHANGED <<child, doomed, killed, alive, terminating, reader, left, spent>>
       ELSE /\ terminating' = TRUE
            /\ Signal("HUP")
            /\ Poll(t, "hup", HupWait)
    /\ UNCHANGED <<tty, exit, blocked>>

Terminate(t) ==
    /\ ~blocked /\ stage[t] = "idle"
    /\ IF ~alive
       THEN /\ stage' = [stage EXCEPT ![t] = "done"]
            /\ UNCHANGED <<child, doomed, killed, alive, terminating, reader, left, spent>>
       ELSE /\ terminating' = TRUE
            /\ Signal("HUP")
            /\ Poll(t, "hup", HupWait)
    /\ UNCHANGED <<tty, exit, blocked>>

\* A sleep of t is over.  The kernel is given one for a SIGKILL.
Awake(t) ==
    /\ ~blocked /\ stage[t] \in {"hup", "term", "kill"}
    /\ killed => child # "runs"
    /\ UNCHANGED <<tty, terminating, exit, blocked>>

PollAgain(t) ==
    /\ Awake(t) /\ left[t] > 0
    /\ Poll(t, stage[t], left[t])
    /\ UNCHANGED <<doomed, killed>>

\* Mutant: SIGTERM gets its wait on top of that of SIGHUP.
EscalateGenerously(t) ==
    /\ Awake(t) /\ left[t] = 0
    /\ \/ stage[t] = "hup" /\ Signal("TERM") /\ Poll(t, "term", TermWait)
       \/ stage[t] = "term" /\ Signal("KILL") /\ Poll(t, "kill", KillWait)
       \/ stage[t] = "kill" /\ Finish(t) /\ UNCHANGED <<child, doomed, killed>>

\* Mutant: SIGKILL is never sent.
EscalateGently(t) ==
    /\ Awake(t) /\ left[t] = 0
    /\ \/ stage[t] = "hup" /\ Signal("TERM") /\ Poll(t, "term", TermWait - HupWait)
       \/ /\ stage[t] = "term" /\ Signal("TERM")
          /\ UNCHANGED <<child, alive, reader, stage, left, spent>>

\* The phase is over: the next signal, or the end whatever has come of it.
Escalate(t) ==
    /\ Awake(t) /\ left[t] = 0
    /\ \/ stage[t] = "hup" /\ Signal("TERM") /\ Poll(t, "term", TermWait - HupWait)
       \/ stage[t] = "term" /\ Signal("KILL") /\ Poll(t, "kill", KillWait)
       \/ stage[t] = "kill" /\ Finish(t) /\ UNCHANGED <<child, doomed, killed>>

-----------------------------------------------------------------------------
(* The end of the output *)

\* _on_pty_readable reads the end of the output.
Eof ==
    /\ ~blocked /\ reader /\ ~tty
    /\ reader' = FALSE
    /\ exit' = IF exit = "none" THEN "ready" ELSE exit
    /\ UNCHANGED <<child, doomed, killed, tty, alive, terminating, blocked, stage, left,
                   spent>>

\* _handle_exit: it waits for the process without giving way to the loop.
HandleExit ==
    /\ ~blocked /\ exit = "ready"
    /\ exit' = "done"
    /\ IF ~alive
       THEN UNCHANGED <<child, alive, reader, blocked>>
       ELSE /\ alive' = FALSE /\ reader' = FALSE
            /\ blocked' = (child = "runs")
            /\ child' = IF child = "runs" THEN child ELSE "reaped"
    /\ UNCHANGED <<doomed, killed, tty, terminating, stage, left, spent>>

Unblock ==
    /\ blocked /\ child = "zombie"
    /\ child' = "reaped" /\ blocked' = FALSE
    /\ UNCHANGED <<doomed, killed, tty, alive, terminating, reader, exit, stage, left,
                   spent>>

-----------------------------------------------------------------------------
EndNext ==
    \/ ChildDies \/ TtyCloses \/ Eof \/ HandleExit \/ Unblock
    \/ \E t \in Terms : Terminate(t) \/ PollAgain(t) \/ Escalate(t)

EndSpec == EndInit /\ [][EndNext]_endVars

\* The loop runs, sleeps end, and a signal that is not ignored is obeyed.
EndFairSpec ==
    /\ EndSpec
    /\ WF_endVars((doomed \/ killed) /\ ChildDies)
    /\ WF_endVars(child # "runs" /\ TtyCloses)
    /\ WF_endVars(Eof) /\ WF_endVars(HandleExit) /\ WF_endVars(Unblock)
    /\ \A t \in Terms : WF_endVars(PollAgain(t)) /\ WF_endVars(Escalate(t))

-----------------------------------------------------------------------------
(* Properties *)

\* No zombie is left by any of the paths, however they overlap, and no
\* terminate() returns, and lets shutdown go on, before the process is reaped
\* ("막으면 먼저 들어온 쪽이 끝나기 전에 shutdown이 빠져나갈 수 있다").
NoZombie ==
    /\ ~alive => child = "reaped" \/ blocked
    /\ \A t \in Terms : stage[t] = "done" => child = "reaped"

\* No terminate() sleeps longer than SIGTERM_WAIT and the second for SIGKILL
\* that comes on top of it, on which shutdown and stop.sh build their waits.
Budget == \A t \in Terms : spent[t] <= TermWait + KillWait

\* What the two are proved from: what a terminate() has slept and has yet to
\* sleep add up to the end of its phase, and the last phase begins with two rounds
\* of which it needs one.
Phases(t) ==
    /\ stage[t] = "idle" => spent[t] = 0
    /\ stage[t] = "hup" => spent[t] + left[t] = HupWait
    /\ stage[t] = "term" => spent[t] + left[t] = TermWait
    /\ stage[t] = "kill" => killed /\ left[t] > 0 /\ spent[t] + left[t] = TermWait + KillWait
    /\ stage[t] = "done" => spent[t] <= TermWait + KillWait

EndIInv == EndTypeOK /\ NoZombie /\ \A t \in Terms : Phases(t)

\* A process that is being terminated is reaped in the end, whatever signals it
\* ignores, unless _reap has stopped the loop.
Gone == terminating ~> child = "reaped" \/ blocked

\* Nothing holds the loop for ever: _reap is called in the belief that the end of
\* the output is the end of the process ("EIO: 자식 종료로 slave가 닫힘",
\* session.py:396).
LoopRuns == blocked ~> ~blocked
=============================================================================
