------------------------------ MODULE Outbound ------------------------------
(***************************************************************************)
(* The way of a session's output to its browsers: the PTY reader, the      *)
(* replay buffer, the queue with its one writer task per attachment, and   *)
(* the watermarks that pause and resume the reader (session.py).           *)
(*                                                                         *)
(* Output is counted in chunks 1, 2, 3, ...; a frame is an interval of     *)
(* them.  Status texts carry no output and are left out; the exit text and *)
(* the close are frames.  The tasks are the route of each socket, which    *)
(* attaches and detaches it, and the three that close an attached socket:  *)
(* end_now, _handle_exit and the watchdog of the authentication.  Attach   *)
(* and end run under the key's lock, one at a time; the others without it. *)
(***************************************************************************)
EXTENDS Integers, FiniteSets, Sequences, Functions

CONSTANTS Socks,  \* WebSockets, each attached once
          Buffer, \* BUFFER_LIMIT, in chunks
          High,   \* OUTPUT_HIGH_WATERMARK
          Low,    \* OUTPUT_LOW_WATERMARK
          MaxOut, \* bound: chunks the process writes
          None

Closers == {"end", "exit", "auth"}

Out(a, b) == [kind |-> "out", from |-> a, to |-> b]
Control(k) == [kind |-> k, from |-> 0, to |-> 0]

Frame == [kind : {"out", "exit", "close"}, from : 0..MaxOut, to : 0..MaxOut]

ASSUME SocksAssumption == IsFiniteSet(Socks) /\ Closers \cap Socks = {}
ASSUME NoneAssumption == None \notin Socks \cup Frame
ASSUME WatermarkAssumption ==
    /\ Buffer \in Nat \ {0} /\ High \in Nat /\ Low \in Nat /\ MaxOut \in Nat
    /\ Buffer <= Low /\ Low < High

VARIABLES
    n,       \* chunks read from the PTY; the buffer holds the last of them
    child,   \* the process: "runs" or "exited"
    life,    \* the Session: "live", "terminating" or "dead"
    reading, \* _reader_registered
    paused,  \* _pty_reader_paused
    ws,      \* websocket
    writer,  \* _out_writer_ws: whose are _out_queue and _out_writer_task
    pending, \* _out_pending_bytes
    queue,   \* the queue of each attachment
    current, \* what its writer task is sending, or None
    task,    \* the writer task: "none", "runs", "cancelled" or "done"
    pc,      \* where each route and closer is
    victim,  \* the socket it is getting rid of
    sock,    \* "open", "gone" (the browser left) or "closed" (by the server)
    got      \* history: the frames each browser has received

vars == <<n, child, life, reading, paused, ws, writer, pending, queue, current,
          task, pc, victim, sock, got>>

Size(f) == IF f # None /\ f.kind = "out" THEN f.to - f.from + 1 ELSE 0

TypeOK ==
    /\ n \in 0..MaxOut
    /\ child \in {"runs", "exited"}
    /\ life \in {"live", "terminating", "dead"}
    /\ reading \in BOOLEAN /\ paused \in BOOLEAN
    /\ ws \in Socks \cup {None} /\ writer \in Socks \cup {None}
    /\ pending \in Nat
    /\ queue \in [Socks -> Seq(Frame)] /\ got \in [Socks -> Seq(Frame)]
    /\ current \in [Socks -> Frame \cup {None}]
    /\ task \in [Socks -> {"none", "runs", "cancelled", "done"}]
    /\ pc \in [Socks \cup Closers ->
                 {"init", "ready", "stop", "evict", "replay", "open", "leave",
                  "close", "term", "done"}]
    /\ victim \in [Socks \cup Closers -> Socks \cup {None}]
    /\ sock \in [Socks -> {"open", "gone", "closed"}]

Init ==
    /\ n = 0 /\ child = "runs" /\ life = "live"
    /\ reading = TRUE /\ paused = FALSE
    /\ ws = None /\ writer = None /\ pending = 0
    /\ queue = [c \in Socks |-> <<>>] /\ current = [c \in Socks |-> None]
    /\ task = [c \in Socks |-> "none"]
    /\ pc = [x \in Socks \cup Closers |-> "init"]
    /\ victim = [x \in Socks \cup Closers |-> None]
    /\ sock = [c \in Socks |-> "open"]
    /\ got = [c \in Socks |-> <<>>]

-----------------------------------------------------------------------------
(* The reader and its watermarks *)

\* Mutant: the reader is not put back.
ResumedLate(p) ==
    IF paused /\ p <= Low
    THEN paused' = FALSE /\ UNCHANGED reading
    ELSE UNCHANGED <<paused, reading>>

\* _resume_pty_reader, called with p chunks pending.
Resumed(p) ==
    IF paused /\ p <= Low
    THEN paused' = FALSE /\ reading' = (reading \/ life = "live")
    ELSE UNCHANGED <<paused, reading>>

\* Output enters the queue of socket c; at the high watermark the reader
\* pauses.
Enqueued(c, f) ==
    /\ queue' = [queue EXCEPT ![c] = Append(@, f)]
    /\ pending' = pending + Size(f)
    /\ IF pending' >= High /\ ~paused /\ life # "dead"
       THEN paused' = TRUE /\ reading' = FALSE
       ELSE UNCHANGED <<paused, reading>>

\* Mutant: output read during a replay is only buffered.
ReadSkippingReplay ==
    /\ reading /\ n < MaxOut
    /\ n' = n + 1
    /\ IF ws # None /\ writer # None /\ pc[ws] # "replay"
       THEN Enqueued(writer, Out(n', n'))
       ELSE UNCHANGED <<queue, pending, paused, reading>>
    /\ UNCHANGED <<child, life, ws, writer, current, task, pc, victim, sock, got>>

\* _on_pty_readable with data: buffered, and queued for an attached socket.
Read ==
    /\ reading /\ n < MaxOut
    /\ n' = n + 1
    /\ IF ws # None /\ writer # None
       THEN Enqueued(writer, Out(n', n'))
       ELSE UNCHANGED <<queue, pending, paused, reading>>
    /\ UNCHANGED <<child, life, ws, writer, current, task, pc, victim, sock, got>>

ChildExits ==
    /\ child = "runs"
    /\ child' = "exited"
    /\ UNCHANGED <<n, life, reading, paused, ws, writer, pending, queue, current,
                   task, pc, victim, sock, got>>

\* _on_pty_readable at the end of the output.
Eof ==
    /\ reading /\ child = "exited"
    /\ reading' = FALSE
    /\ pc' = [pc EXCEPT !["exit"] = IF @ = "init" THEN "ready" ELSE @]
    /\ UNCHANGED <<n, child, life, paused, ws, writer, pending, queue, current,
                   task, victim, sock, got>>

-----------------------------------------------------------------------------
(* _outbound_writer *)

\* It takes the next frame and begins to send it.
Take(c) ==
    /\ task[c] = "runs" /\ current[c] = None /\ queue[c] # <<>>
    /\ current' = [current EXCEPT ![c] = Head(queue[c])]
    /\ queue' = [queue EXCEPT ![c] = Tail(@)]
    /\ UNCHANGED <<n, child, life, reading, paused, ws, writer, pending, task, pc,
                   victim, sock, got>>

Received(c) == got' = [got EXCEPT ![c] = Append(@, current[c])]

\* The browser took the frame.
Sent(c) ==
    /\ task[c] = "runs" /\ current[c] # None /\ sock[c] = "open"
    /\ current[c].kind # "close"
    /\ Received(c)
    /\ current' = [current EXCEPT ![c] = None]
    /\ pending' = pending - Size(current[c])
    /\ Resumed(pending')
    /\ UNCHANGED <<n, child, life, ws, writer, queue, task, pc, victim, sock>>

\* Chunks in the queue of c and in the hand of its writer.
Held(c) == Size(current[c]) + SumFunction([i \in 1..Len(queue[c]) |-> Size(queue[c][i])])

\* Mutant: a writer that ends forgets what is left in its queue.
EndedForgetting(c) ==
    /\ queue' = [queue EXCEPT ![c] = <<>>]
    /\ current' = [current EXCEPT ![c] = None]
    /\ pending' = pending - Size(current[c])
    /\ Resumed(pending')
    /\ task' = [task EXCEPT ![c] = "done"]
    /\ writer' = IF writer = c THEN None ELSE writer

\* Its end, for whatever reason: the rest of the queue is dropped and paid
\* back, and the session's references are cleared if they are still its own.
Ended(c) ==
    /\ queue' = [queue EXCEPT ![c] = <<>>]
    /\ current' = [current EXCEPT ![c] = None]
    /\ pending' = pending - Held(c)
    /\ Resumed(pending')
    /\ task' = [task EXCEPT ![c] = "done"]
    /\ writer' = IF writer = c THEN None ELSE writer

\* A close was sent.
SentClose(c) ==
    /\ task[c] = "runs" /\ current[c] # None /\ sock[c] = "open"
    /\ current[c].kind = "close"
    /\ Received(c)
    /\ sock' = [sock EXCEPT ![c] = "closed"]
    /\ Ended(c)
    /\ UNCHANGED <<n, child, life, ws, pc, victim>>

\* The socket is not open any more: sending raises.
SendFails(c) ==
    /\ task[c] = "runs" /\ current[c] # None /\ sock[c] # "open"
    /\ Ended(c)
    /\ UNCHANGED <<n, child, life, ws, pc, victim, sock, got>>

\* It is cancelled, where it waits for a frame or while it sends one, which
\* may or may not reach the browser.
Cancelled(c) ==
    /\ task[c] = "cancelled"
    /\ \/ UNCHANGED got
       \/ /\ current[c] # None /\ current[c].kind # "close" /\ sock[c] = "open"
          /\ Received(c)
    /\ Ended(c)
    /\ UNCHANGED <<n, child, life, ws, pc, victim, sock>>

\* _stop_outbound_writer, up to the wait for the task, which Stopped ends.
Stop(c) == task' = IF writer = c THEN [task EXCEPT ![c] = "cancelled"] ELSE task

Stopped(c) == task[c] # "cancelled"

-----------------------------------------------------------------------------
(* attach and detach *)

\* Somebody is inside transition(key).
Locked ==
    \/ \E c \in Socks : pc[c] \in {"stop", "evict", "replay"}
    \/ pc["end"] \in {"close", "stop", "term"}

\* attach() from its second half on: a new queue and task, the replay first.
Attached(c) ==
    /\ ws' = c /\ writer' = c
    /\ task' = [task EXCEPT ![c] = "runs"]
    /\ IF n = 0
       THEN /\ pc' = [pc EXCEPT ![c] = "open"]
            /\ UNCHANGED <<queue, pending, paused, reading>>
       ELSE /\ pc' = [pc EXCEPT ![c] = "replay"]
            /\ Enqueued(c, Out(IF n > Buffer THEN n - Buffer + 1 ELSE 1, n))

\* get_live found the session.  An attached socket is let go at once, its
\* writer stopped.
Attach(c) ==
    /\ pc[c] = "init" /\ ~Locked /\ life = "live"
    /\ IF ws = None
       THEN Attached(c) /\ UNCHANGED victim
       ELSE /\ ws' = None
            /\ Stop(ws)
            /\ victim' = [victim EXCEPT ![c] = ws]
            /\ pc' = [pc EXCEPT ![c] = "stop"]
            /\ UNCHANGED <<writer, queue, pending, paused, reading>>
    /\ UNCHANGED <<n, child, life, current, sock, got>>

\* The old writer has ended: the old socket is closed with 4000.
Evict(c) ==
    /\ pc[c] = "stop" /\ Stopped(victim[c])
    /\ pc' = [pc EXCEPT ![c] = "evict"]
    /\ UNCHANGED <<n, child, life, reading, paused, ws, writer, pending, queue,
                   current, task, victim, sock, got>>

EvictDone(c) ==
    /\ pc[c] = "evict"
    /\ sock' = [sock EXCEPT ![victim[c]] = IF @ = "open" THEN "closed" ELSE @]
    /\ victim' = [victim EXCEPT ![c] = None]
    /\ Attached(c)
    /\ UNCHANGED <<n, child, life, current, got>>

\* The replay, the first frame of the queue, was sent or given up.
ReplayDone(c) ==
    /\ pc[c] = "replay"
    /\ got[c] # <<>> \/ task[c] = "done"
    /\ pc' = [pc EXCEPT ![c] = "open"]
    /\ UNCHANGED <<n, child, life, reading, paused, ws, writer, pending, queue,
                   current, task, victim, sock, got>>

\* The browser leaves.
Disconnect(c) ==
    /\ pc[c] \notin {"init", "done"} /\ sock[c] = "open"
    /\ sock' = [sock EXCEPT ![c] = "gone"]
    /\ UNCHANGED <<n, child, life, reading, paused, ws, writer, pending, queue,
                   current, task, pc, victim, got>>

\* The receive loop ends: detach().
Detach(c) ==
    /\ pc[c] = "open" /\ sock[c] # "open"
    /\ IF ws = c
       THEN ws' = None /\ Stop(c) /\ pc' = [pc EXCEPT ![c] = "leave"]
       ELSE pc' = [pc EXCEPT ![c] = "done"] /\ UNCHANGED <<ws, task>>
    /\ UNCHANGED <<n, child, life, reading, paused, writer, pending, queue, current,
                   victim, sock, got>>

DetachDone(c) ==
    /\ pc[c] = "leave" /\ Stopped(c)
    /\ pc' = [pc EXCEPT ![c] = "done"]
    /\ UNCHANGED <<n, child, life, reading, paused, ws, writer, pending, queue,
                   current, task, victim, sock, got>>

-----------------------------------------------------------------------------
(* Closing the attached socket through its writer *)

\* _wait_outbound_close of task x for socket c, after the texts that announce
\* it; "next" is where x goes when there is no queue.
CloseQueued(x, c, texts, next) ==
    IF c # None /\ writer = c
    THEN /\ queue' = [queue EXCEPT ![c] = @ \o texts \o <<Control("close")>>]
         /\ victim' = [victim EXCEPT ![x] = c]
         /\ pc' = [pc EXCEPT ![x] = "close"]
    ELSE /\ pc' = [pc EXCEPT ![x] = next]
         /\ UNCHANGED <<queue, victim>>

\* SessionManager.end of a live session.
End ==
    /\ pc["end"] = "init" /\ ~Locked /\ life = "live"
    /\ ws' = None
    /\ CloseQueued("end", ws, <<>>, "term")
    /\ life' = IF pc'["end"] = "term" THEN "terminating" ELSE life
    /\ UNCHANGED <<n, child, reading, paused, writer, pending, current, task, sock,
                   got>>

\* Mutant: the exit text overtakes the queued output.
HandleExitAtOnce ==
    /\ pc["exit"] = "ready" /\ life # "dead"
    /\ life' = "dead"
    /\ reading' = FALSE /\ paused' = FALSE
    /\ ws' = None
    /\ IF ws # None /\ writer = ws
       THEN /\ queue' = [queue EXCEPT ![ws] = <<Control("exit")>> \o @
                                                \o <<Control("close")>>]
            /\ victim' = [victim EXCEPT !["exit"] = ws]
            /\ pc' = [pc EXCEPT !["exit"] = "close"]
       ELSE /\ pc' = [pc EXCEPT !["exit"] = "done"]
            /\ UNCHANGED <<queue, victim>>
    /\ UNCHANGED <<n, child, writer, pending, current, task, sock, got>>

\* _handle_exit, its _cleanup_fd included.
HandleExit ==
    /\ pc["exit"] = "ready"
    /\ IF life = "dead"
       THEN /\ pc' = [pc EXCEPT !["exit"] = "done"]
            /\ UNCHANGED <<life, reading, paused, ws, queue, victim>>
       ELSE /\ life' = "dead"
            /\ reading' = FALSE /\ paused' = FALSE
            /\ ws' = None
            /\ CloseQueued("exit", ws, <<Control("exit")>>, "done")
    /\ UNCHANGED <<n, child, writer, pending, current, task, sock, got>>

\* The token of socket c has expired or was revoked: close_attached, which
\* does not detach.  Without a writer the socket is closed directly.
AuthCloses(c) ==
    /\ pc["auth"] = "init" /\ pc[c] = "open"
    /\ CloseQueued("auth", c, <<>>, "done")
    /\ sock' = [sock EXCEPT ![c] = IF writer # c /\ @ = "open" THEN "closed" ELSE @]
    /\ UNCHANGED <<n, child, life, reading, paused, ws, writer, pending, current,
                   task, got>>

\* What follows the close: end_now calls terminate().
Onwards(x) ==
    LET dies == x = "end" /\ life # "dead" IN
    /\ pc' = [pc EXCEPT ![x] = IF dies THEN "term" ELSE "done"]
    /\ life' = IF dies THEN "terminating" ELSE life
    /\ victim' = [victim EXCEPT ![x] = None]

\* The writer has sent the close, or ended before it.
CloseDone(x) ==
    /\ pc[x] = "close" /\ task[victim[x]] = "done"
    /\ Onwards(x)
    /\ UNCHANGED <<n, child, reading, paused, ws, writer, pending, queue, current,
                   task, sock, got>>

\* OUTBOUND_CLOSE_TIMEOUT is over: the writer is stopped ...
CloseTimesOut(x) ==
    /\ pc[x] = "close" /\ task[victim[x]] # "done"
    /\ Stop(victim[x])
    /\ pc' = [pc EXCEPT ![x] = "stop"]
    /\ UNCHANGED <<n, child, life, reading, paused, ws, writer, pending, queue,
                   current, victim, sock, got>>

\* Mutant: the socket is closed before the writer has stopped, with no limit.
CloseForcedByReader(x) ==
    /\ x \in Closers /\ pc[x] = "stop" /\ Stopped(victim[x])
    /\ sock[victim[x]] # "open"
    /\ Onwards(x)
    /\ UNCHANGED <<n, child, reading, paused, ws, writer, pending, queue, current,
                   task, sock, got>>

\* ... and the socket closed directly, or left alone after another second.
CloseForced(x) ==
    /\ x \in Closers /\ pc[x] = "stop" /\ Stopped(victim[x])
    /\ \/ UNCHANGED sock
       \/ sock' = [sock EXCEPT ![victim[x]] = IF @ = "open" THEN "closed" ELSE @]
    /\ Onwards(x)
    /\ UNCHANGED <<n, child, reading, paused, ws, writer, pending, queue, current,
                   task, got>>

\* The end of terminate(): the child is gone, by a signal if need be.
TermDone ==
    /\ pc["end"] = "term" /\ (life = "dead" \/ child = "exited")
    /\ life' = "dead"
    /\ reading' = FALSE /\ paused' = FALSE
    /\ pc' = [pc EXCEPT !["end"] = "done"]
    /\ UNCHANGED <<n, child, ws, writer, pending, queue, current, task, victim, sock,
                   got>>

-----------------------------------------------------------------------------
\* Everything has come to rest: the session is over and no task is at work.
Rest ==
    /\ life = "dead"
    /\ \A c \in Socks : pc[c] \in {"init", "open", "done"}
    /\ UNCHANGED vars

WriterStep(c) == Take(c) \/ Sent(c) \/ SentClose(c) \/ SendFails(c) \/ Cancelled(c)

RouteStep(c) == Evict(c) \/ EvictDone(c) \/ ReplayDone(c) \/ Detach(c) \/ DetachDone(c)

CloserStep(x) == CloseDone(x) \/ CloseTimesOut(x) \/ CloseForced(x)

Next ==
    \/ Read \/ ChildExits \/ Eof \/ End \/ HandleExit \/ TermDone
    \/ \E c \in Socks : \/ WriterStep(c) \/ RouteStep(c)
                        \/ Attach(c) \/ Disconnect(c) \/ AuthCloses(c)
    \/ \E x \in Closers : CloserStep(x)
    \/ Rest

Spec == Init /\ [][Next]_vars

\* The loop runs what is ready and time-outs expire: what a close needs.  Whether
\* a browser reads is up to the browser.
ServerFairSpec ==
    /\ Spec
    /\ \A c \in Socks : WF_vars(Cancelled(c))
    /\ \A x \in Closers : WF_vars(CloserStep(x))

-----------------------------------------------------------------------------
(* Properties *)

\* What a browser has got, is getting and will get.
Stream(c) ==
    got[c] \o (IF current[c] = None THEN <<>> ELSE <<current[c]>>) \o queue[c]

\* The first k frames of q have no output; the last of their output is chunk m.
Silent(q, k) == \A i \in 1..k : q[i].kind # "out"
UpTo(q, k, m) ==
    \E i \in 1..k : /\ q[i].kind = "out" /\ q[i].to = m
                    /\ \A j \in i+1..k : q[j].kind # "out"

\* Frame k of q goes on where the output before it ended.
GoesOn(q, k) == Silent(q, k-1) \/ UpTo(q, k-1, q[k].from - 1)

\* One stream per browser: replay and live output follow each other without a
\* gap, a repetition or an inversion, and an attached browser's stream goes up
\* to the last chunk read.  (attach: "replay 전송 중 들어온 PTY 출력은 같은 큐에서 그 뒤에")
Seamless ==
    \A c \in Socks :
      /\ \A k \in 1..Len(Stream(c)) : Stream(c)[k].kind = "out" => GoesOn(Stream(c), k)
      /\ ws = c /\ writer = c /\ n > 0 => UpTo(Stream(c), Len(Stream(c)), n)

\* The exit text comes after everything the process wrote, and only the close
\* comes after it.
ExitIsLast ==
    \A c \in Socks : \A i \in 1..Len(got[c]) :
        got[c][i].kind = "exit" =>
            /\ n > 0 => UpTo(got[c], i, n)
            /\ \A j \in i+1..Len(got[c]) : got[c][j].kind = "close"

\* _out_pending_bytes is what the queues and writers hold, through every
\* cancellation and failure, and stays within its bound.
Accounted ==
    /\ pending = SumFunction([c \in Socks |-> Held(c)])
    /\ pending <= High + Buffer

\* A live session whose reader is off has a backlog that will put it on again,
\* or has seen the end of the output: no terminal falls silent for good.
NeverDeaf ==
    life = "live" /\ pc["exit"] = "init" /\ ~reading => paused /\ pending > Low

\* A closer comes to its end even if the browser does not read: "읽지 않는 브라우저
\* 때문에 자연 종료/명시 종료가 영원히 남아서는 안 된다" (session.py:535).
CloseBounded ==
    \A x \in Closers : pc[x] = "close" ~> pc[x] \in {"term", "done"}
=============================================================================
