-------------------------- MODULE SessionKeyProofs --------------------------
(***************************************************************************)
(* TLAPS proofs about SessionKey, for any number of connections, end       *)
(* requests and sessions: the inductive invariant IInv, and from it type   *)
(* correctness, OneProcess and CancelHitsSleepers; KInv on top of it, and  *)
(* from both NoneAttachedToDying, ShutdownReaps and the refinement of      *)
(* LiveSlot; Reported and Watched on top of these, for ObserversKnow and   *)
(* NobodyForgotten.                                                        *)
(***************************************************************************)
EXTENDS SessionKey, TLAPS

\* The names of tasks: of which kind they are, and that they are all different.
LEMMA TaskNames ==
    /\ Main \in Task /\ Main[1] = "main"
    /\ \A c \in Conns : /\ Conn(c) \in Task /\ Grace(c) \in Task
                        /\ Conn(c)[1] = "conn" /\ Conn(c)[2] = c
                        /\ Grace(c)[1] = "grace" /\ Grace(c)[2] = c
    /\ \A e \in Enders : End(e) \in Task /\ End(e)[1] = "end" /\ End(e)[2] = e
    /\ \A s \in Sessions : /\ Idle(s) \in Task /\ Exit(s) \in Task
                           /\ Idle(s)[1] = "idle" /\ Idle(s)[2] = s
                           /\ Exit(s)[1] = "exit" /\ Exit(s)[2] = s
  BY DEF Task, Main, Conn, End, Grace, Idle, Exit

\* A task of the kind "conn" is the route of some socket.
LEMMA ConnTask ==
    ASSUME NEW t \in Task, t[1] = "conn"
    PROVE  t[2] \in Conns /\ t = Conn(t[2])
  BY DEF Task, Main, Conn

LEMMA EndTask ==
    ASSUME NEW t \in Task, t[1] = "end"
    PROVE  t[2] \in Enders /\ t = End(t[2])
  BY DEF Task, Main, End

LEMMA ExitTask ==
    ASSUME NEW t \in Task, t[1] = "exit"
    PROVE  t[2] \in Sessions /\ t = Exit(t[2])
  BY DEF Task, Main, Exit

-----------------------------------------------------------------------------
(* The queue of the lock *)

\* Joining the queue takes the lock from nobody.
LEMMA QueueJoined ==
    ASSUME lockQ \in Seq(Task), NEW t \in Task, lockQ' = Append(lockQ, t)
    PROVE  /\ lockQ' \in Seq(Task)
           /\ \A u \in Task : Holds(u) => Holds(u)'
  BY DEF Holds

\* Only the holder leaves.
LEMMA QueueLeft ==
    ASSUME lockQ \in Seq(Task), NEW t \in Task, Holds(t), Release
    PROVE  /\ lockQ' \in Seq(Task)
           /\ \A u \in Task : Holds(u) => u = t
  BY DEF Holds, Release

\* The initial state satisfies the invariant.
LEMMA InitIInv == Init => IInv
<1> SUFFICES ASSUME Init PROVE IInv
  OBVIOUS
<1>a. on \in [Task -> Sessions \cup {None}]
  <2>1. \A t \in Task : t[1] \in {"idle", "exit"} => t[2] \in Sessions
    BY DEF Task, Main
  <2> QED
    BY <2>1 DEF Init
<1>b. lockQ \in Seq(Task)
  BY DEF Init
<1>1. TypeOK
  BY <1>a, <1>b DEF Init, TypeOK, PC
<1>2. \A t \in Task : pc[t] = "init"
  BY DEF Init
<1>3. OneProcess /\ CancelHitsSleepers /\ DyingIsHandled
  BY DEF Init, OneProcess, CancelHitsSleepers, DyingIsHandled
<1>4. LockHeld /\ NoOtherLives /\ HasTarget /\ RoutesGone /\ OwnSteps
  BY <1>2, TaskNames DEF LockHeld, NoOtherLives, HasTarget, RoutesGone, OwnSteps, Critical
<1>5. LivesRegistered
  BY DEF Init, LivesRegistered
<1> QED
  BY <1>1, <1>3, <1>4, <1>5 DEF IInv

-----------------------------------------------------------------------------
(* What the steps have in common *)

\* A step that leaves the queue alone keeps the lock with its holder, if the
\* tasks it moves into a critical place held it.
LEMMA LockKept ==
    ASSUME LockHeld, UNCHANGED lockQ,
           \A t \in Task : pc'[t] \in Critical /\ t[1] # "exit" /\ t # Main
                             => pc[t] \in Critical \/ Holds(t)
    PROVE  LockHeld'
  BY DEF LockHeld, Holds

\* A step that joins the queue and moves nobody into a critical place.
LEMMA LockJoined ==
    ASSUME LockHeld, lockQ \in Seq(Task),
           NEW u \in Task, lockQ' = Append(lockQ, u),
           \A t \in Task : pc'[t] \in Critical => pc[t] \in Critical
    PROVE  LockHeld'
  BY QueueJoined DEF LockHeld

\* A step that releases the lock and leaves its holder in no critical place.
LEMMA LockReleased ==
    ASSUME LockHeld, lockQ \in Seq(Task),
           NEW u \in Task, Holds(u), Release, pc'[u] \notin Critical,
           \A t \in Task : pc'[t] \in Critical => pc[t] \in Critical
    PROVE  LockHeld'
  BY QueueLeft DEF LockHeld

\* Of the tasks outside T, a step at most cancels timers that are asleep.
OthersStay(T) ==
    /\ pc' \in [Task -> PC]
    /\ \A u \in Task \ T :
          \/ pc'[u] = pc[u]
          \/ pc[u] = "sleep" /\ pc'[u] = "done" /\ u[1] \in {"grace", "idle"}

\* cancel_grace touches one sleeping timer at most.
LEMMA CancelEffect ==
    ASSUME IInv, NEW s \in Sessions
    PROVE  /\ GraceCancelled(s) \in [Task -> PC]
           /\ \A u \in Task :
                \/ GraceCancelled(s)[u] = pc[u]
                \/ /\ pc[u] = "sleep" /\ GraceCancelled(s)[u] = "done"
                   /\ u[1] = "grace" /\ graceRef[s] # None /\ u = Grace(graceRef[s])
  BY TaskNames DEF IInv, TypeOK, GraceCancelled, CancelHitsSleepers, PC

\* So does _cancel_idle.
LEMMA IdleEffect ==
    ASSUME NEW at \in [Task -> PC], NEW s \in Sessions
    PROVE  /\ IdleCancelled(at, s) \in [Task -> PC]
           /\ \A u \in Task :
                \/ IdleCancelled(at, s)[u] = at[u]
                \/ at[u] = "sleep" /\ IdleCancelled(at, s)[u] = "done" /\ u[1] = "idle"
  BY TaskNames DEF IdleCancelled, PC

\* terminate() moves its caller and cancels a sleeping countdown at most.
LEMMA TerminateEffect ==
    ASSUME IInv, NEW t \in Task, NEW s \in Sessions, NEW at \in [Task -> PC],
           Terminate(t, s, at)
    PROVE  /\ pc' \in [Task -> PC] /\ pc'[t] = "term"
           /\ \A u \in Task \ {t} :
                \/ pc'[u] = at[u]
                \/ at[u] = "sleep" /\ pc'[u] = "done" /\ u[1] = "idle"
           /\ on' \in [Task -> Sessions \cup {None}]
           /\ on'[t] = s /\ \A u \in Task \ {t} : on'[u] = on[u]
           /\ terminating' \in [Sessions -> BOOLEAN] /\ terminating'[s]
           /\ \A r \in Sessions \ {s} : terminating'[r] = terminating[r]
           /\ told' \in BOOLEAN
           /\ UNCHANGED <<lockQ, reg, alive, child>>
<1>1. PICK q : q = IdleCancelled(at, s)
  OBVIOUS
<1>2. /\ q \in [Task -> PC] /\ pc' = [q EXCEPT ![t] = "term"]
      /\ \A u \in Task : \/ q[u] = at[u]
                         \/ at[u] = "sleep" /\ q[u] = "done" /\ u[1] = "idle"
  BY <1>1, IdleEffect DEF Terminate
<1>3. pc' \in [Task -> PC] /\ pc'[t] = "term"
  BY <1>2 DEF PC
<1>4. told' \in BOOLEAN
  BY DEF Terminate, Notify, Live, IInv, TypeOK
<1> QED
  BY <1>2, <1>3, <1>4 DEF Terminate, IInv, TypeOK

\* The route of c joins the queue.
LEMMA ConnectStep ==
    ASSUME IInv, NEW c \in Conns, Connect(c)
    PROVE  IInv'
<1>1. TypeOK'
  BY TaskNames, QueueJoined DEF IInv, TypeOK, Connect, PC
<1>2. LockHeld'
  BY TaskNames, LockJoined DEF IInv, TypeOK, Connect, Critical
<1>3. OneProcess' /\ LivesRegistered' /\ CancelHitsSleepers'
  BY TaskNames DEF IInv, TypeOK, Connect, OneProcess, LivesRegistered, CancelHitsSleepers
<1>4. DyingIsHandled' /\ NoOtherLives' /\ HasTarget'
  BY TaskNames DEF IInv, TypeOK, Connect, DyingIsHandled, NoOtherLives, HasTarget
<1>5. RoutesGone' /\ OwnSteps'
  BY TaskNames DEF IInv, TypeOK, Connect, RoutesGone, OwnSteps
<1> QED
  BY <1>1, <1>2, <1>3, <1>4, <1>5 DEF IInv
\* The invariants about suspension points follow from where the acting task goes.
LEMMA OwnKept ==
    ASSUME IInv, NEW t \in Task, OthersStay({t}),
           pc'[t] = "history" => t[1] = "conn",
           t[1] = "exit" => pc'[t] \in {"init", "ready", "close", "done"},
           t = Main => pc'[t] \in {"init", "term", "done"},
           t[1] = "conn" => pc[t] # "done",
           t[1] = "grace" => pc[t] # "init"
    PROVE  OwnSteps'
  BY TaskNames DEF IInv, OwnSteps, OthersStay

LEMMA RoutesKept ==
    ASSUME IInv, NEW t \in Task, t # Main, OthersStay({t}),
           t[1] \in {"conn", "end"} => pc[Main] = "init"
    PROVE  RoutesGone'
  BY TaskNames DEF IInv, RoutesGone, OthersStay

LEMMA NoOtherKept ==
    ASSUME IInv, NEW t \in Task, OthersStay({t}),
           \A s \in Sessions : alive'[s] => alive[s],
           \A u \in Task \ {t} : on'[u] = on[u],
           pc'[t] # "history",
           pc'[t] \in {"oust", "close", "term"} => t[1] # "conn" /\ t # Main
    PROVE  NoOtherLives'
  BY TaskNames DEF IInv, NoOtherLives, OthersStay

\* A task moves after, or without, a cancellation.
LEMMA MoveEffect ==
    ASSUME NEW t \in Task, NEW p \in PC, NEW q \in [Task -> PC],
           pc' = [q EXCEPT ![t] = p],
           \A u \in Task :
              \/ q[u] = pc[u]
              \/ pc[u] = "sleep" /\ q[u] = "done" /\ u[1] \in {"grace", "idle"}
    PROVE  OthersStay({t}) /\ pc'[t] = p
  BY DEF OthersStay

\* cancel_grace leaves no reference to the timer it cancels.
LEMMA CancelKept ==
    ASSUME IInv, NEW s \in Sessions, graceRef' = [graceRef EXCEPT ![s] = None],
           \A c \in Conns : pc[Grace(c)] = "sleep" =>
              /\ pc'[Grace(c)] = GraceCancelled(s)[Grace(c)]
              /\ on'[Grace(c)] = on[Grace(c)]
    PROVE  CancelHitsSleepers'
<1> SUFFICES ASSUME NEW r \in Sessions, graceRef'[r] # None
             PROVE  /\ pc'[Grace(graceRef'[r])] = "sleep"
                    /\ on'[Grace(graceRef'[r])] = r
  BY DEF CancelHitsSleepers
<1>1. r # s /\ graceRef'[r] = graceRef[r] /\ graceRef[r] \in Conns
  BY DEF IInv, TypeOK
<1>2. pc[Grace(graceRef[r])] = "sleep" /\ on[Grace(graceRef[r])] = r
  BY <1>1 DEF IInv, CancelHitsSleepers
<1>3. graceRef[s] # None => on[Grace(graceRef[s])] = s
  BY DEF IInv, CancelHitsSleepers
<1>4. GraceCancelled(s)[Grace(graceRef[r])] = "sleep"
  BY <1>1, <1>2, <1>3, CancelEffect, TaskNames
<1> QED
  BY <1>1, <1>2, <1>4

\* The part of the invariant that terminate() and its callers share.
Shared ==
    /\ OneProcess
    /\ LivesRegistered
    /\ LockHeld /\ DyingIsHandled /\ NoOtherLives /\ HasTarget /\ RoutesGone /\ OwnSteps

\* A route at work excludes shutdown.
LEMMA RouteExcludesShutdown ==
    ASSUME IInv
    PROVE  /\ \A c \in Conns : pc[Conn(c)] \notin {"init", "done"} => pc[Main] = "init"
           /\ \A e \in Enders : pc[End(e)] \notin {"init", "done"} => pc[Main] = "init"
  BY DEF IInv, RoutesGone

\* Who begins to terminate a living session.
LEMMA TerminateKept ==
    ASSUME IInv, NEW t \in Task, NEW s \in Sessions, NEW at \in [Task -> PC],
           Terminate(t, s, at),
           \A u \in Task :
              \/ at[u] = pc[u]
              \/ pc[u] = "sleep" /\ at[u] = "done" /\ u[1] \in {"grace", "idle"},
           t # Main => Holds(t), t[1] # "exit", pc[t] # "term", alive[s],
           t[1] = "conn" \/ t = Main => \A r \in Sessions : alive[r] => r = s,
           t[1] \in {"conn", "end"} => pc[Main] = "init",
           t[1] = "conn" => pc[t] # "done",
           t[1] = "grace" => pc[t] # "init",
           t = Main => /\ \A c \in Conns : pc[Conn(c)] \in {"init", "done"}
                       /\ \A e \in Enders : pc[End(e)] \in {"init", "done"}
    PROVE  Shared' /\ OthersStay({t}) /\ pc'[t] = "term"
<1>1. /\ OthersStay({t}) /\ pc'[t] = "term"
      /\ on'[t] = s /\ \A u \in Task \ {t} : on'[u] = on[u]
      /\ \A r \in Sessions \ {s} : terminating'[r] = terminating[r]
      /\ UNCHANGED <<lockQ, reg, alive, child>>
  BY TerminateEffect DEF OthersStay
<1>2. OneProcess' /\ LivesRegistered'
  BY <1>1 DEF IInv, OneProcess, LivesRegistered
<1>3. LockHeld'
  BY <1>1, LockKept DEF IInv, OthersStay, Critical
<1>4. DyingIsHandled'
  <2> SUFFICES ASSUME NEW r \in Sessions, alive'[r], terminating'[r]
               PROVE  \E u \in Task : pc'[u] = "term" /\ on'[u] = r
    BY DEF DyingIsHandled
  <2>1. CASE r = s
    BY <2>1, <1>1
  <2>2. CASE r # s
    BY <2>2, <1>1 DEF IInv, DyingIsHandled, OthersStay
  <2> QED
    BY <2>1, <2>2
<1>5. NoOtherLives' /\ HasTarget'
  BY <1>1 DEF IInv, NoOtherLives, HasTarget, OthersStay
<1>6. RoutesGone'
  BY <1>1, TaskNames DEF IInv, RoutesGone, OthersStay
<1>7. OwnSteps'
  BY <1>1, OwnKept
<1> QED
  BY <1>1, <1>2, <1>3, <1>4, <1>5, <1>6, <1>7 DEF Shared

\* Who leaves the key, having dropped dead sessions from the map at most.
LEMMA LeavesKept ==
    ASSUME IInv, NEW t \in Task, Holds(t), Leaves(t),
           t[1] # "exit", t # Main, t[1] = "conn" => pc[t] # "done",
           t[1] = "grace" => pc[t] # "init",
           pc[t] = "term" => ~alive'[on[t]],
           t[1] \in {"conn", "end"} => pc[Main] = "init",
           alive' \in [Sessions -> BOOLEAN],
           \A s \in Sessions : alive'[s] => alive[s] /\ reg' = reg,
           \A s \in Sessions : child'[s] = child[s]
                                 \/ (~alive'[s] /\ child'[s] = "reaped"),
           \A s \in Sessions : child[s] \in {"running", "exited"} /\ ~alive'[s]
                                 => child'[s] = "reaped",
           UNCHANGED <<on, terminating>>
    PROVE  Shared' /\ OthersStay({t}) /\ pc'[t] = "done" /\ lockQ' \in Seq(Task)
<1>1. OthersStay({t}) /\ pc'[t] = "done"
  BY MoveEffect DEF Leaves, IInv, TypeOK, PC
<1>2. OneProcess' /\ LivesRegistered'
  BY DEF IInv, OneProcess, LivesRegistered
<1>3. LockHeld' /\ lockQ' \in Seq(Task)
  BY <1>1, LockReleased, QueueLeft DEF IInv, OthersStay, Critical, Leaves, TypeOK
<1>4. DyingIsHandled'
  BY <1>1 DEF IInv, DyingIsHandled, OthersStay
<1>5. NoOtherLives' /\ HasTarget'
  BY <1>1, NoOtherKept DEF IInv, HasTarget, OthersStay
<1>6. RoutesGone'
  BY <1>1, RoutesKept
<1>7. OwnSteps'
  BY <1>1, OwnKept
<1> QED
  BY <1>1, <1>2, <1>3, <1>4, <1>5, <1>6, <1>7 DEF Shared

\* Who begins to close the attached socket before it terminates.
LEMMA NotifyKept ==
    ASSUME IInv, NEW t \in Task, NEW s \in Sessions, NEW at \in [Task -> PC],
           NotifyAndTerminate(t, s, at),
           \A u \in Task :
              \/ at[u] = pc[u]
              \/ pc[u] = "sleep" /\ at[u] = "done" /\ u[1] \in {"grace", "idle"},
           Holds(t), pc[t] # "term", alive[s], t[1] \in {"end", "idle"},
           t[1] = "end" => pc[Main] = "init"
    PROVE  /\ Shared' /\ OthersStay({t})
           /\ victim' \in [Task -> Conns \cup {None}]
           /\ ws' \in [Sessions -> Conns \cup {None}]
           /\ on' \in [Task -> Sessions \cup {None}]
           /\ \A u \in Task \ {t} : on'[u] = on[u]
           /\ terminating' \in [Sessions -> BOOLEAN] /\ told' \in BOOLEAN
           /\ UNCHANGED <<lockQ, reg, alive, child>>
<1>1. t # Main
  BY TaskNames
<1>2. CASE Terminate(t, s, at) /\ UNCHANGED victim
  <2>1. Shared' /\ OthersStay({t})
    BY <1>1, <1>2, TerminateKept
  <2> QED
    BY <2>1, <1>2, TerminateEffect DEF NotifyAndTerminate, IInv, TypeOK
<1>3. CASE /\ victim' = [victim EXCEPT ![t] = ws[s]]
           /\ pc' = [at EXCEPT ![t] = "close"]
           /\ on' = [on EXCEPT ![t] = s]
           /\ UNCHANGED <<lockQ, reg, alive, terminating, child, told>>
  <2>1. OthersStay({t}) /\ pc'[t] = "close"
    <3>1. "close" \in PC
      BY DEF PC
    <3> QED
      BY <3>1, <1>3, MoveEffect
  <2>2. OneProcess' /\ LivesRegistered'
    BY <1>3 DEF IInv, OneProcess, LivesRegistered
  <2>3. LockHeld'
    BY <2>1, <1>3, LockKept DEF OthersStay, Critical, IInv
  <2>4. DyingIsHandled'
    <3>1. \A u \in Task \ {t} : on'[u] = on[u]
      BY <1>3 DEF IInv, TypeOK
    <3> QED
      BY <2>1, <1>3, <3>1 DEF IInv, DyingIsHandled, OthersStay
  <2>5. NoOtherLives' /\ HasTarget'
    <3>1. on'[t] = s /\ \A u \in Task \ {t} : on'[u] = on[u]
      BY <1>3 DEF IInv, TypeOK
    <3> QED
      BY <1>1, <2>1, <1>3, <3>1, NoOtherKept DEF IInv, HasTarget, OthersStay
  <2>6. RoutesGone' /\ OwnSteps'
    BY <1>1, <2>1, RoutesKept, OwnKept
  <2> QED
    BY <1>3, <2>1, <2>2, <2>3, <2>4, <2>5, <2>6
       DEF Shared, NotifyAndTerminate, IInv, TypeOK
<1> QED
  BY <1>2, <1>3 DEF NotifyAndTerminate

\* The lock lets no second route be between its judgment and its process.
LEMMA LoneRoute ==
    ASSUME IInv, NEW c \in Conns, Holds(Conn(c)), pc[Conn(c)] \notin {"init", "done"}
    PROVE  /\ pc[Main] = "init"
           /\ \A t \in Task : pc[t] \in Critical /\ t[1] # "exit" => t = Conn(c)
  BY TaskNames, RouteExcludesShutdown DEF IInv, LockHeld, Holds, Critical

\* A route, finding no process under the key, starts one or fails to.
LEMMA LaunchKept ==
    ASSUME IInv, NEW c \in Conns, Holds(Conn(c)), pc[Conn(c)] \notin {"init", "done"},
           NEW aliveNow \in [Sessions -> BOOLEAN],
           NEW childNow \in [Sessions -> {"unborn", "running", "exited", "reaped"}],
           NEW sockNow \in [Conns -> {"init", "open", "stuck", "gone", "closed"}],
           Launch(c, aliveNow, childNow, sockNow),
           \A r \in Sessions :
              ~aliveNow[r] /\ (childNow[r] = child[r] \/ childNow[r] = "reaped")
                /\ childNow[r] \notin {"running", "exited"},
           victim' \in [Task -> Conns \cup {None}]
    PROVE  IInv'
<1>1. /\ pc[Main] = "init" /\ pc[Grace(c)] = "init"
      /\ \A t \in Task : pc[t] \in Critical /\ t[1] # "exit" => t = Conn(c)
  BY LoneRoute DEF IInv, OwnSteps
<1>2. CASE SpawnFailed(c, aliveNow, childNow, sockNow)
  <2>1. OthersStay({Conn(c)}) /\ pc'[Conn(c)] = "done"
    BY <1>2, MoveEffect, TaskNames DEF SpawnFailed, IInv, TypeOK, PC
  <2>2. LockHeld' /\ lockQ' \in Seq(Task)
    BY <1>2, <2>1, LockReleased, QueueLeft, TaskNames
       DEF SpawnFailed, IInv, OthersStay, Critical, TypeOK
  <2>3. TypeOK'
    BY <1>2, <2>1, <2>2, TaskNames DEF SpawnFailed, IInv, TypeOK, OthersStay
  <2>4. OneProcess' /\ LivesRegistered' /\ DyingIsHandled'
    BY <1>2 DEF SpawnFailed, OneProcess, LivesRegistered, DyingIsHandled, IInv
  <2>5. CancelHitsSleepers'
    BY <1>2, TaskNames DEF SpawnFailed, CancelHitsSleepers, IInv, TypeOK
  <2>6. NoOtherLives' /\ HasTarget'
    BY <1>2, <2>1 DEF SpawnFailed, NoOtherLives, HasTarget, OthersStay, IInv
  <2>7. RoutesGone' /\ OwnSteps'
    BY <1>1, <2>1, RoutesKept, OwnKept, TaskNames
  <2> QED
    BY <2>2, <2>3, <2>4, <2>5, <2>6, <2>7 DEF IInv
<1>3. CASE \E s \in Sessions : Spawned(c, s, aliveNow, childNow, sockNow)
  <2>1. PICK s \in Sessions : Spawned(c, s, aliveNow, childNow, sockNow)
    BY <1>3
  <2>2. /\ pc' \in [Task -> PC] /\ pc'[Conn(c)] = "open" /\ pc'[Idle(s)] \in PC \ Critical
        /\ \A t \in Task \ {Conn(c), Idle(s)} : pc'[t] = pc[t]
    <3>1. pc[Idle(s)] \in PC \ Critical
      <4>1. pc[Idle(s)] \in PC /\ Idle(s) # Conn(c) /\ Idle(s)[1] # "exit"
        BY TaskNames DEF IInv, TypeOK
      <4> QED
        BY <1>1, <4>1, TaskNames
    <3>2. pc' = [pc EXCEPT ![Conn(c)] = "open", ![Idle(s)] = IF IdleOn THEN "sleep" ELSE @]
      BY <2>1 DEF Spawned
    <3>3. /\ pc \in [Task -> PC] /\ Idle(s) # Conn(c)
          /\ Conn(c) \in Task /\ Idle(s) \in Task
      BY TaskNames DEF IInv, TypeOK
    <3> QED
      BY <3>1, <3>2, <3>3 DEF PC, Critical
  <2>3. LockHeld' /\ lockQ' \in Seq(Task)
    BY <2>1, <2>2, LockReleased, QueueLeft, TaskNames
       DEF Spawned, IInv, Critical, TypeOK
  <2>4. TypeOK'
    <3>1. told' \in BOOLEAN
      BY <2>1 DEF Spawned, Notify, Live
    <3> QED
      BY <2>1, <2>2, <2>3, <3>1, TaskNames DEF Spawned, IInv, TypeOK
  <2>5. alive'[s] /\ reg' = s /\ child'[s] = "running" /\ UNCHANGED terminating
    BY <2>1 DEF Spawned
  <2>6. \A r \in Sessions \ {s} : ~alive'[r] /\ child'[r] = childNow[r]
    BY <2>1 DEF Spawned
  <2>7. OneProcess' /\ LivesRegistered'
    BY <2>5, <2>6 DEF OneProcess, LivesRegistered, IInv
  <2>8. DyingIsHandled'
    BY <2>1, <2>5, <2>6 DEF Spawned, DyingIsHandled, LivesRegistered, IInv
  <2>9. CancelHitsSleepers'
    BY <2>1, <2>2, TaskNames DEF Spawned, CancelHitsSleepers, IInv, TypeOK
  <2>10. NoOtherLives' /\ HasTarget'
    <3>1. NoOtherLives'
      BY <1>1, <2>2, TaskNames DEF NoOtherLives, IInv, OwnSteps, Critical
    <3>2. /\ on'[Conn(c)] = s /\ \A t \in Task \ {Conn(c)} : on'[t] = on[t]
          /\ Idle(s)[1] \notin {"conn", "grace"} /\ pc'[Idle(s)] \notin Critical
      BY <2>1, <2>2, TaskNames DEF Spawned, IInv, TypeOK
    <3>3. HasTarget'
      BY <2>2, <3>2 DEF HasTarget, IInv, Critical
    <3> QED
      BY <3>1, <3>3
  <2>11. RoutesGone'
    <3>1. Main \in Task \ {Conn(c), Idle(s)}
      BY TaskNames
    <3> QED
      BY <1>1, <2>2, <3>1 DEF RoutesGone
  <2>12. OwnSteps'
    <3>1. /\ Main \in Task \ {Conn(c), Idle(s)}
          /\ \A r \in Sessions : Exit(r) \in Task \ {Conn(c), Idle(s)}
          /\ \A d \in Conns : /\ Grace(d) \in Task \ {Conn(c), Idle(s)}
                              /\ d # c => Conn(d) \in Task \ {Conn(c), Idle(s)}
      BY TaskNames
    <3>2. pc'[Idle(s)] # "history"
      BY <2>2 DEF Critical
    <3>3. OwnSteps
      BY DEF IInv
    <3> QED
      BY <1>1, <2>2, <3>1, <3>2, <3>3 DEF OwnSteps
  <2> QED
    BY <2>3, <2>4, <2>7, <2>8, <2>9, <2>10, <2>11, <2>12 DEF IInv
<1> QED
  BY <1>2, <1>3 DEF Launch

\* A step that keeps the references and the sleeping timers they refer to.
LEMMA TimersKept ==
    ASSUME IInv, UNCHANGED graceRef,
           \A g \in Conns : pc[Grace(g)] = "sleep" =>
              pc'[Grace(g)] = "sleep" /\ on'[Grace(g)] = on[Grace(g)]
    PROVE  CancelHitsSleepers'
  BY DEF IInv, TypeOK, CancelHitsSleepers

\* A route takes up the live session.
LEMMA ReattachStep ==
    ASSUME IInv, NEW c \in Conns, Reattach(c)
    PROVE  IInv'
<1>a. reg \in Sessions
  BY DEF Reattach, Live, IInv, TypeOK
<1> DEFINE q == GraceCancelled(reg)
<1>b. q \in [Task -> PC] /\ \A u \in Task :
        q[u] = pc[u] \/ (pc[u] = "sleep" /\ q[u] = "done" /\ u[1] = "grace")
  BY <1>a, CancelEffect
<1>c. \/ \E p \in {"evict", "replay"} : pc' = [q EXCEPT ![Conn(c)] = p] /\ UNCHANGED lockQ
      \/ pc' = [q EXCEPT ![Conn(c)] = "open"] /\ Release
  BY DEF Reattach, Attached
<1> HIDE DEF q
<1>0. /\ OthersStay({Conn(c)})
      /\ \/ pc'[Conn(c)] \in {"evict", "replay"} /\ UNCHANGED lockQ
         \/ pc'[Conn(c)] = "open" /\ Release
  BY <1>b, <1>c, MoveEffect, TaskNames DEF PC
<1>1. TypeOK'
  <2>1. lockQ' \in Seq(Task)
    <3>1. lockQ \in Seq(Task) /\ Conn(c) \in Task
      BY TaskNames DEF IInv, TypeOK
    <3>2. UNCHANGED lockQ \/ Release
      BY <1>0
    <3>3. CASE Release
      <4>1. Holds(Conn(c))
        BY DEF Reattach
      <4> QED
        BY <3>1, <3>3, <4>1, QueueLeft
    <3> QED
      BY <3>1, <3>2, <3>3
  <2>2. /\ ws' \in [Sessions -> Conns \cup {None}]
        /\ writer' \in [Sessions -> Conns \cup {None}]
        /\ victim' \in [Task -> Conns \cup {None}]
    <3>1. ws[reg] \in Conns \cup {None}
      BY <1>a DEF IInv, TypeOK
    <3>2. CASE ws[reg] = None
      <4>1. /\ ws' = [ws EXCEPT ![reg] = c] /\ writer' = [writer EXCEPT ![reg] = c]
            /\ UNCHANGED victim
        BY <3>2 DEF Reattach, Attached
      <4> QED
        BY <4>1 DEF IInv, TypeOK
    <3>3. CASE ws[reg] # None
      <4>1. /\ victim' = [victim EXCEPT ![Conn(c)] = ws[reg]]
            /\ ws' = [ws EXCEPT ![reg] = None] /\ UNCHANGED writer
        BY <3>3 DEF Reattach
      <4> QED
        BY <4>1, <3>1, TaskNames DEF IInv, TypeOK
    <3> QED
      BY <3>2, <3>3
  <2> QED
    BY <1>0, <1>a, <2>1, <2>2, TaskNames DEF OthersStay, IInv, TypeOK, Reattach
<1>2. LockHeld'
  <2>1. CASE UNCHANGED lockQ
    BY <2>1, <1>0, LockKept, TaskNames DEF Reattach, OthersStay, IInv, LockHeld, Critical
  <2>2. CASE pc'[Conn(c)] = "open" /\ Release
    BY <2>2, <1>0, LockReleased, TaskNames
       DEF Reattach, OthersStay, IInv, TypeOK, Critical
  <2> QED
    BY <1>0, <2>1, <2>2
<1>8. OwnSteps'
  BY <1>0, OwnKept, TaskNames DEF Reattach
<1>3. OneProcess' /\ LivesRegistered'
  BY TaskNames DEF IInv, TypeOK, Reattach, OneProcess, LivesRegistered
<1>4. CancelHitsSleepers'
  <2>1. \A d \in Conns : pc'[Grace(d)] = q[Grace(d)]
    BY <1>b, <1>c, TaskNames
  <2>2. \A d \in Conns : on'[Grace(d)] = on[Grace(d)]
    BY TaskNames DEF Reattach, IInv, TypeOK
  <2>3. graceRef' = [graceRef EXCEPT ![reg] = None]
    BY DEF Reattach
  <2> QED
    BY <1>a, <2>1, <2>2, <2>3, CancelKept DEF q
<1>5. DyingIsHandled'
  <2>1. on' = [on EXCEPT ![Conn(c)] = reg] /\ UNCHANGED <<alive, terminating>>
    BY DEF Reattach
  <2>2. \A u \in Task \ {Conn(c)} : on'[u] = on[u]
    BY <2>1, TaskNames DEF IInv, TypeOK
  <2>3. pc[Conn(c)] = "lock"
    BY DEF Reattach
  <2> QED
    BY <1>0, <2>1, <2>2, <2>3, TaskNames DEF IInv, DyingIsHandled, OthersStay
<1>6. NoOtherLives' /\ HasTarget'
  <2>1. on' = [on EXCEPT ![Conn(c)] = reg]
    BY DEF Reattach
  <2>2. on'[Conn(c)] = reg /\ \A u \in Task \ {Conn(c)} : on'[u] = on[u]
    BY <2>1, TaskNames DEF IInv, TypeOK
  <2>3. NoOtherLives'
    BY <1>0, <2>2, NoOtherKept, TaskNames DEF Reattach
  <2>4. HasTarget'
    BY <1>a, <1>0, <2>2 DEF IInv, HasTarget, OthersStay
  <2> QED
    BY <2>3, <2>4
<1>7. RoutesGone'
  BY <1>0, RoutesKept, TaskNames DEF IInv, RoutesGone, Reattach
<1> QED
  BY <1>1, <1>2, <1>3, <1>4, <1>5, <1>6, <1>7, <1>8 DEF IInv

\* A route that holds the lock and sees no live session sees no living one.
LEMMA NoLife ==
    ASSUME IInv, NEW c \in Conns, Holds(Conn(c)), pc[Conn(c)] = "lock", ~Live
    PROVE  \A s \in Sessions : ~alive[s]
<1> SUFFICES ASSUME NEW s \in Sessions, alive[s] PROVE FALSE
  OBVIOUS
<1>1. reg = s /\ reg # None /\ terminating[s]
  BY NoneAssumption DEF Live, IInv, LivesRegistered
<1>2. PICK t \in Task : pc[t] = "term" /\ on[t] = s
  BY <1>1 DEF IInv, DyingIsHandled
<1>3. t[1] # "exit"
  BY <1>2, ExitTask DEF IInv, OwnSteps
<1> QED
  BY <1>2, <1>3, LoneRoute DEF Critical

\* Nothing is live: a process is started.
LEMMA StartFreshStep ==
    ASSUME IInv, NEW c \in Conns, StartFresh(c)
    PROVE  IInv'
<1>1. /\ \A r \in Sessions : ~alive[r]
      /\ \A r \in Sessions : child[r] \notin {"running", "exited"}
  BY NoLife DEF StartFresh, IInv, OneProcess
<1> QED
  BY <1>1, LaunchKept DEF StartFresh, IInv, TypeOK

\* The history is known: a process is started.
LEMMA HistoryDoneStep ==
    ASSUME IInv, NEW c \in Conns, HistoryDone(c)
    PROVE  IInv'
<1>1. pc[Conn(c)] = "history" /\ Holds(Conn(c))
  BY TaskNames DEF HistoryDone, IInv, LockHeld, Critical
<1>2. /\ \A r \in Sessions : ~alive[r]
      /\ \A r \in Sessions : child[r] \notin {"running", "exited"}
  BY <1>1, TaskNames DEF IInv, OneProcess, NoOtherLives
<1> QED
  BY <1>1, <1>2, LaunchKept DEF HistoryDone, IInv, TypeOK

\* The ousted socket is closed.
LEMMA OustDoneStep ==
    ASSUME IInv, NEW c \in Conns, OustDone(c)
    PROVE  IInv'
<1> DEFINE t == Conn(c)
           s == on[t]
           sockNow == [sock EXCEPT ![victim[t]] = IF @ = "open" THEN "closed" ELSE @]
<1>1. /\ t \in Task /\ t[1] = "conn" /\ pc[t] = "oust" /\ Holds(t) /\ t # Main
      /\ pc[Main] = "init" /\ s \in Sessions
      /\ \A r \in Sessions : alive[r] => r = s
  BY TaskNames, RouteExcludesShutdown
     DEF OustDone, IInv, LockHeld, Critical, NoOtherLives, HasTarget
<1>2. /\ victim' \in [Task -> Conns \cup {None}]
      /\ sockNow \in [Conns -> {"init", "open", "stuck", "gone", "closed"}]
  BY <1>1 DEF OustDone, IInv, TypeOK
<1>3. CASE \E r \in Sessions : alive[r]
  <2>1. s \in Sessions /\ alive[s]
    BY <1>1, <1>3
  <2>2. /\ Terminate(t, s, pc) /\ sock' = sockNow
        /\ UNCHANGED <<ws, writer, graceRef, quiet, left, late>>
    BY <2>1 DEF OustDone
  <2>3. pc \in [Task -> PC]
    BY DEF IInv, TypeOK
  <2>4. Shared' /\ OthersStay({t})
    BY <1>1, <2>1, <2>2, <2>3, TerminateKept
  <2>5. /\ TypeOK'
        /\ \A u \in Task \ {t} : on'[u] = on[u]
    BY <1>1, <1>2, <2>1, <2>2, <2>3, TerminateEffect DEF IInv, TypeOK
  <2>6. CancelHitsSleepers'
    <3>1. \A u \in Task \ {t} : pc'[u] = pc[u] \/ u[1] = "idle"
      BY <1>1, <2>1, <2>2, <2>3, TerminateEffect
    <3>2. \A g \in Conns : Grace(g) \in Task \ {t} /\ Grace(g)[1] # "idle"
      BY TaskNames
    <3> QED
      BY <2>2, <2>5, <3>1, <3>2, TimersKept
  <2> QED
    BY <2>4, <2>5, <2>6 DEF IInv, Shared
<1>4. CASE \A r \in Sessions : ~alive[r]
  <2>1. \A r \in Sessions : child[r] \notin {"running", "exited"}
    BY <1>4 DEF IInv, OneProcess
  <2>2. Launch(c, alive, child, sockNow)
    BY <1>1, <1>4 DEF OustDone
  <2> QED
    BY <1>1, <1>2, <1>4, <2>1, <2>2, LaunchKept DEF IInv, TypeOK
<1> QED
  BY <1>3, <1>4

\* The evicted socket is closed.
LEMMA EvictDoneStep ==
    ASSUME IInv, NEW c \in Conns, EvictDone(c)
    PROVE  IInv'
<1>a. pc[Conn(c)] = "evict" /\ Holds(Conn(c))
  BY TaskNames DEF EvictDone, IInv, LockHeld, Critical
<1>b. \/ pc' = [pc EXCEPT ![Conn(c)] = "replay"] /\ UNCHANGED lockQ
      \/ pc' = [pc EXCEPT ![Conn(c)] = "open"] /\ Release
  BY DEF EvictDone, Attached
<1>0. /\ OthersStay({Conn(c)})
      /\ \/ pc'[Conn(c)] = "replay" /\ UNCHANGED lockQ
         \/ pc'[Conn(c)] = "open" /\ Release
  <2>1. /\ "replay" \in PC /\ "open" \in PC /\ pc \in [Task -> PC]
        /\ Conn(c) \in Task
    BY TaskNames DEF PC, IInv, TypeOK
  <2> QED
    BY <1>b, <2>1, MoveEffect
<1>1. TypeOK'
  <2>1. lockQ' \in Seq(Task)
    BY <1>0, <1>a, QueueLeft, TaskNames DEF IInv, TypeOK
  <2>2. sock' = [sock EXCEPT ![victim[Conn(c)]] = IF @ = "open" THEN "closed" ELSE @]
    BY DEF EvictDone
  <2>3. sock' \in [Conns -> {"init", "open", "stuck", "gone", "closed"}]
    BY <2>2 DEF IInv, TypeOK
  <2>4. /\ writer' \in [Sessions -> Conns \cup {None}]
        /\ ws' \in [Sessions -> Conns \cup {None}]
    BY DEF EvictDone, Attached, IInv, TypeOK
  <2>5. victim' \in [Task -> Conns \cup {None}]
    BY TaskNames DEF EvictDone, IInv, TypeOK
  <2> QED
    BY <1>0, <2>1, <2>3, <2>4, <2>5 DEF EvictDone, OthersStay, IInv, TypeOK
<1>2. LockHeld'
  <2>1. CASE UNCHANGED lockQ
    BY <1>0, <1>a, <2>1, LockKept DEF OthersStay, Critical, IInv
  <2>2. CASE pc'[Conn(c)] = "open" /\ Release
    BY <1>0, <1>a, <2>2, LockReleased, TaskNames DEF OthersStay, Critical, IInv, TypeOK
  <2> QED
    BY <1>0, <2>1, <2>2
<1>3. OneProcess' /\ LivesRegistered'
  BY TaskNames DEF IInv, TypeOK, EvictDone, Attached, Release, OneProcess, LivesRegistered
<1>4. CancelHitsSleepers'
  BY TaskNames DEF IInv, TypeOK, EvictDone, Attached, Release, CancelHitsSleepers, OwnSteps
<1>5. DyingIsHandled'
  BY TaskNames DEF IInv, TypeOK, EvictDone, Attached, Release, DyingIsHandled, CancelHitsSleepers
<1>6. NoOtherLives' /\ HasTarget'
  BY TaskNames DEF IInv, TypeOK, EvictDone, Attached, Release, NoOtherLives, HasTarget, OwnSteps
<1>7. RoutesGone'
  BY TaskNames DEF IInv, TypeOK, EvictDone, Attached, Release, RoutesGone, OwnSteps
<1>8. OwnSteps'
  BY <1>0, <1>a, OwnKept, TaskNames
<1> QED
  BY <1>1, <1>2, <1>3, <1>4, <1>5, <1>6, <1>7, <1>8 DEF IInv

\* The replay is out.
LEMMA ReplayDoneStep ==
    ASSUME IInv, NEW c \in Conns, ReplayDone(c)
    PROVE  IInv'
<1>a. /\ Conn(c) \in Task /\ pc[Conn(c)] = "replay" /\ Holds(Conn(c))
      /\ lockQ \in Seq(Task) /\ pc \in [Task -> PC] /\ "open" \in PC
      /\ Conn(c)[1] \in {"conn", "end"}
  <2>1. Conn(c) \in Task /\ Conn(c)[1] \in {"conn", "end"} /\ Conn(c) # Main
    BY TaskNames
  <2>2. pc[Conn(c)] = "replay"
    BY DEF ReplayDone
  <2>3. Conn(c)[1] # "exit"
    BY <2>1
  <2>4. Holds(Conn(c))
    BY <2>1, <2>2, <2>3 DEF IInv, LockHeld, Critical
  <2>5. lockQ \in Seq(Task) /\ pc \in [Task -> PC] /\ "open" \in PC
    BY DEF IInv, TypeOK, PC
  <2> QED
    BY <2>1, <2>2, <2>4, <2>5
<1>b. pc' = [pc EXCEPT ![Conn(c)] = "open"] /\ Release
  BY DEF ReplayDone
<1>c. OthersStay({Conn(c)}) /\ pc'[Conn(c)] = "open"
  BY <1>a, <1>b, MoveEffect
<1>1. TypeOK'
  <2>1. lockQ' \in Seq(Task)
    BY <1>a, <1>b DEF Holds, Release
  <2>2. UNCHANGED <<reg, alive, terminating, child, ws, writer, graceRef,
                    quiet, on, victim, sock, left, late, told>>
    BY DEF ReplayDone
  <2> QED
    BY <1>c, <2>1, <2>2 DEF IInv, TypeOK, OthersStay
<1>2. LockHeld'
  BY <1>a, <1>b, <1>c, LockReleased DEF IInv, OthersStay, Critical
<1>3. OneProcess' /\ LivesRegistered'
  BY TaskNames DEF IInv, TypeOK, ReplayDone, Release, OneProcess, LivesRegistered
<1>4. CancelHitsSleepers'
  BY TaskNames DEF IInv, TypeOK, ReplayDone, Release, CancelHitsSleepers, OwnSteps
<1>5. DyingIsHandled'
  BY TaskNames DEF IInv, TypeOK, ReplayDone, Release, DyingIsHandled, CancelHitsSleepers
<1>6. NoOtherLives' /\ HasTarget'
  BY TaskNames DEF IInv, TypeOK, ReplayDone, Release, NoOtherLives, HasTarget, OwnSteps
<1>7. RoutesGone'
  BY TaskNames DEF IInv, TypeOK, ReplayDone, Release, RoutesGone, OwnSteps
<1>8. OwnSteps'
  BY <1>a, <1>c, OwnKept, TaskNames
<1> QED
  BY <1>1, <1>2, <1>3, <1>4, <1>5, <1>6, <1>7, <1>8 DEF IInv

\* The history lookup begins.
LEMMA AskHistoryStep ==
    ASSUME IInv, NEW c \in Conns, AskHistory(c)
    PROVE  IInv'
<1>1. TypeOK'
  BY TaskNames DEF IInv, TypeOK, AskHistory, Pruned, Live, PC, LockHeld, Critical
<1>2. LockHeld'
  BY TaskNames, LockKept DEF IInv, TypeOK, AskHistory, Pruned, Live, Critical, LockHeld
<1>3. OneProcess' /\ LivesRegistered'
  BY TaskNames DEF IInv, TypeOK, AskHistory, Pruned, Live, OneProcess, LivesRegistered
<1>4. CancelHitsSleepers'
  BY TaskNames DEF IInv, TypeOK, AskHistory, Pruned, Live, CancelHitsSleepers, OwnSteps
<1>5. DyingIsHandled'
  BY TaskNames DEF IInv, TypeOK, AskHistory, Pruned, Live, DyingIsHandled, CancelHitsSleepers
<1>6. NoOtherLives' /\ HasTarget'
  <2>1. \A s \in Sessions : ~alive'[s]
    BY NoLife DEF AskHistory
  <2> QED
    BY <2>1, TaskNames DEF AskHistory, NoOtherLives, HasTarget, IInv, TypeOK
<1>7. RoutesGone'
  BY TaskNames DEF IInv, TypeOK, AskHistory, Pruned, Live, RoutesGone, OwnSteps
<1>8. OwnSteps'
  BY TaskNames DEF IInv, TypeOK, AskHistory, Pruned, Live, OwnSteps, CancelHitsSleepers
<1> QED
  BY <1>1, <1>2, <1>3, <1>4, <1>5, <1>6, <1>7, <1>8 DEF IInv

\* The history lookup failed.
LEMMA HistoryErrorStep ==
    ASSUME IInv, NEW c \in Conns, HistoryError(c)
    PROVE  IInv'
<1>a. /\ Conn(c) \in Task /\ pc[Conn(c)] = "history" /\ Holds(Conn(c))
      /\ lockQ \in Seq(Task) /\ pc \in [Task -> PC] /\ "done" \in PC
      /\ Conn(c)[1] \in {"conn", "end"}
  <2>1. Conn(c) \in Task /\ Conn(c)[1] \in {"conn", "end"} /\ Conn(c) # Main
    BY TaskNames
  <2>2. pc[Conn(c)] = "history"
    BY DEF HistoryError
  <2>3. Conn(c)[1] # "exit"
    BY <2>1
  <2>4. Holds(Conn(c))
    BY <2>1, <2>2, <2>3 DEF IInv, LockHeld, Critical
  <2>5. lockQ \in Seq(Task) /\ pc \in [Task -> PC] /\ "done" \in PC
    BY DEF IInv, TypeOK, PC
  <2> QED
    BY <2>1, <2>2, <2>4, <2>5
<1>b. pc' = [pc EXCEPT ![Conn(c)] = "done"] /\ Release
  BY DEF HistoryError
<1>c. OthersStay({Conn(c)}) /\ pc'[Conn(c)] = "done"
  BY <1>a, <1>b, MoveEffect
<1>1. TypeOK'
  <2>1. lockQ' \in Seq(Task)
    BY <1>a, <1>b DEF Holds, Release
  <2>2. UNCHANGED <<reg, alive, terminating, child, ws, writer, graceRef,
                    quiet, on, victim, left, late, told>>
    BY DEF HistoryError
  <2>3. sock' \in [Conns -> {"init", "open", "stuck", "gone", "closed"}]
    BY DEF HistoryError, IInv, TypeOK
  <2> QED
    BY <1>c, <2>1, <2>2, <2>3 DEF IInv, TypeOK, OthersStay
<1>2. LockHeld'
  BY <1>a, <1>b, <1>c, LockReleased DEF IInv, OthersStay, Critical
<1>3. OneProcess' /\ LivesRegistered'
  BY TaskNames DEF IInv, TypeOK, HistoryError, Release, OneProcess, LivesRegistered
<1>4. CancelHitsSleepers'
  BY TaskNames DEF IInv, TypeOK, HistoryError, Release, CancelHitsSleepers, OwnSteps
<1>5. DyingIsHandled'
  BY TaskNames DEF IInv, TypeOK, HistoryError, Release, DyingIsHandled, CancelHitsSleepers
<1>6. NoOtherLives' /\ HasTarget'
  BY TaskNames DEF IInv, TypeOK, HistoryError, Release, NoOtherLives, HasTarget, OwnSteps
<1>7. RoutesGone'
  BY TaskNames DEF IInv, TypeOK, HistoryError, Release, RoutesGone, OwnSteps
<1>8. OwnSteps'
  BY <1>a, <1>c, OwnKept, TaskNames
<1> QED
  BY <1>1, <1>2, <1>3, <1>4, <1>5, <1>6, <1>7, <1>8 DEF IInv

\* A socket ends.
LEMMA DisconnectStep ==
    ASSUME IInv, NEW c \in Conns, Disconnect(c)
    PROVE  IInv'
<1>1. TypeOK'
  BY TaskNames DEF IInv, TypeOK, Disconnect, PC, LockHeld, Critical
<1>2. LockHeld'
  BY TaskNames, LockKept DEF IInv, TypeOK, Disconnect, Critical, LockHeld
<1>3. OneProcess' /\ LivesRegistered'
  BY TaskNames DEF IInv, TypeOK, Disconnect, OneProcess, LivesRegistered
<1>4. CancelHitsSleepers'
  BY TaskNames DEF IInv, TypeOK, Disconnect, CancelHitsSleepers, OwnSteps
<1>5. DyingIsHandled'
  BY TaskNames DEF IInv, TypeOK, Disconnect, DyingIsHandled, CancelHitsSleepers
<1>6. NoOtherLives' /\ HasTarget'
  BY TaskNames DEF IInv, TypeOK, Disconnect, NoOtherLives, HasTarget, OwnSteps
<1>7. RoutesGone'
  BY TaskNames DEF IInv, TypeOK, Disconnect, RoutesGone, OwnSteps
<1>8. OwnSteps'
  BY TaskNames DEF IInv, TypeOK, Disconnect, OwnSteps, CancelHitsSleepers
<1> QED
  BY <1>1, <1>2, <1>3, <1>4, <1>5, <1>6, <1>7, <1>8 DEF IInv

\* A writer ends.
LEMMA WriterEndsStep ==
    ASSUME IInv, NEW s \in Sessions, WriterEnds(s)
    PROVE  IInv'
<1>1. TypeOK'
  BY TaskNames DEF IInv, TypeOK, WriterEnds, PC, LockHeld, Critical
<1>2. LockHeld'
  BY TaskNames, LockKept DEF IInv, TypeOK, WriterEnds, Critical, LockHeld
<1>3. OneProcess' /\ LivesRegistered'
  BY TaskNames DEF IInv, TypeOK, WriterEnds, OneProcess, LivesRegistered
<1>4. CancelHitsSleepers'
  BY TaskNames DEF IInv, TypeOK, WriterEnds, CancelHitsSleepers, OwnSteps
<1>5. DyingIsHandled'
  BY TaskNames DEF IInv, TypeOK, WriterEnds, DyingIsHandled, CancelHitsSleepers
<1>6. NoOtherLives' /\ HasTarget'
  BY TaskNames DEF IInv, TypeOK, WriterEnds, NoOtherLives, HasTarget, OwnSteps
<1>7. RoutesGone'
  BY TaskNames DEF IInv, TypeOK, WriterEnds, RoutesGone, OwnSteps
<1>8. OwnSteps'
  BY TaskNames DEF IInv, TypeOK, WriterEnds, OwnSteps, CancelHitsSleepers
<1> QED
  BY <1>1, <1>2, <1>3, <1>4, <1>5, <1>6, <1>7, <1>8 DEF IInv

\* An end request joins the queue.
LEMMA EndRequestStep ==
    ASSUME IInv, NEW e \in Enders, EndRequest(e)
    PROVE  IInv'
<1>1. TypeOK'
  BY TaskNames, QueueJoined DEF IInv, TypeOK, EndRequest, PC, LockHeld, Critical
<1>a. /\ End(e) \in Task /\ End(e)[1] = "end" /\ End(e) # Main
      /\ lockQ \in Seq(Task) /\ pc \in [Task -> PC] /\ "lock" \in PC
  BY TaskNames DEF IInv, TypeOK, PC
<1>b. /\ pc' = [pc EXCEPT ![End(e)] = "lock"]
      /\ lockQ' = Append(lockQ, End(e))
  BY DEF EndRequest
<1>c. OthersStay({End(e)}) /\ pc'[End(e)] = "lock"
  BY <1>a, <1>b, MoveEffect
<1>2. LockHeld'
  BY <1>a, <1>b, <1>c, LockJoined DEF IInv, OthersStay, Critical
<1>3. OneProcess' /\ LivesRegistered'
  BY TaskNames DEF IInv, TypeOK, EndRequest, OneProcess, LivesRegistered
<1>4. CancelHitsSleepers'
  BY TaskNames DEF IInv, TypeOK, EndRequest, CancelHitsSleepers, OwnSteps
<1>5. DyingIsHandled'
  BY TaskNames DEF IInv, TypeOK, EndRequest, DyingIsHandled, CancelHitsSleepers
<1>6. NoOtherLives' /\ HasTarget'
  BY TaskNames DEF IInv, TypeOK, EndRequest, NoOtherLives, HasTarget, OwnSteps
<1>7. RoutesGone'
  BY TaskNames DEF IInv, TypeOK, EndRequest, RoutesGone, OwnSteps
<1>8. OwnSteps'
  BY <1>a, <1>c, OwnKept, TaskNames
<1> QED
  BY <1>1, <1>2, <1>3, <1>4, <1>5, <1>6, <1>7, <1>8 DEF IInv

\* An end request meets none.
LEMMA EndNothingStep ==
    ASSUME IInv, NEW e \in Enders, EndNothing(e)
    PROVE  IInv'
<1>a. /\ End(e) \in Task /\ pc[End(e)] = "lock" /\ Holds(End(e))
      /\ lockQ \in Seq(Task) /\ pc \in [Task -> PC] /\ "done" \in PC
      /\ End(e)[1] \in {"conn", "end"}
  <2>1. End(e) \in Task /\ End(e)[1] \in {"conn", "end"} /\ End(e) # Main
    BY TaskNames
  <2>2. pc[End(e)] = "lock"
    BY DEF EndNothing
  <2>3. End(e)[1] # "exit"
    BY <2>1
  <2>4. Holds(End(e))
    BY DEF EndNothing
  <2>5. lockQ \in Seq(Task) /\ pc \in [Task -> PC] /\ "done" \in PC
    BY DEF IInv, TypeOK, PC
  <2> QED
    BY <2>1, <2>2, <2>4, <2>5
<1>b. pc' = [pc EXCEPT ![End(e)] = "done"] /\ Release
  BY DEF EndNothing, Leaves
<1>c. OthersStay({End(e)}) /\ pc'[End(e)] = "done"
  BY <1>a, <1>b, MoveEffect
<1>1. TypeOK'
  <2>1. lockQ' \in Seq(Task)
    BY <1>a, <1>b DEF Holds, Release
  <2>2. UNCHANGED <<alive, terminating, child, ws, writer, graceRef, quiet, on,
                    victim, sock, left, late, told>>
    BY DEF EndNothing
  <2>3. reg' \in Sessions \cup {None}
    BY DEF EndNothing, Pruned, IInv, TypeOK
  <2> QED
    BY <1>c, <2>1, <2>2, <2>3 DEF IInv, TypeOK, OthersStay
<1>2. LockHeld'
  BY <1>a, <1>b, <1>c, LockReleased DEF IInv, OthersStay, Critical
<1>3. OneProcess' /\ LivesRegistered'
  BY TaskNames
     DEF IInv, TypeOK, EndNothing, Pruned, Leaves, Release, Live, OneProcess, LivesRegistered
<1>4. CancelHitsSleepers'
  BY TaskNames
     DEF IInv, TypeOK, EndNothing, Pruned, Leaves, Release, Live, CancelHitsSleepers, OwnSteps
<1>5. DyingIsHandled'
  BY TaskNames
     DEF IInv, TypeOK, EndNothing, Pruned, Leaves, Release, Live, DyingIsHandled, CancelHitsSleepers
<1>6. NoOtherLives' /\ HasTarget'
  BY TaskNames
     DEF IInv, TypeOK, EndNothing, Pruned, Leaves, Release, Live, NoOtherLives, HasTarget, OwnSteps
<1>7. RoutesGone'
  BY TaskNames
     DEF IInv, TypeOK, EndNothing, Pruned, Leaves, Release, Live, RoutesGone, OwnSteps
<1>8. OwnSteps'
  BY <1>a, <1>c, OwnKept, TaskNames
<1> QED
  BY <1>1, <1>2, <1>3, <1>4, <1>5, <1>6, <1>7, <1>8 DEF IInv

\* A grace timer expires.
LEMMA GraceFiresStep ==
    ASSUME IInv, NEW c \in Conns, GraceFires(c)
    PROVE  IInv'
<1>1. TypeOK'
  BY TaskNames, QueueJoined DEF IInv, TypeOK, GraceFires, PC, LockHeld, Critical
<1>2. LockHeld'
  BY TaskNames, LockJoined DEF IInv, TypeOK, GraceFires, Critical, LockHeld
<1>3. OneProcess' /\ LivesRegistered'
  BY TaskNames DEF IInv, TypeOK, GraceFires, OneProcess, LivesRegistered
<1>4. CancelHitsSleepers'
  BY TaskNames DEF IInv, TypeOK, GraceFires, CancelHitsSleepers, OwnSteps
<1>5. DyingIsHandled'
  BY TaskNames DEF IInv, TypeOK, GraceFires, DyingIsHandled, CancelHitsSleepers
<1>6. NoOtherLives' /\ HasTarget'
  BY TaskNames DEF IInv, TypeOK, GraceFires, NoOtherLives, HasTarget, OwnSteps
<1>7. RoutesGone'
  BY TaskNames DEF IInv, TypeOK, GraceFires, RoutesGone, OwnSteps
<1>8. OwnSteps'
  BY TaskNames DEF IInv, TypeOK, GraceFires, OwnSteps, CancelHitsSleepers
<1> QED
  BY <1>1, <1>2, <1>3, <1>4, <1>5, <1>6, <1>7, <1>8 DEF IInv

\* A session grows quiet.
LEMMA TimePassesStep ==
    ASSUME IInv, NEW s \in Sessions, TimePasses(s)
    PROVE  IInv'
<1>1. TypeOK'
  BY TaskNames DEF IInv, TypeOK, TimePasses, PC, LockHeld, Critical
<1>2. LockHeld'
  BY TaskNames, LockKept DEF IInv, TypeOK, TimePasses, Critical, LockHeld
<1>3. OneProcess' /\ LivesRegistered'
  BY TaskNames DEF IInv, TypeOK, TimePasses, OneProcess, LivesRegistered
<1>4. CancelHitsSleepers'
  BY TaskNames DEF IInv, TypeOK, TimePasses, CancelHitsSleepers, OwnSteps
<1>5. DyingIsHandled'
  BY TaskNames DEF IInv, TypeOK, TimePasses, DyingIsHandled, CancelHitsSleepers
<1>6. NoOtherLives' /\ HasTarget'
  BY TaskNames DEF IInv, TypeOK, TimePasses, NoOtherLives, HasTarget, OwnSteps
<1>7. RoutesGone'
  BY TaskNames DEF IInv, TypeOK, TimePasses, RoutesGone, OwnSteps
<1>8. OwnSteps'
  BY TaskNames DEF IInv, TypeOK, TimePasses, OwnSteps, CancelHitsSleepers
<1> QED
  BY <1>1, <1>2, <1>3, <1>4, <1>5, <1>6, <1>7, <1>8 DEF IInv

\* A session is used.
LEMMA ActivityStep ==
    ASSUME IInv, NEW s \in Sessions, Activity(s)
    PROVE  IInv'
<1>1. TypeOK'
  BY TaskNames DEF IInv, TypeOK, Activity, PC, LockHeld, Critical
<1>2. LockHeld'
  BY TaskNames, LockKept DEF IInv, TypeOK, Activity, Critical, LockHeld
<1>3. OneProcess' /\ LivesRegistered'
  BY TaskNames DEF IInv, TypeOK, Activity, OneProcess, LivesRegistered
<1>4. CancelHitsSleepers'
  BY TaskNames DEF IInv, TypeOK, Activity, CancelHitsSleepers, OwnSteps
<1>5. DyingIsHandled'
  BY TaskNames DEF IInv, TypeOK, Activity, DyingIsHandled, CancelHitsSleepers
<1>6. NoOtherLives' /\ HasTarget'
  BY TaskNames DEF IInv, TypeOK, Activity, NoOtherLives, HasTarget, OwnSteps
<1>7. RoutesGone'
  BY TaskNames DEF IInv, TypeOK, Activity, RoutesGone, OwnSteps
<1>8. OwnSteps'
  BY TaskNames DEF IInv, TypeOK, Activity, OwnSteps, CancelHitsSleepers
<1> QED
  BY <1>1, <1>2, <1>3, <1>4, <1>5, <1>6, <1>7, <1>8 DEF IInv

\* An idle countdown ends.
LEMMA IdleFiresStep ==
    ASSUME IInv, NEW s \in Sessions, IdleFires(s)
    PROVE  IInv'
<1>1. TypeOK'
  BY TaskNames, QueueJoined DEF IInv, TypeOK, IdleFires, PC, LockHeld, Critical
<1>2. LockHeld'
  BY TaskNames, LockJoined DEF IInv, TypeOK, IdleFires, Critical, LockHeld
<1>3. OneProcess' /\ LivesRegistered'
  BY TaskNames DEF IInv, TypeOK, IdleFires, OneProcess, LivesRegistered
<1>4. CancelHitsSleepers'
  BY TaskNames DEF IInv, TypeOK, IdleFires, CancelHitsSleepers, OwnSteps
<1>5. DyingIsHandled'
  BY TaskNames DEF IInv, TypeOK, IdleFires, DyingIsHandled, CancelHitsSleepers
<1>6. NoOtherLives' /\ HasTarget'
  BY TaskNames DEF IInv, TypeOK, IdleFires, NoOtherLives, HasTarget, OwnSteps
<1>7. RoutesGone'
  BY TaskNames DEF IInv, TypeOK, IdleFires, RoutesGone, OwnSteps
<1>8. OwnSteps'
  BY TaskNames DEF IInv, TypeOK, IdleFires, OwnSteps, CancelHitsSleepers
<1> QED
  BY <1>1, <1>2, <1>3, <1>4, <1>5, <1>6, <1>7, <1>8 DEF IInv

\* A process exits.
LEMMA ChildExitsStep ==
    ASSUME IInv, NEW s \in Sessions, ChildExits(s)
    PROVE  IInv'
<1>1. TypeOK'
  BY TaskNames DEF IInv, TypeOK, ChildExits, PC, LockHeld, Critical
<1>2. LockHeld'
  BY TaskNames, LockKept DEF IInv, TypeOK, ChildExits, Critical, LockHeld
<1>3. OneProcess' /\ LivesRegistered'
  BY TaskNames DEF IInv, TypeOK, ChildExits, OneProcess, LivesRegistered
<1>4. CancelHitsSleepers'
  BY TaskNames DEF IInv, TypeOK, ChildExits, CancelHitsSleepers, OwnSteps
<1>5. DyingIsHandled'
  BY TaskNames DEF IInv, TypeOK, ChildExits, DyingIsHandled, CancelHitsSleepers
<1>6. NoOtherLives' /\ HasTarget'
  BY TaskNames DEF IInv, TypeOK, ChildExits, NoOtherLives, HasTarget, OwnSteps
<1>7. RoutesGone'
  BY TaskNames DEF IInv, TypeOK, ChildExits, RoutesGone, OwnSteps
<1>8. OwnSteps'
  BY TaskNames DEF IInv, TypeOK, ChildExits, OwnSteps, CancelHitsSleepers
<1> QED
  BY <1>1, <1>2, <1>3, <1>4, <1>5, <1>6, <1>7, <1>8 DEF IInv

\* The exit is seen.
LEMMA EofStep ==
    ASSUME IInv, NEW s \in Sessions, Eof(s)
    PROVE  IInv'
<1>1. TypeOK'
  BY TaskNames DEF IInv, TypeOK, Eof, PC, LockHeld, Critical
<1>2. LockHeld'
  BY TaskNames, LockKept DEF IInv, TypeOK, Eof, Critical, LockHeld
<1>3. OneProcess' /\ LivesRegistered'
  BY TaskNames DEF IInv, TypeOK, Eof, OneProcess, LivesRegistered
<1>4. CancelHitsSleepers'
  BY TaskNames DEF IInv, TypeOK, Eof, CancelHitsSleepers, OwnSteps
<1>5. DyingIsHandled'
  BY TaskNames DEF IInv, TypeOK, Eof, DyingIsHandled, CancelHitsSleepers
<1>6. NoOtherLives' /\ HasTarget'
  BY TaskNames DEF IInv, TypeOK, Eof, NoOtherLives, HasTarget, OwnSteps
<1>7. RoutesGone'
  <2>1. OthersStay({Exit(s)})
    BY MoveEffect, TaskNames DEF Eof, PC, IInv, TypeOK
  <2> QED
    BY <2>1, RoutesKept, TaskNames
<1>8. OwnSteps'
  BY TaskNames DEF IInv, TypeOK, Eof, OwnSteps, CancelHitsSleepers
<1> QED
  BY <1>1, <1>2, <1>3, <1>4, <1>5, <1>6, <1>7, <1>8 DEF IInv

\* The last socket of an exited session is closed.
LEMMA ExitClosedStep ==
    ASSUME IInv, NEW s \in Sessions, ExitClosed(s)
    PROVE  IInv'
<1>1. TypeOK'
  <2>1. sock' \in [Conns -> {"init", "open", "stuck", "gone", "closed"}]
    BY DEF ExitClosed, Closed, IInv, TypeOK
  <2>2. told' \in BOOLEAN
    BY DEF ExitClosed, Live, IInv, TypeOK
  <2>3. pc' \in [Task -> PC] /\ victim' \in [Task -> Conns \cup {None}]
    BY TaskNames DEF ExitClosed, IInv, TypeOK, PC
  <2>4. writer' \in [Sessions -> Conns \cup {None}]
    BY DEF ExitClosed, IInv, TypeOK
  <2> QED
    BY <2>1, <2>2, <2>3, <2>4 DEF ExitClosed, IInv, TypeOK
<1>2. LockHeld'
  BY TaskNames, LockKept DEF IInv, TypeOK, ExitClosed, Closed, Critical, LockHeld
<1>3. OneProcess' /\ LivesRegistered'
  BY TaskNames DEF IInv, TypeOK, ExitClosed, Closed, OneProcess, LivesRegistered
<1>4. CancelHitsSleepers'
  BY TaskNames DEF IInv, TypeOK, ExitClosed, Closed, CancelHitsSleepers, OwnSteps
<1>5. DyingIsHandled'
  BY TaskNames DEF IInv, TypeOK, ExitClosed, Closed, DyingIsHandled, CancelHitsSleepers
<1>6. NoOtherLives' /\ HasTarget'
  BY TaskNames DEF IInv, TypeOK, ExitClosed, Closed, NoOtherLives, HasTarget, OwnSteps
<1>7. RoutesGone'
  BY TaskNames DEF IInv, TypeOK, ExitClosed, Closed, RoutesGone, OwnSteps
<1>8. OwnSteps'
  BY TaskNames DEF IInv, TypeOK, ExitClosed, Closed, OwnSteps, CancelHitsSleepers
<1> QED
  BY <1>1, <1>2, <1>3, <1>4, <1>5, <1>6, <1>7, <1>8 DEF IInv

\* Shutdown ends.
LEMMA ShutdownDoneStep ==
    ASSUME IInv, ShutdownDone
    PROVE  IInv'
<1>1. TypeOK'
  BY TaskNames DEF IInv, TypeOK, ShutdownDone, PC, LockHeld, Critical
<1>2. LockHeld'
  BY TaskNames, LockKept DEF IInv, TypeOK, ShutdownDone, Critical, LockHeld
<1>3. OneProcess' /\ LivesRegistered'
  <2>1. \A r \in Sessions : alive[r] => r = on[Main]
    BY TaskNames DEF ShutdownDone, IInv, NoOtherLives
  <2>2. on[Main] \in Sessions
    BY TaskNames DEF ShutdownDone, IInv, HasTarget
  <2>3. /\ \A r \in Sessions : ~alive'[r]
        /\ \A r \in Sessions : child'[r] = child[r] \/ child'[r] = "reaped"
        /\ child'[on[Main]] = "reaped" /\ UNCHANGED terminating
    BY <2>1, <2>2 DEF ShutdownDone, IInv, TypeOK
  <2> QED
    BY <2>1, <2>3 DEF IInv, OneProcess, LivesRegistered
<1>4. CancelHitsSleepers'
  BY TaskNames DEF IInv, TypeOK, ShutdownDone, CancelHitsSleepers, OwnSteps
<1>5. DyingIsHandled'
  BY TaskNames DEF IInv, TypeOK, ShutdownDone, DyingIsHandled, CancelHitsSleepers
<1>6. NoOtherLives' /\ HasTarget'
  BY TaskNames DEF IInv, TypeOK, ShutdownDone, NoOtherLives, HasTarget, OwnSteps
<1>7. RoutesGone'
  BY TaskNames DEF IInv, TypeOK, ShutdownDone, RoutesGone, OwnSteps
<1>8. OwnSteps'
  BY TaskNames DEF IInv, TypeOK, ShutdownDone, OwnSteps, CancelHitsSleepers
<1> QED
  BY <1>1, <1>2, <1>3, <1>4, <1>5, <1>6, <1>7, <1>8 DEF IInv

\* Mode new meets a live session.
LEMMA ReplaceStep ==
    ASSUME IInv, NEW c \in Conns, Replace(c)
    PROVE  IInv'
<1> DEFINE t == Conn(c)
           q == GraceCancelled(reg)
<1>1. /\ reg \in Sessions /\ alive[reg] /\ t \in Task /\ t[1] = "conn" /\ t # Main
      /\ pc[t] = "lock" /\ Holds(t) /\ pc[Main] = "init"
      /\ \A r \in Sessions : alive[r] => r = reg
  BY TaskNames, RouteExcludesShutdown
     DEF Replace, Live, IInv, TypeOK, LivesRegistered
<1>2. q \in [Task -> PC] /\ \A u \in Task :
        q[u] = pc[u] \/ (pc[u] = "sleep" /\ q[u] = "done" /\ u[1] = "grace")
  BY <1>1, CancelEffect
<1>3. /\ graceRef' = [graceRef EXCEPT ![reg] = None]
      /\ ws' = [ws EXCEPT ![reg] = None]
      /\ UNCHANGED <<writer, quiet, sock, left, late>>
      /\ \/ Terminate(t, reg, q) /\ UNCHANGED victim
         \/ /\ victim' = [victim EXCEPT ![t] = ws[reg]]
            /\ pc' = [q EXCEPT ![t] = "oust"]
            /\ on' = [on EXCEPT ![t] = reg]
            /\ UNCHANGED <<lockQ, reg, alive, terminating, child, told>>
  BY DEF Replace
<1> HIDE DEF t, q
<1>4. /\ graceRef' \in [Sessions -> Conns \cup {None}]
      /\ ws' \in [Sessions -> Conns \cup {None}]
  BY <1>1, <1>3 DEF IInv, TypeOK
<1>5. CASE Terminate(t, reg, q) /\ UNCHANGED victim
  <2>1. Shared' /\ OthersStay({t})
    <3>1. \A u \in Task :
             q[u] = pc[u] \/ (pc[u] = "sleep" /\ q[u] = "done" /\ u[1] \in {"grace", "idle"})
      BY <1>2
    <3>2. Terminate(t, reg, q) /\ q \in [Task -> PC]
      BY <1>2, <1>5
    <3> QED
      BY <1>1, <3>1, <3>2, TerminateKept
  <2>2. TypeOK' /\ \A u \in Task \ {t} : on'[u] = on[u]
    <3>1. /\ pc' \in [Task -> PC] /\ on' \in [Task -> Sessions \cup {None}]
          /\ terminating' \in [Sessions -> BOOLEAN] /\ told' \in BOOLEAN
          /\ UNCHANGED <<lockQ, reg, alive, child>>
          /\ \A u \in Task \ {t} : on'[u] = on[u]
      BY <1>1, <1>2, <1>5, TerminateEffect
    <3> QED
      BY <1>3, <1>4, <1>5, <3>1 DEF IInv, TypeOK
  <2>3. CancelHitsSleepers'
    <3>1. \A u \in Task \ {t} : pc'[u] = q[u] \/ u[1] = "idle"
      BY <1>1, <1>2, <1>5, TerminateEffect
    <3>2. \A g \in Conns : Grace(g) \in Task \ {t} /\ Grace(g)[1] # "idle"
      BY <1>1, TaskNames
    <3>3. \A g \in Conns : pc'[Grace(g)] = q[Grace(g)] /\ on'[Grace(g)] = on[Grace(g)]
      BY <2>2, <3>1, <3>2
    <3>4. graceRef' = [graceRef EXCEPT ![reg] = None] /\ q = GraceCancelled(reg)
      BY <1>3 DEF q
    <3> QED
      BY <1>1, <3>3, <3>4, CancelKept
  <2> QED
    BY <2>1, <2>2, <2>3 DEF IInv, Shared
<1>6. CASE /\ victim' = [victim EXCEPT ![t] = ws[reg]]
           /\ pc' = [q EXCEPT ![t] = "oust"]
           /\ on' = [on EXCEPT ![t] = reg]
           /\ UNCHANGED <<lockQ, reg, alive, terminating, child, told>>
  <2>1. OthersStay({t}) /\ pc'[t] = "oust"
    <3>1. "oust" \in PC /\ t \in Task /\ pc' = [q EXCEPT ![t] = "oust"]
      BY <1>1, <1>6 DEF PC
    <3>2. /\ q \in [Task -> PC]
          /\ \A u \in Task :
               q[u] = pc[u] \/ (pc[u] = "sleep" /\ q[u] = "done" /\ u[1] \in {"grace", "idle"})
      BY <1>2
    <3> QED
      BY <3>1, <3>2 DEF OthersStay
  <2>2. on'[t] = reg /\ \A u \in Task \ {t} : on'[u] = on[u]
    BY <1>1, <1>6 DEF IInv, TypeOK
  <2>3. TypeOK'
    <3>1. ws[reg] \in Conns \cup {None}
      BY <1>1 DEF IInv, TypeOK
    <3> QED
      BY <1>1, <1>3, <1>4, <1>6, <2>1, <3>1 DEF IInv, TypeOK, OthersStay
  <2>4. OneProcess' /\ LivesRegistered' /\ LockHeld'
    <3>1. LockHeld'
      BY <1>1, <1>6, <2>1, LockKept DEF IInv, OthersStay, Critical
    <3> QED
      BY <1>6, <3>1 DEF IInv, OneProcess, LivesRegistered
  <2>5. DyingIsHandled'
    BY <1>1, <1>6, <2>1, <2>2 DEF IInv, DyingIsHandled, OthersStay
  <2>6. NoOtherLives' /\ HasTarget'
    BY <1>1, <1>6, <2>1, <2>2 DEF IInv, NoOtherLives, HasTarget, OthersStay
  <2>7. RoutesGone' /\ OwnSteps'
    BY <1>1, <2>1, RoutesKept, OwnKept
  <2>8. CancelHitsSleepers'
    <3>1. \A g \in Conns : pc'[Grace(g)] = q[Grace(g)] /\ on'[Grace(g)] = on[Grace(g)]
      BY <1>1, <1>2, <1>6, <2>2, TaskNames
    <3>2. graceRef' = [graceRef EXCEPT ![reg] = None] /\ q = GraceCancelled(reg)
      BY <1>3 DEF q
    <3> QED
      BY <1>1, <3>1, <3>2, CancelKept
  <2> QED
    BY <2>3, <2>4, <2>5, <2>6, <2>7, <2>8 DEF IInv
<1> QED
  BY <1>3, <1>5, <1>6

\* The end of detach(): at most the timer of the leaving socket begins to sleep.
LEMMA GraceStartedKept ==
    ASSUME IInv, NEW c \in Conns, pc[Conn(c)] \in {"open", "detach"},
           GraceStarted(c, on[Conn(c)]),
           UNCHANGED <<lockQ, reg, alive, terminating, child>>
    PROVE  /\ Shared' /\ CancelHitsSleepers'
           /\ pc' \in [Task -> PC] /\ on' \in [Task -> Sessions \cup {None}]
           /\ graceRef' \in [Sessions -> Conns \cup {None}]
<1> DEFINE s == on[Conn(c)]
<1>1. /\ Conn(c) \in Task /\ Grace(c) \in Task /\ Conn(c) # Grace(c)
      /\ Conn(c)[1] = "conn" /\ s \in Sessions
      /\ pc[Grace(c)] = "init" /\ pc[Main] = "init"
  BY TaskNames, RouteExcludesShutdown DEF IInv, TypeOK, OwnSteps, HasTarget
<1>2. /\ pc' \in [Task -> PC] /\ pc'[Conn(c)] = "done"
      /\ pc'[Grace(c)] \in {"init", "sleep"}
      /\ \A u \in Task \ {Conn(c), Grace(c)} : pc'[u] = pc[u]
      /\ on' \in [Task -> Sessions \cup {None}]
      /\ \A u \in Task \ {Grace(c)} : on'[u] = on[u]
      /\ pc'[Grace(c)] = "sleep" => on'[Grace(c)] = s
      /\ graceRef' \in [Sessions -> Conns \cup {None}]
  <2>0. /\ pc \in [Task -> PC] /\ on \in [Task -> Sessions \cup {None}]
        /\ graceRef \in [Sessions -> Conns \cup {None}]
        /\ "done" \in PC /\ "sleep" \in PC
    BY DEF IInv, TypeOK, PC
  <2>1. CASE alive[s]
    <3>1. /\ graceRef' = [graceRef EXCEPT ![s] = c]
          /\ on' = [on EXCEPT ![Grace(c)] = s]
          /\ pc' = [pc EXCEPT ![Conn(c)] = "done", ![Grace(c)] = "sleep"]
      BY <2>1 DEF GraceStarted
    <3> HIDE DEF s
    <3> QED
      BY <1>1, <2>0, <3>1
  <2>2. CASE ~alive[s]
    <3>1. /\ pc' = [pc EXCEPT ![Conn(c)] = "done"]
          /\ graceRef' = graceRef /\ on' = on
      BY <2>2 DEF GraceStarted
    <3> HIDE DEF s
    <3> QED
      BY <1>1, <2>0, <3>1
  <2> QED
    BY <2>1, <2>2
<1>3. OneProcess' /\ LivesRegistered'
  BY DEF IInv, OneProcess, LivesRegistered
<1>4. LockHeld'
  BY <1>1, <1>2, LockKept DEF IInv, Critical
<1>5. DyingIsHandled'
  BY <1>1, <1>2 DEF IInv, DyingIsHandled
<1>6. NoOtherLives' /\ HasTarget'
  BY <1>1, <1>2 DEF IInv, NoOtherLives, HasTarget
<1>7. RoutesGone'
  <2>1. Main \in Task \ {Conn(c), Grace(c)}
    BY TaskNames
  <2> QED
    BY <1>1, <1>2, <2>1 DEF RoutesGone
<1>8. OwnSteps'
  <2>1. /\ Main \in Task \ {Conn(c), Grace(c)}
        /\ \A r \in Sessions : Exit(r) \in Task \ {Conn(c), Grace(c)}
        /\ \A d \in Conns \ {c} : /\ Grace(d) \in Task \ {Conn(c), Grace(c)}
                                  /\ Conn(d) \in Task \ {Conn(c), Grace(c)}
    BY TaskNames
  <2> QED
    BY <1>1, <1>2, <2>1 DEF IInv, OwnSteps
<1>9. CancelHitsSleepers'
  <2> SUFFICES ASSUME NEW r \in Sessions, graceRef'[r] # None
               PROVE  /\ pc'[Grace(graceRef'[r])] = "sleep"
                      /\ on'[Grace(graceRef'[r])] = r
    BY DEF CancelHitsSleepers
  <2>1. CASE alive[s] /\ r = s
    BY <2>1, <1>1 DEF GraceStarted, IInv, TypeOK
  <2>2. CASE ~(alive[s] /\ r = s)
    <3>1. graceRef'[r] = graceRef[r] /\ graceRef[r] \in Conns
      BY <2>2 DEF GraceStarted, IInv, TypeOK
    <3>2. pc[Grace(graceRef[r])] = "sleep" /\ on[Grace(graceRef[r])] = r
      BY <3>1 DEF IInv, CancelHitsSleepers
    <3>3. Grace(graceRef[r]) \in Task \ {Conn(c), Grace(c)}
      BY <1>1, <3>1, <3>2, TaskNames
    <3> QED
      BY <1>2, <3>1, <3>2, <3>3
  <2> QED
    BY <2>1, <2>2
<1> QED
  BY <1>2, <1>3, <1>4, <1>5, <1>6, <1>7, <1>8, <1>9 DEF Shared

\* The writer of a leaving socket is stopped.
LEMMA DetachDoneStep ==
    ASSUME IInv, NEW c \in Conns, DetachDone(c)
    PROVE  IInv'
<1>1. writer' \in [Sessions -> Conns \cup {None}]
  BY DEF DetachDone, IInv, TypeOK
<1>2. /\ Shared' /\ CancelHitsSleepers'
      /\ pc' \in [Task -> PC] /\ on' \in [Task -> Sessions \cup {None}]
      /\ graceRef' \in [Sessions -> Conns \cup {None}]
  BY GraceStartedKept DEF DetachDone
<1> QED
  BY <1>1, <1>2 DEF IInv, Shared, TypeOK, DetachDone

\* A route lets its session go.
LEMMA DetachStep ==
    ASSUME IInv, NEW c \in Conns, Detach(c)
    PROVE  IInv'
<1>1. /\ UNCHANGED <<lockQ, reg, alive, terminating, child, writer, quiet, victim,
                     sock, late, told>>
      /\ pc[Conn(c)] = "open"
  BY DEF Detach
<1>2. /\ ws' \in [Sessions -> Conns \cup {None}]
      /\ left' \in [Sessions -> Conns \cup {None}]
  BY DEF Detach, IInv, TypeOK
<1>3. CASE GraceStarted(c, on[Conn(c)])
  BY <1>1, <1>2, <1>3, GraceStartedKept DEF IInv, Shared, TypeOK
<1>4. CASE /\ pc' = [pc EXCEPT ![Conn(c)] = "done"] \/ pc' = [pc EXCEPT ![Conn(c)] = "detach"]
           /\ UNCHANGED <<graceRef, on>>
  <2>1. /\ "done" \in PC /\ "detach" \in PC /\ pc \in [Task -> PC]
        /\ Conn(c) \in Task /\ Conn(c)[1] = "conn" /\ Conn(c) # Main
        /\ pc[Main] = "init"
    <3>1. pc[Main] = "init"
      BY <1>1, RouteExcludesShutdown
    <3>2. pc \in [Task -> PC]
      BY DEF IInv, TypeOK
    <3> QED
      BY <3>1, <3>2, TaskNames DEF PC
  <2>2. OthersStay({Conn(c)}) /\ pc'[Conn(c)] \in {"done", "detach"}
    <3>1. PICK p \in {"done", "detach"} : pc' = [pc EXCEPT ![Conn(c)] = p]
      BY <1>4
    <3> QED
      BY <2>1, <3>1, MoveEffect
  <2>3. TypeOK' /\ OneProcess' /\ LivesRegistered'
    BY <1>1, <1>2, <1>4, <2>2
       DEF IInv, TypeOK, OneProcess, LivesRegistered, OthersStay
  <2>4. LockHeld'
    BY <1>1, <2>1, <2>2, LockKept DEF IInv, OthersStay, Critical
  <2>5. DyingIsHandled' /\ NoOtherLives' /\ HasTarget'
    BY <1>1, <1>4, <2>1, <2>2
       DEF IInv, DyingIsHandled, NoOtherLives, HasTarget, OthersStay
  <2>6. RoutesGone' /\ OwnSteps'
    BY <1>1, <2>1, <2>2, RoutesKept, OwnKept
  <2>7. CancelHitsSleepers'
    BY <1>4, <2>1, TaskNames, TimersKept
  <2> QED
    BY <2>3, <2>4, <2>5, <2>6, <2>7 DEF IInv
<1> QED
  BY <1>3, <1>4 DEF Detach

\* A notified socket is closed: terminate() follows, or there is nothing left
\* to terminate.
LEMMA CloseDoneStep ==
    ASSUME IInv, NEW t \in Task, CloseDone(t)
    PROVE  IInv'
<1> DEFINE s == on[t]
<1>1. /\ pc[t] = "close" /\ t[1] # "exit" /\ t # Main /\ Holds(t) /\ s \in Sessions
      /\ pc \in [Task -> PC]
  BY TaskNames DEF CloseDone, IInv, TypeOK, OwnSteps, LockHeld, HasTarget, Critical
<1>2. /\ t[1] \in {"conn", "end"} => pc[Main] = "init"
      /\ t[1] = "conn" => \A r \in Sessions : alive[r] => r = s
  BY <1>1, ConnTask, EndTask, RouteExcludesShutdown DEF IInv, NoOtherLives
<1>3. /\ UNCHANGED <<ws, graceRef, quiet, left, late>>
      /\ IF alive[s] THEN Terminate(t, s, pc)
         ELSE /\ reg' = IF reg = s THEN None ELSE reg
              /\ Leaves(t)
              /\ UNCHANGED <<alive, terminating, child, on, told>>
  BY DEF CloseDone
<1>4. /\ sock' \in [Conns -> {"init", "open", "stuck", "gone", "closed"}]
      /\ victim' \in [Task -> Conns \cup {None}]
      /\ writer' \in [Sessions -> Conns \cup {None}]
  <2>1. sock' \in [Conns -> {"init", "open", "stuck", "gone", "closed"}]
    BY DEF CloseDone, Closed, IInv, TypeOK
  <2> QED
    BY <2>1 DEF CloseDone, IInv, TypeOK
<1>5. \A g \in Conns : pc[Grace(g)] = "sleep" => Grace(g) \in Task \ {t}
  BY <1>1, TaskNames
<1>6. CASE alive[s]
  <2>1. Shared' /\ OthersStay({t})
    BY <1>1, <1>2, <1>3, <1>6, TerminateKept
  <2>2. /\ TypeOK'
        /\ \A u \in Task \ {t} : on'[u] = on[u] /\ (pc'[u] = pc[u] \/ u[1] = "idle")
    BY <1>1, <1>3, <1>4, <1>6, TerminateEffect DEF IInv, TypeOK
  <2>3. CancelHitsSleepers'
    BY <1>3, <1>5, <2>2, TaskNames, TimersKept
  <2> QED
    BY <2>1, <2>2, <2>3 DEF IInv, Shared
<1>7. CASE ~alive[s]
  <2>1. Shared' /\ OthersStay({t}) /\ lockQ' \in Seq(Task)
    <3>1. \A r \in Sessions : alive'[r] => alive[r] /\ reg' = reg
      BY <1>3, <1>7 DEF IInv, LivesRegistered
    <3>2. /\ \A r \in Sessions : child[r] \in {"running", "exited"} => alive'[r]
          /\ alive' \in [Sessions -> BOOLEAN]
          /\ UNCHANGED <<child, on, terminating>> /\ Leaves(t)
      BY <1>3, <1>7 DEF IInv, TypeOK, OneProcess
    <3> QED
      BY <1>1, <1>2, <3>1, <3>2, LeavesKept
  <2>2. TypeOK'
    BY <1>3, <1>4, <1>7, <2>1 DEF IInv, TypeOK, OthersStay
  <2>3. CancelHitsSleepers'
    BY <1>1, <1>3, <1>5, <1>7, TimersKept DEF Leaves
  <2> QED
    BY <2>1, <2>2, <2>3 DEF IInv, Shared
<1> QED
  BY <1>6, <1>7

\* The child is gone: the entry is dropped, or a new process takes its place.
LEMMA TermDoneStep ==
    ASSUME IInv, NEW t \in Task, TermDone(t)
    PROVE  IInv'
<1> DEFINE s == on[t]
           aliveNow == [alive EXCEPT ![s] = FALSE]
           childNow == [child EXCEPT ![s] = "reaped"]
<1>1. /\ pc[t] = "term" /\ t # Main /\ UNCHANGED victim
      /\ IF t[1] = "conn"
         THEN Launch(t[2], aliveNow, childNow, sock)
         ELSE /\ alive' = aliveNow
              /\ child' = childNow
              /\ reg' = IF reg = s THEN None ELSE reg
              /\ Leaves(t)
              /\ UNCHANGED <<terminating, ws, writer, graceRef, quiet, on,
                             sock, left, late, told>>
  BY DEF TermDone
<1>2. /\ t[1] # "exit" /\ Holds(t) /\ s \in Sessions
      /\ aliveNow \in [Sessions -> BOOLEAN]
      /\ childNow \in [Sessions -> {"unborn", "running", "exited", "reaped"}]
      /\ t[1] \in {"conn", "end"} => pc[Main] = "init"
  <2>1. t[1] # "exit"
    BY <1>1, ExitTask DEF IInv, OwnSteps
  <2> QED
    BY <1>1, <2>1, ConnTask, EndTask, RouteExcludesShutdown
       DEF IInv, TypeOK, LockHeld, HasTarget, Critical
<1>3. CASE t[1] = "conn"
  <2>1. PICK c \in Conns : t = Conn(c) /\ t[2] = c
    BY <1>3, ConnTask
  <2>2. \A r \in Sessions : alive[r] => r = s
    BY <1>1, <1>3 DEF IInv, NoOtherLives
  <2>3. \A r \in Sessions :
          ~aliveNow[r] /\ (childNow[r] = child[r] \/ childNow[r] = "reaped")
            /\ childNow[r] \notin {"running", "exited"}
    BY <1>2, <2>2 DEF IInv, TypeOK, OneProcess
  <2>4. Launch(c, aliveNow, childNow, sock)
    BY <1>1, <1>3, <2>1
  <2> HIDE DEF aliveNow, childNow
  <2> QED
    BY <1>1, <1>2, <2>1, <2>3, <2>4, LaunchKept DEF IInv, TypeOK
<1>4. CASE t[1] # "conn"
  <2>0. /\ alive' = aliveNow /\ child' = childNow
        /\ reg' = IF reg = s THEN None ELSE reg
    BY <1>1, <1>4
  <2>1. /\ \A r \in Sessions : alive'[r] => alive[r] /\ reg' = reg
        /\ \A r \in Sessions : child'[r] = child[r]
                                 \/ (~alive'[r] /\ child'[r] = "reaped")
        /\ \A r \in Sessions : child[r] \in {"running", "exited"} /\ ~alive'[r]
                                 => child'[r] = "reaped"
        /\ ~alive'[s] /\ alive' \in [Sessions -> BOOLEAN]
    <3>1. alive' \in [Sessions -> BOOLEAN] /\ ~alive'[s] /\ child'[s] = "reaped"
      BY <1>2, <2>0 DEF IInv, TypeOK
    <3>2. \A r \in Sessions \ {s} : alive'[r] = alive[r] /\ child'[r] = child[r]
      BY <1>2, <2>0 DEF IInv, TypeOK
    <3>3. \A r \in Sessions : alive'[r] => alive[r] /\ reg' = reg
      BY <2>0, <3>1, <3>2 DEF IInv, LivesRegistered
    <3> QED
      BY <3>1, <3>2, <3>3 DEF IInv, OneProcess
  <2>2. Leaves(t) /\ UNCHANGED <<on, terminating>>
    BY <1>1, <1>4
  <2>3. Shared' /\ OthersStay({t}) /\ lockQ' \in Seq(Task)
    BY <1>1, <1>2, <1>4, <2>1, <2>2, LeavesKept DEF IInv
  <2>4. TypeOK'
    <3>1. alive' \in [Sessions -> BOOLEAN] /\ reg' \in Sessions \cup {None}
      BY <1>2, <2>0 DEF IInv, TypeOK
    <3>2. child' \in [Sessions -> {"unborn", "running", "exited", "reaped"}]
      BY <1>2, <2>0
    <3>3. UNCHANGED <<terminating, ws, writer, graceRef, quiet, on, sock, left,
                      late, told, victim>>
      BY <1>1, <1>4
    <3> QED
      BY <2>3, <3>1, <3>2, <3>3 DEF IInv, TypeOK, OthersStay
  <2>5. CancelHitsSleepers'
    <3>1. \A g \in Conns : pc[Grace(g)] = "sleep" => pc'[Grace(g)] = "sleep"
      BY <1>1, <2>2, TaskNames DEF Leaves, IInv, TypeOK
    <3> QED
      BY <1>1, <1>4, <3>1, TimersKept
  <2> QED
    BY <2>3, <2>4, <2>5 DEF IInv, Shared
<1> QED
  BY <1>3, <1>4

\* An end request meets a live session.
LEMMA EndLiveStep ==
    ASSUME IInv, NEW e \in Enders, EndLive(e)
    PROVE  IInv'
<1> DEFINE t == End(e)
           q == GraceCancelled(reg)
<1>1. /\ reg \in Sessions /\ alive[reg] /\ t \in Task /\ t[1] = "end"
      /\ pc[t] = "lock" /\ Holds(t) /\ pc[Main] = "init"
  BY TaskNames, RouteExcludesShutdown DEF EndLive, Live, IInv, TypeOK
<1>2. q \in [Task -> PC] /\ \A u \in Task :
        q[u] = pc[u] \/ (pc[u] = "sleep" /\ q[u] = "done" /\ u[1] = "grace")
  BY <1>1, CancelEffect
<1>3. /\ graceRef' = [graceRef EXCEPT ![reg] = None]
      /\ NotifyAndTerminate(t, reg, q)
      /\ UNCHANGED <<writer, quiet, sock, left, late>>
  BY DEF EndLive
<1> HIDE DEF t, q
<1>4. /\ Shared' /\ OthersStay({t})
      /\ victim' \in [Task -> Conns \cup {None}]
      /\ ws' \in [Sessions -> Conns \cup {None}]
      /\ on' \in [Task -> Sessions \cup {None}]
      /\ \A u \in Task \ {t} : on'[u] = on[u]
      /\ terminating' \in [Sessions -> BOOLEAN] /\ told' \in BOOLEAN
      /\ UNCHANGED <<lockQ, reg, alive, child>>
  BY <1>1, <1>2, <1>3, NotifyKept
<1>5. TypeOK'
  BY <1>1, <1>3, <1>4 DEF IInv, TypeOK, OthersStay
<1>6. CancelHitsSleepers'
  <2>1. \A g \in Conns : Grace(g) \in Task \ {t} /\ Grace(g)[1] # "idle"
    BY <1>1, TaskNames
  <2>2. \A u \in Task \ {t} : pc'[u] = q[u] \/ u[1] = "idle"
    BY <1>1, <1>2, <1>3, TerminateEffect DEF NotifyAndTerminate
  <2> QED
    <3>1. \A g \in Conns : pc'[Grace(g)] = q[Grace(g)] /\ on'[Grace(g)] = on[Grace(g)]
      BY <1>4, <2>1, <2>2
    <3>2. graceRef' = [graceRef EXCEPT ![reg] = None] /\ q = GraceCancelled(reg)
      BY <1>3 DEF q
    <3> QED
      BY <1>1, <3>1, <3>2, CancelKept
<1> QED
  BY <1>4, <1>5, <1>6 DEF IInv, Shared

\* An expired grace timer has the lock.
LEMMA GraceExpiresStep ==
    ASSUME IInv, NEW c \in Conns, GraceExpires(c)
    PROVE  IInv'
<1> DEFINE t == Grace(c)
           s == on[t]
<1>1. /\ t \in Task /\ t[1] = "grace" /\ t # Main /\ pc[t] = "lock" /\ Holds(t)
      /\ pc \in [Task -> PC] /\ s \in Sessions
  BY TaskNames DEF GraceExpires, IInv, TypeOK, HasTarget
<1>2. /\ UNCHANGED <<ws, writer, graceRef, quiet, victim, sock, left, late>>
      /\ IF reg = s /\ ws[s] = None /\ alive[s]
         THEN Terminate(t, s, pc)
         ELSE Leaves(t) /\ UNCHANGED <<reg, alive, terminating, child, on, told>>
  BY DEF GraceExpires
<1>3. CASE Leaves(t) /\ UNCHANGED <<reg, alive, terminating, child, on, told>>
  <2>1. Shared' /\ OthersStay({t}) /\ lockQ' \in Seq(Task)
    BY <1>1, <1>3, LeavesKept DEF IInv, TypeOK, OneProcess
  <2>2. TypeOK'
    BY <1>2, <1>3, <2>1 DEF IInv, TypeOK, OthersStay
  <2>3. CancelHitsSleepers'
    BY <1>1, <1>2, <1>3, TaskNames, TimersKept DEF Leaves
  <2> QED
    BY <2>1, <2>2, <2>3 DEF IInv, Shared
<1>4. CASE Terminate(t, s, pc) /\ reg = s /\ alive[s]
  <2>1. Shared' /\ OthersStay({t})
    BY <1>1, <1>4, TerminateKept
  <2>2. /\ TypeOK'
        /\ \A u \in Task \ {t} : on'[u] = on[u] /\ (pc'[u] = pc[u] \/ u[1] = "idle")
    BY <1>1, <1>2, <1>4, TerminateEffect DEF IInv, TypeOK
  <2>3. CancelHitsSleepers'
    <3>1. \A g \in Conns : pc[Grace(g)] = "sleep" => Grace(g) \in Task \ {t}
      BY <1>1, TaskNames
    <3> QED
      BY <1>2, <2>2, <3>1, TaskNames, TimersKept
  <2> QED
    BY <2>1, <2>2, <2>3 DEF IInv, Shared
<1> QED
  BY <1>2, <1>3, <1>4
\* An expired idle countdown has the lock.
LEMMA IdleExpiresStep ==
    ASSUME IInv, NEW s \in Sessions, IdleExpires(s)
    PROVE  IInv'
<1> DEFINE t == Idle(s)
<1>1. /\ t \in Task /\ t[1] = "idle" /\ t # Main /\ pc[t] = "lock" /\ Holds(t)
      /\ pc \in [Task -> PC]
  BY TaskNames DEF IdleExpires, IInv, TypeOK
<1>2. /\ UNCHANGED <<writer, graceRef, quiet, sock, left, late>>
      /\ IF reg = s /\ alive[s]
         THEN NotifyAndTerminate(t, s, pc)
         ELSE Leaves(t) /\ UNCHANGED <<reg, alive, terminating, child, ws, on,
                                       victim, told>>
  BY DEF IdleExpires
<1> HIDE DEF t
<1>3. CASE Leaves(t) /\ UNCHANGED <<reg, alive, terminating, child, ws, on, victim, told>>
  <2>1. Shared' /\ OthersStay({t}) /\ lockQ' \in Seq(Task)
    BY <1>1, <1>3, LeavesKept DEF IInv, TypeOK, OneProcess
  <2>2. TypeOK'
    BY <1>2, <1>3, <2>1 DEF IInv, TypeOK, OthersStay
  <2>3. CancelHitsSleepers'
    BY <1>1, <1>2, <1>3, TaskNames, TimersKept DEF Leaves
  <2> QED
    BY <2>1, <2>2, <2>3 DEF IInv, Shared
<1>4. CASE NotifyAndTerminate(t, s, pc) /\ alive[s]
  <2>1. /\ Shared' /\ OthersStay({t})
        /\ victim' \in [Task -> Conns \cup {None}]
        /\ ws' \in [Sessions -> Conns \cup {None}]
        /\ on' \in [Task -> Sessions \cup {None}]
        /\ \A u \in Task \ {t} : on'[u] = on[u]
        /\ terminating' \in [Sessions -> BOOLEAN] /\ told' \in BOOLEAN
        /\ UNCHANGED <<lockQ, reg, alive, child>>
    BY <1>1, <1>4, NotifyKept
  <2>2. TypeOK'
    BY <1>2, <2>1 DEF IInv, TypeOK, OthersStay
  <2>3. CancelHitsSleepers'
    <3>1. \A u \in Task \ {t} : pc'[u] = pc[u] \/ u[1] = "idle"
      BY <1>1, <1>4, TerminateEffect DEF NotifyAndTerminate
    <3>2. \A g \in Conns : Grace(g) \in Task \ {t} /\ Grace(g)[1] # "idle"
      BY <1>1, TaskNames
    <3> QED
      BY <1>2, <2>1, <3>1, <3>2, TimersKept
  <2> QED
    BY <2>1, <2>2, <2>3 DEF IInv, Shared
<1> QED
  BY <1>2, <1>3, <1>4

\* The exit task of a session runs.
LEMMA HandleExitStep ==
    ASSUME IInv, NEW s \in Sessions, HandleExit(s)
    PROVE  IInv'
<1> DEFINE t == Exit(s)
<1>1. /\ t \in Task /\ t[1] = "exit" /\ t # Main /\ pc[t] = "ready"
      /\ pc \in [Task -> PC] /\ "done" \in PC /\ "close" \in PC
      /\ UNCHANGED <<lockQ, reg, terminating, writer, graceRef, quiet, on,
                     sock, left, late>>
  BY TaskNames DEF HandleExit, IInv, TypeOK, PC
<1>2. /\ OthersStay({t}) /\ pc'[t] \in {"done", "close"}
      /\ \A u \in Task \ {t} : pc'[u] = pc[u] \/ u[1] = "idle"
  <2>1. CASE ~alive[s]
    <3>1. pc' = [pc EXCEPT ![t] = "done"]
      BY <2>1 DEF HandleExit
    <3> QED
      BY <1>1, <3>1, MoveEffect
  <2>2. CASE alive[s]
    <3>1. PICK p \in {"done", "close"} : pc' = IdleCancelled([pc EXCEPT ![t] = p], s)
      BY <2>2 DEF HandleExit
    <3>2. PICK q \in [Task -> PC] : q = [pc EXCEPT ![t] = p]
      BY <1>1
    <3>a. pc' = IdleCancelled(q, s) /\ t # Idle(s) /\ Idle(s) \in Task
      BY <3>1, <3>2, TaskNames
    <3>b. /\ pc' \in [Task -> PC]
          /\ \A u \in Task : \/ pc'[u] = q[u]
                             \/ q[u] = "sleep" /\ pc'[u] = "done" /\ u[1] = "idle"
      <4>1. PICK r : r = IdleCancelled(q, s)
        OBVIOUS
      <4>2. /\ r \in [Task -> PC]
            /\ \A u \in Task : \/ r[u] = q[u]
                               \/ q[u] = "sleep" /\ r[u] = "done" /\ u[1] = "idle"
        BY <4>1, IdleEffect
      <4> QED
        BY <3>a, <4>1, <4>2
    <3>3. pc' \in [Task -> PC] /\ pc'[t] = p
      BY <1>1, <3>2, <3>b
    <3>4. \A u \in Task \ {t} :
             \/ pc'[u] = pc[u]
             \/ pc[u] = "sleep" /\ pc'[u] = "done" /\ u[1] = "idle"
      BY <1>1, <3>2, <3>b
    <3> QED
      BY <3>3, <3>4 DEF OthersStay
  <2> QED
    BY <2>1, <2>2
<1>3. /\ alive' \in [Sessions -> BOOLEAN]
      /\ child' \in [Sessions -> {"unborn", "running", "exited", "reaped"}]
      /\ \A r \in Sessions : alive'[r] => alive[r]
      /\ \A r \in Sessions : \/ child'[r] = child[r] /\ alive'[r] = alive[r]
                             \/ child'[r] = "reaped"
  <2>1. /\ alive \in [Sessions -> BOOLEAN]
        /\ child \in [Sessions -> {"unborn", "running", "exited", "reaped"}]
    BY DEF IInv, TypeOK
  <2>2. CASE ~alive[s]
    <3>1. UNCHANGED <<alive, child>>
      BY <2>2 DEF HandleExit
    <3> QED
      BY <2>1, <3>1
  <2>3. CASE alive[s]
    <3>1. /\ alive' = [alive EXCEPT ![s] = FALSE]
          /\ child' = [child EXCEPT ![s] = "reaped"]
      BY <2>3 DEF HandleExit
    <3> QED
      BY <2>1, <3>1
  <2> QED
    BY <2>2, <2>3
<1>4. TypeOK'
  <2>1. /\ ws' \in [Sessions -> Conns \cup {None}]
        /\ victim' \in [Task -> Conns \cup {None}]
    BY DEF HandleExit, IInv, TypeOK
  <2>2. told' \in BOOLEAN
    BY DEF HandleExit, Notify, Live, IInv, TypeOK
  <2> QED
    BY <1>1, <1>2, <1>3, <2>1, <2>2 DEF IInv, TypeOK, OthersStay
<1> HIDE DEF t
<1>5. OneProcess' /\ LivesRegistered'
  BY <1>1, <1>3 DEF IInv, OneProcess, LivesRegistered
<1>6. LockHeld'
  BY <1>1, <1>2, LockKept DEF IInv, OthersStay, Critical
<1>7. DyingIsHandled' /\ HasTarget'
  BY <1>1, <1>2, <1>3 DEF IInv, DyingIsHandled, HasTarget, OthersStay
<1>8. NoOtherLives'
  BY <1>1, <1>2, <1>3, NoOtherKept
<1>9. RoutesGone' /\ OwnSteps'
  BY <1>1, <1>2, RoutesKept, OwnKept
<1>10. CancelHitsSleepers'
  <2>2. \A g \in Conns : Grace(g) \in Task \ {t} /\ Grace(g)[1] # "idle"
    BY <1>1, TaskNames
  <2> QED
    BY <1>1, <1>2, <2>2, TimersKept
<1> QED
  BY <1>4, <1>5, <1>6, <1>7, <1>8, <1>9, <1>10 DEF IInv

\* The lifespan hook begins to shut down.
LEMMA BeginShutdownStep ==
    ASSUME IInv, BeginShutdown
    PROVE  IInv'
<1>1. /\ Main \in Task /\ Main[1] = "main" /\ pc[Main] = "init"
      /\ pc \in [Task -> PC] /\ "done" \in PC
      /\ \A c \in Conns : pc[Conn(c)] \in {"init", "done"}
      /\ \A e \in Enders : pc[End(e)] \in {"init", "done"}
      /\ UNCHANGED <<ws, writer, quiet, victim, sock, left, late>>
  BY TaskNames DEF BeginShutdown, IInv, TypeOK, PC
<1>2. CASE reg = None \/ ~alive[reg]
  <2>1. /\ reg' = None
        /\ UNCHANGED <<lockQ, alive, terminating, child, on, told>>
        /\ graceRef' = IF reg = None THEN graceRef
                       ELSE [graceRef EXCEPT ![reg] = None]
        /\ pc' = [IF reg = None THEN pc ELSE GraceCancelled(reg) EXCEPT ![Main] = "done"]
    BY <1>2 DEF BeginShutdown
  <2>2. PICK q \in [Task -> PC] :
          /\ q = IF reg = None THEN pc ELSE GraceCancelled(reg)
          /\ \A u \in Task :
               q[u] = pc[u] \/ (pc[u] = "sleep" /\ q[u] = "done" /\ u[1] = "grace")
    BY <1>1, CancelEffect DEF IInv, TypeOK
  <2>3. OthersStay({Main}) /\ pc'[Main] = "done"
    BY <1>1, <2>1, <2>2, MoveEffect
  <2>4. \A r \in Sessions : ~alive[r]
    BY <1>2, NoneAssumption DEF IInv, LivesRegistered
  <2>5. TypeOK'
    BY <1>1, <2>1, <2>3 DEF IInv, TypeOK, OthersStay
  <2>6. OneProcess' /\ LivesRegistered' /\ DyingIsHandled'
    BY <2>1, <2>4 DEF IInv, OneProcess, LivesRegistered, DyingIsHandled
  <2>7. LockHeld'
    BY <2>1, <2>3, LockKept DEF IInv, OthersStay, Critical
  <2>8. NoOtherLives' /\ HasTarget'
    BY <1>1, <2>1, <2>3, <2>4 DEF IInv, NoOtherLives, HasTarget, OthersStay
  <2>9. RoutesGone'
    BY <1>1, <2>3, TaskNames DEF RoutesGone, OthersStay
  <2>10. OwnSteps'
    BY <1>1, <2>3, OwnKept
  <2>11. CancelHitsSleepers'
    <3>1. \A g \in Conns : pc'[Grace(g)] = q[Grace(g)] /\ on'[Grace(g)] = on[Grace(g)]
      BY <1>1, <2>1, <2>2, TaskNames
    <3>2. CASE reg = None
      BY <2>1, <2>2, <3>1, <3>2, TimersKept
    <3>3. CASE reg # None
      <4>1. reg \in Sessions /\ q = GraceCancelled(reg)
        BY <2>2, <3>3 DEF IInv, TypeOK
      <4> QED
        BY <2>1, <3>1, <3>3, <4>1, CancelKept
    <3> QED
      BY <3>2, <3>3
  <2> QED
    BY <2>5, <2>6, <2>7, <2>8, <2>9, <2>10, <2>11 DEF IInv
<1>3. CASE reg # None /\ alive[reg]
  <2> DEFINE q == GraceCancelled(reg)
  <2>1. /\ reg \in Sessions /\ \A r \in Sessions : alive[r] => r = reg
    BY <1>3 DEF IInv, TypeOK, LivesRegistered
  <2>2. q \in [Task -> PC] /\ \A u \in Task :
          q[u] = pc[u] \/ (pc[u] = "sleep" /\ q[u] = "done" /\ u[1] = "grace")
    BY <2>1, CancelEffect
  <2>3. Terminate(Main, reg, q) /\ graceRef' = [graceRef EXCEPT ![reg] = None]
    BY <1>3 DEF BeginShutdown
  <2> HIDE DEF q
  <2>4. Shared' /\ OthersStay({Main})
    <3>1. \A u \in Task :
             \/ q[u] = pc[u]
             \/ pc[u] = "sleep" /\ q[u] = "done" /\ u[1] \in {"grace", "idle"}
      BY <2>2
    <3>2. /\ Main[1] \notin {"exit", "conn", "end", "grace"} /\ pc[Main] # "term"
          /\ alive[reg]
      BY <1>1, <1>3
    <3>3. Main \in Task /\ reg \in Sessions /\ q \in [Task -> PC] /\ Terminate(Main, reg, q)
      BY <1>1, <2>1, <2>2, <2>3
    <3> QED
      BY <1>1, <2>1, <3>1, <3>2, <3>3, TerminateKept
  <2>5. TypeOK' /\ \A u \in Task \ {Main} : on'[u] = on[u]
    <3>1. /\ pc' \in [Task -> PC] /\ on' \in [Task -> Sessions \cup {None}]
          /\ terminating' \in [Sessions -> BOOLEAN] /\ told' \in BOOLEAN
          /\ UNCHANGED <<lockQ, reg, alive, child>>
          /\ \A u \in Task \ {Main} : on'[u] = on[u]
      BY <1>1, <2>1, <2>2, <2>3, TerminateEffect
    <3>2. graceRef' \in [Sessions -> Conns \cup {None}]
      BY <2>3 DEF IInv, TypeOK
    <3> QED
      BY <1>1, <3>1, <3>2 DEF IInv, TypeOK
  <2>6. CancelHitsSleepers'
    <3>1. \A u \in Task \ {Main} : pc'[u] = q[u] \/ u[1] = "idle"
      BY <1>1, <2>1, <2>2, <2>3, TerminateEffect
    <3>2. \A g \in Conns : Grace(g) \in Task \ {Main} /\ Grace(g)[1] # "idle"
      BY TaskNames
    <3> QED
      BY <2>1, <2>3, <2>5, <3>1, <3>2, CancelKept DEF q
  <2> QED
    BY <2>4, <2>5, <2>6 DEF IInv, Shared
<1> QED
  BY <1>2, <1>3

\* Nothing happens.
LEMMA StutterStep ==
    ASSUME IInv, UNCHANGED vars
    PROVE  IInv'
<1>1. TypeOK' /\ OneProcess' /\ LivesRegistered' /\ CancelHitsSleepers' /\ LockHeld'
  BY DEF IInv, vars, TypeOK, OneProcess, LivesRegistered, CancelHitsSleepers,
         LockHeld, Holds
<1>2. DyingIsHandled' /\ NoOtherLives' /\ HasTarget' /\ RoutesGone' /\ OwnSteps'
  BY DEF IInv, vars, DyingIsHandled, NoOtherLives, HasTarget, RoutesGone, OwnSteps
<1> QED
  BY <1>1, <1>2 DEF IInv

-----------------------------------------------------------------------------
(* The theorems *)

\* Every step of the key preserves the inductive invariant.
LEMMA NextIInv ==
    ASSUME IInv, [Next]_vars
    PROVE  IInv'
<1>1. CASE UNCHANGED vars \/ Exited
  BY <1>1, StutterStep DEF Exited
<1>2. ASSUME NEW c \in Conns, ConnStep(c)
      PROVE  IInv'
  BY <1>2, ReattachStep, EvictDoneStep, ReplayDoneStep, StartFreshStep, AskHistoryStep,
     HistoryDoneStep, HistoryErrorStep, ReplaceStep, OustDoneStep, DetachStep,
     DetachDoneStep DEF ConnStep
<1>3. ASSUME NEW s \in Sessions, SessionStep(s)
      PROVE  IInv'
  BY <1>3, IdleFiresStep, IdleExpiresStep, EofStep, HandleExitStep, ExitClosedStep
     DEF SessionStep
<1>4. ASSUME NEW e \in Enders, EndStep(e)
      PROVE  IInv'
  BY <1>4, EndLiveStep, EndNothingStep DEF EndStep
<1>5. CASE Environment
  BY <1>5, ConnectStep, DisconnectStep, EndRequestStep, WriterEndsStep, TimePassesStep,
     ActivityStep, ChildExitsStep, BeginShutdownStep DEF Environment
<1>6. CASE \E c \in Conns : GraceFires(c) \/ GraceExpires(c)
  BY <1>6, GraceFiresStep, GraceExpiresStep
<1>7. CASE \E t \in Task : TermDone(t) \/ CloseDone(t)
  BY <1>7, TermDoneStep, CloseDoneStep
<1>8. CASE ShutdownDone
  BY <1>8, ShutdownDoneStep
<1> QED
  BY <1>1, <1>2, <1>3, <1>4, <1>5, <1>6, <1>7, <1>8 DEF Next

\* IInv is an invariant, for any number of connections, requests and sessions.
THEOREM Inductive == Spec => []IInv
<1>1. Init => IInv
  BY InitIInv
<1>2. IInv /\ [Next]_vars => IInv'
  BY NextIInv
<1> QED
  BY <1>1, <1>2, PTL DEF Spec

\* Every variable keeps its type: the lock's queue holds tasks, a reference is
\* None or names an object of its kind.
THEOREM TypeCorrect == Spec => []TypeOK
<1>1. IInv => TypeOK
  BY DEF IInv
<1> QED
  BY <1>1, Inductive, PTL

\* Under one key there is never a second process, whatever attaches, replaces,
\* ends, expires, exits and shuts down at the same time.
THEOREM OneProcessAlways == Spec => []OneProcess
<1>1. IInv => OneProcess
  BY DEF IInv
<1> QED
  BY <1>1, Inductive, PTL

\* cancel_grace never hits a timer that has begun to wait for the lock or to
\* terminate its session (session.py, comment in _grace_countdown).
THEOREM CancelSafe == Spec => []CancelHitsSleepers
<1>1. IInv => CancelHitsSleepers
  BY DEF IInv
<1> QED
  BY <1>1, Inductive, PTL

-----------------------------------------------------------------------------
(* The second invariant: what NoneAttachedToDying, ShutdownReaps and the      *)
(* refinement of LiveSlot need besides IInv.                                  *)

\* Whoever closes or terminates is not interfered with: a termination that waits
\* has been announced, a session being taken over is not condemned meanwhile, and
\* nobody attaches to one whose socket is being closed.
Undisturbed ==
    \A t \in Task :
        /\ pc[t] = "term" => terminating[on[t]]
        /\ pc[t] = "evict" /\ t[1] = "conn" => ~terminating[on[t]]
        /\ pc[t] \in {"oust", "close"} /\ t[1] # "exit" => ws[on[t]] = None

\* After shutdown nothing is registered.
Emptied == pc[Main] = "done" => reg = None

KInv == Undisturbed /\ NoneAttachedToDying /\ Emptied

\* Nobody begins to close or terminate, and nobody attaches.
LEMMA CalmKept ==
    ASSUME IInv, KInv, UNCHANGED terminating,
           \A u \in Task : pc'[u] \in {"evict", "oust", "close", "term"} /\ u[1] # "exit"
                             => pc'[u] = pc[u] /\ on'[u] = on[u],
           \A s \in Sessions : pc'[Exit(s)] # "term",
           \A s \in Sessions : ws'[s] # None => ws'[s] = ws[s],
           pc'[Main] = "init" => pc[Main] = "init",
           pc'[Main] = "done" => reg' = None
    PROVE  KInv'
<1>1. Undisturbed'
  <2> SUFFICES ASSUME NEW t \in Task
               PROVE  /\ pc'[t] = "term" => terminating'[on'[t]]
                      /\ pc'[t] = "evict" /\ t[1] = "conn" => ~terminating'[on'[t]]
                      /\ pc'[t] \in {"oust", "close"} /\ t[1] # "exit" => ws'[on'[t]] = None
    BY DEF Undisturbed
  <2>1. CASE t[1] = "exit"
    BY <2>1, ExitTask
  <2>2. CASE t[1] # "exit"
    BY <2>2 DEF KInv, Undisturbed, IInv, HasTarget
  <2> QED
    BY <2>1, <2>2
<1>2. NoneAttachedToDying'
  BY DEF KInv, NoneAttachedToDying
<1> QED
  BY <1>1, <1>2 DEF KInv, Emptied

\* The same for a task that moves without a new target, timers aside.
LEMMA CalmMoveKept ==
    ASSUME IInv, KInv, UNCHANGED <<terminating, on>>, NEW t \in Task, t # Main,
           OthersStay({t}),
           \/ pc'[t] \notin {"evict", "oust", "close", "term"}
           \/ pc'[t] = "close" /\ t[1] = "exit",
           \A s \in Sessions : ws'[s] # None => ws'[s] = ws[s],
           pc[Main] # "done" \/ reg' \in {reg, None}
    PROVE  KInv'
<1>1. pc'[Main] = pc[Main]
  BY TaskNames DEF OthersStay, IInv, OwnSteps
<1>2. \A u \in Task : pc'[u] \in {"evict", "oust", "close", "term"} /\ u[1] # "exit"
                        => pc'[u] = pc[u] /\ on'[u] = on[u]
  BY DEF OthersStay
<1>3. \A s \in Sessions : pc'[Exit(s)] # "term"
  BY TaskNames DEF OthersStay, IInv, OwnSteps
<1>4. pc'[Main] = "done" => reg' = None
  BY <1>1 DEF KInv, Emptied
<1> QED
  BY <1>1, <1>2, <1>3, <1>4, CalmKept

\* A step that moves no task.
LEMMA CalmStillKept ==
    ASSUME IInv, KInv, UNCHANGED <<terminating, on, pc, ws, reg>>
    PROVE  KInv'
<1>1. \A s \in Sessions : pc'[Exit(s)] # "term"
  BY DEF IInv, OwnSteps
<1> QED
  BY <1>1, CalmKept DEF KInv, Emptied

\* A route starts a process, or fails to.
LEMMA LaunchCalm ==
    ASSUME IInv, KInv, NEW c \in Conns, Holds(Conn(c)), pc[Conn(c)] \notin {"init", "done"},
           NEW aliveNow, NEW childNow, NEW sockNow,
           Launch(c, aliveNow, childNow, sockNow)
    PROVE  KInv'
<1>1. /\ pc[Main] = "init" /\ Main # Conn(c)
      /\ Conn(c) \in Task /\ Conn(c)[1] = "conn"
      /\ \A t \in Task : pc[t] \in Critical /\ t[1] # "exit" => t = Conn(c)
  BY LoneRoute, TaskNames
<1>2. CASE SpawnFailed(c, aliveNow, childNow, sockNow)
  <2>1. OthersStay({Conn(c)}) /\ pc'[Conn(c)] = "done"
    BY <1>2, MoveEffect, TaskNames DEF SpawnFailed, IInv, TypeOK, PC
  <2> QED
    BY <1>1, <1>2, <2>1, CalmMoveKept DEF SpawnFailed
<1>3. CASE \E s \in Sessions : Spawned(c, s, aliveNow, childNow, sockNow)
  <2>1. PICK s \in Sessions : Spawned(c, s, aliveNow, childNow, sockNow)
    BY <1>3
  <2>2. /\ pc'[Conn(c)] = "open" /\ pc'[Idle(s)] \in {"sleep", pc[Idle(s)]}
        /\ \A t \in Task \ {Conn(c), Idle(s)} : pc'[t] = pc[t]
        /\ Idle(s) \in Task /\ Idle(s)[1] = "idle" /\ Idle(s) # Conn(c)
    <3>1. pc' = [pc EXCEPT ![Conn(c)] = "open", ![Idle(s)] = IF IdleOn THEN "sleep" ELSE @]
      BY <2>1 DEF Spawned
    <3>2. pc \in [Task -> PC] /\ Idle(s) # Conn(c) /\ Conn(c) \in Task
          /\ Idle(s) \in Task /\ Idle(s)[1] = "idle"
      BY TaskNames DEF IInv, TypeOK
    <3> QED
      BY <3>1, <3>2
  <2>3. \A u \in Task : u[1] # "exit" => pc'[u] \notin {"evict", "oust", "close", "term"}
    BY <1>1, <2>2 DEF Critical
  <2>4. \A r \in Sessions : pc'[Exit(r)] # "term"
    BY <2>2, TaskNames DEF IInv, OwnSteps
  <2>5. Undisturbed'
    BY <2>3, <2>4, ExitTask DEF Undisturbed
  <2>6. NoneAttachedToDying'
    <3>1. ~terminating[s] /\ UNCHANGED terminating /\ ws' = [ws EXCEPT ![s] = c]
      BY <2>1 DEF Spawned, IInv, LivesRegistered
    <3>2. pc'[Main] = pc[Main]
      BY <1>1, <2>2, TaskNames
    <3> QED
      BY <3>1, <3>2 DEF NoneAttachedToDying, KInv, IInv, TypeOK
  <2>7. Emptied'
    <3>1. pc'[Main] = "init"
      BY <1>1, <2>2, TaskNames
    <3> QED
      BY <3>1 DEF Emptied
  <2> QED
    BY <2>5, <2>6, <2>7 DEF KInv
<1> QED
  BY <1>2, <1>3 DEF Launch

\* Who begins to terminate a session, having seen to its socket.
LEMMA TerminateCalm ==
    ASSUME IInv, KInv, NEW t \in Task, NEW s \in Sessions, NEW at \in [Task -> PC],
           Terminate(t, s, at),
           \A u \in Task :
              \/ at[u] = pc[u]
              \/ pc[u] = "sleep" /\ at[u] = "done" /\ u[1] \in {"grace", "idle"},
           t # Main => Holds(t) /\ ws'[s] = None, t[1] # "exit",
           t = Main => pc[Main] = "init" /\ \A c \in Conns : pc[Conn(c)] \in {"init", "done"},
           \A r \in Sessions : ws'[r] # None => ws'[r] = ws[r]
    PROVE  KInv'
<1>1. /\ OthersStay({t}) /\ pc'[t] = "term"
      /\ on'[t] = s /\ \A u \in Task \ {t} : on'[u] = on[u]
      /\ terminating'[s] /\ \A r \in Sessions \ {s} : terminating'[r] = terminating[r]
      /\ UNCHANGED reg
  BY TerminateEffect DEF OthersStay
<1>2. \A u \in Task \ {t} : pc[u] = "evict" => u[1] # "conn"
  <2> SUFFICES ASSUME NEW u \in Task, u # t, pc[u] = "evict", u[1] = "conn" PROVE FALSE
    OBVIOUS
  <2>1. CASE t = Main
    BY <2>1, ConnTask
  <2>2. CASE t # Main
    BY <2>2, TaskNames DEF IInv, LockHeld, Critical, Holds
  <2> QED
    BY <2>1, <2>2
<1>3. Undisturbed'
  <2> SUFFICES ASSUME NEW u \in Task
               PROVE  /\ pc'[u] = "term" => terminating'[on'[u]]
                      /\ pc'[u] = "evict" /\ u[1] = "conn" => ~terminating'[on'[u]]
                      /\ pc'[u] \in {"oust", "close"} /\ u[1] # "exit" => ws'[on'[u]] = None
    BY DEF Undisturbed
  <2>1. CASE u = t
    BY <1>1, <2>1
  <2>2. CASE u # t
    <3>1. pc'[u] \in {"evict", "oust", "close", "term"} => pc'[u] = pc[u]
      BY <1>1, <2>2 DEF OthersStay
    <3>2. on'[u] = on[u]
      BY <1>1, <2>2
    <3>3. pc[u] = "term" => on[u] \in Sessions
      BY ExitTask DEF IInv, HasTarget, OwnSteps
    <3>4. pc[u] \in {"oust", "close"} /\ u[1] # "exit" => on[u] \in Sessions
      BY DEF IInv, HasTarget
    <3> QED
      BY <1>1, <1>2, <3>1, <3>2, <3>3, <3>4 DEF KInv, Undisturbed
  <2> QED
    BY <2>1, <2>2
<1>4. \/ t = Main /\ pc'[Main] = "term"
      \/ t # Main /\ pc'[Main] = pc[Main]
  BY <1>1, TaskNames DEF OthersStay, IInv, OwnSteps
<1>5. NoneAttachedToDying'
  BY <1>1, <1>4 DEF KInv, NoneAttachedToDying
<1>6. Emptied'
  BY <1>1, <1>4 DEF KInv, Emptied
<1> QED
  BY <1>3, <1>5, <1>6 DEF KInv

\* Who closes the attached socket first.
LEMMA NotifyCalm ==
    ASSUME IInv, KInv, NEW t \in Task, NEW s \in Sessions, NEW at \in [Task -> PC],
           NotifyAndTerminate(t, s, at),
           \A u \in Task :
              \/ at[u] = pc[u]
              \/ pc[u] = "sleep" /\ at[u] = "done" /\ u[1] \in {"grace", "idle"},
           Holds(t), t[1] \in {"end", "idle"}
    PROVE  KInv'
<1>1. /\ t # Main /\ t[1] # "exit"
      /\ ws' = [ws EXCEPT ![s] = None] /\ ws \in [Sessions -> Conns \cup {None}]
  BY TaskNames DEF NotifyAndTerminate, IInv, TypeOK
<1>2. CASE Terminate(t, s, at)
  BY <1>1, <1>2, TerminateCalm
<1>3. CASE /\ pc' = [at EXCEPT ![t] = "close"]
           /\ on' = [on EXCEPT ![t] = s]
           /\ UNCHANGED <<reg, terminating>>
  <2>1. OthersStay({t}) /\ pc'[t] = "close"
    <3>1. "close" \in PC
      BY DEF PC
    <3> QED
      BY <3>1, <1>3, MoveEffect
  <2>2. on'[t] = s /\ \A u \in Task \ {t} : on'[u] = on[u]
    BY <1>3 DEF IInv, TypeOK
  <2>3. Undisturbed'
    <3> SUFFICES ASSUME NEW u \in Task
                 PROVE  /\ pc'[u] = "term" => terminating'[on'[u]]
                        /\ pc'[u] = "evict" /\ u[1] = "conn" => ~terminating'[on'[u]]
                        /\ pc'[u] \in {"oust", "close"} /\ u[1] # "exit" => ws'[on'[u]] = None
      BY DEF Undisturbed
    <3>1. CASE u = t
      BY <1>1, <2>1, <2>2, <3>1
    <3>2. CASE u # t
      <4>1. pc'[u] \in {"evict", "oust", "close", "term"} => pc'[u] = pc[u]
        BY <2>1, <3>2 DEF OthersStay
      <4>2. pc[u] \in {"oust", "close"} /\ u[1] # "exit" => on[u] \in Sessions
        BY DEF IInv, HasTarget
      <4> QED
        BY <1>1, <1>3, <2>2, <3>2, <4>1, <4>2 DEF KInv, Undisturbed
    <3> QED
      BY <3>1, <3>2
  <2>4. pc'[Main] = pc[Main]
    BY <1>1, <2>1, TaskNames DEF OthersStay, IInv, OwnSteps
  <2> QED
    BY <1>1, <1>3, <2>3, <2>4 DEF KInv, NoneAttachedToDying, Emptied
<1> QED
  BY <1>2, <1>3 DEF NotifyAndTerminate

-----------------------------------------------------------------------------

\* The routes.
LEMMA ConnCalm ==
    ASSUME IInv, KInv, NEW c \in Conns, ConnStep(c)
    PROVE  KInv'
<1>0. /\ Conn(c) \in Task /\ Conn(c) # Main /\ Conn(c)[1] = "conn"
      /\ pc \in [Task -> PC] /\ ws \in [Sessions -> Conns \cup {None}]
      /\ on \in [Task -> Sessions \cup {None}]
  BY TaskNames DEF IInv, TypeOK
<1>1. CASE Reattach(c)
  <2> DEFINE q == GraceCancelled(reg)
  <2>1. reg \in Sessions /\ ~terminating[reg] /\ Holds(Conn(c)) /\ pc[Conn(c)] = "lock"
    BY <1>1 DEF Reattach, Live, IInv, TypeOK
  <2>2. q \in [Task -> PC] /\ \A u \in Task :
          \/ q[u] = pc[u]
          \/ pc[u] = "sleep" /\ q[u] = "done" /\ u[1] \in {"grace", "idle"}
    BY <2>1, CancelEffect
  <2>3. \E p \in {"evict", "replay", "open"} : pc' = [q EXCEPT ![Conn(c)] = p]
    BY <1>1 DEF Reattach, Attached
  <2> HIDE DEF q
  <2>4. OthersStay({Conn(c)}) /\ pc'[Conn(c)] \in {"evict", "replay", "open"}
    <3>1. PICK p \in {"evict", "replay", "open"} : pc' = [q EXCEPT ![Conn(c)] = p]
      BY <2>3
    <3>2. p \in PC
      BY DEF PC
    <3> QED
      BY <1>0, <2>2, <3>1, <3>2, MoveEffect
  <2>5. /\ pc[Main] = "init" /\ pc'[Main] = "init"
        /\ \A u \in Task : pc[u] \in Critical /\ u[1] # "exit" => u = Conn(c)
    BY <1>0, <2>1, <2>4, LoneRoute, TaskNames DEF OthersStay
  <2>6. /\ on' = [on EXCEPT ![Conn(c)] = reg] /\ UNCHANGED terminating
        /\ \E d \in Conns \cup {None} : ws' = [ws EXCEPT ![reg] = d]
    BY <1>1 DEF Reattach, Attached
  <2>7. Undisturbed'
    <3>1. \A u \in Task \ {Conn(c)} : u[1] # "exit"
             => pc'[u] \notin {"evict", "oust", "close", "term"}
      BY <2>4, <2>5 DEF OthersStay, Critical
    <3>2. on'[Conn(c)] = reg
      BY <1>0, <2>6
    <3>3. \A s \in Sessions : pc'[Exit(s)] # "term"
      BY <1>0, <2>4, TaskNames DEF OthersStay, IInv, OwnSteps
    <3> QED
      BY <1>0, <2>1, <2>4, <2>6, <3>1, <3>2, <3>3, ExitTask DEF Undisturbed
  <2>8. NoneAttachedToDying'
    BY <1>0, <2>1, <2>5, <2>6 DEF NoneAttachedToDying, KInv
  <2> QED
    BY <2>5, <2>7, <2>8 DEF KInv, Emptied
<1>2. CASE EvictDone(c)
  <2>1. pc[Conn(c)] = "evict" /\ Holds(Conn(c)) /\ on[Conn(c)] \in Sessions
    BY <1>0, <1>2 DEF EvictDone, IInv, LockHeld, Critical, HasTarget
  <2>2. \E p \in {"replay", "open"} : pc' = [pc EXCEPT ![Conn(c)] = p]
    BY <1>2 DEF EvictDone, Attached
  <2>3. OthersStay({Conn(c)}) /\ pc'[Conn(c)] \in {"replay", "open"}
    <3>1. PICK p \in {"replay", "open"} : pc' = [pc EXCEPT ![Conn(c)] = p]
      BY <2>2
    <3>2. p \in PC
      BY DEF PC
    <3> QED
      BY <1>0, <3>1, <3>2, MoveEffect
  <2>4. /\ pc[Main] = "init" /\ pc'[Main] = "init"
        /\ \A u \in Task : pc[u] \in Critical /\ u[1] # "exit" => u = Conn(c)
    BY <1>0, <2>1, <2>3, LoneRoute, TaskNames DEF OthersStay
  <2>5. /\ UNCHANGED <<on, terminating>> /\ ws' = [ws EXCEPT ![on[Conn(c)]] = c]
        /\ ~terminating[on[Conn(c)]]
    BY <1>0, <1>2, <2>1 DEF EvictDone, Attached, KInv, Undisturbed
  <2>6. Undisturbed'
    <3>1. \A u \in Task : u[1] # "exit" => pc'[u] \notin {"evict", "oust", "close", "term"}
      BY <2>3, <2>4 DEF OthersStay, Critical
    <3>2. \A s \in Sessions : pc'[Exit(s)] # "term"
      BY <1>0, <2>3, TaskNames DEF OthersStay, IInv, OwnSteps
    <3> QED
      BY <3>1, <3>2, ExitTask DEF Undisturbed
  <2>7. NoneAttachedToDying'
    BY <1>0, <2>4, <2>5 DEF NoneAttachedToDying, KInv
  <2> QED
    BY <2>4, <2>6, <2>7 DEF KInv, Emptied
<1>3. CASE ReplayDone(c)
  <2>1. OthersStay({Conn(c)}) /\ pc'[Conn(c)] = "open"
    BY <1>0, <1>3, MoveEffect DEF ReplayDone, PC
  <2> QED
    BY <1>0, <1>3, <2>1, CalmMoveKept DEF ReplayDone
<1>4. CASE StartFresh(c)
  BY <1>4, LaunchCalm DEF StartFresh
<1>5. CASE AskHistory(c)
  <2>1. OthersStay({Conn(c)}) /\ pc'[Conn(c)] = "history" /\ reg' \in {reg, None}
    BY <1>0, <1>5, MoveEffect DEF AskHistory, Pruned, PC
  <2> QED
    BY <1>0, <1>5, <2>1, CalmMoveKept DEF AskHistory
<1>6. CASE HistoryDone(c)
  <2>1. pc[Conn(c)] = "history" /\ Holds(Conn(c))
    BY <1>0, <1>6, TaskNames DEF HistoryDone, IInv, LockHeld, Critical
  <2> QED
    BY <1>6, <2>1, LaunchCalm DEF HistoryDone
<1>7. CASE HistoryError(c)
  <2>1. OthersStay({Conn(c)}) /\ pc'[Conn(c)] = "done"
    BY <1>0, <1>7, MoveEffect DEF HistoryError, PC
  <2> QED
    BY <1>0, <1>7, <2>1, CalmMoveKept DEF HistoryError
<1>8. CASE Replace(c)
  <2> DEFINE q == GraceCancelled(reg)
  <2>1. reg \in Sessions /\ Holds(Conn(c)) /\ pc[Conn(c)] = "lock"
    BY <1>8 DEF Replace, Live, IInv, TypeOK
  <2>2. q \in [Task -> PC] /\ \A u \in Task :
          \/ q[u] = pc[u]
          \/ pc[u] = "sleep" /\ q[u] = "done" /\ u[1] \in {"grace", "idle"}
    BY <2>1, CancelEffect
  <2>3. /\ ws' = [ws EXCEPT ![reg] = None]
        /\ \/ Terminate(Conn(c), reg, q)
           \/ /\ pc' = [q EXCEPT ![Conn(c)] = "oust"]
              /\ on' = [on EXCEPT ![Conn(c)] = reg]
              /\ UNCHANGED <<reg, terminating>>
    BY <1>8 DEF Replace
  <2> HIDE DEF q
  <2>4. CASE Terminate(Conn(c), reg, q)
    BY <1>0, <2>1, <2>2, <2>3, <2>4, TerminateCalm
  <2>5. CASE /\ pc' = [q EXCEPT ![Conn(c)] = "oust"]
             /\ on' = [on EXCEPT ![Conn(c)] = reg]
             /\ UNCHANGED <<reg, terminating>>
    <3>1. OthersStay({Conn(c)}) /\ pc'[Conn(c)] = "oust"
      <4>1. "oust" \in PC
        BY DEF PC
      <4> QED
        BY <1>0, <2>2, <2>5, <4>1, MoveEffect
    <3>2. /\ pc[Main] = "init" /\ pc'[Main] = "init"
          /\ \A u \in Task : pc[u] \in Critical /\ u[1] # "exit" => u = Conn(c)
      BY <1>0, <2>1, <3>1, LoneRoute, TaskNames DEF OthersStay
    <3>3. Undisturbed'
      <4>1. \A u \in Task \ {Conn(c)} : u[1] # "exit"
               => pc'[u] \notin {"evict", "oust", "close", "term"}
        BY <3>1, <3>2 DEF OthersStay, Critical
      <4>2. on'[Conn(c)] = reg /\ ws'[reg] = None
        BY <1>0, <2>1, <2>3, <2>5
      <4>3. \A s \in Sessions : pc'[Exit(s)] # "term"
        BY <1>0, <3>1, TaskNames DEF OthersStay, IInv, OwnSteps
      <4> QED
        BY <3>1, <4>1, <4>2, <4>3, ExitTask DEF Undisturbed
    <3>4. NoneAttachedToDying'
      BY <1>0, <2>3, <2>5, <3>2 DEF NoneAttachedToDying, KInv
    <3> QED
      BY <3>2, <3>3, <3>4 DEF KInv, Emptied
  <2> QED
    BY <2>3, <2>4, <2>5
<1>9. CASE OustDone(c)
  <2>1. /\ pc[Conn(c)] = "oust" /\ Holds(Conn(c)) /\ on[Conn(c)] \in Sessions
        /\ ws[on[Conn(c)]] = None
    BY <1>0, <1>9 DEF OustDone, IInv, LockHeld, Critical, HasTarget, KInv, Undisturbed
  <2>2. CASE Terminate(Conn(c), on[Conn(c)], pc) /\ UNCHANGED ws
    BY <1>0, <2>1, <2>2, TerminateCalm
  <2>3. CASE \E sockNow : Launch(c, alive, child, sockNow)
    BY <2>1, <2>3, LaunchCalm
  <2> QED
    BY <1>9, <2>2, <2>3 DEF OustDone
<1>10. CASE GraceStarted(c, on[Conn(c)]) /\ (Detach(c) \/ DetachDone(c))
  <2>1. /\ pc[Conn(c)] \in {"open", "detach"}
        /\ UNCHANGED <<reg, terminating>>
        /\ ws' = ws \/ ws' = [ws EXCEPT ![on[Conn(c)]] = None]
    BY <1>10 DEF Detach, DetachDone
  <2>2. /\ Grace(c) \in Task /\ Grace(c) # Main /\ Grace(c)[1] = "grace"
        /\ Grace(c) # Conn(c)
    BY TaskNames
  <2>3. /\ \A u \in Task \ {Conn(c), Grace(c)} : pc'[u] = pc[u] /\ on'[u] = on[u]
        /\ pc'[Conn(c)] = "done" /\ pc'[Grace(c)] \in {pc[Grace(c)], "sleep"}
        /\ pc'[Grace(c)] = "sleep" \/ on'[Grace(c)] = on[Grace(c)]
    BY <1>0, <1>10, <2>2 DEF GraceStarted
  <2>4. \A u \in Task : pc'[u] \in {"evict", "oust", "close", "term"} /\ u[1] # "exit"
                          => pc'[u] = pc[u] /\ on'[u] = on[u]
    BY <2>2, <2>3
  <2>5. /\ \A s \in Sessions : pc'[Exit(s)] # "term"
        /\ pc'[Main] = pc[Main]
    BY <1>0, <2>2, <2>3, TaskNames DEF IInv, OwnSteps
  <2>6. \A s \in Sessions : ws'[s] # None => ws'[s] = ws[s]
    BY <1>0, <2>1
  <2>7. pc'[Main] = "done" => reg' = None
    BY <2>1, <2>5 DEF KInv, Emptied
  <2> QED
    BY <2>1, <2>4, <2>5, <2>6, <2>7, CalmKept
<1>11. CASE Detach(c)
  <2>1. CASE \E p \in {"done", "detach"} : pc' = [pc EXCEPT ![Conn(c)] = p]
    <3>1. OthersStay({Conn(c)}) /\ pc'[Conn(c)] \in {"done", "detach"}
      BY <1>0, <2>1, MoveEffect DEF PC
    <3>2. CASE UNCHANGED on
      <4>1. \A s \in Sessions : ws'[s] # None => ws'[s] = ws[s]
        BY <1>0, <1>11 DEF Detach
      <4> QED
        BY <1>0, <1>11, <3>1, <3>2, <4>1, CalmMoveKept DEF Detach
    <3> QED
      BY <1>10, <1>11, <3>2 DEF Detach
  <2> QED
    BY <1>10, <1>11, <2>1 DEF Detach
<1>12. CASE DetachDone(c)
  BY <1>10, <1>12 DEF DetachDone
<1> QED
  BY <1>1, <1>2, <1>3, <1>4, <1>5, <1>6, <1>7, <1>8, <1>9, <1>11, <1>12 DEF ConnStep

\* The end requests, the timers and the exit tasks.
LEMMA OthersCalm ==
    ASSUME IInv, KInv,
           \/ \E e \in Enders : EndStep(e)
           \/ \E c \in Conns : GraceFires(c) \/ GraceExpires(c)
           \/ \E s \in Sessions : SessionStep(s)
    PROVE  KInv'
<1>0. /\ pc \in [Task -> PC] /\ ws \in [Sessions -> Conns \cup {None}]
      /\ {"done", "lock", "ready", "close"} \subseteq PC
  BY DEF IInv, TypeOK, PC
<1>1. ASSUME NEW t \in Task, t # Main, Leaves(t), UNCHANGED <<terminating, on>>,
             reg' \in {reg, None}, \A s \in Sessions : ws'[s] # None => ws'[s] = ws[s]
      PROVE  KInv'
  <2>1. OthersStay({t}) /\ pc'[t] = "done"
    BY <1>0, <1>1, MoveEffect DEF Leaves
  <2> QED
    BY <1>1, <2>1, CalmMoveKept
<1>2. ASSUME NEW e \in Enders, EndLive(e)
      PROVE  KInv'
  <2>1. reg \in Sessions /\ End(e) \in Task /\ End(e)[1] = "end"
    BY <1>2, TaskNames DEF EndLive, Live, IInv, TypeOK
  <2>2. GraceCancelled(reg) \in [Task -> PC] /\ \A u \in Task :
          \/ GraceCancelled(reg)[u] = pc[u]
          \/ pc[u] = "sleep" /\ GraceCancelled(reg)[u] = "done" /\ u[1] = "grace"
    BY <2>1, CancelEffect
  <2> QED
    BY <1>2, <2>1, <2>2, NotifyCalm DEF EndLive
<1>3. ASSUME NEW e \in Enders, EndNothing(e)
      PROVE  KInv'
  BY <1>1, <1>3, TaskNames DEF EndNothing, Pruned
<1>4. ASSUME NEW c \in Conns, GraceFires(c)
      PROVE  KInv'
  <2>1. OthersStay({Grace(c)}) /\ pc'[Grace(c)] = "lock"
    BY <1>0, <1>4, MoveEffect, TaskNames DEF GraceFires
  <2> QED
    BY <1>4, <2>1, CalmMoveKept, TaskNames DEF GraceFires
<1>5. ASSUME NEW c \in Conns, GraceExpires(c)
      PROVE  KInv'
  <2>1. Grace(c) \in Task /\ Grace(c) # Main /\ Grace(c)[1] # "exit" /\ on[Grace(c)] \in Sessions
    BY <1>5, TaskNames DEF GraceExpires, IInv, HasTarget
  <2>2. CASE Terminate(Grace(c), on[Grace(c)], pc) /\ ws[on[Grace(c)]] = None
    BY <1>0, <1>5, <2>1, <2>2, TerminateCalm DEF GraceExpires
  <2>3. CASE Leaves(Grace(c)) /\ UNCHANGED <<reg, terminating, on>>
    BY <1>1, <1>5, <2>1, <2>3 DEF GraceExpires
  <2> QED
    BY <1>5, <2>2, <2>3 DEF GraceExpires
<1>6. ASSUME NEW s \in Sessions, IdleExpires(s)
      PROVE  KInv'
  <2>1. Idle(s) \in Task /\ Idle(s) # Main /\ Idle(s)[1] = "idle"
    BY TaskNames
  <2>2. CASE NotifyAndTerminate(Idle(s), s, pc)
    BY <1>0, <1>6, <2>1, <2>2, NotifyCalm DEF IdleExpires
  <2>3. CASE Leaves(Idle(s)) /\ UNCHANGED <<reg, terminating, on, ws>>
    BY <1>1, <2>1, <2>3
  <2> QED
    BY <1>6, <2>2, <2>3 DEF IdleExpires
<1>7. ASSUME NEW s \in Sessions, IdleFires(s)
      PROVE  KInv'
  <2>1. OthersStay({Idle(s)}) /\ pc'[Idle(s)] = "lock"
    BY <1>0, <1>7, MoveEffect, TaskNames DEF IdleFires
  <2> QED
    BY <1>7, <2>1, CalmMoveKept, TaskNames DEF IdleFires
<1>8. ASSUME NEW s \in Sessions, Eof(s)
      PROVE  KInv'
  <2>1. OthersStay({Exit(s)}) /\ pc'[Exit(s)] = "ready"
    BY <1>0, <1>8, MoveEffect, TaskNames DEF Eof
  <2> QED
    BY <1>8, <2>1, CalmMoveKept, TaskNames DEF Eof
<1>9. ASSUME NEW s \in Sessions, HandleExit(s)
      PROVE  KInv'
  <2>1. /\ Exit(s) \in Task /\ Exit(s) # Main /\ Exit(s)[1] = "exit"
        /\ \A r \in Sessions : ws'[r] # None => ws'[r] = ws[r]
        /\ UNCHANGED <<terminating, on, reg>>
    BY <1>0, <1>9, TaskNames DEF HandleExit
  <2>2. OthersStay({Exit(s)}) /\ pc'[Exit(s)] \in {"close", "done"}
    <3>1. CASE ~alive[s]
      BY <1>0, <1>9, <2>1, <3>1, MoveEffect DEF HandleExit
    <3>2. CASE alive[s]
      <4>1. PICK p \in {"close", "done"} : pc' = IdleCancelled([pc EXCEPT ![Exit(s)] = p], s)
        BY <1>9, <3>2 DEF HandleExit
      <4> DEFINE q == [pc EXCEPT ![Exit(s)] = p]
      <4>2. q \in [Task -> PC] /\ q[Exit(s)] = p /\ \A u \in Task \ {Exit(s)} : q[u] = pc[u]
        BY <1>0, <2>1
      <4>3. pc' = IdleCancelled(q, s)
        BY <4>1
      <4> HIDE DEF q
      <4> QED
        BY <4>2, <4>3, <2>1, IdleEffect DEF OthersStay
    <3> QED
      BY <3>1, <3>2
  <2> QED
    BY <2>1, <2>2, CalmMoveKept
<1>10. ASSUME NEW s \in Sessions, ExitClosed(s)
       PROVE  KInv'
  <2>1. OthersStay({Exit(s)}) /\ pc'[Exit(s)] = "done"
    BY <1>0, <1>10, MoveEffect, TaskNames DEF ExitClosed
  <2> QED
    BY <1>10, <2>1, CalmMoveKept, TaskNames DEF ExitClosed
<1> QED
  BY <1>2, <1>3, <1>4, <1>5, <1>6, <1>7, <1>8, <1>9, <1>10 DEF EndStep, SessionStep

\* The ends of terminate() and of the close before it.
LEMMA TermCalm ==
    ASSUME IInv, KInv, NEW t \in Task, TermDone(t) \/ CloseDone(t)
    PROVE  KInv'
<1>0. pc \in [Task -> PC] /\ "done" \in PC
  BY DEF IInv, TypeOK, PC
<1>1. /\ t # Main /\ t[1] # "exit" /\ Holds(t) /\ on[t] \in Sessions
      /\ pc[t] \in {"term", "close"}
  BY ExitTask, TaskNames DEF TermDone, CloseDone, IInv, OwnSteps, LockHeld, Critical, HasTarget
<1>2. CASE Leaves(t) /\ UNCHANGED <<terminating, on, ws>> /\ reg' \in {reg, None}
  <2>1. OthersStay({t}) /\ pc'[t] = "done"
    BY <1>0, <1>2, MoveEffect DEF Leaves
  <2> QED
    BY <1>1, <1>2, <2>1, CalmMoveKept
<1>3. CASE TermDone(t) /\ t[1] = "conn"
  BY <1>1, <1>3, ConnTask, LaunchCalm DEF TermDone
<1>4. CASE CloseDone(t) /\ alive[on[t]]
  <2>1. ws[on[t]] = None
    BY <1>1, <1>4 DEF CloseDone, KInv, Undisturbed
  <2> QED
    BY <1>0, <1>1, <1>4, <2>1, TerminateCalm DEF CloseDone
<1> QED
  BY <1>2, <1>3, <1>4 DEF TermDone, CloseDone

\* Requests, sockets, processes and the shutdown.
LEMMA EnvironmentCalm ==
    ASSUME IInv, KInv, Environment \/ ShutdownDone
    PROVE  KInv'
<1>0. /\ pc \in [Task -> PC] /\ ws \in [Sessions -> Conns \cup {None}]
      /\ {"lock", "done"} \subseteq PC
  BY DEF IInv, TypeOK, PC
<1>1. ASSUME NEW c \in Conns, Connect(c)
      PROVE  KInv'
  <2>1. OthersStay({Conn(c)}) /\ pc'[Conn(c)] = "lock"
    BY <1>0, <1>1, MoveEffect, TaskNames DEF Connect
  <2> QED
    BY <1>1, <2>1, CalmMoveKept, TaskNames DEF Connect
<1>2. ASSUME NEW e \in Enders, EndRequest(e)
      PROVE  KInv'
  <2>1. OthersStay({End(e)}) /\ pc'[End(e)] = "lock"
    BY <1>0, <1>2, MoveEffect, TaskNames DEF EndRequest
  <2> QED
    BY <1>2, <2>1, CalmMoveKept, TaskNames DEF EndRequest
<1>3. CASE \/ \E c \in Conns : Disconnect(c)
           \/ \E s \in Sessions : WriterEnds(s) \/ TimePasses(s) \/ Activity(s) \/ ChildExits(s)
  BY <1>3, CalmStillKept DEF Disconnect, WriterEnds, TimePasses, Activity, ChildExits
<1>4. CASE BeginShutdown
  <2>1. /\ pc[Main] = "init" /\ \A c \in Conns : pc[Conn(c)] \in {"init", "done"}
        /\ Main \in Task /\ Main[1] # "exit" /\ UNCHANGED ws
    BY <1>4, TaskNames DEF BeginShutdown
  <2>2. reg # None => /\ GraceCancelled(reg) \in [Task -> PC]
                      /\ \A u \in Task :
                           \/ GraceCancelled(reg)[u] = pc[u]
                           \/ pc[u] = "sleep" /\ GraceCancelled(reg)[u] = "done" /\ u[1] = "grace"
    BY CancelEffect DEF IInv, TypeOK
  <2>3. CASE reg # None /\ alive[reg]
    <3>1. reg \in Sessions /\ Terminate(Main, reg, GraceCancelled(reg))
      BY <1>4, <2>3 DEF BeginShutdown, IInv, TypeOK
    <3>2. /\ GraceCancelled(reg) \in [Task -> PC]
          /\ \A u \in Task :
               \/ GraceCancelled(reg)[u] = pc[u]
               \/ /\ pc[u] = "sleep" /\ GraceCancelled(reg)[u] = "done"
                  /\ u[1] \in {"grace", "idle"}
      BY <2>2, <2>3
    <3> QED
      BY <2>1, <3>1, <3>2, TerminateCalm
  <2>4. CASE reg = None \/ ~alive[reg]
    <3>1. PICK q \in [Task -> PC] :
            /\ pc' = [q EXCEPT ![Main] = "done"]
            /\ \A u \in Task : \/ q[u] = pc[u]
                               \/ pc[u] = "sleep" /\ q[u] = "done" /\ u[1] \in {"grace", "idle"}
      <4>1. pc \in [Task -> PC]
        BY DEF IInv, TypeOK
      <4>2. CASE reg = None
        <5>1. pc' = [pc EXCEPT ![Main] = "done"]
          BY <1>4, <4>2 DEF BeginShutdown
        <5> QED
          BY <4>1, <5>1
      <4>3. CASE reg # None
        <5>1. pc' = [GraceCancelled(reg) EXCEPT ![Main] = "done"]
          BY <1>4, <2>4, <4>3 DEF BeginShutdown
        <5>2. /\ GraceCancelled(reg) \in [Task -> PC]
              /\ \A u \in Task :
                   \/ GraceCancelled(reg)[u] = pc[u]
                   \/ /\ pc[u] = "sleep" /\ GraceCancelled(reg)[u] = "done"
                      /\ u[1] \in {"grace", "idle"}
          BY <2>2, <4>3
        <5> QED
          BY <5>1, <5>2
      <4> QED
        BY <4>2, <4>3
    <3>2. OthersStay({Main}) /\ pc'[Main] = "done"
      <4>1. "done" \in PC
        BY DEF PC
      <4> QED
        BY <2>1, <3>1, <4>1, MoveEffect
    <3>3. /\ reg' = None /\ UNCHANGED <<terminating, on>>
      BY <1>4, <2>4 DEF BeginShutdown
    <3>4. \A s \in Sessions : pc'[Exit(s)] # "term"
      BY <3>2, TaskNames DEF OthersStay, IInv, OwnSteps
    <3>5. \A u \in Task : pc'[u] \in {"evict", "oust", "close", "term"} => pc'[u] = pc[u]
      BY <3>2 DEF OthersStay
    <3> QED
      BY <2>1, <3>2, <3>3, <3>4, <3>5, CalmKept
  <2> QED
    BY <2>3, <2>4
<1>5. CASE ShutdownDone
  <2>1. OthersStay({Main}) /\ pc'[Main] = "done"
    <3>1. pc' = [pc EXCEPT ![Main] = "done"] /\ Main \in Task
      BY <1>5, TaskNames DEF ShutdownDone
    <3> QED
      BY <1>0, <3>1, MoveEffect
  <2>2. /\ reg' = None /\ UNCHANGED <<terminating, on>>
        /\ \A s \in Sessions : ws'[s] # None => ws'[s] = ws[s]
    BY <1>0, <1>5 DEF ShutdownDone
  <2>3. \A s \in Sessions : pc'[Exit(s)] # "term"
    BY <2>1, TaskNames DEF OthersStay, IInv, OwnSteps
  <2>4. \A u \in Task : pc'[u] \in {"evict", "oust", "close", "term"} => pc'[u] = pc[u]
    BY <2>1 DEF OthersStay
  <2> QED
    BY <2>1, <2>2, <2>3, <2>4, CalmKept
<1> QED
  BY <1>1, <1>2, <1>3, <1>4, <1>5 DEF Environment

\* Every step preserves the second invariant too.
LEMMA NextKInv ==
    ASSUME IInv, KInv, [Next]_vars
    PROVE  KInv'
<1>1. CASE UNCHANGED vars \/ Exited
  BY <1>1, CalmStillKept DEF vars, Exited
<1>2. CASE \E c \in Conns : ConnStep(c)
  BY <1>2, ConnCalm
<1>3. CASE \/ \E e \in Enders : EndStep(e)
           \/ \E c \in Conns : GraceFires(c) \/ GraceExpires(c)
           \/ \E s \in Sessions : SessionStep(s)
  BY <1>3, OthersCalm
<1>4. CASE \E t \in Task : TermDone(t) \/ CloseDone(t)
  BY <1>4, TermCalm
<1>5. CASE Environment \/ ShutdownDone
  BY <1>5, EnvironmentCalm
<1> QED
  BY <1>1, <1>2, <1>3, <1>4, <1>5 DEF Next

LEMMA InitKInv == Init => KInv
<1> SUFFICES ASSUME Init PROVE KInv
  OBVIOUS
<1>1. \A t \in Task : pc[t] = "init"
  BY DEF Init
<1>2. Main \in Task /\ \A s \in Sessions : ws[s] = None
  BY TaskNames DEF Init
<1> QED
  BY <1>1, <1>2 DEF KInv, Undisturbed, NoneAttachedToDying, Emptied

\* Both invariants together are inductive.
THEOREM BothInductive == Spec => [](IInv /\ KInv)
<1>1. Init => IInv /\ KInv
  BY InitIInv, InitKInv
<1>2. IInv /\ KInv /\ [Next]_vars => IInv' /\ KInv'
  BY NextIInv, NextKInv
<1> QED
  BY <1>1, <1>2, PTL DEF Spec

\* Nobody is ever attached to a session that has been condemned: a socket that
\* takes a session over, and a timer or a request that ends it, exclude each
\* other to the end (terminal_ws, end, _expire_grace, _expire_idle).
THEOREM NoneAttachedToDyingAlways == Spec => []NoneAttachedToDying
<1>1. KInv => NoneAttachedToDying
  BY DEF KInv
<1> QED
  BY <1>1, BothInductive, PTL

\* shutdown() returns only when every child there ever was is reaped, also when
\* a timer or an exit was already at work on it.
THEOREM ShutdownReapsAlways == Spec => []ShutdownReaps
<1>1. IInv /\ KInv => ShutdownReaps
  BY NoneAssumption DEF IInv, KInv, Emptied, OneProcess, TypeOK, ShutdownReaps
<1> QED
  BY <1>1, BothInductive, PTL

-----------------------------------------------------------------------------
(* The refinement of LiveSlot *)

\* What the slot shows: the one living session.
LEMMA CurrentIs ==
    ASSUME LivesRegistered
    PROVE  /\ \A s \in Sessions : alive[s] => Current = s
           /\ (\A s \in Sessions : ~alive[s]) => Current = None
           /\ Current # None => Current \in Sessions /\ alive[Current]
           /\ Condemned = (Current # None /\ terminating[Current])
<1>1. CASE \E s \in Sessions : alive[s]
  <2>1. PICK s \in Sessions : alive[s]
    BY <1>1
  <2>2. \A r \in Sessions : alive[r] => r = s
    BY <2>1 DEF LivesRegistered
  <2>3. Current = s
    BY <2>1, <2>2 DEF Current
  <2>4. s # None
    BY NoneAssumption
  <2> QED
    BY <2>1, <2>2, <2>3, <2>4 DEF Condemned
<1>2. CASE \A s \in Sessions : ~alive[s]
  BY <1>2 DEF Current, Condemned
<1> QED
  BY <1>1, <1>2

\* A step that begins and ends no life and condemns nobody is not seen.
LEMMA SlotStays ==
    ASSUME UNCHANGED <<alive, terminating>>,
           \A s \in Sessions : child'[s] = "unborn" <=> child[s] = "unborn"
    PROVE  UNCHANGED Slot!vars
<1>1. UNCHANGED <<Current, Condemned, Spent>>
  BY DEF Current, Condemned, Spent
<1> QED
  BY <1>1 DEF Slot!vars

\* A step that marks a living session condemns it, unless somebody did before.
LEMMA SlotCondemned ==
    ASSUME IInv, NEW s \in Sessions, alive[s],
           terminating' = [terminating EXCEPT ![s] = TRUE], UNCHANGED <<alive, reg, child>>
    PROVE  [Slot!Next]_Slot!vars
<1>1. Current' = Current /\ Spent' = Spent
  BY DEF Current, Spent
<1>2. Current = s /\ s # None
  BY CurrentIs, NoneAssumption DEF IInv
<1>3. Condemned'
  BY DEF Condemned, IInv, TypeOK
<1>4. CASE Condemned
  <2>1. Condemned \in BOOLEAN /\ Condemned' \in BOOLEAN
    BY DEF Condemned
  <2> QED
    BY <1>1, <1>3, <1>4, <2>1 DEF Slot!vars
<1>5. CASE ~Condemned
  <2>1. Condemned' = TRUE
    BY <1>3 DEF Condemned
  <2> QED
    BY <1>1, <1>2, <1>5, <2>1 DEF Slot!Next, Slot!Condemn
<1> QED
  BY <1>4, <1>5

\* A step after which a session is dead empties the slot, if it was in it.
LEMMA SlotEmptied ==
    ASSUME IInv, NEW s \in Sessions, child[s] # "unborn",
           alive' = [alive EXCEPT ![s] = FALSE], UNCHANGED terminating,
           child' = [child EXCEPT ![s] = "reaped"]
    PROVE  [Slot!Next]_Slot!vars
<1>1. Spent' = Spent
  BY DEF Spent, IInv, TypeOK
<1>2. CASE alive[s]
  <2>1. Current = s /\ s # None
    BY <1>2, CurrentIs, NoneAssumption DEF IInv
  <2>2. \A r \in Sessions : ~alive'[r]
    BY <1>2 DEF IInv, TypeOK, LivesRegistered
  <2>3. Current' = None /\ Condemned' = FALSE
    BY <2>2 DEF Current, Condemned
  <2> QED
    BY <1>1, <2>1, <2>3 DEF Slot!Next, Slot!Die
<1>3. CASE ~alive[s]
  <2>1. alive' = alive
    BY <1>3 DEF IInv, TypeOK
  <2> QED
    BY <1>1, <2>1, SlotStays DEF Spent, IInv, TypeOK
<1> QED
  BY <1>2, <1>3

\* A new process fills the slot: it was empty, or its session condemned.
LEMMA SlotFilled ==
    ASSUME IInv, IInv', NEW s \in Sessions, child[s] = "unborn", alive'[s],
           UNCHANGED terminating,
           \A r \in Sessions : child'[r] = "unborn" <=> (r # s /\ child[r] = "unborn"),
           \A r \in Sessions : alive[r] => terminating[r]
    PROVE  [Slot!Next]_Slot!vars
<1>1. Spent' = Spent \cup {s} /\ s \notin Spent
  BY DEF Spent
<1>2. ~terminating[s] /\ \A r \in Sessions : alive'[r] => r = s
  BY DEF IInv, LivesRegistered
<1>3. Current' = s /\ Condemned' = FALSE
  <2>1. Condemned' = FALSE
    BY <1>2 DEF Condemned
  <2>2. Current' = s
    BY <1>2 DEF Current
  <2> QED
    BY <2>1, <2>2
<1>4. Slot!Fill(s)
  BY <1>1, <1>3 DEF Slot!Fill
<1>5. Current = None \/ (Current # None /\ Condemned)
  BY CurrentIs DEF IInv
<1> QED
  BY <1>4, <1>5 DEF Slot!Next, Slot!Spawn, Slot!Replace

\* A route starts a process, or fails to, where none lives.
LEMMA LaunchSlot ==
    ASSUME IInv, IInv', NEW c \in Conns, NEW sockNow,
           Launch(c, alive, child, sockNow), \A r \in Sessions : ~alive[r]
    PROVE  [Slot!Next]_Slot!vars
<1>1. CASE SpawnFailed(c, alive, child, sockNow)
  BY <1>1, SlotStays DEF SpawnFailed
<1>2. CASE \E s \in Sessions : Spawned(c, s, alive, child, sockNow)
  <2>1. PICK s \in Sessions : Spawned(c, s, alive, child, sockNow)
    BY <1>2
  <2>2. /\ child[s] = "unborn" /\ UNCHANGED terminating /\ alive'[s]
        /\ \A r \in Sessions : child'[r] = "unborn" <=> (r # s /\ child[r] = "unborn")
    BY <2>1 DEF Spawned, IInv, TypeOK
  <2> QED
    BY <2>2, SlotFilled
<1> QED
  BY <1>1, <1>2 DEF Launch

\* The same in place of the session the route has terminated.
LEMMA RelaunchSlot ==
    ASSUME IInv, IInv', NEW c \in Conns, NEW s \in Sessions,
           Launch(c, [alive EXCEPT ![s] = FALSE], [child EXCEPT ![s] = "reaped"], sock),
           terminating[s], \A r \in Sessions : alive[r] => r = s
    PROVE  [Slot!Next]_Slot!vars
<1>1. child[s] # "unborn"
  BY DEF IInv, LivesRegistered
<1> DEFINE aliveNow == [alive EXCEPT ![s] = FALSE]
           childNow == [child EXCEPT ![s] = "reaped"]
<1>2. CASE SpawnFailed(c, aliveNow, childNow, sock)
  BY <1>1, <1>2, SlotEmptied DEF SpawnFailed
<1>3. CASE \E r \in Sessions : Spawned(c, r, aliveNow, childNow, sock)
  <2>1. PICK r \in Sessions : Spawned(c, r, aliveNow, childNow, sock)
    BY <1>3
  <2>2. /\ child[r] = "unborn" /\ r # s /\ UNCHANGED terminating
        /\ alive' = [aliveNow EXCEPT ![r] = TRUE]
        /\ child' = [childNow EXCEPT ![r] = "running"]
    BY <1>1, <2>1 DEF Spawned
  <2> QED
    <3>1. /\ alive'[r]
          /\ \A q \in Sessions : child'[q] = "unborn" <=> (q # r /\ child[q] = "unborn")
      BY <1>1, <2>2 DEF IInv, TypeOK
    <3> QED
      BY <2>2, <3>1, SlotFilled
<1> QED
  BY <1>2, <1>3 DEF Launch

\* A call of terminate() on a living session.
LEMMA TerminateSlot ==
    ASSUME IInv, NEW t, NEW s \in Sessions, NEW at, Terminate(t, s, at), alive[s]
    PROVE  [Slot!Next]_Slot!vars
  BY SlotCondemned DEF Terminate

\* Every step of the manager is a step of the slot, or not seen there.
LEMMA SlotStep ==
    ASSUME IInv, KInv, IInv', [Next]_vars
    PROVE  [Slot!Next]_Slot!vars
<1>1. ASSUME UNCHANGED <<alive, terminating, child>>
      PROVE  [Slot!Next]_Slot!vars
  BY <1>1, SlotStays
<1>2. ASSUME NEW c \in Conns, ConnStep(c)
      PROVE  [Slot!Next]_Slot!vars
  <2>1. CASE StartFresh(c)
    BY <2>1, NoLife, LaunchSlot DEF StartFresh
  <2>2. CASE HistoryDone(c)
    <3>1. \A s \in Sessions : ~alive[s]
      BY <2>2, TaskNames DEF HistoryDone, IInv, NoOtherLives
    <3> QED
      BY <2>2, <3>1, LaunchSlot DEF HistoryDone
  <2>3. CASE Replace(c)
    <3>1. reg \in Sessions /\ alive[reg]
      BY <2>3 DEF Replace, Live, IInv, TypeOK
    <3> QED
      BY <1>1, <2>3, <3>1, TerminateSlot DEF Replace
  <2>4. CASE OustDone(c)
    <3>1. on[Conn(c)] \in Sessions /\ \A s \in Sessions : alive[s] => on[Conn(c)] = s
      BY <2>4, TaskNames DEF OustDone, IInv, HasTarget, NoOtherLives
    <3>2. CASE alive[on[Conn(c)]]
      BY <2>4, <3>1, <3>2, TerminateSlot DEF OustDone
    <3>3. CASE ~alive[on[Conn(c)]]
      BY <2>4, <3>1, <3>3, LaunchSlot DEF OustDone
    <3> QED
      BY <3>2, <3>3
  <2>5. CASE \/ Reattach(c) \/ EvictDone(c) \/ ReplayDone(c) \/ AskHistory(c)
             \/ HistoryError(c) \/ Detach(c) \/ DetachDone(c)
    BY <1>1, <2>5 DEF Reattach, EvictDone, ReplayDone, AskHistory, HistoryError, Detach,
                      DetachDone
  <2> QED
    BY <1>2, <2>1, <2>2, <2>3, <2>4, <2>5 DEF ConnStep
<1>3. ASSUME NEW t, NEW s \in Sessions, NEW at, NotifyAndTerminate(t, s, at), alive[s]
      PROVE  [Slot!Next]_Slot!vars
  BY <1>1, <1>3, TerminateSlot DEF NotifyAndTerminate
<1>4. ASSUME NEW e \in Enders, EndStep(e)
      PROVE  [Slot!Next]_Slot!vars
  <2>1. Live => reg \in Sessions /\ alive[reg]
    BY DEF Live, IInv, TypeOK
  <2> QED
    BY <1>1, <1>3, <1>4, <2>1 DEF EndStep, EndLive, EndNothing
<1>5. ASSUME NEW c \in Conns, GraceFires(c) \/ GraceExpires(c)
      PROVE  [Slot!Next]_Slot!vars
  <2>1. GraceExpires(c) => on[Grace(c)] \in Sessions
    BY TaskNames DEF GraceExpires, IInv, HasTarget
  <2> QED
    BY <1>1, <1>5, <2>1, TerminateSlot DEF GraceFires, GraceExpires
<1>6. ASSUME NEW s \in Sessions, SessionStep(s)
      PROVE  [Slot!Next]_Slot!vars
  <2>1. CASE HandleExit(s) /\ alive[s]
    <3>1. child[s] # "unborn"
      BY <2>1 DEF IInv, LivesRegistered
    <3> QED
      BY <2>1, <3>1, SlotEmptied DEF HandleExit
  <2>2. CASE HandleExit(s) /\ ~alive[s]
    BY <1>1, <2>2 DEF HandleExit
  <2>3. CASE IdleFires(s) \/ IdleExpires(s) \/ Eof(s) \/ ExitClosed(s)
    BY <1>1, <1>3, <2>3 DEF IdleFires, IdleExpires, Eof, ExitClosed
  <2> QED
    BY <1>6, <2>1, <2>2, <2>3 DEF SessionStep
<1>7. ASSUME NEW t \in Task, TermDone(t)
      PROVE  [Slot!Next]_Slot!vars
  <2>1. /\ on[t] \in Sessions /\ terminating[on[t]] /\ child[on[t]] # "unborn"
        /\ t[1] = "conn" => \A s \in Sessions : alive[s] => on[t] = s
    BY <1>7, ExitTask
       DEF TermDone, IInv, HasTarget, OwnSteps, NoOtherLives, LivesRegistered, KInv,
           Undisturbed
  <2>2. CASE t[1] = "conn"
    BY <1>7, <2>1, <2>2, ConnTask, RelaunchSlot DEF TermDone
  <2>3. CASE t[1] # "conn"
    BY <1>7, <2>1, <2>3, SlotEmptied DEF TermDone
  <2> QED
    BY <2>2, <2>3
<1>8. ASSUME NEW t \in Task, CloseDone(t)
      PROVE  [Slot!Next]_Slot!vars
  <2>1. on[t] \in Sessions
    BY <1>8 DEF CloseDone, IInv, HasTarget
  <2> QED
    BY <1>1, <1>8, <2>1, TerminateSlot DEF CloseDone
<1>9. CASE ShutdownDone
  <2>1. on[Main] \in Sessions /\ child[on[Main]] # "unborn"
    BY <1>9, TaskNames
       DEF ShutdownDone, IInv, HasTarget, LivesRegistered, KInv, Undisturbed
  <2> QED
    BY <1>9, <2>1, SlotEmptied DEF ShutdownDone
<1>10. CASE BeginShutdown
  <2>1. reg # None => reg \in Sessions
    BY DEF IInv, TypeOK
  <2> QED
    BY <1>1, <1>10, <2>1, TerminateSlot DEF BeginShutdown
<1>11. ASSUME NEW s \in Sessions, ChildExits(s)
       PROVE  [Slot!Next]_Slot!vars
  <2>1. \A r \in Sessions : child'[r] = "unborn" <=> child[r] = "unborn"
    BY <1>11 DEF ChildExits, IInv, TypeOK
  <2> QED
    BY <1>11, <2>1, SlotStays DEF ChildExits
<1>12. CASE Environment
  BY <1>1, <1>10, <1>11, <1>12
     DEF Environment, Connect, Disconnect, EndRequest, WriterEnds, TimePasses, Activity
<1>13. CASE UNCHANGED vars \/ Exited
  BY <1>1, <1>13 DEF vars, Exited
<1> QED
  BY <1>2, <1>4, <1>5, <1>6, <1>7, <1>8, <1>9, <1>12, <1>13 DEF Next

\* The manager keeps the promise of LiveSlot: whatever interleaving of routes,
\* timers, exits and shutdown, a process is started only where none lives or in
\* the place of a condemned one that is gone, and a condemnation is never lost.
THEOREM SlotImplemented == Spec => ImplementsSlot
<1>1. Init => Slot!Init
  <2> SUFFICES ASSUME Init PROVE Slot!Init
    OBVIOUS
  <2>1. \A s \in Sessions : ~alive[s] /\ child[s] = "unborn"
    BY DEF Init
  <2>2. Current = None /\ Condemned = FALSE /\ Spent = {}
    BY <2>1 DEF Current, Condemned, Spent
  <2> QED
    BY <2>2 DEF Slot!Init
<1>2. IInv /\ KInv /\ IInv' /\ [Next]_vars => [Slot!Next]_Slot!vars
  BY SlotStep
<1> QED
  BY <1>1, <1>2, Inductive, BothInductive, PTL DEF Spec, ImplementsSlot, Slot!Spec

-----------------------------------------------------------------------------
(* What the observers know *)

\* A change that is not reported yet waits for the socket of a natural exit; an
\* exit that closes its socket is that of a dead session.
Reported ==
    /\ told # Live => \E s \in Sessions : pc[Exit(s)] = "close" /\ ~terminating[s]
    /\ \A s \in Sessions : pc[Exit(s)] = "close" => ~alive[s] /\ child[s] # "unborn"

\* Only the steps of a session's exit task move it.
LEMMA ExitMoves ==
    ASSUME IInv, [Next]_vars, NEW s \in Sessions
    PROVE  \/ pc'[Exit(s)] = pc[Exit(s)]
           \/ Eof(s) \/ HandleExit(s) \/ ExitClosed(s)
<1>0. /\ pc \in [Task -> PC] /\ Exit(s) \in Task
      /\ \A c \in Conns : Exit(s) # Conn(c) /\ Exit(s) # Grace(c)
      /\ \A e \in Enders : Exit(s) # End(e)
      /\ \A r \in Sessions : Exit(s) # Idle(r) /\ (r # s => Exit(s) # Exit(r))
      /\ Exit(s) # Main
  BY TaskNames DEF IInv, TypeOK
<1>1. \A r \in Sessions : /\ GraceCancelled(r) \in [Task -> PC]
                          /\ GraceCancelled(r)[Exit(s)] = pc[Exit(s)]
  BY <1>0, CancelEffect DEF IInv, TypeOK
<1>2. \A at \in [Task -> PC] : \A r \in Sessions :
         IdleCancelled(at, r)[Exit(s)] = at[Exit(s)]
  BY <1>0 DEF IdleCancelled
<1>3. ASSUME NEW t \in Task, t # Exit(s), NEW r \in Sessions, NEW at \in [Task -> PC],
             at[Exit(s)] = pc[Exit(s)], Terminate(t, r, at)
      PROVE  pc'[Exit(s)] = pc[Exit(s)]
  BY <1>0, <1>2, <1>3 DEF Terminate
<1>4. ASSUME NEW t \in Task, t # Exit(s), NEW r \in Sessions, NEW at \in [Task -> PC],
             at[Exit(s)] = pc[Exit(s)], NotifyAndTerminate(t, r, at)
      PROVE  pc'[Exit(s)] = pc[Exit(s)]
  BY <1>0, <1>3, <1>4 DEF NotifyAndTerminate
<1>5. ASSUME NEW c \in Conns, NEW a, NEW b, NEW d, Launch(c, a, b, d)
      PROVE  pc'[Exit(s)] = pc[Exit(s)]
  BY <1>0, <1>5 DEF Launch, Spawned, SpawnFailed
<1>6. Live => reg \in Sessions
  BY DEF Live, IInv, TypeOK
<1>7. ASSUME NEW c \in Conns, ConnStep(c)
      PROVE  pc'[Exit(s)] = pc[Exit(s)]
  <2>1. CASE Reattach(c) \/ EvictDone(c)
    BY <1>0, <1>1, <1>6, <2>1 DEF Reattach, EvictDone, Attached
  <2>2. CASE StartFresh(c) \/ HistoryDone(c)
    BY <1>5, <2>2 DEF StartFresh, HistoryDone
  <2>3. CASE Replace(c)
    BY <1>0, <1>1, <1>3, <1>6, <2>3, TaskNames DEF Replace
  <2>4. CASE OustDone(c)
    <3>1. on[Conn(c)] \in Sessions
      BY <2>4, TaskNames DEF OustDone, IInv, HasTarget
    <3> QED
      BY <1>0, <1>3, <1>5, <2>4, <3>1, TaskNames DEF OustDone
  <2>5. CASE \/ ReplayDone(c) \/ AskHistory(c) \/ HistoryError(c) \/ Detach(c)
             \/ DetachDone(c)
    BY <1>0, <2>5 DEF ReplayDone, AskHistory, HistoryError, Detach, DetachDone, GraceStarted
  <2> QED
    BY <1>7, <2>1, <2>2, <2>3, <2>4, <2>5 DEF ConnStep
<1>8. ASSUME NEW t \in Task, t[1] # "exit", Leaves(t)
      PROVE  pc'[Exit(s)] = pc[Exit(s)]
  BY <1>8, TaskNames DEF Leaves, IInv, TypeOK
<1>9. ASSUME NEW e \in Enders, EndStep(e)
      PROVE  pc'[Exit(s)] = pc[Exit(s)]
  BY <1>0, <1>1, <1>4, <1>6, <1>8, <1>9, TaskNames DEF EndStep, EndLive, EndNothing
<1>10. ASSUME NEW c \in Conns, GraceFires(c) \/ GraceExpires(c)
       PROVE  pc'[Exit(s)] = pc[Exit(s)]
  <2>1. GraceExpires(c) => on[Grace(c)] \in Sessions
    BY TaskNames DEF GraceExpires, IInv, HasTarget
  <2> QED
    BY <1>0, <1>3, <1>8, <1>10, <2>1, TaskNames DEF GraceFires, GraceExpires
<1>11. ASSUME NEW r \in Sessions, IdleFires(r) \/ IdleExpires(r)
       PROVE  pc'[Exit(s)] = pc[Exit(s)]
  BY <1>0, <1>4, <1>8, <1>11, TaskNames DEF IdleFires, IdleExpires
<1>12. ASSUME NEW r \in Sessions, r # s, Eof(r) \/ HandleExit(r) \/ ExitClosed(r)
       PROVE  pc'[Exit(s)] = pc[Exit(s)]
  <2>1. CASE HandleExit(r)
    <3>1. PICK p \in PC : \/ pc' = [pc EXCEPT ![Exit(r)] = p]
                          \/ pc' = IdleCancelled([pc EXCEPT ![Exit(r)] = p], r)
      BY <2>1 DEF HandleExit, PC
    <3> DEFINE q == [pc EXCEPT ![Exit(r)] = p]
    <3>2. q \in [Task -> PC] /\ q[Exit(s)] = pc[Exit(s)] /\ (pc' = q \/ pc' = IdleCancelled(q, r))
      BY <1>0, <1>12, <3>1
    <3> QED
      BY <1>2, <3>2
  <2>2. CASE Eof(r) \/ ExitClosed(r)
    BY <1>0, <1>12, <2>2 DEF Eof, ExitClosed
  <2> QED
    BY <1>12, <2>1, <2>2
<1>13. ASSUME NEW t \in Task, TermDone(t) \/ CloseDone(t)
       PROVE  pc'[Exit(s)] = pc[Exit(s)]
  <2>1. /\ on[t] \in Sessions /\ t[1] # "exit" /\ t # Exit(s)
    BY <1>13, ExitTask, TaskNames DEF TermDone, CloseDone, IInv, HasTarget, OwnSteps
  <2> QED
    BY <1>0, <1>3, <1>5, <1>8, <1>13, <2>1, ConnTask DEF TermDone, CloseDone
<1>14. CASE BeginShutdown
  <2>1. reg # None => reg \in Sessions
    BY DEF IInv, TypeOK
  <2> QED
    BY <1>0, <1>1, <1>3, <1>14, <2>1, TaskNames DEF BeginShutdown
<1>15. CASE Environment \/ ShutdownDone \/ Exited \/ UNCHANGED vars
  BY <1>0, <1>14, <1>15
     DEF Environment, Connect, Disconnect, EndRequest, WriterEnds, TimePasses, Activity,
         ChildExits, ShutdownDone, Exited, vars
<1> QED
  BY <1>7, <1>9, <1>10, <1>11, <1>12, <1>13, <1>15 DEF Next, SessionStep

\* A session is condemned while it lives, comes to life once and has its child
\* from then on.
LEMMA LivesOnce ==
    ASSUME IInv, KInv, [Next]_vars, NEW s \in Sessions
    PROVE  /\ terminating'[s] => terminating[s] \/ alive[s]
           /\ alive'[s] => alive[s] \/ child[s] = "unborn"
           /\ child[s] # "unborn" => child'[s] # "unborn"
<1> DEFINE P == /\ terminating'[s] => terminating[s] \/ alive[s]
                /\ alive'[s] => alive[s] \/ child[s] = "unborn"
                /\ child[s] # "unborn" => child'[s] # "unborn"
<1>0. /\ alive \in [Sessions -> BOOLEAN] /\ terminating \in [Sessions -> BOOLEAN]
      /\ child \in [Sessions -> {"unborn", "running", "exited", "reaped"}]
  BY DEF IInv, TypeOK
<1>1. ASSUME UNCHANGED <<alive, terminating, child>>
      PROVE  P
  BY <1>1
<1>2. ASSUME NEW t, NEW r \in Sessions, NEW at, Terminate(t, r, at), alive[r]
      PROVE  P
  BY <1>0, <1>2 DEF Terminate
<1>3. ASSUME NEW t, NEW r \in Sessions, NEW at, NotifyAndTerminate(t, r, at), alive[r]
      PROVE  P
  BY <1>1, <1>2, <1>3 DEF NotifyAndTerminate
<1>4. ASSUME NEW c \in Conns, NEW a \in [Sessions -> BOOLEAN],
             NEW b \in [Sessions -> {"unborn", "running", "exited", "reaped"}], NEW d,
             Launch(c, a, b, d), a[s] => alive[s],
             child[s] # "unborn" => b[s] # "unborn"
      PROVE  P
  BY <1>4 DEF Launch, Spawned, SpawnFailed
<1>5. Live => reg \in Sessions /\ alive[reg]
  BY DEF Live, IInv, TypeOK
<1>6. ASSUME NEW c \in Conns, ConnStep(c)
      PROVE  P
  <2>1. CASE StartFresh(c) \/ HistoryDone(c)
    BY <1>0, <1>4, <2>1 DEF StartFresh, HistoryDone
  <2>2. CASE Replace(c)
    BY <1>1, <1>2, <1>5, <2>2 DEF Replace
  <2>3. CASE OustDone(c)
    <3>1. on[Conn(c)] \in Sessions
      BY <2>3, TaskNames DEF OustDone, IInv, HasTarget
    <3> QED
      BY <1>0, <1>2, <1>4, <2>3, <3>1 DEF OustDone
  <2>4. CASE \/ Reattach(c) \/ EvictDone(c) \/ ReplayDone(c) \/ AskHistory(c)
             \/ HistoryError(c) \/ Detach(c) \/ DetachDone(c)
    BY <1>1, <2>4 DEF Reattach, EvictDone, ReplayDone, AskHistory, HistoryError, Detach,
                      DetachDone
  <2> QED
    BY <1>6, <2>1, <2>2, <2>3, <2>4 DEF ConnStep
<1>7. ASSUME NEW e \in Enders, EndStep(e)
      PROVE  P
  BY <1>1, <1>3, <1>5, <1>7 DEF EndStep, EndLive, EndNothing
<1>8. ASSUME NEW c \in Conns, GraceFires(c) \/ GraceExpires(c)
      PROVE  P
  <2>1. GraceExpires(c) => on[Grace(c)] \in Sessions
    BY TaskNames DEF GraceExpires, IInv, HasTarget
  <2> QED
    BY <1>1, <1>2, <1>8, <2>1 DEF GraceFires, GraceExpires
<1>9. ASSUME NEW r \in Sessions, SessionStep(r)
      PROVE  P
  <2>1. CASE HandleExit(r)
    BY <1>0, <2>1 DEF HandleExit
  <2>2. CASE IdleFires(r) \/ IdleExpires(r) \/ Eof(r) \/ ExitClosed(r)
    BY <1>1, <1>3, <2>2 DEF IdleFires, IdleExpires, Eof, ExitClosed
  <2> QED
    BY <1>9, <2>1, <2>2 DEF SessionStep
<1>10. ASSUME NEW t \in Task, TermDone(t) \/ CloseDone(t)
       PROVE  P
  <2>1. on[t] \in Sessions /\ (t[1] = "conn" => t[2] \in Conns)
    BY <1>10, ExitTask, ConnTask DEF TermDone, CloseDone, IInv, HasTarget, OwnSteps
  <2>2. CASE TermDone(t) /\ t[1] = "conn"
    <3> DEFINE a == [alive EXCEPT ![on[t]] = FALSE]
               b == [child EXCEPT ![on[t]] = "reaped"]
    <3>1. /\ a \in [Sessions -> BOOLEAN] /\ (a[s] => alive[s])
          /\ b \in [Sessions -> {"unborn", "running", "exited", "reaped"}]
          /\ (child[s] # "unborn" => b[s] # "unborn")
      BY <1>0
    <3>2. Launch(t[2], a, b, sock)
      BY <2>2 DEF TermDone
    <3> HIDE DEF a, b
    <3> QED
      BY <1>4, <2>1, <2>2, <3>1, <3>2
  <2>3. CASE TermDone(t) /\ t[1] # "conn"
    BY <1>0, <2>3 DEF TermDone
  <2>4. CASE CloseDone(t)
    BY <1>1, <1>2, <2>1, <2>4 DEF CloseDone
  <2> QED
    BY <1>10, <2>2, <2>3, <2>4
<1>11. CASE BeginShutdown
  BY <1>1, <1>2, <1>11 DEF BeginShutdown, IInv, TypeOK
<1>12. CASE ShutdownDone \/ \E r \in Sessions : ChildExits(r)
  BY <1>0, <1>12 DEF ShutdownDone, ChildExits
<1>13. CASE Environment \/ Exited \/ UNCHANGED vars
  BY <1>1, <1>11, <1>12, <1>13
     DEF Environment, Connect, Disconnect, EndRequest, WriterEnds, TimePasses, Activity,
         Exited, vars
<1> QED
  BY <1>6, <1>7, <1>8, <1>9, <1>10, <1>12, <1>13 DEF Next

\* A step reports, or leaves what there is to report as it was, or belongs to
\* the exit task of a session.
LEMMA Reports ==
    ASSUME IInv, KInv, IInv', [Next]_vars
    PROVE  \/ told' = Live'
           \/ told' = told /\ Live' = Live
           \/ \E s \in Sessions : HandleExit(s) /\ pc'[Exit(s)] = "close" /\ ~terminating[s]
                                    /\ UNCHANGED terminating
<1> DEFINE P == told' = Live' \/ (told' = told /\ Live' = Live)
<1>0. /\ alive \in [Sessions -> BOOLEAN] /\ terminating \in [Sessions -> BOOLEAN]
      /\ reg \in Sessions \cup {None} /\ reg' \in Sessions \cup {None}
      /\ \A s \in Sessions : alive[s] => reg = s /\ child[s] # "unborn"
      /\ \A s \in Sessions : alive'[s] => reg' = s
  BY DEF IInv, TypeOK, LivesRegistered
<1>1. ASSUME UNCHANGED <<alive, terminating, reg, told>>
      PROVE  P
  BY <1>1 DEF Live
<1>2. ASSUME NEW t, NEW r \in Sessions, NEW at, Terminate(t, r, at), alive[r]
      PROVE  P
  <2>1. CASE terminating[r]
    <3>1. terminating' = terminating
      BY <1>0, <1>2, <2>1 DEF Terminate
    <3> QED
      BY <1>1, <1>2, <2>1, <3>1 DEF Terminate
  <2>2. CASE ~terminating[r]
    BY <1>2, <2>2 DEF Terminate, Notify
  <2> QED
    BY <2>1, <2>2
<1>3. ASSUME NEW t, NEW r \in Sessions, NEW at, NotifyAndTerminate(t, r, at), alive[r]
      PROVE  P
  BY <1>1, <1>2, <1>3 DEF NotifyAndTerminate
<1>4. ASSUME told' = told, ~Live, ~Live'
      PROVE  P
  BY <1>4 DEF Live
<1>5. (\A s \in Sessions : alive[s] => terminating[s]) => ~Live
  BY <1>0 DEF Live
<1>6. (\A s \in Sessions : ~alive'[s] \/ terminating'[s]) => ~Live'
  BY <1>0 DEF Live
<1>7. ASSUME NEW c \in Conns, NEW a, NEW b, NEW d, Launch(c, a, b, d),
             \A s \in Sessions : ~a[s], \A s \in Sessions : alive[s] => terminating[s]
      PROVE  P
  BY <1>4, <1>5, <1>6, <1>7 DEF Launch, Spawned, SpawnFailed, Notify
<1>8. Live => reg \in Sessions /\ alive[reg]
  BY <1>0 DEF Live
<1>9. ASSUME NEW c \in Conns, ConnStep(c)
      PROVE  P
  <2>1. CASE StartFresh(c)
    BY <1>7, <2>1, NoLife DEF StartFresh
  <2>2. CASE HistoryDone(c)
    <3>1. \A s \in Sessions : ~alive[s]
      BY <2>2, TaskNames DEF HistoryDone, IInv, NoOtherLives
    <3> QED
      BY <1>7, <2>2, <3>1 DEF HistoryDone
  <2>3. CASE Replace(c)
    BY <1>1, <1>2, <1>8, <2>3 DEF Replace
  <2>4. CASE OustDone(c)
    <3>1. on[Conn(c)] \in Sessions /\ \A s \in Sessions : alive[s] => on[Conn(c)] = s
      BY <2>4, TaskNames DEF OustDone, IInv, HasTarget, NoOtherLives
    <3>2. CASE alive[on[Conn(c)]]
      BY <1>2, <2>4, <3>1, <3>2 DEF OustDone
    <3>3. CASE ~alive[on[Conn(c)]]
      BY <1>7, <2>4, <3>1, <3>3 DEF OustDone
    <3> QED
      BY <3>2, <3>3
  <2>5. CASE AskHistory(c)
    <3>1. ~Live /\ ~Live'
      BY <1>0, <2>5 DEF AskHistory, Live, Pruned
    <3> QED
      BY <1>4, <2>5, <3>1 DEF AskHistory
  <2>6. CASE \/ Reattach(c) \/ EvictDone(c) \/ ReplayDone(c) \/ HistoryError(c)
             \/ Detach(c) \/ DetachDone(c)
    BY <1>1, <2>6 DEF Reattach, EvictDone, ReplayDone, HistoryError, Detach, DetachDone
  <2> QED
    BY <1>9, <2>1, <2>2, <2>3, <2>4, <2>5, <2>6 DEF ConnStep
<1>10. ASSUME NEW e \in Enders, EndStep(e)
       PROVE  P
  <2>1. CASE EndNothing(e)
    <3>1. ~Live /\ ~Live'
      BY <1>0, <2>1 DEF EndNothing, Live, Pruned
    <3> QED
      BY <1>4, <2>1, <3>1 DEF EndNothing
  <2> QED
    BY <1>3, <1>8, <1>10, <2>1 DEF EndStep, EndLive
<1>11. ASSUME NEW c \in Conns, GraceFires(c) \/ GraceExpires(c)
       PROVE  P
  <2>1. GraceExpires(c) => on[Grace(c)] \in Sessions
    BY TaskNames DEF GraceExpires, IInv, HasTarget
  <2> QED
    BY <1>1, <1>2, <1>11, <2>1 DEF GraceFires, GraceExpires
<1>12. ASSUME NEW s \in Sessions, SessionStep(s), ~HandleExit(s)
       PROVE  P
  <2>1. CASE ExitClosed(s)
    <3>1. UNCHANGED <<alive, terminating, reg>>
      BY <2>1 DEF ExitClosed
    <3>2. Live' = Live
      BY <3>1 DEF Live
    <3>3. told' = told \/ told' = Live
      BY <2>1 DEF ExitClosed
    <3> QED
      BY <3>2, <3>3
  <2>2. CASE IdleFires(s) \/ IdleExpires(s) \/ Eof(s)
    BY <1>1, <1>3, <2>2 DEF IdleFires, IdleExpires, Eof
  <2> QED
    BY <1>12, <2>1, <2>2 DEF SessionStep
<1>13. ASSUME NEW s \in Sessions, HandleExit(s)
       PROVE  P \/ (pc'[Exit(s)] = "close" /\ ~terminating[s] /\ UNCHANGED terminating)
  <2>1. CASE ~alive[s]
    BY <1>1, <1>13, <2>1 DEF HandleExit
  <2>2. CASE alive[s] /\ terminating[s]
    <3>1. \A r \in Sessions : r # s => ~alive[r]
      BY <1>0, <2>2
    <3>2. \A r \in Sessions : ~alive'[r]
      BY <1>0, <1>13, <2>2, <3>1 DEF HandleExit
    <3>3. told' = told
      BY <1>13, <2>2 DEF HandleExit
    <3> QED
      BY <1>4, <1>5, <1>6, <2>2, <3>1, <3>2, <3>3
  <2>3. CASE alive[s] /\ ~terminating[s]
    <3>1. CASE ws[s] # None /\ writer[s] = ws[s]
      <4>1. pc' = IdleCancelled([pc EXCEPT ![Exit(s)] = "close"], s) /\ UNCHANGED terminating
        BY <1>13, <2>3, <3>1 DEF HandleExit
      <4>2. pc'[Exit(s)] = "close"
        BY <4>1, TaskNames DEF IdleCancelled, IInv, TypeOK
      <4> QED
        BY <2>3, <4>1, <4>2
    <3>2. CASE ~(ws[s] # None /\ writer[s] = ws[s])
      BY <1>13, <2>3, <3>2 DEF HandleExit, Notify
    <3> QED
      BY <3>1, <3>2
  <2> QED
    BY <2>1, <2>2, <2>3
<1>14. ASSUME NEW t \in Task, TermDone(t)
       PROVE  P
  <2>1. /\ on[t] \in Sessions /\ terminating[on[t]]
        /\ t[1] = "conn" => \A s \in Sessions : alive[s] => on[t] = s
    BY <1>14, ExitTask DEF TermDone, IInv, HasTarget, OwnSteps, NoOtherLives, KInv, Undisturbed
  <2>2. CASE t[1] = "conn"
    <3> DEFINE a == [alive EXCEPT ![on[t]] = FALSE]
               b == [child EXCEPT ![on[t]] = "reaped"]
    <3>1. \A s \in Sessions : ~a[s]
      BY <1>0, <2>1, <2>2
    <3>2. Launch(t[2], a, b, sock) /\ t[2] \in Conns
      BY <1>14, <2>2, ConnTask DEF TermDone
    <3> HIDE DEF a, b
    <3> QED
      BY <1>7, <2>1, <2>2, <3>1, <3>2
  <2>3. CASE t[1] # "conn"
    <3>1. /\ alive' = [alive EXCEPT ![on[t]] = FALSE] /\ UNCHANGED <<terminating, told>>
          /\ reg' = IF reg = on[t] THEN None ELSE reg
      BY <1>14, <2>3 DEF TermDone
    <3>2. Live' = Live
      BY <1>0, <2>1, <3>1 DEF Live
    <3> QED
      BY <3>1, <3>2
  <2> QED
    BY <2>2, <2>3
<1>15. ASSUME NEW t \in Task, CloseDone(t)
       PROVE  P
  <2>1. on[t] \in Sessions
    BY <1>15 DEF CloseDone, IInv, HasTarget
  <2>2. CASE alive[on[t]]
    BY <1>2, <1>15, <2>1, <2>2 DEF CloseDone
  <2>3. CASE ~alive[on[t]]
    <3>1. /\ UNCHANGED <<alive, terminating, told>>
          /\ reg' = IF reg = on[t] THEN None ELSE reg
      BY <1>15, <2>3 DEF CloseDone
    <3>2. Live' = Live
      BY <1>0, <2>3, <3>1 DEF Live
    <3> QED
      BY <3>1, <3>2
  <2> QED
    BY <2>2, <2>3
<1>16. CASE ShutdownDone
  <2>1. /\ on[Main] \in Sessions /\ terminating[on[Main]]
        /\ \A s \in Sessions : alive[s] => on[Main] = s
    BY <1>16, TaskNames DEF ShutdownDone, IInv, HasTarget, NoOtherLives, KInv, Undisturbed
  <2>2. ~Live /\ ~Live' /\ told' = told
    BY <1>5, <1>16, <2>1 DEF ShutdownDone, Live
  <2> QED
    BY <1>4, <2>2
<1>17. CASE BeginShutdown
  <2>1. CASE reg # None /\ alive[reg]
    BY <1>0, <1>2, <1>17, <2>1 DEF BeginShutdown
  <2>2. CASE reg = None \/ ~alive[reg]
    <3>1. ~Live /\ ~Live' /\ told' = told
      BY <1>17, <2>2 DEF BeginShutdown, Live
    <3> QED
      BY <1>4, <3>1
  <2> QED
    BY <2>1, <2>2
<1>18. CASE Environment \/ Exited \/ UNCHANGED vars
  BY <1>1, <1>17, <1>18
     DEF Environment, Connect, Disconnect, EndRequest, WriterEnds, TimePasses, Activity,
         ChildExits, Exited, vars
<1> QED
  BY <1>9, <1>10, <1>11, <1>12, <1>13, <1>14, <1>15, <1>16, <1>18 DEF Next

LEMMA ReportedKept ==
    ASSUME IInv, KInv, IInv', Reported, [Next]_vars
    PROVE  Reported'
<1>1. ASSUME NEW s \in Sessions, pc'[Exit(s)] = "close"
      PROVE  ~alive'[s] /\ child'[s] # "unborn"
  <2>1. CASE pc[Exit(s)] = "close"
    BY <2>1, LivesOnce DEF Reported
  <2>2. CASE pc[Exit(s)] # "close"
    <3>1. HandleExit(s)
      BY <1>1, <2>2, ExitMoves, TaskNames DEF Eof, ExitClosed, IInv, TypeOK
    <3>2. alive[s]
      BY <1>1, <3>1, TaskNames DEF HandleExit, IInv, TypeOK
    <3> QED
      BY <3>1, <3>2 DEF HandleExit, IInv, TypeOK
  <2> QED
    BY <2>1, <2>2
<1>2. ASSUME told' # Live'
      PROVE  \E s \in Sessions : pc'[Exit(s)] = "close" /\ ~terminating'[s]
  <2>1. CASE told' = told /\ Live' = Live
    <3>1. PICK s \in Sessions : pc[Exit(s)] = "close" /\ ~terminating[s] /\ ~alive[s]
      BY <1>2, <2>1 DEF Reported
    <3>2. ~terminating'[s]
      BY <3>1, LivesOnce
    <3>3. ~ExitClosed(s)
      BY <1>2, <2>1, <3>1 DEF ExitClosed
    <3>4. ~Eof(s) /\ ~HandleExit(s)
      BY <3>1 DEF Eof, HandleExit
    <3> QED
      BY <3>1, <3>2, <3>3, <3>4, ExitMoves
  <2>2. CASE \E s \in Sessions : HandleExit(s) /\ pc'[Exit(s)] = "close" /\ ~terminating[s]
                                   /\ UNCHANGED terminating
    BY <2>2
  <2> QED
    BY <1>2, <2>1, <2>2, Reports
<1> QED
  BY <1>1, <1>2 DEF Reported

\* The observers are told of every session that begins, is condemned or ends:
\* the status channel and the map of sessions differ only while a natural exit
\* waits for its socket to close.
THEOREM ObserversKnowAlways == Spec => []ObserversKnow
<1>1. Init => Reported
  <2> SUFFICES ASSUME Init PROVE Reported
    OBVIOUS
  <2>1. told = FALSE /\ Live = FALSE
    BY DEF Init, Live
  <2>2. \A s \in Sessions : pc[Exit(s)] = "init"
    BY TaskNames DEF Init
  <2> QED
    BY <2>1, <2>2 DEF Reported
<1>2. IInv /\ KInv /\ IInv' /\ Reported /\ [Next]_vars => Reported'
  BY ReportedKept
<1>3. Reported => ObserversKnow
  BY DEF Reported, ObserversKnow
<1> QED
  BY <1>1, <1>2, <1>3, BothInductive, PTL DEF Spec

-----------------------------------------------------------------------------
(* Nobody is forgotten *)

\* What becomes of the sockets.  NobodyForgotten holds from the replay on; an
\* attached socket that is open has the writer of its session; a socket that is
\* detached has ended; nobody takes the session meanwhile from a route that
\* evicts; a session without a process has no sockets; only a task that awaits a
\* close has a victim.
Watched ==
    /\ \A c \in Conns : pc[Conn(c)] \in {"replay", "open"} /\ sock[c] = "open"
          => ws[on[Conn(c)]] = c \/ \E t \in Task : victim[t] = c
    /\ \A s \in Sessions : ws[s] # None =>
          pc[Conn(ws[s])] # "init" /\ (sock[ws[s]] = "open" => writer[s] = ws[s])
    /\ \A c \in Conns :
          /\ pc[Conn(c)] = "detach" => sock[c] # "open"
          /\ pc[Conn(c)] = "evict" => ws[on[Conn(c)]] = None
          /\ pc[Conn(c)] \in {"evict", "replay", "open", "detach"}
                => child[on[Conn(c)]] # "unborn"
    /\ \A s \in Sessions : child[s] = "unborn" => ws[s] = None
    /\ \A t \in Task : victim[t] # None => pc[t] \in {"evict", "oust", "close"}

\* A step in which nobody attaches, and a socket loses its session only if it has
\* ended or somebody is about to close it.
LEMMA WatchKept ==
    ASSUME IInv, Watched,
           \A c \in Conns :
              /\ pc'[Conn(c)] \in {"evict", "replay", "open", "detach"}
                   => /\ pc[Conn(c)] \in {"evict", "replay", "open", "detach"}
                      /\ on'[Conn(c)] = on[Conn(c)]
              /\ pc'[Conn(c)] \in {"replay", "open"} => pc[Conn(c)] \in {"replay", "open"}
              /\ pc'[Conn(c)] = "evict" => pc[Conn(c)] = "evict"
              /\ pc'[Conn(c)] = "detach" => pc[Conn(c)] = "detach" \/ sock[c] # "open"
              /\ pc'[Conn(c)] = "init" => pc[Conn(c)] = "init"
              /\ sock'[c] = "open" => sock[c] = "open" \/ pc[Conn(c)] = "init",
           \A s \in Sessions :
              /\ \/ ws'[s] = ws[s]
                 \/ /\ ws'[s] = None /\ ws[s] # None
                    /\ sock'[ws[s]] = "open" /\ pc'[Conn(ws[s])] \in {"replay", "open"}
                          => \E t \in Task : victim'[t] = ws[s]
              /\ \/ writer'[s] = writer[s] \/ ws'[s] = None
                 \/ writer[s] # None /\ sock'[writer[s]] # "open"
              /\ child'[s] = "unborn" => child[s] = "unborn",
           \A t \in Task :
              /\ victim[t] # None => victim'[t] = victim[t] \/ sock'[victim[t]] # "open"
              /\ victim'[t] # None => pc'[t] \in {"evict", "oust", "close"}
    PROVE  Watched'
<1>0. /\ ws \in [Sessions -> Conns \cup {None}] /\ victim \in [Task -> Conns \cup {None}]
      /\ None \notin Conns
      /\ \A c \in Conns : pc[Conn(c)] \in {"evict", "replay", "open", "detach"}
            => on[Conn(c)] \in Sessions
  BY TaskNames, NoneAssumption DEF IInv, TypeOK, HasTarget
<1>1. ASSUME NEW c \in Conns, pc'[Conn(c)] \in {"replay", "open"}, sock'[c] = "open"
      PROVE  ws'[on'[Conn(c)]] = c \/ \E t \in Task : victim'[t] = c
  <2>1. /\ pc[Conn(c)] \in {"replay", "open"} /\ sock[c] = "open"
        /\ on'[Conn(c)] = on[Conn(c)] /\ on[Conn(c)] \in Sessions
    BY <1>0, <1>1
  <2>2. CASE ws[on[Conn(c)]] = c
    BY <1>0, <1>1, <2>1, <2>2
  <2>3. CASE \E t \in Task : victim[t] = c
    BY <1>0, <1>1, <2>3
  <2> QED
    BY <2>1, <2>2, <2>3 DEF Watched
<1>2. ASSUME NEW s \in Sessions, ws'[s] # None
      PROVE  pc'[Conn(ws'[s])] # "init" /\ (sock'[ws'[s]] = "open" => writer'[s] = ws'[s])
  <2>1. ws'[s] = ws[s] /\ ws[s] \in Conns
    BY <1>0, <1>2
  <2> QED
    BY <1>2, <2>1 DEF Watched
<1>3. ASSUME NEW c \in Conns
      PROVE  /\ pc'[Conn(c)] = "detach" => sock'[c] # "open"
             /\ pc'[Conn(c)] = "evict" => ws'[on'[Conn(c)]] = None
             /\ pc'[Conn(c)] \in {"evict", "replay", "open", "detach"}
                   => child'[on'[Conn(c)]] # "unborn"
  BY <1>0 DEF Watched
<1>4. \A s \in Sessions : child'[s] = "unborn" => ws'[s] = None
  BY DEF Watched
<1> QED
  BY <1>1, <1>2, <1>3, <1>4 DEF Watched

\* The same for a task that moves and touches no socket's place.
LEMMA WatchMoveKept ==
    ASSUME IInv, Watched, NEW t \in Task, OthersStay({t}), UNCHANGED <<ws, writer, victim>>,
           pc[t] \notin {"evict", "oust", "close"},
           pc[t] # "init" => pc'[t] # "init",
           t[1] = "conn" => \/ pc'[t] \notin {"evict", "replay", "open", "detach"}
                            \/ pc[t] = "replay" /\ pc'[t] = "open" /\ on'[t] = on[t],
           \A u \in Task \ {t} : on'[u] = on[u],
           \A c \in Conns : sock'[c] = "open" => sock[c] = "open" \/ pc[Conn(c)] = "init",
           \A s \in Sessions : child'[s] = "unborn" => child[s] = "unborn"
    PROVE  Watched'
<1>1. ASSUME NEW c \in Conns
      PROVE  /\ pc'[Conn(c)] \in {"evict", "replay", "open", "detach"}
                   => /\ pc[Conn(c)] \in {"evict", "replay", "open", "detach"}
                      /\ on'[Conn(c)] = on[Conn(c)]
             /\ pc'[Conn(c)] \in {"replay", "open"} => pc[Conn(c)] \in {"replay", "open"}
             /\ pc'[Conn(c)] = "evict" => pc[Conn(c)] = "evict"
             /\ pc'[Conn(c)] = "detach" => pc[Conn(c)] = "detach" \/ sock[c] # "open"
             /\ pc'[Conn(c)] = "init" => pc[Conn(c)] = "init"
  <2>1. Conn(c) \in Task /\ Conn(c)[1] = "conn"
    BY TaskNames
  <2>2. CASE Conn(c) = t
    BY <2>1, <2>2
  <2>3. CASE Conn(c) # t
    BY <2>1, <2>3 DEF OthersStay
  <2> QED
    BY <2>2, <2>3
<1>2. \A u \in Task : victim'[u] # None => pc'[u] \in {"evict", "oust", "close"}
  BY DEF Watched, OthersStay
<1> QED
  BY <1>1, <1>2, WatchKept

\* A step that moves no task and no target.
LEMMA WatchStillKept ==
    ASSUME IInv, Watched, UNCHANGED <<pc, on, ws, victim>>,
           \A c \in Conns : sock'[c] = "open" => sock[c] = "open",
           \A s \in Sessions :
              /\ writer'[s] = writer[s] \/ (writer[s] # None /\ sock'[writer[s]] # "open")
              /\ child'[s] = "unborn" => child[s] = "unborn"
    PROVE  Watched'
<1>1. \A u \in Task : victim'[u] # None => pc'[u] \in {"evict", "oust", "close"}
  BY DEF Watched
<1> QED
  BY <1>1, WatchKept DEF Watched

\* A route starts a process, or fails to.  What it leaves of the sockets may be
\* one less than before.
LEMMA LaunchWatched ==
    ASSUME IInv, Watched, NEW c \in Conns, Holds(Conn(c)),
           pc[Conn(c)] \notin {"init", "done"},
           pc[Conn(c)] \notin {"evict", "replay", "open", "detach"},
           NEW aliveNow,
           NEW childNow \in [Sessions -> {"unborn", "running", "exited", "reaped"}],
           NEW sockNow \in [Conns -> {"init", "open", "stuck", "gone", "closed"}],
           Launch(c, aliveNow, childNow, sockNow),
           \A d \in Conns : sockNow[d] = "open" => sock[d] = "open",
           \A s \in Sessions : childNow[s] = "unborn" => child[s] = "unborn",
           \A t \in Task :
              /\ victim[t] # None => victim'[t] = victim[t] \/ sockNow[victim[t]] # "open"
              /\ victim'[t] # None => victim'[t] = victim[t] /\ t # Conn(c)
    PROVE  Watched'
<1>0. /\ Conn(c) \in Task /\ Conn(c)[1] = "conn"
      /\ \A d \in Conns : Conn(d) \in Task /\ (d # c => Conn(d) # Conn(c))
      /\ pc \in [Task -> PC] /\ on \in [Task -> Sessions \cup {None}]
      /\ ws \in [Sessions -> Conns \cup {None}] /\ writer \in [Sessions -> Conns \cup {None}]
      /\ victim \in [Task -> Conns \cup {None}] /\ None \notin Conns
  <2>1. /\ pc \in [Task -> PC] /\ on \in [Task -> Sessions \cup {None}]
        /\ ws \in [Sessions -> Conns \cup {None}]
        /\ writer \in [Sessions -> Conns \cup {None}]
        /\ victim \in [Task -> Conns \cup {None}]
    BY DEF IInv, TypeOK
  <2> QED
    BY <2>1, TaskNames, NoneAssumption
<1>1. CASE SpawnFailed(c, aliveNow, childNow, sockNow)
  <2>1. /\ pc' = [pc EXCEPT ![Conn(c)] = "done"] /\ UNCHANGED <<on, ws, writer>>
        /\ child' = childNow
        /\ \A d \in Conns : sock'[d] = "open" => sockNow[d] = "open"
    BY <1>1 DEF SpawnFailed
  <2>2. pc'[Conn(c)] = "done" /\ \A u \in Task \ {Conn(c)} : pc'[u] = pc[u]
    BY <1>0, <2>1
  <2>3. \A u \in Task :
          /\ victim[u] # None => victim'[u] = victim[u] \/ sock'[victim[u]] # "open"
          /\ victim'[u] # None => pc'[u] \in {"evict", "oust", "close"}
    BY <1>0, <2>1, <2>2 DEF Watched
  <2>4. \A d \in Conns :
          /\ pc'[Conn(d)] = pc[Conn(d)] \/ pc'[Conn(d)] = "done"
          /\ sock'[d] = "open" => sock[d] = "open"
    BY <1>0, <2>1, <2>2
  <2>5. \A s \in Sessions : child'[s] = "unborn" => child[s] = "unborn"
    BY <2>1
  <2> QED
    BY <2>1, <2>3, <2>4, <2>5, WatchKept
<1>2. CASE \E s \in Sessions : Spawned(c, s, aliveNow, childNow, sockNow)
  <2>1. PICK s \in Sessions : Spawned(c, s, aliveNow, childNow, sockNow)
    BY <1>2
  <2>2. /\ pc' = [pc EXCEPT ![Conn(c)] = "open", ![Idle(s)] = IF IdleOn THEN "sleep" ELSE @]
        /\ on' = [on EXCEPT ![Conn(c)] = s]
        /\ ws' = [ws EXCEPT ![s] = c] /\ writer' = [writer EXCEPT ![s] = c]
        /\ sock' = sockNow /\ child[s] = "unborn"
        /\ child' = [childNow EXCEPT ![s] = "running"]
    BY <2>1 DEF Spawned
  <2>3. /\ Idle(s) \in Task /\ \A d \in Conns : Idle(s) # Conn(d)
        /\ Idle(s)[1] = "idle"
    BY TaskNames
  <2>4. /\ pc'[Conn(c)] = "open" /\ \A d \in Conns \ {c} : pc'[Conn(d)] = pc[Conn(d)]
        /\ \A u \in Task \ {Conn(c), Idle(s)} : pc'[u] = pc[u]
        /\ pc'[Idle(s)] \in {pc[Idle(s)], "sleep"}
        /\ on'[Conn(c)] = s /\ \A d \in Conns \ {c} : on'[Conn(d)] = on[Conn(d)]
    BY <1>0, <2>2, <2>3
  <2>5. ws[s] = None
    BY <2>2 DEF Watched
  <2>6. /\ ws'[s] = c /\ writer'[s] = c
        /\ \A r \in Sessions \ {s} : ws'[r] = ws[r] /\ writer'[r] = writer[r]
    BY <1>0, <2>2
  <2>7. ASSUME NEW d \in Conns, pc'[Conn(d)] \in {"replay", "open"}, sock'[d] = "open"
        PROVE  ws'[on'[Conn(d)]] = d \/ \E t \in Task : victim'[t] = d
    <3>1. CASE d = c
      BY <2>4, <2>6, <3>1
    <3>2. CASE d # c
      <4>1. /\ pc[Conn(d)] \in {"replay", "open"} /\ sock[d] = "open"
            /\ on'[Conn(d)] = on[Conn(d)] /\ on[Conn(d)] \in Sessions
        BY <1>0, <2>2, <2>4, <2>7, <3>2, TaskNames DEF IInv, HasTarget
      <4>2. ws[on[Conn(d)]] = d \/ \E t \in Task : victim[t] = d
        BY <4>1 DEF Watched
      <4>3. ws[on[Conn(d)]] = d => on[Conn(d)] # s
        BY <1>0, <2>5
      <4>4. \A t \in Task : victim[t] = d => victim'[t] = d
        BY <1>0, <2>2, <2>7
      <4> QED
        BY <2>6, <4>1, <4>2, <4>3, <4>4
    <3> QED
      BY <3>1, <3>2
  <2>8. ASSUME NEW r \in Sessions, ws'[r] # None
        PROVE  pc'[Conn(ws'[r])] # "init" /\ (sock'[ws'[r]] = "open" => writer'[r] = ws'[r])
    <3>1. CASE r = s
      BY <2>4, <2>6, <3>1
    <3>2. CASE r # s
      <4>1. ws'[r] = ws[r] /\ writer'[r] = writer[r] /\ ws[r] \in Conns
        BY <1>0, <2>6, <2>8, <3>2
      <4>2. sock'[ws[r]] = "open" => sock[ws[r]] = "open"
        BY <2>2, <4>1
      <4>3. pc[Conn(ws[r])] # "init" /\ (sock[ws[r]] = "open" => writer[r] = ws[r])
        BY <2>8, <4>1 DEF Watched
      <4>4. pc'[Conn(ws[r])] # "init"
        BY <2>4, <4>1, <4>3
      <4> QED
        BY <4>1, <4>2, <4>3, <4>4
    <3> QED
      BY <3>1, <3>2
  <2>9. ASSUME NEW d \in Conns
        PROVE  /\ pc'[Conn(d)] = "detach" => sock'[d] # "open"
               /\ pc'[Conn(d)] = "evict" => ws'[on'[Conn(d)]] = None
               /\ pc'[Conn(d)] \in {"evict", "replay", "open", "detach"}
                     => child'[on'[Conn(d)]] # "unborn"
    <3>1. CASE d = c
      <4>1. child'[s] = "running"
        BY <2>2
      <4> QED
        BY <2>4, <3>1, <4>1
    <3>2. CASE d # c
      <4>1. pc'[Conn(d)] = pc[Conn(d)] /\ on'[Conn(d)] = on[Conn(d)]
        BY <2>4, <3>2
      <4>2. CASE pc[Conn(d)] \in {"evict", "replay", "open", "detach"}
        <5>1. on[Conn(d)] \in Sessions /\ child[on[Conn(d)]] # "unborn"
          BY <4>2, TaskNames DEF IInv, HasTarget, Watched
        <5>2. on[Conn(d)] # s
          BY <2>2, <5>1
        <5> QED
          BY <2>2, <2>6, <4>1, <4>2, <5>1, <5>2 DEF Watched
      <4>3. CASE pc[Conn(d)] \notin {"evict", "replay", "open", "detach"}
        BY <4>1, <4>3
      <4> QED
        BY <4>2, <4>3
    <3> QED
      BY <3>1, <3>2
  <2>10. \A r \in Sessions : child'[r] = "unborn" => ws'[r] = None
    BY <2>2, <2>6 DEF Watched
  <2>11. \A t \in Task : victim'[t] # None => pc'[t] \in {"evict", "oust", "close"}
    <3>1. ASSUME NEW t \in Task, victim'[t] # None
          PROVE  pc'[t] \in {"evict", "oust", "close"}
      <4>1. t # Conn(c) /\ pc[t] \in {"evict", "oust", "close"}
        BY <3>1 DEF Watched
      <4>2. CASE t # Idle(s)
        BY <2>4, <4>1, <4>2
      <4>3. CASE t = Idle(s)
        <5>1. pc[t] \in Critical /\ t[1] # "exit"
          BY <2>3, <4>1, <4>3 DEF Critical
        <5> QED
          BY <4>1, <5>1, LoneRoute
      <4> QED
        BY <4>2, <4>3
    <3> QED
      BY <3>1
  <2> QED
    BY <2>7, <2>8, <2>9, <2>10, <2>11 DEF Watched
<1> QED
  BY <1>1, <1>2 DEF Launch

\* The routes.
LEMMA ConnWatched ==
    ASSUME IInv, KInv, Watched, NEW c \in Conns, ConnStep(c)
    PROVE  Watched'
<1>0. /\ Conn(c) \in Task /\ Conn(c)[1] = "conn" /\ Conn(c) # Main
      /\ \A d \in Conns : /\ Conn(d) \in Task /\ Conn(d)[1] = "conn"
                          /\ d # c => Conn(d) # Conn(c)
                          /\ Conn(d) # Grace(c)
      /\ Grace(c) \in Task /\ Grace(c) # Conn(c)
      /\ pc \in [Task -> PC] /\ on \in [Task -> Sessions \cup {None}]
      /\ ws \in [Sessions -> Conns \cup {None}] /\ writer \in [Sessions -> Conns \cup {None}]
      /\ victim \in [Task -> Conns \cup {None}] /\ None \notin Conns
      /\ sock \in [Conns -> {"init", "open", "stuck", "gone", "closed"}]
      /\ child \in [Sessions -> {"unborn", "running", "exited", "reaped"}]
      /\ alive \in [Sessions -> BOOLEAN]
  <2>1. /\ pc \in [Task -> PC] /\ on \in [Task -> Sessions \cup {None}]
        /\ ws \in [Sessions -> Conns \cup {None}]
        /\ writer \in [Sessions -> Conns \cup {None}]
        /\ victim \in [Task -> Conns \cup {None}]
        /\ sock \in [Conns -> {"init", "open", "stuck", "gone", "closed"}]
        /\ child \in [Sessions -> {"unborn", "running", "exited", "reaped"}]
        /\ alive \in [Sessions -> BOOLEAN]
    BY DEF IInv, TypeOK
  <2>2. /\ Conn(c) # Main /\ Grace(c) # Conn(c)
        /\ \A d \in Conns : Conn(d) # Grace(c) /\ (d # c => Conn(d) # Conn(c))
    BY TaskNames
  <2> QED
    BY <2>1, <2>2, TaskNames, NoneAssumption
<1>a. Live => reg \in Sessions /\ alive[reg] /\ child[reg] # "unborn"
  BY DEF Live, IInv, TypeOK, LivesRegistered
<1>b. ASSUME NEW q, q = GraceCancelled(reg), reg \in Sessions
      PROVE  /\ q \in [Task -> PC]
             /\ \A u \in Task :
                  \/ q[u] = pc[u]
                  \/ pc[u] = "sleep" /\ q[u] = "done" /\ u[1] \in {"grace", "idle"}
  BY <1>b, CancelEffect
<1>c. pc[Conn(c)] \notin {"evict", "oust", "close"} => victim[Conn(c)] = None
  BY <1>0 DEF Watched
<1>1. ASSUME NEW s \in Sessions, NEW at, Attached(c, s, at), ws[s] = None,
             at \in [Task -> PC],
             \A u \in Task :
                \/ at[u] = pc[u]
                \/ pc[u] = "sleep" /\ at[u] = "done" /\ u[1] \in {"grace", "idle"},
             on' = [on EXCEPT ![Conn(c)] = s], child' = child, child[s] # "unborn",
             \A d \in Conns : sock'[d] = "open" => sock[d] = "open",
             \A t \in Task :
                victim[t] # None => victim'[t] = victim[t] \/ sock'[victim[t]] # "open",
             \A t \in Task : victim'[t] # None => t # Conn(c) /\ victim'[t] = victim[t],
             Holds(Conn(c)), pc[Conn(c)] \notin {"init", "done"}
      PROVE  Watched'
  <2>1. PICK p \in {"replay", "open"} : pc' = [at EXCEPT ![Conn(c)] = p]
    BY <1>1 DEF Attached
  <2>2. OthersStay({Conn(c)}) /\ pc'[Conn(c)] = p
    <3>1. p \in PC
      BY DEF PC
    <3>2. Conn(c) \in Task
      BY <1>0
    <3>3. /\ at \in [Task -> PC] /\ pc' = [at EXCEPT ![Conn(c)] = p]
          /\ \A u \in Task :
                  \/ at[u] = pc[u]
                  \/ pc[u] = "sleep" /\ at[u] = "done" /\ u[1] \in {"grace", "idle"}
      BY <1>1, <2>1
    <3> QED
      BY <3>1, <3>2, <3>3, MoveEffect
  <2>3. /\ ws'[s] = c /\ writer'[s] = c
        /\ \A r \in Sessions \ {s} : ws'[r] = ws[r] /\ writer'[r] = writer[r]
    BY <1>0, <1>1 DEF Attached
  <2>4. on'[Conn(c)] = s /\ \A u \in Task \ {Conn(c)} : on'[u] = on[u]
    BY <1>0, <1>1
  <2>5. \A d \in Conns \ {c} : /\ pc'[Conn(d)] = pc[Conn(d)] \/ pc'[Conn(d)] = "done"
                               /\ pc[Conn(d)] # "init" => pc'[Conn(d)] # "init"
    BY <1>0, <2>2 DEF OthersStay
  <2>6. ASSUME NEW d \in Conns, pc'[Conn(d)] \in {"replay", "open"}, sock'[d] = "open"
        PROVE  ws'[on'[Conn(d)]] = d \/ \E t \in Task : victim'[t] = d
    <3>1. CASE d = c
      BY <2>3, <2>4, <3>1
    <3>2. CASE d # c
      <4>1. /\ pc[Conn(d)] \in {"replay", "open"} /\ sock[d] = "open"
            /\ on'[Conn(d)] = on[Conn(d)] /\ on[Conn(d)] \in Sessions
        <5>1. pc[Conn(d)] \in {"replay", "open"} /\ sock[d] = "open"
          BY <1>1, <2>5, <2>6, <3>2
        <5>2. Conn(d) \in Task \ {Conn(c)} /\ Conn(d)[1] = "conn"
          BY <1>0, <3>2
        <5>3. on'[Conn(d)] = on[Conn(d)]
          BY <2>4, <5>2
        <5>4. on[Conn(d)] \in Sessions
          BY <5>1, <5>2 DEF IInv, HasTarget
        <5> QED
          BY <5>1, <5>3, <5>4
      <4>2. ws[on[Conn(d)]] = d \/ \E t \in Task : victim[t] = d
        BY <4>1 DEF Watched
      <4>3. \A t \in Task : victim[t] = d => victim'[t] = d
        BY <1>0, <1>1, <2>6
      <4> QED
        BY <1>0, <1>1, <2>3, <4>1, <4>2, <4>3
    <3> QED
      BY <3>1, <3>2
  <2>7. ASSUME NEW r \in Sessions, ws'[r] # None
        PROVE  pc'[Conn(ws'[r])] # "init" /\ (sock'[ws'[r]] = "open" => writer'[r] = ws'[r])
    <3>1. CASE r = s
      BY <2>2, <2>3, <3>1
    <3>2. CASE r # s
      <4>1. ws'[r] = ws[r] /\ writer'[r] = writer[r] /\ ws[r] \in Conns
        BY <1>0, <2>3, <2>7, <3>2
      <4>2. pc[Conn(ws[r])] # "init" /\ (sock[ws[r]] = "open" => writer[r] = ws[r])
        BY <2>7, <4>1 DEF Watched
      <4>3. pc'[Conn(ws[r])] # "init"
        BY <2>2, <2>5, <4>1, <4>2
      <4> QED
        BY <1>1, <4>1, <4>2, <4>3
    <3> QED
      BY <3>1, <3>2
  <2>8. ASSUME NEW d \in Conns
        PROVE  /\ pc'[Conn(d)] = "detach" => sock'[d] # "open"
               /\ pc'[Conn(d)] = "evict" => ws'[on'[Conn(d)]] = None
               /\ pc'[Conn(d)] \in {"evict", "replay", "open", "detach"}
                     => child'[on'[Conn(d)]] # "unborn"
    <3>1. CASE d = c
      BY <1>1, <2>2, <2>4, <3>1
    <3>2. CASE d # c
      <4>1. pc[Conn(d)] # "evict"
        BY <1>0, <1>1, <3>2, LoneRoute DEF Critical
      <4>2. on'[Conn(d)] = on[Conn(d)]
        BY <1>0, <2>4, <3>2
      <4> QED
        BY <1>1, <2>5, <3>2, <4>1, <4>2 DEF Watched
    <3> QED
      BY <3>1, <3>2
  <2>9. \A r \in Sessions : child'[r] = "unborn" => ws'[r] = None
    BY <1>1, <2>3 DEF Watched
  <2>10. \A t \in Task : victim'[t] # None => pc'[t] \in {"evict", "oust", "close"}
    BY <1>1, <2>2 DEF Watched, OthersStay
  <2> QED
    BY <2>6, <2>7, <2>8, <2>9, <2>10 DEF Watched
<1>2. CASE Reattach(c) /\ ws[reg] = None
  <2> DEFINE q == GraceCancelled(reg)
  <2>1. /\ reg \in Sessions /\ child[reg] # "unborn" /\ Attached(c, reg, q) /\ ws[reg] = None
        /\ on' = [on EXCEPT ![Conn(c)] = reg] /\ UNCHANGED <<child, sock, victim>>
        /\ pc[Conn(c)] = "lock" /\ Holds(Conn(c))
    BY <1>2, <1>a DEF Reattach
  <2>2. /\ q \in [Task -> PC]
        /\ \A u \in Task :
             \/ q[u] = pc[u]
             \/ pc[u] = "sleep" /\ q[u] = "done" /\ u[1] \in {"grace", "idle"}
    BY <1>b, <2>1
  <2>3. victim[Conn(c)] = None
    BY <1>c, <2>1
  <2> HIDE DEF q
  <2> QED
    BY <1>1, <2>1, <2>2, <2>3
<1>3. ASSUME reg \in Sessions, ws[reg] # None, NEW p \in {"evict", "oust"},
             pc' = [GraceCancelled(reg) EXCEPT ![Conn(c)] = p],
             ws' = [ws EXCEPT ![reg] = None], victim' = [victim EXCEPT ![Conn(c)] = ws[reg]],
             on' = [on EXCEPT ![Conn(c)] = reg], pc[Conn(c)] = "lock", Holds(Conn(c)),
             child[reg] # "unborn", UNCHANGED <<writer, sock, child>>
      PROVE  Watched'
  <2>1. OthersStay({Conn(c)}) /\ pc'[Conn(c)] = p
    <3>1. p \in PC
      BY DEF PC
    <3> DEFINE q == GraceCancelled(reg)
    <3>2. /\ q \in [Task -> PC] /\ pc' = [q EXCEPT ![Conn(c)] = p]
          /\ \A u \in Task :
                  \/ q[u] = pc[u]
                  \/ pc[u] = "sleep" /\ q[u] = "done" /\ u[1] \in {"grace", "idle"}
      BY <1>3, <1>b
    <3>3. Conn(c) \in Task
      BY <1>0
    <3> HIDE DEF q
    <3> QED
      BY <3>1, <3>2, <3>3, MoveEffect
  <2>2. /\ ws'[reg] = None /\ \A r \in Sessions \ {reg} : ws'[r] = ws[r]
        /\ victim'[Conn(c)] = ws[reg] /\ \A u \in Task \ {Conn(c)} : victim'[u] = victim[u]
        /\ on'[Conn(c)] = reg /\ \A u \in Task \ {Conn(c)} : on'[u] = on[u]
        /\ victim[Conn(c)] = None
    BY <1>0, <1>3, <1>c
  <2>3. \A d \in Conns \ {c} : /\ pc'[Conn(d)] = pc[Conn(d)] \/ pc'[Conn(d)] = "done"
                               /\ pc[Conn(d)] # "init" => pc'[Conn(d)] # "init"
    BY <1>0, <2>1 DEF OthersStay
  <2>4. ASSUME NEW d \in Conns, pc'[Conn(d)] \in {"replay", "open"}, sock'[d] = "open"
        PROVE  ws'[on'[Conn(d)]] = d \/ \E t \in Task : victim'[t] = d
    <3>1. d # c
      BY <2>1, <2>4
    <3>2. /\ pc[Conn(d)] \in {"replay", "open"} /\ sock[d] = "open"
          /\ on'[Conn(d)] = on[Conn(d)] /\ on[Conn(d)] \in Sessions
      BY <1>0, <1>3, <2>2, <2>3, <2>4, <3>1, TaskNames DEF IInv, HasTarget
    <3>3. CASE ws[on[Conn(d)]] = d
      BY <1>0, <2>2, <3>2, <3>3
    <3>4. CASE \E t \in Task : victim[t] = d
      BY <1>0, <2>2, <3>4
    <3> QED
      BY <3>2, <3>3, <3>4 DEF Watched
  <2>5. ASSUME NEW r \in Sessions, ws'[r] # None
        PROVE  pc'[Conn(ws'[r])] # "init" /\ (sock'[ws'[r]] = "open" => writer'[r] = ws'[r])
    <3>1. ws'[r] = ws[r] /\ ws[r] \in Conns
      BY <1>0, <2>2, <2>5
    <3> QED
      BY <1>3, <2>1, <2>3, <2>5, <3>1 DEF Watched
  <2>6. ASSUME NEW d \in Conns
        PROVE  /\ pc'[Conn(d)] = "detach" => sock'[d] # "open"
               /\ pc'[Conn(d)] = "evict" => ws'[on'[Conn(d)]] = None
               /\ pc'[Conn(d)] \in {"evict", "replay", "open", "detach"}
                     => child'[on'[Conn(d)]] # "unborn"
    <3>1. CASE d = c
      BY <1>3, <2>1, <2>2, <3>1
    <3>2. CASE d # c
      <4>1. pc[Conn(d)] # "evict"
        BY <1>0, <1>3, <3>2, LoneRoute DEF Critical
      <4>2. on'[Conn(d)] = on[Conn(d)]
        BY <1>0, <2>2, <3>2
      <4> QED
        BY <1>3, <2>3, <3>2, <4>1, <4>2 DEF Watched
    <3> QED
      BY <3>1, <3>2
  <2>7. \A r \in Sessions : child'[r] = "unborn" => ws'[r] = None
    BY <1>3, <2>2 DEF Watched
  <2>8. \A t \in Task : victim'[t] # None => pc'[t] \in {"evict", "oust", "close"}
    BY <2>1, <2>2 DEF Watched, OthersStay
  <2> QED
    BY <2>4, <2>5, <2>6, <2>7, <2>8 DEF Watched
<1>4. CASE Reattach(c) /\ ws[reg] # None
  BY <1>3, <1>4, <1>a DEF Reattach
<1>5. CASE EvictDone(c)
  <2>1. /\ pc[Conn(c)] = "evict" /\ Holds(Conn(c)) /\ on[Conn(c)] \in Sessions
        /\ ws[on[Conn(c)]] = None /\ child[on[Conn(c)]] # "unborn"
    BY <1>0, <1>5 DEF EvictDone, IInv, LockHeld, Critical, HasTarget, Watched
  <2>2. /\ Attached(c, on[Conn(c)], pc) /\ UNCHANGED <<on, child>>
        /\ on' = [on EXCEPT ![Conn(c)] = on[Conn(c)]]
    BY <1>0, <1>5 DEF EvictDone
  <2>3. /\ \A d \in Conns : sock'[d] = "open" => sock[d] = "open"
        /\ \A t \in Task :
             /\ victim[t] # None => victim'[t] = victim[t] \/ sock'[victim[t]] # "open"
             /\ victim'[t] # None => t # Conn(c) /\ victim'[t] = victim[t]
    BY <1>0, <1>5 DEF EvictDone
  <2> QED
    BY <1>0, <1>1, <2>1, <2>2, <2>3
<1>6. CASE ReplayDone(c)
  <2>1. OthersStay({Conn(c)}) /\ pc'[Conn(c)] = "open"
    BY <1>0, <1>6, MoveEffect DEF ReplayDone, PC
  <2> QED
    BY <1>0, <1>6, <2>1, WatchMoveKept DEF ReplayDone
<1>7. CASE StartFresh(c)
  BY <1>0, <1>7, <1>c, LaunchWatched DEF StartFresh
<1>8. CASE AskHistory(c)
  <2>1. OthersStay({Conn(c)}) /\ pc'[Conn(c)] = "history"
    BY <1>0, <1>8, MoveEffect DEF AskHistory, PC
  <2> QED
    BY <1>0, <1>8, <2>1, WatchMoveKept DEF AskHistory
<1>9. CASE HistoryDone(c)
  <2>1. pc[Conn(c)] = "history" /\ Holds(Conn(c))
    BY <1>0, <1>9 DEF HistoryDone, IInv, LockHeld, Critical
  <2> QED
    BY <1>0, <1>9, <1>c, <2>1, LaunchWatched DEF HistoryDone
<1>10. CASE HistoryError(c)
  <2>1. OthersStay({Conn(c)}) /\ pc'[Conn(c)] = "done"
    BY <1>0, <1>10, MoveEffect DEF HistoryError, PC
  <2>2. \A d \in Conns : sock'[d] = "open" => sock[d] = "open"
    BY <1>0, <1>10 DEF HistoryError
  <2> QED
    BY <1>0, <1>10, <2>1, <2>2, WatchMoveKept DEF HistoryError
<1>11. CASE Replace(c) /\ ws[reg] # None
  BY <1>3, <1>11, <1>a DEF Replace
<1>12. CASE Replace(c) /\ ws[reg] = None
  <2>1. /\ reg \in Sessions /\ pc[Conn(c)] = "lock" /\ Terminate(Conn(c), reg, GraceCancelled(reg))
        /\ UNCHANGED <<victim, writer, sock>> /\ ws' = ws
    BY <1>0, <1>12, <1>a DEF Replace
  <2>2. /\ OthersStay({Conn(c)}) /\ pc'[Conn(c)] = "term" /\ UNCHANGED child
        /\ \A u \in Task \ {Conn(c)} : on'[u] = on[u]
    BY <1>0, <1>b, <2>1, TerminateEffect DEF OthersStay
  <2> QED
    BY <1>0, <2>1, <2>2, WatchMoveKept
<1>13. CASE OustDone(c)
  <2> DEFINE sockNow == [sock EXCEPT ![victim[Conn(c)]] = IF @ = "open" THEN "closed" ELSE @]
  <2>1. /\ pc[Conn(c)] = "oust" /\ Holds(Conn(c)) /\ on[Conn(c)] \in Sessions
        /\ victim' = [victim EXCEPT ![Conn(c)] = None]
    BY <1>0, <1>13 DEF OustDone, IInv, LockHeld, Critical, HasTarget
  <2>2. /\ sockNow \in [Conns -> {"init", "open", "stuck", "gone", "closed"}]
        /\ \A d \in Conns : sockNow[d] = "open" => sock[d] = "open"
        /\ \A t \in Task :
             /\ victim[t] # None => victim'[t] = victim[t] \/ sockNow[victim[t]] # "open"
             /\ victim'[t] # None => t # Conn(c) /\ victim'[t] = victim[t]
    BY <1>0, <2>1
  <2>3. \/ Launch(c, alive, child, sockNow)
        \/ /\ Terminate(Conn(c), on[Conn(c)], pc) /\ sock' = sockNow
           /\ UNCHANGED <<ws, writer>>
    BY <1>13 DEF OustDone
  <2> HIDE DEF sockNow
  <2>4. CASE Launch(c, alive, child, sockNow)
    BY <1>0, <2>1, <2>2, <2>4, LaunchWatched
  <2>5. CASE /\ Terminate(Conn(c), on[Conn(c)], pc) /\ sock' = sockNow
             /\ UNCHANGED <<ws, writer>>
    <3>1. /\ OthersStay({Conn(c)}) /\ pc'[Conn(c)] = "term" /\ UNCHANGED child
          /\ \A u \in Task \ {Conn(c)} : on'[u] = on[u]
      BY <1>0, <2>1, <2>5, TerminateEffect DEF OthersStay
    <3>2. \A d \in Conns :
            /\ pc'[Conn(d)] \in {pc[Conn(d)], "done", "term"}
            /\ d # c => on'[Conn(d)] = on[Conn(d)]
      BY <1>0, <3>1 DEF OthersStay
    <3>3. \A u \in Task : victim'[u] # None => pc'[u] \in {"evict", "oust", "close"}
      BY <2>2, <3>1 DEF Watched, OthersStay
    <3> QED
      BY <2>2, <2>5, <3>1, <3>2, <3>3, WatchKept
  <2> QED
    BY <2>3, <2>4, <2>5
<1>14. CASE Detach(c) \/ DetachDone(c)
  <2>1. /\ pc[Conn(c)] \in {"open", "detach"} /\ on[Conn(c)] \in Sessions /\ sock[c] # "open"
        /\ UNCHANGED <<victim, sock, child>>
    BY <1>0, <1>14 DEF Detach, DetachDone, IInv, HasTarget, Watched
  <2>2. /\ pc'[Conn(c)] \in {"done", "detach"}
        /\ pc'[Conn(c)] = "done" \/ on' = on
        /\ \A u \in Task \ {Conn(c), Grace(c)} : pc'[u] = pc[u] /\ on'[u] = on[u]
        /\ pc'[Grace(c)] \in {pc[Grace(c)], "sleep"}
    BY <1>0, <1>14 DEF Detach, DetachDone, GraceStarted
  <2>3. \A s \in Sessions :
          /\ ws'[s] = ws[s] \/ (ws'[s] = None /\ ws[s] = c)
          /\ writer'[s] = writer[s] \/ writer[s] = c
    BY <1>0, <1>14, <2>1 DEF Detach, DetachDone
  <2>4. \A u \in Task : victim'[u] # None => pc'[u] \in {"evict", "oust", "close"}
    <3>1. pc[Grace(c)] = "init"
      BY <2>1 DEF IInv, OwnSteps
    <3>2. victim[Conn(c)] = None /\ victim[Grace(c)] = None
      BY <1>0, <2>1, <3>1 DEF Watched
    <3> QED
      BY <2>1, <2>2, <3>2 DEF Watched
  <2>5. \A d \in Conns :
          \/ pc'[Conn(d)] = pc[Conn(d)] /\ on'[Conn(d)] = on[Conn(d)]
          \/ d = c /\ (pc'[Conn(d)] = "done" \/ (pc'[Conn(d)] = "detach" /\ on' = on))
    BY <1>0, <2>2
  <2> QED
    BY <1>0, <2>1, <2>3, <2>4, <2>5, WatchKept
<1> QED
  BY <1>2, <1>4, <1>5, <1>6, <1>7, <1>8, <1>9, <1>10, <1>11, <1>12, <1>13, <1>14 DEF ConnStep

\* Who gives up the attached socket and, if it has a writer, closes it.
LEMMA NotifyWatched ==
    ASSUME IInv, Watched, NEW t \in Task, NEW s \in Sessions, NEW at \in [Task -> PC],
           NotifyAndTerminate(t, s, at),
           \A u \in Task :
              \/ at[u] = pc[u]
              \/ pc[u] = "sleep" /\ at[u] = "done" /\ u[1] \in {"grace", "idle"},
           pc[t] = "lock", t[1] \in {"end", "idle"}, UNCHANGED <<writer, sock>>
    PROVE  Watched'
<1>0. /\ ws \in [Sessions -> Conns \cup {None}] /\ victim \in [Task -> Conns \cup {None}]
      /\ on \in [Task -> Sessions \cup {None}] /\ victim[t] = None
      /\ \A d \in Conns : Conn(d) \in Task /\ Conn(d)[1] = "conn"
  BY TaskNames DEF IInv, TypeOK, Watched
<1>1. ws' = [ws EXCEPT ![s] = None] /\ child' = child
  BY DEF NotifyAndTerminate, Terminate
<1>2. CASE Terminate(t, s, at) /\ UNCHANGED victim /\ ~(ws[s] # None /\ writer[s] = ws[s])
  <2>1. /\ OthersStay({t}) /\ pc'[t] = "term" /\ \A u \in Task \ {t} : on'[u] = on[u]
    BY <1>2, TerminateEffect DEF OthersStay
  <2>2. \A d \in Conns : pc'[Conn(d)] = pc[Conn(d)] /\ on'[Conn(d)] = on[Conn(d)]
    BY <1>0, <2>1 DEF OthersStay
  <2>3. \A r \in Sessions :
          ws'[r] = ws[r] \/ (ws'[r] = None /\ ws[r] # None /\ sock'[ws[r]] # "open")
    BY <1>0, <1>1, <1>2 DEF Watched
  <2>4. \A u \in Task : victim'[u] # None => pc'[u] \in {"evict", "oust", "close"}
    BY <1>0, <1>2, <2>1 DEF Watched, OthersStay
  <2> QED
    BY <1>1, <1>2, <2>2, <2>3, <2>4, WatchKept
<1>3. CASE /\ victim' = [victim EXCEPT ![t] = ws[s]]
           /\ pc' = [at EXCEPT ![t] = "close"]
           /\ on' = [on EXCEPT ![t] = s]
           /\ ws[s] # None
  <2>1. OthersStay({t}) /\ pc'[t] = "close"
    <3>1. "close" \in PC
      BY DEF PC
    <3> QED
      BY <3>1, <1>3, MoveEffect
  <2>2. \A d \in Conns : pc'[Conn(d)] = pc[Conn(d)] /\ on'[Conn(d)] = on[Conn(d)]
    BY <1>0, <1>3, <2>1 DEF OthersStay
  <2>3. victim'[t] = ws[s] /\ \A u \in Task \ {t} : victim'[u] = victim[u]
    BY <1>0, <1>3
  <2>4. \A r \in Sessions :
          ws'[r] = ws[r] \/ (ws'[r] = None /\ ws[r] # None /\ victim'[t] = ws[r])
    BY <1>0, <1>1, <1>3, <2>3
  <2>5. \A u \in Task :
          /\ victim'[u] # None => pc'[u] \in {"evict", "oust", "close"}
          /\ victim[u] # None => victim'[u] = victim[u]
    BY <1>0, <2>1, <2>3 DEF Watched, OthersStay
  <2> QED
    BY <1>1, <2>2, <2>4, <2>5, WatchKept
<1> QED
  BY <1>2, <1>3 DEF NotifyAndTerminate

\* The end requests, the timers and the exit tasks.
LEMMA OthersWatched ==
    ASSUME IInv, KInv, Watched,
           \/ \E e \in Enders : EndStep(e)
           \/ \E c \in Conns : GraceFires(c) \/ GraceExpires(c)
           \/ \E s \in Sessions : SessionStep(s)
    PROVE  Watched'
<1>0. /\ pc \in [Task -> PC] /\ ws \in [Sessions -> Conns \cup {None}]
      /\ writer \in [Sessions -> Conns \cup {None}] /\ None \notin Conns
      /\ victim \in [Task -> Conns \cup {None}]
      /\ sock \in [Conns -> {"init", "open", "stuck", "gone", "closed"}]
      /\ child \in [Sessions -> {"unborn", "running", "exited", "reaped"}]
      /\ {"done", "lock", "ready", "close"} \subseteq PC
  BY NoneAssumption DEF IInv, TypeOK, PC
<1>1. ASSUME NEW t \in Task, t[1] # "conn", NEW p \in {"done", "lock", "ready"},
             pc' = [pc EXCEPT ![t] = p], pc[t] \notin {"evict", "oust", "close"},
             UNCHANGED <<on, ws, writer, victim, sock, child>>
      PROVE  Watched'
  <2>1. OthersStay({t}) /\ pc'[t] = p
    BY <1>0, <1>1, MoveEffect
  <2> QED
    BY <1>1, <2>1, WatchMoveKept
<1>2. ASSUME NEW e \in Enders, EndLive(e)
      PROVE  Watched'
  <2>1. reg \in Sessions /\ End(e) \in Task /\ End(e)[1] = "end"
    BY <1>2, TaskNames DEF EndLive, Live, IInv, TypeOK
  <2>2. GraceCancelled(reg) \in [Task -> PC] /\ \A u \in Task :
          \/ GraceCancelled(reg)[u] = pc[u]
          \/ pc[u] = "sleep" /\ GraceCancelled(reg)[u] = "done" /\ u[1] = "grace"
    BY <2>1, CancelEffect
  <2> QED
    BY <1>2, <2>1, <2>2, NotifyWatched DEF EndLive
<1>3. ASSUME NEW e \in Enders, EndNothing(e)
      PROVE  Watched'
  BY <1>1, <1>3, TaskNames DEF EndNothing, Leaves
<1>4. ASSUME NEW c \in Conns, GraceFires(c)
      PROVE  Watched'
  BY <1>1, <1>4, TaskNames DEF GraceFires
<1>5. ASSUME NEW c \in Conns, GraceExpires(c)
      PROVE  Watched'
  <2>1. Grace(c) \in Task /\ Grace(c)[1] = "grace" /\ on[Grace(c)] \in Sessions
    BY <1>5, TaskNames DEF GraceExpires, IInv, HasTarget
  <2>2. CASE Terminate(Grace(c), on[Grace(c)], pc)
    <3>1. /\ OthersStay({Grace(c)}) /\ pc'[Grace(c)] = "term" /\ UNCHANGED child
          /\ \A u \in Task \ {Grace(c)} : on'[u] = on[u]
      BY <1>0, <2>1, <2>2, TerminateEffect DEF OthersStay
    <3> QED
      BY <1>5, <2>1, <3>1, WatchMoveKept DEF GraceExpires
  <2>3. CASE Leaves(Grace(c)) /\ UNCHANGED <<on, child>>
    BY <1>1, <1>5, <2>1, <2>3 DEF GraceExpires, Leaves
  <2> QED
    BY <1>5, <2>2, <2>3 DEF GraceExpires
<1>6. ASSUME NEW s \in Sessions, IdleExpires(s)
      PROVE  Watched'
  <2>1. Idle(s) \in Task /\ Idle(s)[1] = "idle"
    BY TaskNames
  <2>2. CASE NotifyAndTerminate(Idle(s), s, pc)
    BY <1>0, <1>6, <2>1, <2>2, NotifyWatched DEF IdleExpires
  <2>3. CASE Leaves(Idle(s)) /\ UNCHANGED <<on, ws, victim, child>>
    BY <1>1, <1>6, <2>1, <2>3 DEF IdleExpires, Leaves
  <2> QED
    BY <1>6, <2>2, <2>3 DEF IdleExpires
<1>7. ASSUME NEW s \in Sessions, IdleFires(s) \/ Eof(s)
      PROVE  Watched'
  BY <1>1, <1>7, TaskNames DEF IdleFires, Eof
<1>8. ASSUME NEW s \in Sessions, HandleExit(s)
      PROVE  Watched'
  <2> DEFINE waits == ws[s] # None /\ writer[s] = ws[s]
  <2>1. /\ Exit(s) \in Task /\ Exit(s)[1] = "exit" /\ pc[Exit(s)] = "ready"
        /\ UNCHANGED <<on, writer, sock>>
        /\ victim[Exit(s)] = None
    BY <1>8, TaskNames DEF HandleExit, Watched
  <2>2. CASE ~alive[s]
    BY <1>1, <1>8, <2>1, <2>2 DEF HandleExit
  <2>3. CASE alive[s]
    <3>1. /\ child' = [child EXCEPT ![s] = "reaped"] /\ ws' = [ws EXCEPT ![s] = None]
          /\ victim' = [victim EXCEPT ![Exit(s)] = IF waits THEN ws[s] ELSE None]
          /\ pc' = IdleCancelled([pc EXCEPT ![Exit(s)] = IF waits THEN "close" ELSE "done"], s)
      BY <1>8, <2>3 DEF HandleExit
    <3>2. OthersStay({Exit(s)}) /\ pc'[Exit(s)] = (IF waits THEN "close" ELSE "done")
      <4> DEFINE q == [pc EXCEPT ![Exit(s)] = IF waits THEN "close" ELSE "done"]
      <4>1. /\ q \in [Task -> PC] /\ q[Exit(s)] = (IF waits THEN "close" ELSE "done")
            /\ \A u \in Task \ {Exit(s)} : q[u] = pc[u]
        BY <1>0, <2>1
      <4>2. pc' = IdleCancelled(q, s)
        BY <3>1
      <4> HIDE DEF q, waits
      <4> QED
        BY <2>1, <4>1, <4>2, IdleEffect DEF OthersStay
    <3>3. \A d \in Conns : pc'[Conn(d)] = pc[Conn(d)]
      BY <2>1, <3>2, TaskNames DEF OthersStay
    <3>4. /\ victim'[Exit(s)] = (IF waits THEN ws[s] ELSE None)
          /\ \A u \in Task \ {Exit(s)} : victim'[u] = victim[u]
      BY <1>0, <2>1, <3>1
    <3>5. ASSUME NEW r \in Sessions
          PROVE  \/ ws'[r] = ws[r]
                 \/ /\ ws'[r] = None /\ ws[r] # None
                    /\ sock'[ws[r]] = "open" => victim'[Exit(s)] = ws[r]
      BY <1>0, <2>1, <3>1, <3>4 DEF Watched
    <3>6. \A u \in Task :
            /\ victim'[u] # None => pc'[u] \in {"evict", "oust", "close"}
            /\ victim[u] # None => victim'[u] = victim[u]
      BY <2>1, <3>2, <3>4 DEF Watched, OthersStay
    <3>7. \A r \in Sessions : child'[r] = "unborn" => child[r] = "unborn"
      BY <1>0, <3>1
    <3> HIDE DEF waits
    <3> QED
      BY <2>1, <3>3, <3>5, <3>6, <3>7, WatchKept
  <2> QED
    BY <2>2, <2>3
<1>9. ASSUME NEW s \in Sessions, ExitClosed(s)
      PROVE  Watched'
  <2>1. /\ Exit(s) \in Task /\ Exit(s)[1] = "exit" /\ pc[Exit(s)] = "close"
        /\ UNCHANGED <<on, ws, child>> /\ pc' = [pc EXCEPT ![Exit(s)] = "done"]
        /\ victim' = [victim EXCEPT ![Exit(s)] = None]
        /\ writer' = [writer EXCEPT ![s] = IF @ = victim[Exit(s)] THEN None ELSE @]
        /\ \E end \in {"closed", "stuck"} :
              sock' = [sock EXCEPT ![victim[Exit(s)]] = IF @ = "open" THEN end ELSE @]
    BY <1>9, TaskNames DEF ExitClosed, Closed
  <2>2. /\ \A d \in Conns : sock'[d] = "open" => sock[d] = "open"
        /\ victim[Exit(s)] # None => sock'[victim[Exit(s)]] # "open"
        /\ \A d \in Conns : pc'[Conn(d)] = pc[Conn(d)]
    BY <1>0, <2>1, TaskNames
  <2>3. \A r \in Sessions : \/ writer'[r] = writer[r]
                            \/ writer[r] # None /\ sock'[writer[r]] # "open"
    BY <1>0, <2>1, <2>2
  <2>4. \A u \in Task :
          /\ victim'[u] # None => pc'[u] \in {"evict", "oust", "close"}
          /\ victim[u] # None => victim'[u] = victim[u] \/ sock'[victim[u]] # "open"
    BY <1>0, <2>1, <2>2 DEF Watched
  <2> QED
    BY <2>1, <2>2, <2>3, <2>4, WatchKept
<1> QED
  BY <1>2, <1>3, <1>4, <1>5, <1>6, <1>7, <1>8, <1>9 DEF EndStep, SessionStep

\* The ends of terminate() and of the close before it.
LEMMA TermWatched ==
    ASSUME IInv, KInv, Watched, NEW t \in Task, TermDone(t) \/ CloseDone(t)
    PROVE  Watched'
<1>0. /\ pc \in [Task -> PC] /\ "done" \in PC
      /\ writer \in [Sessions -> Conns \cup {None}] /\ None \notin Conns
      /\ victim \in [Task -> Conns \cup {None}] /\ on \in [Task -> Sessions \cup {None}]
      /\ sock \in [Conns -> {"init", "open", "stuck", "gone", "closed"}]
      /\ child \in [Sessions -> {"unborn", "running", "exited", "reaped"}]
      /\ alive \in [Sessions -> BOOLEAN]
  BY NoneAssumption DEF IInv, TypeOK, PC
<1>1. /\ t # Main /\ t[1] # "exit" /\ Holds(t) /\ on[t] \in Sessions
      /\ pc[t] \in {"term", "close"}
  BY ExitTask, TaskNames DEF TermDone, CloseDone, IInv, OwnSteps, LockHeld, Critical, HasTarget
<1>2. CASE TermDone(t) /\ t[1] # "conn"
  <2>1. pc[t] = "term" /\ pc' = [pc EXCEPT ![t] = "done"] /\ UNCHANGED <<on, ws, writer, victim, sock>>
    BY <1>2 DEF TermDone, Leaves
  <2>2. OthersStay({t}) /\ pc'[t] = "done"
    BY <1>0, <2>1, MoveEffect
  <2>3. \A s \in Sessions : child'[s] = "unborn" => child[s] = "unborn"
    BY <1>0, <1>2 DEF TermDone
  <2> QED
    BY <1>2, <2>1, <2>2, <2>3, WatchMoveKept
<1>3. CASE TermDone(t) /\ t[1] = "conn"
  <2> DEFINE a == [alive EXCEPT ![on[t]] = FALSE]
             b == [child EXCEPT ![on[t]] = "reaped"]
  <2>1. t[2] \in Conns /\ t = Conn(t[2]) /\ pc[t] = "term" /\ victim' = victim
    BY <1>3, ConnTask DEF TermDone
  <2>2. Launch(t[2], a, b, sock)
    BY <1>3 DEF TermDone
  <2>3. /\ b \in [Sessions -> {"unborn", "running", "exited", "reaped"}]
        /\ \A s \in Sessions : b[s] = "unborn" => child[s] = "unborn"
    BY <1>0
  <2>4. victim[t] = None
    BY <2>1 DEF Watched
  <2> HIDE DEF a, b
  <2> QED
    BY <1>0, <1>1, <2>1, <2>2, <2>3, <2>4, LaunchWatched
<1>4. CASE CloseDone(t)
  <2>1. /\ victim' = [victim EXCEPT ![t] = None] /\ UNCHANGED <<ws, child>>
        /\ writer' = [writer EXCEPT ![on[t]] = IF @ = victim[t] THEN None ELSE @]
        /\ \E end \in {"closed", "stuck"} :
              sock' = [sock EXCEPT ![victim[t]] = IF @ = "open" THEN end ELSE @]
        /\ \/ Terminate(t, on[t], pc)
           \/ pc' = [pc EXCEPT ![t] = "done"] /\ UNCHANGED on
    BY <1>4 DEF CloseDone, Closed, Terminate, Leaves
  <2>2. /\ \A d \in Conns : sock'[d] = "open" => sock[d] = "open"
        /\ victim[t] # None => sock'[victim[t]] # "open"
    BY <1>0, <2>1
  <2>3. /\ OthersStay({t}) /\ pc'[t] \in {"term", "done"}
        /\ \A u \in Task \ {t} : on'[u] = on[u]
    <3>1. CASE Terminate(t, on[t], pc)
      BY <1>0, <1>1, <3>1, TerminateEffect DEF OthersStay
    <3>2. CASE pc' = [pc EXCEPT ![t] = "done"] /\ UNCHANGED on
      BY <1>0, <3>2, MoveEffect
    <3> QED
      BY <2>1, <3>1, <3>2
  <2>4. \A r \in Sessions : \/ writer'[r] = writer[r]
                            \/ writer[r] # None /\ sock'[writer[r]] # "open"
    BY <1>0, <1>1, <2>1, <2>2
  <2>5. \A u \in Task :
          /\ victim'[u] # None => pc'[u] \in {"evict", "oust", "close"}
          /\ victim[u] # None => victim'[u] = victim[u] \/ sock'[victim[u]] # "open"
    BY <1>0, <2>1, <2>2, <2>3 DEF Watched, OthersStay
  <2>6. \A d \in Conns :
          \/ pc'[Conn(d)] \in {"term", "done"}
          \/ pc'[Conn(d)] = pc[Conn(d)] /\ on'[Conn(d)] = on[Conn(d)]
    BY <2>3, TaskNames DEF OthersStay
  <2> QED
    BY <2>1, <2>2, <2>4, <2>5, <2>6, WatchKept
<1> QED
  BY <1>2, <1>3, <1>4

\* Requests, sockets, processes and the shutdown.
LEMMA EnvironmentWatched ==
    ASSUME IInv, KInv, Watched, Environment \/ ShutdownDone
    PROVE  Watched'
<1>0. /\ pc \in [Task -> PC] /\ ws \in [Sessions -> Conns \cup {None}]
      /\ writer \in [Sessions -> Conns \cup {None}] /\ None \notin Conns
      /\ sock \in [Conns -> {"init", "open", "stuck", "gone", "closed"}]
      /\ child \in [Sessions -> {"unborn", "running", "exited", "reaped"}]
      /\ {"lock", "done"} \subseteq PC
  BY NoneAssumption DEF IInv, TypeOK, PC
<1>1. ASSUME NEW c \in Conns, Connect(c)
      PROVE  Watched'
  <2>1. OthersStay({Conn(c)}) /\ pc'[Conn(c)] = "lock" /\ pc[Conn(c)] = "init"
    BY <1>0, <1>1, MoveEffect, TaskNames DEF Connect
  <2>2. \A d \in Conns : sock'[d] = "open" => sock[d] = "open" \/ pc[Conn(d)] = "init"
    BY <1>0, <1>1 DEF Connect
  <2> QED
    BY <1>1, <2>1, <2>2, WatchMoveKept, TaskNames DEF Connect
<1>2. ASSUME NEW e \in Enders, EndRequest(e)
      PROVE  Watched'
  <2>1. OthersStay({End(e)}) /\ pc'[End(e)] = "lock"
    BY <1>0, <1>2, MoveEffect, TaskNames DEF EndRequest
  <2> QED
    BY <1>2, <2>1, WatchMoveKept, TaskNames DEF EndRequest
<1>3. ASSUME NEW c \in Conns, Disconnect(c)
      PROVE  Watched'
  BY <1>0, <1>3, WatchStillKept DEF Disconnect
<1>4. ASSUME NEW s \in Sessions, WriterEnds(s) \/ TimePasses(s) \/ Activity(s) \/ ChildExits(s)
      PROVE  Watched'
  <2>1. /\ UNCHANGED <<pc, on, ws, victim, sock>>
        /\ \A r \in Sessions :
              /\ writer'[r] = writer[r] \/ (writer[r] # None /\ sock'[writer[r]] # "open")
              /\ child'[r] = "unborn" => child[r] = "unborn"
    BY <1>0, <1>4 DEF WriterEnds, TimePasses, Activity, ChildExits
  <2> QED
    BY <2>1, WatchStillKept
<1>5. CASE BeginShutdown
  <2>1. /\ pc[Main] = "init" /\ Main \in Task /\ Main[1] = "main"
        /\ UNCHANGED <<ws, writer, victim, sock, child>>
    BY <1>5, TaskNames DEF BeginShutdown, Terminate
  <2>2. reg # None => /\ GraceCancelled(reg) \in [Task -> PC]
                      /\ \A u \in Task :
                           \/ GraceCancelled(reg)[u] = pc[u]
                           \/ /\ pc[u] = "sleep" /\ GraceCancelled(reg)[u] = "done"
                              /\ u[1] \in {"grace", "idle"}
    BY CancelEffect DEF IInv, TypeOK
  <2>3. /\ OthersStay({Main}) /\ pc'[Main] \in {"term", "done"}
        /\ \A u \in Task \ {Main} : on'[u] = on[u]
    <3>1. CASE reg # None /\ alive[reg]
      <4> DEFINE q == GraceCancelled(reg)
      <4>1. reg \in Sessions /\ Terminate(Main, reg, q)
        BY <1>5, <3>1 DEF BeginShutdown, IInv, TypeOK
      <4>2. /\ q \in [Task -> PC]
            /\ \A u \in Task :
                 \/ q[u] = pc[u]
                 \/ pc[u] = "sleep" /\ q[u] = "done" /\ u[1] \in {"grace", "idle"}
        BY <2>2, <3>1
      <4> HIDE DEF q
      <4>3. /\ pc' \in [Task -> PC] /\ pc'[Main] = "term"
            /\ \A u \in Task \ {Main} :
                 \/ pc'[u] = q[u]
                 \/ q[u] = "sleep" /\ pc'[u] = "done" /\ u[1] = "idle"
            /\ \A u \in Task \ {Main} : on'[u] = on[u]
        BY <2>1, <4>1, <4>2, TerminateEffect
      <4> QED
        BY <4>2, <4>3 DEF OthersStay
    <3>2. CASE reg = None \/ ~alive[reg]
      <4>1. PICK q \in [Task -> PC] :
              /\ pc' = [q EXCEPT ![Main] = "done"] /\ UNCHANGED on
              /\ \A u \in Task : \/ q[u] = pc[u]
                                 \/ pc[u] = "sleep" /\ q[u] = "done" /\ u[1] \in {"grace", "idle"}
        BY <1>0, <1>5, <2>2, <3>2 DEF BeginShutdown
      <4>2. "done" \in PC
        BY DEF PC
      <4>3. OthersStay({Main}) /\ pc'[Main] = "done"
        BY <2>1, <4>1, <4>2, MoveEffect
      <4> QED
        BY <4>1, <4>3
    <3> QED
      BY <3>1, <3>2
  <2> QED
    BY <2>1, <2>3, WatchMoveKept
<1>6. CASE ShutdownDone
  <2>1. /\ pc' = [pc EXCEPT ![Main] = "done"] /\ Main \in Task /\ pc[Main] = "term"
        /\ UNCHANGED <<on, victim, sock>>
        /\ \A d \in Conns : Conn(d) # Main
    BY <1>6, TaskNames DEF ShutdownDone
  <2>2. \A d \in Conns : pc'[Conn(d)] = pc[Conn(d)] /\ pc[Conn(d)] \in {"init", "done"}
    BY <1>0, <2>1 DEF IInv, RoutesGone
  <2>3. \A s \in Sessions :
          /\ \/ ws'[s] = ws[s] /\ writer'[s] = writer[s]
             \/ ws'[s] = None
          /\ child'[s] = "unborn" => child[s] = "unborn"
    BY <1>0, <1>6 DEF ShutdownDone
  <2>4. \A u \in Task : victim'[u] # None => pc'[u] \in {"evict", "oust", "close"}
    BY <1>0, <2>1 DEF Watched
  <2> QED
    BY <1>0, <2>1, <2>2, <2>3, <2>4, WatchKept
<1> QED
  BY <1>1, <1>2, <1>3, <1>4, <1>5, <1>6 DEF Environment

\* Once shutdown has begun it has begun: no other task moves it back.
LEMMA ShutdownStays ==
    ASSUME IInv, [Next]_vars, pc[Main] # "init"
    PROVE  pc'[Main] # "init"
<1>0. /\ pc \in [Task -> PC] /\ Main \in Task
      /\ {"done", "lock", "term", "ready", "close"} \subseteq PC
      /\ \A t \in Task : t # Main => \A p \in PC : [pc EXCEPT ![t] = p][Main] = pc[Main]
  BY TaskNames DEF IInv, TypeOK, PC
<1>1. /\ \A c \in Conns : /\ pc[Conn(c)] \in {"init", "done"}
                          /\ Grace(c) \in Task /\ Grace(c) # Main /\ Conn(c) # Main
      /\ \A e \in Enders : pc[End(e)] \in {"init", "done"}
      /\ \A s \in Sessions : /\ Idle(s) \in Task /\ Exit(s) \in Task
                             /\ Idle(s) # Main /\ Exit(s) # Main
  BY TaskNames DEF IInv, RoutesGone
<1>2. ASSUME NEW t \in Task, t # Main, NEW s \in Sessions, Terminate(t, s, pc)
      PROVE  pc'[Main] # "init"
  <2>1. pc'[Main] = pc[Main] \/ pc'[Main] = "done"
    BY <1>0, <1>2, TerminateEffect
  <2> QED
    BY <2>1
<1>3. CASE UNCHANGED vars \/ Exited
  BY <1>3 DEF vars, Exited
<1>4. ASSUME NEW c \in Conns, ConnStep(c)
      PROVE  FALSE
  BY <1>1, <1>4 DEF ConnStep, Reattach, EvictDone, ReplayDone, StartFresh, AskHistory,
                    HistoryDone, HistoryError, Replace, OustDone, Detach, DetachDone
<1>5. ASSUME NEW c \in Conns, GraceFires(c) \/ GraceExpires(c)
      PROVE  pc'[Main] # "init"
  <2>1. CASE Terminate(Grace(c), on[Grace(c)], pc) /\ reg = on[Grace(c)] /\ alive[reg]
    <3>1. on[Grace(c)] \in Sessions
      BY <1>1, <1>5, TaskNames DEF IInv, HasTarget, GraceFires, GraceExpires
    <3> QED
      BY <1>1, <1>2, <2>1, <3>1
  <2>2. CASE pc' = [pc EXCEPT ![Grace(c)] = "lock"] \/ pc' = [pc EXCEPT ![Grace(c)] = "done"]
    BY <1>0, <1>1, <2>2
  <2> QED
    BY <1>5, <2>1, <2>2 DEF GraceFires, GraceExpires, Leaves
<1>6. ASSUME NEW e \in Enders, EndStep(e)
      PROVE  FALSE
  BY <1>1, <1>6 DEF EndStep, EndLive, EndNothing
<1>7. ASSUME NEW s \in Sessions, SessionStep(s)
      PROVE  pc'[Main] # "init"
  <2>1. CASE Terminate(Idle(s), s, pc)
    BY <1>1, <1>2, <2>1
  <2>2. CASE \/ \E p \in {"lock", "done", "close"} : pc' = [pc EXCEPT ![Idle(s)] = p]
             \/ \E p \in {"ready", "done", "close"} : pc' = [pc EXCEPT ![Exit(s)] = p]
    BY <1>0, <1>1, <2>2
  <2>3. CASE \E p \in {"done", "close"} : pc' = IdleCancelled([pc EXCEPT ![Exit(s)] = p], s)
    <3>1. PICK p \in {"done", "close"} : pc' = IdleCancelled([pc EXCEPT ![Exit(s)] = p], s)
      BY <2>3
    <3> DEFINE q == [pc EXCEPT ![Exit(s)] = p]
    <3>2. q \in [Task -> PC] /\ q[Main] = pc[Main] /\ pc' = IdleCancelled(q, s)
      BY <1>0, <1>1, <3>1
    <3> HIDE DEF q
    <3>3. pc'[Main] = q[Main] \/ pc'[Main] = "done"
      BY <1>0, <3>2, IdleEffect
    <3> QED
      BY <3>2, <3>3
  <2> QED
    BY <1>7, <2>1, <2>2, <2>3
       DEF SessionStep, IdleFires, IdleExpires, Eof, HandleExit, ExitClosed, Leaves,
           NotifyAndTerminate
<1>8. ASSUME NEW t \in Task, TermDone(t) \/ CloseDone(t)
      PROVE  pc'[Main] # "init"
  <2>1. t # Main /\ on[t] \in Sessions /\ t[1] # "conn"
    BY <1>1, <1>8, ConnTask, TaskNames, ExitTask
       DEF TermDone, CloseDone, IInv, OwnSteps, HasTarget
  <2>2. CASE Terminate(t, on[t], pc)
    BY <1>2, <2>1, <2>2
  <2>3. CASE pc' = [pc EXCEPT ![t] = "done"]
    BY <1>0, <2>1, <2>3
  <2> QED
    BY <1>8, <2>1, <2>2, <2>3 DEF TermDone, CloseDone, Leaves
<1>9. CASE Environment
  <2>1. pc' = pc
    BY <1>1, <1>9 DEF Environment, Connect, Disconnect, EndRequest, WriterEnds, TimePasses,
                      Activity, ChildExits, BeginShutdown
  <2> QED
    BY <2>1
<1>10. CASE ShutdownDone
  BY <1>0, <1>10 DEF ShutdownDone
<1> QED
  BY <1>3, <1>4, <1>5, <1>6, <1>7, <1>8, <1>9, <1>10 DEF Next

\* A session that a socket is attached to lives, unless attach() came too late.
Manned ==
    pc[Main] = "init" =>
        \A s \in Sessions : ws[s] # None => alive[s] \/ ws[s] \in late

\* A route that starts a process leaves no attached session dead that was alive.
LEMMA LaunchManned ==
    ASSUME IInv, Manned, pc[Main] = "init", NEW c \in Conns,
           NEW aliveNow \in [Sessions -> BOOLEAN], NEW childNow, NEW sockNow,
           Launch(c, aliveNow, childNow, sockNow), late' = late,
           \A s \in Sessions : ws[s] # None => aliveNow[s] = alive[s]
    PROVE  Manned'
<1>1. CASE SpawnFailed(c, aliveNow, childNow, sockNow)
  BY <1>1 DEF SpawnFailed, Manned
<1>2. ASSUME NEW s \in Sessions, Spawned(c, s, aliveNow, childNow, sockNow)
      PROVE  Manned'
  <2>1. /\ alive' = [aliveNow EXCEPT ![s] = TRUE] /\ ws' = [ws EXCEPT ![s] = c]
        /\ ws \in [Sessions -> Conns \cup {None}]
    BY <1>2 DEF Spawned, IInv, TypeOK
  <2>2. alive'[s] /\ \A r \in Sessions \ {s} : ws'[r] = ws[r] /\ alive'[r] = aliveNow[r]
    BY <2>1
  <2> QED
    BY <2>2 DEF Manned
<1> QED
  BY <1>1, <1>2 DEF Launch

\* Every step keeps Manned: what ends a session takes its socket off first
\* (NoneAttachedToDying) or in the same step (_handle_exit).
LEMMA MannedKept ==
    ASSUME IInv, KInv, Manned, [Next]_vars
    PROVE  Manned'
<1> SUFFICES ASSUME pc[Main] = "init" PROVE Manned'
  BY ShutdownStays DEF Manned
<1>0. /\ ws \in [Sessions -> Conns \cup {None}] /\ alive \in [Sessions -> BOOLEAN]
      /\ child \in [Sessions -> {"unborn", "running", "exited", "reaped"}]
      /\ \A s \in Sessions : ws[s] # None => alive[s] \/ ws[s] \in late
  BY DEF IInv, TypeOK, Manned
<1>1. ASSUME \A s \in Sessions : ws'[s] # None => ws'[s] = ws[s] /\ alive'[s] = alive[s],
             late' = late
      PROVE  Manned'
  BY <1>0, <1>1 DEF Manned
<1>2. ASSUME NEW t, NEW s \in Sessions, NEW at, NotifyAndTerminate(t, s, at), late' = late
      PROVE  Manned'
  <2>1. ws' = [ws EXCEPT ![s] = None] /\ alive' = alive
    BY <1>2 DEF NotifyAndTerminate, Terminate
  <2> QED
    BY <1>0, <1>1, <1>2, <2>1
<1>3. ASSUME NEW c \in Conns, ConnStep(c)
      PROVE  Manned'
  <2>1. CASE Reattach(c)
    <3>1. /\ reg \in Sessions /\ alive[reg] /\ UNCHANGED <<alive, late>>
          /\ ws' = [ws EXCEPT ![reg] = c] \/ ws' = [ws EXCEPT ![reg] = None]
      BY <2>1 DEF Reattach, Attached, Live, IInv, TypeOK
    <3> QED
      BY <1>0, <3>1 DEF Manned
  <2>2. CASE EvictDone(c)
    <3>1. /\ on[Conn(c)] \in Sessions /\ ws' = [ws EXCEPT ![on[Conn(c)]] = c]
          /\ alive' = alive
          /\ late' = IF alive[on[Conn(c)]] THEN late ELSE late \cup {c}
      BY <2>2, TaskNames DEF EvictDone, Attached, IInv, HasTarget
    <3> QED
      BY <1>0, <3>1 DEF Manned
  <2>3. CASE StartFresh(c) \/ HistoryDone(c)
    BY <1>0, <2>3, LaunchManned DEF StartFresh, HistoryDone, Launch, Spawned, SpawnFailed
  <2>4. CASE Replace(c)
    <3>1. ws' = [ws EXCEPT ![reg] = None] /\ UNCHANGED <<alive, late>> /\ reg \in Sessions
      BY <2>4 DEF Replace, Terminate, Live, IInv, TypeOK
    <3> QED
      BY <1>0, <1>1, <3>1
  <2>5. CASE OustDone(c)
    <3>1. CASE alive[on[Conn(c)]]
      BY <1>1, <2>5, <3>1 DEF OustDone, Terminate
    <3>2. CASE ~alive[on[Conn(c)]]
      <4>1. PICK k : Launch(c, alive, child, k)
        BY <2>5, <3>2 DEF OustDone
      <4>2. late' = late
        BY <4>1 DEF Launch, Spawned, SpawnFailed
      <4> QED
        BY <1>0, <4>1, <4>2, LaunchManned
    <3> QED
      BY <3>1, <3>2
  <2>6. CASE Detach(c)
    <3>1. /\ UNCHANGED <<alive, late>>
          /\ ws' = ws \/ (on[Conn(c)] \in Sessions /\ ws' = [ws EXCEPT ![on[Conn(c)]] = None])
      BY <2>6, TaskNames DEF Detach, IInv, HasTarget
    <3> QED
      BY <1>0, <1>1, <3>1
  <2>7. CASE ReplayDone(c) \/ AskHistory(c) \/ HistoryError(c) \/ DetachDone(c)
    BY <1>1, <2>7 DEF ReplayDone, AskHistory, HistoryError, DetachDone
  <2> QED
    BY <1>3, <2>1, <2>2, <2>3, <2>4, <2>5, <2>6, <2>7 DEF ConnStep
<1>4. ASSUME NEW c \in Conns, GraceFires(c) \/ GraceExpires(c)
      PROVE  Manned'
  BY <1>1, <1>4 DEF GraceFires, GraceExpires, Terminate
<1>5. ASSUME NEW e \in Enders, EndStep(e)
      PROVE  Manned'
  <2>1. CASE EndLive(e)
    <3>1. reg \in Sessions /\ late' = late
      BY <2>1 DEF EndLive, Live, IInv, TypeOK
    <3> QED
      BY <1>2, <2>1, <3>1 DEF EndLive
  <2>2. CASE EndNothing(e)
    BY <1>1, <2>2 DEF EndNothing
  <2> QED
    BY <1>5, <2>1, <2>2 DEF EndStep
<1>6. ASSUME NEW s \in Sessions, SessionStep(s)
      PROVE  Manned'
  <2>1. CASE HandleExit(s)
    <3>1. /\ late' = late
          /\ \/ UNCHANGED <<ws, alive>>
             \/ ws' = [ws EXCEPT ![s] = None] /\ alive' = [alive EXCEPT ![s] = FALSE]
      BY <2>1 DEF HandleExit
    <3> QED
      BY <1>0, <1>1, <3>1
  <2>2. CASE IdleExpires(s)
    BY <1>1, <1>2, <2>2 DEF IdleExpires
  <2>3. CASE IdleFires(s) \/ Eof(s) \/ ExitClosed(s)
    BY <1>1, <2>3 DEF IdleFires, Eof, ExitClosed
  <2> QED
    BY <1>6, <2>1, <2>2, <2>3 DEF SessionStep
<1>7. ASSUME NEW t \in Task, TermDone(t)
      PROVE  Manned'
  <2> DEFINE a == [alive EXCEPT ![on[t]] = FALSE]
             b == [child EXCEPT ![on[t]] = "reaped"]
  <2>1. t # Main /\ on[t] \in Sessions /\ terminating[on[t]]
    BY <1>7, TaskNames, ExitTask DEF TermDone, KInv, Undisturbed, IInv, OwnSteps, HasTarget
  <2>2. ws[on[t]] = None
    BY <2>1 DEF KInv, NoneAttachedToDying
  <2>3. /\ a \in [Sessions -> BOOLEAN]
        /\ \A s \in Sessions : ws[s] # None => a[s] = alive[s]
    BY <1>0, <2>2
  <2>4. late' = late
    BY <1>7 DEF TermDone, Launch, Spawned, SpawnFailed
  <2>5. CASE t[1] = "conn"
    <3>1. t[2] \in Conns /\ Launch(t[2], a, b, sock)
      BY <1>7, <2>5, ConnTask DEF TermDone
    <3> HIDE DEF a, b
    <3> QED
      BY <2>3, <2>4, <3>1, LaunchManned
  <2>6. CASE t[1] # "conn"
    <3>1. alive' = a /\ ws' = ws
      BY <1>7, <2>6 DEF TermDone
    <3> QED
      BY <1>1, <2>3, <2>4, <3>1
  <2> QED
    BY <2>5, <2>6
<1>8. ASSUME NEW t \in Task, CloseDone(t)
      PROVE  Manned'
  BY <1>1, <1>8 DEF CloseDone, Terminate
<1>9. CASE Environment
  <2>1. UNCHANGED <<ws, alive, late>>
    BY <1>9 DEF Environment, Connect, Disconnect, EndRequest, WriterEnds, TimePasses,
                Activity, ChildExits, BeginShutdown, Terminate
  <2> QED
    BY <1>1, <2>1
<1>10. CASE ShutdownDone
  BY <1>10, TaskNames DEF ShutdownDone, Manned
<1>11. CASE UNCHANGED vars \/ Exited
  BY <1>1, <1>11 DEF vars, Exited
<1> QED
  BY <1>3, <1>4, <1>5, <1>6, <1>7, <1>8, <1>9, <1>10, <1>11 DEF Next

\* A browser whose socket is open in the receive loop owns a session that lives,
\* or somebody is about to close it, however attaching, replacing, ending,
\* expiring and exiting interleave; attach() itself may have put it on a session
\* that had ended before, which is the only exception.
THEOREM NobodyForgottenAlways == Spec => []NobodyForgotten
<1>1. Init => Watched /\ Manned
  <2> SUFFICES ASSUME Init PROVE Watched /\ Manned
    OBVIOUS
  <2>1. /\ \A t \in Task : pc[t] = "init" /\ victim[t] = None
        /\ \A s \in Sessions : ws[s] = None
    BY DEF Init
  <2> QED
    BY <2>1, TaskNames DEF Watched, Manned
<1>2. IInv /\ KInv /\ Watched /\ [Next]_vars => Watched'
  <2> SUFFICES ASSUME IInv, KInv, Watched, [Next]_vars PROVE Watched'
    OBVIOUS
  <2>1. CASE UNCHANGED vars \/ Exited
    BY <2>1, WatchStillKept DEF vars, Exited
  <2>2. CASE \E c \in Conns : ConnStep(c)
    BY <2>2, ConnWatched
  <2>3. CASE \/ \E e \in Enders : EndStep(e)
             \/ \E c \in Conns : GraceFires(c) \/ GraceExpires(c)
             \/ \E s \in Sessions : SessionStep(s)
    BY <2>3, OthersWatched
  <2>4. CASE \E t \in Task : TermDone(t) \/ CloseDone(t)
    BY <2>4, TermWatched
  <2>5. CASE Environment \/ ShutdownDone
    BY <2>5, EnvironmentWatched
  <2> QED
    BY <2>1, <2>2, <2>3, <2>4, <2>5 DEF Next
<1>3. IInv /\ KInv /\ Manned /\ [Next]_vars => Manned'
  BY MannedKept
<1>4. IInv /\ Watched /\ Manned => NobodyForgotten
  <2> SUFFICES ASSUME IInv, Watched, Manned,
                      NEW c \in Conns, pc[Conn(c)] = "open", sock[c] = "open",
                      ws[on[Conn(c)]] = c
               PROVE  alive[on[Conn(c)]] \/ c \in late
    BY DEF Watched, NobodyForgotten
  <2>1. on[Conn(c)] \in Sessions /\ c # None /\ pc[Main] = "init"
    BY TaskNames, NoneAssumption, RouteExcludesShutdown DEF IInv, HasTarget
  <2> QED
    BY <2>1 DEF Manned
<1> QED
  BY <1>1, <1>2, <1>3, <1>4, BothInductive, PTL DEF Spec
=============================================================================
