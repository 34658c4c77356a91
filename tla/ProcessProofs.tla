--------------------------- MODULE ProcessProofs ---------------------------
(***************************************************************************)
(* TLAPS proofs about the life of processes.  PidFile: its invariant IInv, *)
(* and from it that as long as no script removed a claimed file there is   *)
(* one server, found by the path, and that a server on its way out removes *)
(* its own file.  ServerLife implements PidFile, so that the same is true  *)
(* of it, and with that a reload reaches the server whose certificate it   *)
(* is for.  ChildEnd, the processes of the sessions: that no path leaves a *)
(* zombie, and that no terminate() sleeps longer than its budget, for any  *)
(* number of calls and any waits that are ordered as those of the code.    *)
(***************************************************************************)
EXTENDS ServerLife, ChildEnd, TLAPS

(* PidFile *)

LEMMA InitIInv == Init => IInv
<1> SUFFICES ASSUME Init PROVE IInv
  OBVIOUS
<1> USE PidAssumption DEF Init
<1>0. 0 \in 0..MaxTries /\ 0 \in 0..(MaxTries - 1)
  OBVIOUS
<1>1. TypeOK
  <2>1. tries \in [Servers -> 0..MaxTries]
    BY <1>0
  <2>2. /\ pc \in [Servers -> {"off", "open", "lock", "check", "clear", "write", "serve",
                               "left", "gone"}]
        /\ spc \in [Scripts -> {"idle", "rm", "launch", "wait", "drop", "done"}]
    OBVIOUS
  <2> QED BY <2>1, <2>2 DEF TypeOK
<1>2. LockOk /\ PathOk /\ ScriptOk /\ TriesOk
  BY <1>0 DEF LockOk, PathOk, ScriptOk, TriesOk, Owners
<1> QED BY <1>1, <1>2 DEF IInv

\* What the end of a process leaves of the types and of the locks.
LEMMA EndsKeeps ==
    ASSUME TypeOK, LockOk, PathOk, ScriptOk, NEW s \in Servers, Ends(s),
           UNCHANGED <<path, text, torn>>
    PROVE  /\ pc' \in [Servers -> {"off", "open", "lock", "check", "clear", "write",
                                   "serve", "left", "gone"}]
           /\ fd' \in [Servers -> Inodes \cup {Nil}]
           /\ lock' \in [Inodes -> Servers \cup {Nil}]
           /\ LockOk' /\ PathOk'
<1> USE PidAssumption
<1>1. /\ pc' = [pc EXCEPT ![s] = "gone"] /\ pc'[s] = "gone"
      /\ fd' = [fd EXCEPT ![s] = Nil]
      /\ \A t \in Servers \ {s} : pc'[t] = pc[t] /\ fd'[t] = fd[t]
      /\ \A i \in Inodes : lock'[i] = IF lock[i] = s THEN Nil ELSE lock[i]
  BY DEF Ends, TypeOK
<1>2. /\ pc' \in [Servers -> {"off", "open", "lock", "check", "clear", "write",
                              "serve", "left", "gone"}]
      /\ fd' \in [Servers -> Inodes \cup {Nil}]
      /\ lock' \in [Inodes -> Servers \cup {Nil}]
  BY DEF Ends, TypeOK
<1>3. LockOk'
  <2>1. \A i \in Inodes : lock'[i] # Nil => lock[i] \in Servers \ {s}
    BY <1>1 DEF TypeOK
  <2>2. \A i \in Inodes : lock'[i] # Nil =>
           /\ fd'[lock'[i]] = i
           /\ pc'[lock'[i]] \in {"check", "clear", "write", "serve", "left"}
    BY <1>1, <2>1 DEF LockOk
  <2>3. ASSUME NEW t \in Servers
        PROVE  /\ pc'[t] \in {"lock", "check", "clear", "write", "serve", "left"}
                     => fd'[t] # Nil
               /\ pc'[t] \in {"check", "clear", "write", "serve", "left"}
                     => lock'[fd'[t]] = t
               /\ pc'[t] = "serve" => text'[fd'[t]] = t
    <3>1. CASE t = s
      BY <1>1, <3>1
    <3>2. CASE t # s
      <4>1. fd[t] \in Inodes \cup {Nil}
        BY DEF TypeOK
      <4> QED BY <1>1, <3>2, <4>1 DEF LockOk
    <3> QED BY <3>1, <3>2
  <2> QED BY <2>2, <2>3 DEF LockOk
<1>4. PathOk'
  BY <1>1 DEF PathOk, Owners
<1> QED BY <1>2, <1>3, <1>4

Locked == TypeOK /\ LockOk /\ PathOk /\ ScriptOk

\* Every step keeps all of the invariant but the count of the rounds.
LEMMA NextLocked == IInv /\ [Next]_vars => Locked'
<1> SUFFICES ASSUME IInv, [Next]_vars PROVE Locked'
  OBVIOUS
<1> USE PidAssumption
<1>0. TypeOK /\ LockOk /\ PathOk /\ ScriptOk /\ TriesOk
  BY DEF IInv
<1>1. ASSUME NEW s \in Servers, Open(s) PROVE Locked'
  <2>1. pc'[s] = "lock" /\ pc[s] = "open" /\ \A t \in Servers \ {s} : pc'[t] = pc[t] /\ fd'[t] = fd[t]
    BY <1>0, <1>1 DEF Open, TypeOK
  <2>2. fd'[s] \in Inodes /\ fd' \in [Servers -> Inodes \cup {Nil}]
    BY <1>0, <1>1 DEF Open, TypeOK
  <2>3. \A t \in Servers \ {s} : fd[t] # Nil => text'[fd[t]] = text[fd[t]]
    BY <1>0, <1>1 DEF Open, TypeOK
  <2>4. path' = path \/ (path = Nil /\ path' \in Inodes)
    BY <1>1 DEF Open
  <2>5. TypeOK'
    BY <1>0, <1>1, <2>2, <2>4 DEF Open, TypeOK, scripts
  <2>6. LockOk'
    <3>1. lock' = lock
      BY <1>1 DEF Open
    <3>2. \A i \in Inodes : lock[i] # Nil => lock[i] \in Servers \ {s}
      BY <1>0, <2>1 DEF LockOk, TypeOK
    <3> QED BY <1>0, <2>1, <2>2, <2>3, <3>1, <3>2 DEF LockOk, TypeOK
  <2>7. PathOk'
    <3>1. torn' = torn
      BY <1>1 DEF Open, scripts
    <3>2. \A t \in Owners' : t \in Owners /\ t # s /\ fd'[t] = fd[t] /\ fd[t] # Nil
      BY <1>0, <2>1 DEF Owners, LockOk
    <3> QED BY <1>0, <2>4, <3>1, <3>2 DEF PathOk
  <2>8. ScriptOk'
    BY <1>0, <1>1 DEF Open, ScriptOk, scripts
  <2> QED BY <2>5, <2>6, <2>7, <2>8 DEF Locked
<1>2. ASSUME NEW s \in Servers, Lock(s) PROVE Locked'
  <2>0. fd[s] \in Inodes
    BY <1>0, <1>2 DEF Lock, LockOk, TypeOK
  <2>1. CASE lock[fd[s]] # Nil
    <3>1. Ends(s) /\ UNCHANGED <<path, text, tries, scripts>>
      BY <1>2, <2>1 DEF Lock
    <3>2. LockOk' /\ PathOk' /\ TypeOK'
      BY <1>0, <3>1, EndsKeeps DEF TypeOK, scripts
    <3> QED BY <1>0, <3>1, <3>2 DEF Locked, ScriptOk, scripts
  <2>2. CASE lock[fd[s]] = Nil
    <3>1. /\ lock' = [lock EXCEPT ![fd[s]] = s] /\ pc' = [pc EXCEPT ![s] = "check"]
          /\ pc[s] = "lock" /\ UNCHANGED <<path, text, fd, tries, scripts>>
      BY <1>2, <2>2 DEF Lock
    <3>2. TypeOK'
      BY <1>0, <2>0, <3>1 DEF TypeOK, scripts
    <3>3. LockOk'
      <4>1. \A t \in Servers : pc[t] \in {"check", "clear", "write", "serve", "left"}
               => t # s /\ fd[t] \in Inodes /\ fd[t] # fd[s]
        BY <1>0, <2>2, <3>1 DEF LockOk, TypeOK
      <4>2. \A i \in Inodes : lock[i] # s
        BY <1>0, <3>1 DEF LockOk
      <4> QED BY <1>0, <2>0, <2>2, <3>1, <4>1, <4>2 DEF LockOk, TypeOK
    <3>4. PathOk' /\ ScriptOk'
      BY <1>0, <3>1 DEF PathOk, ScriptOk, Owners, TypeOK, scripts
    <3> QED BY <3>2, <3>3, <3>4 DEF Locked
  <2> QED BY <2>1, <2>2
<1>3. ASSUME NEW s \in Servers, Check(s) PROVE Locked'
  <2>0. fd[s] \in Inodes /\ pc[s] = "check" /\ lock[fd[s]] = s /\ tries[s] \in 0..(MaxTries - 1)
    BY <1>0, <1>3 DEF Check, LockOk, TypeOK, TriesOk
  <2>1. CASE path = fd[s]
    <3>1. pc' = [pc EXCEPT ![s] = "clear"] /\ UNCHANGED <<path, text, lock, fd, tries, scripts>>
      BY <1>3, <2>1 DEF Check
    <3>2. TypeOK' /\ LockOk' /\ ScriptOk'
      BY <1>0, <2>0, <3>1 DEF TypeOK, LockOk, ScriptOk, scripts
    <3>3. PathOk'
      BY <1>0, <2>1, <3>1 DEF PathOk, Owners, TypeOK, scripts
    <3> QED BY <3>2, <3>3 DEF Locked
  <2>2. CASE path # fd[s]
    <3>1. tries' = [tries EXCEPT ![s] = @ + 1] /\ UNCHANGED <<path, text, scripts>>
      BY <1>3, <2>2 DEF Check
    <3>2. CASE tries[s] + 1 = MaxTries
      <4>1. Ends(s)
        BY <1>3, <2>2, <3>2 DEF Check
      <4>2. LockOk' /\ PathOk'
        BY <1>0, <3>1, <4>1, EndsKeeps DEF scripts
      <4>3. tries' \in [Servers -> 0..MaxTries]
        BY <1>0, <3>1, <3>2 DEF TypeOK
      <4>4. TypeOK'
        BY <1>0, <3>1, <4>1, <4>3, EndsKeeps DEF TypeOK, scripts
      <4> QED BY <1>0, <3>1, <4>2, <4>4 DEF Locked, ScriptOk, scripts
    <3>3. CASE tries[s] + 1 # MaxTries
      <4>0. tries[s] + 1 \in 0..(MaxTries - 1)
        BY <2>0, <3>3
      <4>1. /\ pc' = [pc EXCEPT ![s] = "open"] /\ fd' = [fd EXCEPT ![s] = Nil]
            /\ lock' = [lock EXCEPT ![fd[s]] = Nil]
        BY <1>3, <2>2, <3>3 DEF Check
      <4>2. TypeOK'
        BY <1>0, <2>0, <3>1, <3>3, <4>0, <4>1 DEF TypeOK, scripts
      <4>3. LockOk'
        BY <1>0, <2>0, <3>1, <4>1 DEF LockOk, TypeOK
      <4>4. PathOk' /\ ScriptOk'
        BY <1>0, <3>1, <4>1 DEF PathOk, ScriptOk, Owners, TypeOK, scripts
      <4> QED BY <4>2, <4>3, <4>4 DEF Locked
    <3> QED BY <3>2, <3>3
  <2> QED BY <2>1, <2>2
<1>4. ASSUME NEW s \in Servers, Clear(s) PROVE Locked'
  <2>1. \A t \in Servers : pc[t] = "serve" => t # s /\ fd[t] # fd[s]
    BY <1>0, <1>4 DEF Clear, LockOk
  <2>2. TypeOK'
    BY <1>0, <1>4 DEF Clear, TypeOK, scripts
  <2>3. LockOk'
    BY <1>0, <1>4, <2>1 DEF Clear, LockOk, TypeOK
  <2>4. PathOk' /\ ScriptOk'
    BY <1>0, <1>4 DEF Clear, PathOk, ScriptOk, Owners, TypeOK, scripts
  <2> QED BY <2>2, <2>3, <2>4 DEF Locked
<1>5. ASSUME NEW s \in Servers, Write(s) PROVE Locked'
  <2>0. fd[s] \in Inodes
    BY <1>0, <1>5 DEF Write, LockOk, TypeOK
  <2>1. \A t \in Servers : pc[t] = "serve" => t # s /\ fd[t] # fd[s]
    BY <1>0, <1>5 DEF Write, LockOk
  <2>2. TypeOK'
    BY <1>0, <1>5 DEF Write, TypeOK, scripts
  <2>3. LockOk'
    BY <1>0, <1>5, <2>0, <2>1 DEF Write, LockOk, TypeOK
  <2>4. PathOk' /\ ScriptOk'
    BY <1>0, <1>5 DEF Write, PathOk, ScriptOk, Owners, TypeOK, scripts
  <2> QED BY <2>2, <2>3, <2>4 DEF Locked
<1>6. ASSUME NEW s \in Servers, Release(s) PROVE Locked'
  <2>1. pc' = [pc EXCEPT ![s] = "left"] /\ path' = Nil /\ pc[s] = "serve"
    BY <1>0, <1>6 DEF Release, LockOk
  <2>2. TypeOK' /\ LockOk' /\ ScriptOk'
    BY <1>0, <1>6, <2>1 DEF Release, TypeOK, LockOk, ScriptOk, scripts
  <2>3. PathOk'
    <3>1. ASSUME ~torn, NEW t \in Owners, t # s PROVE FALSE
      <4>1. s \in Owners /\ t \in Servers
        BY <2>1, <3>1 DEF Owners
      <4>2. fd[t] = fd[s]
        BY <1>0, <3>1, <4>1 DEF PathOk
      <4>3. lock[fd[t]] = t /\ lock[fd[s]] = s
        BY <1>0, <3>1, <4>1 DEF LockOk, Owners
      <4> QED BY <3>1, <4>2, <4>3
    <3>2. \A t \in Owners' : t \in Owners /\ t # s
      BY <1>0, <2>1 DEF Owners, TypeOK
    <3> QED BY <1>6, <3>1, <3>2 DEF PathOk, Release, scripts
  <2> QED BY <2>2, <2>3 DEF Locked
<1>7. ASSUME NEW s \in Servers, Die(s) PROVE Locked'
  <2>1. LockOk' /\ PathOk' /\ TypeOK'
    BY <1>0, <1>7, EndsKeeps DEF Die, TypeOK, scripts
  <2> QED BY <1>0, <1>7, <2>1 DEF Locked, Die, ScriptOk, scripts
<1>8. ASSUME NEW s \in Servers, Spawned(s),
             spc' \in [Scripts -> {"idle", "rm", "launch", "wait", "drop", "done"}],
             ScriptOk', UNCHANGED <<target, torn>>
      PROVE  Locked'
  <2>1. TypeOK'
    BY <1>0, <1>8 DEF Spawned, TypeOK
  <2>2. LockOk'
    BY <1>0, <1>8 DEF Spawned, LockOk, TypeOK
  <2>3. PathOk'
    BY <1>0, <1>8 DEF Spawned, PathOk, Owners, TypeOK
  <2> QED BY <1>8, <2>1, <2>2, <2>3 DEF Locked
<1>9. ASSUME NEW s \in Servers, SupervisorStarts(s) PROVE Locked'
  BY <1>0, <1>8, <1>9 DEF SupervisorStarts, ScriptOk, TypeOK, scripts
<1>10. ASSUME NEW a \in Starts, StartLaunches(a) PROVE Locked'
  <2>1. a \in Scripts
    BY DEF Scripts
  <2>2. spc' \in [Scripts -> {"idle", "rm", "launch", "wait", "drop", "done"}] /\ ScriptOk'
    BY <1>0, <1>10, <2>1 DEF StartLaunches, ScriptStep, ScriptOk, TypeOK
  <2>3. PICK s \in Servers : Spawned(s)
    BY <1>10 DEF StartLaunches
  <2> QED BY <1>8, <1>10, <2>2, <2>3 DEF StartLaunches
<1>11. ASSUME NEW a \in Scripts, NEW from, NEW to, ScriptStep(a, from, to),
              to \in {"idle", "rm", "launch", "drop", "done"},
              UNCHANGED <<path, text, lock, pc, fd, tries, target, torn>>
       PROVE  Locked'
  <2>1. TypeOK' /\ ScriptOk'
    BY <1>0, <1>11 DEF ScriptStep, TypeOK, ScriptOk
  <2>2. LockOk' /\ PathOk'
    BY <1>0, <1>11 DEF LockOk, PathOk, Owners
  <2> QED BY <2>1, <2>2 DEF Locked
<1>12. ASSUME NEW a \in Starts, StartReads(a) PROVE Locked'
  BY <1>11, <1>12 DEF StartReads, Scripts
<1>13. ASSUME NEW a \in Stops, StopReads(a) PROVE Locked'
  <2>1. a \in Scripts
    BY DEF Scripts
  <2>2. CASE \E s \in Named : Running(s)
    <3>1. text[path] \in Servers
      BY <1>0, <2>2 DEF Named, TypeOK
    <3>2. spc' = [spc EXCEPT ![a] = "wait"] /\ target' = [target EXCEPT ![a] = text[path]]
      BY <1>13, <2>2 DEF StopReads, ScriptStep
    <3>3. TypeOK'
      BY <1>0, <1>13, <2>1, <3>1, <3>2 DEF StopReads, TypeOK
    <3>4. ScriptOk'
      BY <1>0, <1>13, <2>1, <3>1, <3>2 DEF ScriptOk, TypeOK
    <3>5. LockOk' /\ PathOk'
      BY <1>0, <1>13 DEF StopReads, LockOk, PathOk, Owners
    <3> QED BY <3>3, <3>4, <3>5 DEF Locked
  <2>3. CASE ~ \E s \in Named : Running(s)
    BY <1>11, <1>13, <2>1, <2>3 DEF StopReads
  <2> QED BY <2>2, <2>3
<1>14. ASSUME NEW a \in Stops, StopSees(a) PROVE Locked'
  BY <1>11, <1>14 DEF StopSees, Scripts
<1>15. ASSUME NEW a \in Stops, StopKills(a) PROVE Locked'
  <2>1. a \in Scripts
    BY DEF Scripts
  <2>2. target[a] \in Servers
    BY <1>0, <1>15, <2>1 DEF StopKills, ScriptStep, ScriptOk
  <2>3. LockOk' /\ PathOk'
    BY <1>0, <1>15, <2>2, EndsKeeps DEF StopKills
  <2>4. TypeOK'
    BY <1>0, <1>15, <2>1, <2>2, EndsKeeps DEF StopKills, ScriptStep, TypeOK
  <2>5. ScriptOk'
    BY <1>0, <1>15, <2>1 DEF StopKills, ScriptStep, ScriptOk, TypeOK
  <2> QED BY <2>3, <2>4, <2>5 DEF Locked
<1>16. ASSUME NEW a \in Stops, StopCompares(a) PROVE Locked'
  BY <1>11, <1>16 DEF StopCompares, Scripts
<1>17. ASSUME NEW a \in Scripts, Remove(a) PROVE Locked'
  <2>1. TypeOK' /\ ScriptOk'
    BY <1>0, <1>17 DEF Remove, ScriptStep, TypeOK, ScriptOk
  <2>2. LockOk'
    BY <1>0, <1>17 DEF Remove, LockOk
  <2>3. PathOk'
    <3>1. Owners' = Owners /\ fd' = fd
      BY <1>17 DEF Remove, Owners
    <3>2. ASSUME ~torn' PROVE Owners = {}
      BY <1>0, <1>17, <3>2 DEF Remove, PathOk
    <3> QED BY <3>1, <3>2 DEF PathOk
  <2> QED BY <2>1, <2>2, <2>3 DEF Locked
<1>18. CASE UNCHANGED vars
  BY <1>0, <1>18 DEF vars, Locked, TypeOK, LockOk, PathOk, ScriptOk, Owners
<1> QED
  BY <1>1, <1>2, <1>3, <1>4, <1>5, <1>6, <1>7, <1>9, <1>10, <1>12, <1>13, <1>14, <1>15,
     <1>16, <1>17, <1>18 DEF Next, ServerNext

\* A server that still claims has rounds left.
LEMMA NextTries == IInv /\ [Next]_vars => TriesOk'
<1> SUFFICES ASSUME TypeOK, TriesOk, [Next]_vars PROVE TriesOk'
  BY DEF IInv
<1> USE PidAssumption
<1>1. ASSUME NEW s \in Servers, Ends(s), UNCHANGED tries PROVE TriesOk'
  BY <1>1 DEF Ends, TypeOK, TriesOk
<1>2. ASSUME NEW s \in Servers, ServerNext(s) PROVE TriesOk'
  <2>1. CASE Check(s)
    <3>1. CASE path = fd[s]
      BY <2>1, <3>1 DEF Check, TypeOK, TriesOk
    <3>2. CASE path # fd[s]
      <4>1. tries' = [tries EXCEPT ![s] = @ + 1] /\ pc[s] = "check"
            /\ tries[s] \in 0..(MaxTries - 1)
        BY <2>1, <3>2 DEF Check, TriesOk
      <4>2. CASE tries[s] + 1 = MaxTries
        <5>1. pc' = [pc EXCEPT ![s] = "gone"]
          BY <2>1, <3>2, <4>2 DEF Check, Ends
        <5> QED BY <4>1, <5>1 DEF TypeOK, TriesOk
      <4>3. CASE tries[s] + 1 # MaxTries
        <5>1. pc' = [pc EXCEPT ![s] = "open"]
          BY <2>1, <3>2, <4>3 DEF Check
        <5>2. tries[s] + 1 \in 0..(MaxTries - 1)
          BY <4>1, <4>3
        <5> QED BY <4>1, <5>1, <5>2 DEF TypeOK, TriesOk
      <4> QED BY <4>2, <4>3
    <3> QED BY <3>1, <3>2
  <2>2. CASE Lock(s)
    BY <1>1, <2>2 DEF Lock, TypeOK, TriesOk
  <2>3. CASE Die(s)
    BY <1>1, <2>3 DEF Die
  <2>4. CASE Open(s) \/ Clear(s) \/ Write(s) \/ Release(s) \/ SupervisorStarts(s)
    BY <2>4 DEF Open, Clear, Write, Release, SupervisorStarts, Spawned, TypeOK, TriesOk
  <2> QED BY <1>2, <2>1, <2>2, <2>3, <2>4 DEF ServerNext
<1>3. ASSUME NEW a \in Starts, StartReads(a) \/ StartLaunches(a) PROVE TriesOk'
  BY <1>3 DEF StartReads, StartLaunches, Spawned, TypeOK, TriesOk
<1>4. ASSUME NEW a \in Stops, StopReads(a) \/ StopSees(a) \/ StopKills(a) \/ StopCompares(a)
      PROVE  TriesOk'
  BY <1>4 DEF StopReads, StopSees, StopKills, StopCompares, Ends, TypeOK, TriesOk
<1>5. ASSUME NEW a \in Scripts, Remove(a) PROVE TriesOk'
  BY <1>5 DEF Remove, TriesOk
<1> QED BY <1>2, <1>3, <1>4, <1>5 DEF Next, vars, TriesOk

LEMMA NextIInv == IInv /\ [Next]_vars => IInv'
<1> QED BY NextLocked, NextTries DEF Locked, IInv

\* The locks, the path and the scripts agree in every state of the program.
THEOREM Inductive == Spec => []IInv
<1> QED BY InitIInv, NextIInv, PTL DEF Spec

\* In such a state there is one server, and the path leads to it.
LEMMA IInvOne == IInv => OneUnlessTorn
<1> SUFFICES ASSUME IInv, ~torn PROVE OneServer /\ \A s \in Servers :
                 pc[s] = "serve" => path = fd[s] /\ text[path] = s
  BY DEF OneUnlessTorn
<1>1. \A s \in Owners : path = fd[s] /\ lock[fd[s]] = s
  BY DEF IInv, PathOk, LockOk, Owners
<1>2. OneServer
  <2> SUFFICES ASSUME NEW s \in Owners, NEW t \in Owners PROVE s = t
    BY DEF OneServer
  <2> QED BY <1>1
<1>3. \A s \in Servers : pc[s] = "serve" => path = fd[s] /\ text[path] = s
  BY <1>1 DEF IInv, LockOk, Owners
<1> QED BY <1>2, <1>3

\* Whatever processes start, crash and retry and whatever the scripts remove: as
\* long as it was never the file of a server that had claimed it, there is one
\* server, and the file names it (_claim_pid_file).
THEOREM OneServerAlways == Spec => []OneUnlessTorn
<1> QED BY Inductive, IInvOne, PTL

\* Under the same condition a server on its way out removes no file but its own
\* (_release_pid_file).
THEOREM ReleasesOwnAlways == Spec => ReleasesOwnUnlessTorn
<1>1. IInv => (torn \/ \A s \in Servers :
                           pc[s] = "serve" /\ pc'[s] = "left" => path = fd[s])
  BY DEF IInv, PathOk, Owners
<1> QED BY <1>1, Inductive, PTL DEF ReleasesOwnUnlessTorn

-----------------------------------------------------------------------------
(* ServerLife *)

\* Every step is one of the PID file or none.
LEMMA LifeSteps == [LifeNext]_lifeVars => [Next]_vars
<1> SUFFICES ASSUME [LifeNext]_lifeVars PROVE [Next]_vars
  OBVIOUS
<1>1. ASSUME NEW s \in Servers,
             \/ Claims(s) \/ Claimed(s) \/ CannotStart(s) \/ ExitsSuccess(s)
             \/ TermCuts(s) \/ Dies(s) \/ Revives(s)
      PROVE  ServerNext(s)
  BY <1>1 DEF Claims, Claimed, CannotStart, ExitsSuccess, TermCuts, Dies, Revives, ServerNext
<1>2. ASSUME NEW s \in Servers,
             Handles(s) \/ Waits(s) \/ LoadsCert(s) \/ Hooks(s) \/ Serves(s) \/ Reloads(s)
      PROVE  UNCHANGED vars
  BY <1>2 DEF Handles, Waits, LoadsCert, Hooks, Serves, Reloads, Goes
<1>3. ASSUME NEW s \in Servers, HupWithoutHook(s) PROVE ServerNext(s) \/ UNCHANGED vars
  BY <1>3 DEF HupWithoutHook, ServerNext
<1>4. ASSUME NEW a \in Starts, Launches(a) PROVE Next
  BY <1>4 DEF Launches, Next
<1>5. ASSUME NEW a \in Stops, Signals(a) \/ Kills(a) PROVE Next
  BY <1>5 DEF Signals, Kills, Next
<1>6. ASSUME NEW a \in Scripts, Otherwise(a) PROVE Next
  BY <1>6 DEF Otherwise, Next
<1>7. CASE Installs \/ Renews \/ ReloadsNobody \/ UNCHANGED lifeVars
  BY <1>7 DEF Installs, Renews, ReloadsNobody, lifeVars
<1> QED BY <1>1, <1>2, <1>3, <1>4, <1>5, <1>6, <1>7 DEF LifeNext, Next

\* The life of a server implements the protocol of the PID file.
THEOREM LifeImplements == LifeSpec => Spec
<1>1. LifeInit => Init
  BY DEF LifeInit
<1> QED BY <1>1, LifeSteps, PTL DEF LifeSpec, Spec

\* Whatever the supervisor revives and whatever signals come: as long as no script
\* removed the file of a server there is one, and the file names it.
THEOREM LifeOneServer == LifeSpec => []OneUnlessTorn
<1> QED BY LifeImplements, OneServerAlways, PTL

Up == {"bare", "waits", "loads", "hooks", "starts", "serves"}

\* A server past its claim is one that PidFile says to serve.
UpOk ==
    /\ phase \in [Servers -> {"new"} \cup Up \cup Ended]
    /\ pc \in [Servers -> {"off", "open", "lock", "check", "clear", "write", "serve",
                           "left", "gone"}]
    /\ \A s \in Servers : phase[s] \in Up => pc[s] = "serve"
    /\ \A s \in Servers : pc[s] \notin {"serve", "left", "gone"} => phase[s] = "new"

\* CertCurrent, from the moment at which the certificate is loaded.
Loaded ==
    /\ chain \in [Servers -> Int] /\ cert \in Nat
    /\ \A s \in Servers : phase[s] \in {"new", "bare", "waits", "loads"} => chain[s] = -1
    /\ ~torn /\ ~due =>
         \A s \in Servers : phase[s] \in {"hooks", "starts", "serves"} /\ chain[s] >= 0 =>
             chain[s] = cert \/ s \in missed

LEMMA InitUp == LifeInit => UpOk /\ Loaded
  BY DEF LifeInit, Init, UpOk, Loaded, Up, Ended

LEMMA EndsUp ==
    ASSUME UpOk, NEW s \in Servers, NEW end \in Ended, Enters(s, end),
           NEW to \in {"left", "gone"}, pc' = [pc EXCEPT ![s] = to]
    PROVE  UpOk'
  BY DEF UpOk, Enters, Up, Ended

LEMMA NextUp == UpOk /\ [LifeNext]_lifeVars => UpOk'
<1> SUFFICES ASSUME UpOk, [LifeNext]_lifeVars PROVE UpOk'
  OBVIOUS
<1>1. ASSUME NEW s \in Servers, Claims(s) PROVE UpOk'
  <2>1. /\ pc[s] # "serve"
        /\ \E to \in {"lock", "check", "clear", "open", "write", "gone"} :
              pc' = [pc EXCEPT ![s] = to]
    BY <1>1 DEF Claims, Open, Lock, Check, Clear, Ends
  <2>2. /\ pc'[s] = "gone" => Enters(s, "bad")
        /\ pc'[s] # "gone" => Enters(s, "new")
    BY <1>1 DEF Claims
  <2>3. CASE pc'[s] = "gone"
    BY <2>1, <2>2, <2>3 DEF UpOk, Enters, Up, Ended
  <2>4. CASE pc'[s] # "gone"
    BY <2>1, <2>2, <2>4 DEF UpOk, Enters, Up, Ended
  <2> QED BY <2>3, <2>4
<1>2. ASSUME NEW s \in Servers, Claimed(s) PROVE UpOk'
  BY <1>2 DEF Claimed, Write, Enters, UpOk, Up, Ended
<1>3. ASSUME NEW s \in Servers, Handles(s) \/ Waits(s) \/ LoadsCert(s) \/ Hooks(s) \/ Serves(s)
      PROVE  UpOk'
  <2>1. PICK f \in Up, g \in Up : phase[s] = f /\ Enters(s, g) /\ UNCHANGED vars
    BY <1>3 DEF Handles, Waits, LoadsCert, Hooks, Serves, Goes, Up
  <2> QED BY <2>1 DEF vars, Enters, UpOk
<1>4. ASSUME NEW s \in Servers, CannotStart(s) \/ ExitsSuccess(s) PROVE UpOk'
  BY <1>4, EndsUp DEF CannotStart, ExitsSuccess, Release, Ended
<1>5. ASSUME NEW s \in Servers, TermCuts(s) PROVE UpOk'
  BY <1>5, EndsUp DEF TermCuts, Die, Ends, Ended
<1>6. ASSUME NEW s \in Servers, NEW end \in Ended, Die(s),
             Enters(s, IF pc[s] = "left" THEN phase[s] ELSE end)
      PROVE  UpOk'
  <2>1. pc' = [pc EXCEPT ![s] = "gone"]
    BY <1>6 DEF Die, Ends
  <2>2. CASE pc[s] = "left"
    BY <1>6, <2>1, <2>2 DEF Enters, UpOk, Up
  <2>3. CASE pc[s] # "left"
    BY <1>6, <2>1, <2>3, EndsUp
  <2> QED BY <2>2, <2>3
<1>7. ASSUME NEW s \in Servers, Dies(s) \/ HupWithoutHook(s) PROVE UpOk'
  <2>1. CASE Dies(s)
    BY <1>6, <2>1 DEF Dies, Ended
  <2>2. CASE HupWithoutHook(s) /\ s = unit
    BY <1>6, <2>2 DEF HupWithoutHook, Ended
  <2>3. CASE HupWithoutHook(s) /\ s # unit
    BY <2>3 DEF HupWithoutHook, vars, UpOk
  <2> QED BY <1>7, <2>1, <2>2, <2>3
<1>8. ASSUME NEW s \in Servers, Spawned(s), UNCHANGED phase PROVE UpOk'
  BY <1>8 DEF Spawned, UpOk, Up
<1>9. ASSUME NEW a \in Stops, Kills(a) PROVE UpOk'
  <2>1. CASE target[a] \in Servers
    BY <1>9, <2>1, EndsUp DEF Kills, StopKills, Ends, Ended
  <2>2. CASE target[a] \notin Servers
    BY <1>9, <2>2 DEF Kills, StopKills, Ends, Enters, UpOk
  <2> QED BY <2>1, <2>2
<1>10. ASSUME NEW a \in Scripts, Otherwise(a) PROVE UpOk'
  BY <1>10 DEF Otherwise, StartReads, StopSees, StopCompares, Remove, life, UpOk
<1>11. ASSUME NEW a \in Stops, Signals(a) PROVE UpOk'
  BY <1>11 DEF Signals, StopReads, UpOk
<1>12. ASSUME NEW s \in Servers, Revives(s) PROVE UpOk'
  BY <1>8, <1>12 DEF Revives, SupervisorStarts
<1>13. ASSUME NEW a \in Starts, Launches(a) PROVE UpOk'
  BY <1>8, <1>13 DEF Launches, StartLaunches
<1>14. ASSUME NEW s \in Servers, Reloads(s) PROVE UpOk'
  BY <1>14 DEF Reloads, vars, UpOk
<1>15. CASE Installs \/ Renews \/ ReloadsNobody \/ UNCHANGED lifeVars
  BY <1>15 DEF Installs, Renews, ReloadsNobody, lifeVars, life, vars, UpOk
<1> QED BY <1>1, <1>2, <1>3, <1>4, <1>5, <1>7, <1>9, <1>10, <1>11, <1>12, <1>13, <1>14,
           <1>15 DEF LifeNext

\* Nothing changes for the certificate while a server only goes on or ends.
LEMMA SameTls ==
    ASSUME UpOk, Loaded, UNCHANGED tls, torn => torn',
           \A s \in Servers :
             /\ phase'[s] \in {"new", "bare", "waits", "loads"} =>
                  phase[s] \in {"new", "bare", "waits", "loads"}
             /\ phase'[s] \in {"hooks", "starts", "serves"} =>
                  phase[s] \in {"waits", "hooks", "starts", "serves"}
    PROVE  Loaded'
  BY DEF Loaded, tls

\* What was torn stays so.
LEMMA NextTorn == [LifeNext]_lifeVars /\ torn => torn'
<1>1. ASSUME [Next]_vars, torn PROVE torn'
  <2>1. CASE \E s \in Servers : ServerNext(s)
    BY <1>1, <2>1 DEF ServerNext, Open, Lock, Check, Clear, Write, Release, Die,
       SupervisorStarts, scripts
  <2>2. CASE \/ \E a \in Starts : StartReads(a) \/ StartLaunches(a)
             \/ \E a \in Stops : StopReads(a) \/ StopSees(a) \/ StopKills(a) \/ StopCompares(a)
             \/ \E a \in Scripts : Remove(a)
    BY <1>1, <2>2 DEF StartReads, StartLaunches, StopReads, StopSees, StopKills, StopCompares,
       Remove
  <2> QED BY <1>1, <2>1, <2>2 DEF Next, vars
<1> QED BY <1>1, LifeSteps

\* Where no script removed the file of a server, the one that is reached is the
\* only one.
LEMMA OneReached ==
    ASSUME UpOk, IInv, OneUnlessTorn, ~torn, NEW s \in Servers, phase[s] \in Up
    PROVE  /\ s \in Named /\ Running(s)
           /\ \A t \in Named : t = s
<1>1. pc[s] = "serve" /\ path = fd[s] /\ text[path] = s
  BY DEF UpOk, OneUnlessTorn
<1>2. path # Nil /\ s # Nil
  BY <1>1, PidAssumption DEF IInv, LockOk
<1> QED BY <1>1, <1>2 DEF Named, Running

LEMMA NextLoaded == UpOk /\ IInv /\ OneUnlessTorn /\ Loaded /\ [LifeNext]_lifeVars => Loaded'
<1> SUFFICES ASSUME UpOk, IInv, OneUnlessTorn, Loaded, [LifeNext]_lifeVars PROVE Loaded'
  OBVIOUS
<1>1. ASSUME NEW s \in Servers, Claims(s) PROVE Loaded'
  <2>1. phase[s] = "new" /\ UNCHANGED torn
    BY <1>1 DEF Claims, Open, Lock, Check, Clear, scripts, UpOk
  <2> QED BY <1>1, <2>1, SameTls DEF Claims, Enters, UpOk
<1>2. ASSUME NEW s \in Servers, Claimed(s) PROVE Loaded'
  <2>1. phase[s] = "new" /\ UNCHANGED torn
    BY <1>2 DEF Claimed, Write, scripts, UpOk
  <2> QED BY <1>2, <2>1, SameTls DEF Claimed, Enters, UpOk
<1>3. ASSUME NEW s \in Servers, Handles(s) \/ Waits(s) \/ Hooks(s) \/ Serves(s) PROVE Loaded'
  <2>1. /\ UNCHANGED <<torn, tls>>
        /\ \/ phase[s] = "bare" /\ Enters(s, "waits")
           \/ phase[s] = "waits" /\ Enters(s, "loads")
           \/ phase[s] \in {"waits", "hooks"} /\ Enters(s, "starts")
           \/ phase[s] = "starts" /\ Enters(s, "serves")
    BY <1>3 DEF Handles, Waits, Hooks, Serves, Goes, vars
  <2> QED BY <2>1, SameTls DEF Enters, UpOk
<1>4. ASSUME NEW s \in Servers, LoadsCert(s) PROVE Loaded'
  <2>1. phase' = [phase EXCEPT ![s] = "hooks"] /\ chain' = [chain EXCEPT ![s] = cert]
        /\ UNCHANGED <<torn, cert, due, missed>>
    BY <1>4 DEF LoadsCert, Goes, Enters, vars
  <2>2. cert \in Int
    BY DEF Loaded
  <2> QED BY <2>1, <2>2 DEF Loaded, UpOk
<1>5. ASSUME NEW s \in Servers, NEW end \in Ended, Enters(s, end), UNCHANGED <<torn, tls>>
      PROVE  Loaded'
  BY <1>5, SameTls DEF Enters, UpOk, Ended
<1>6. ASSUME NEW s \in Servers, CannotStart(s) \/ ExitsSuccess(s) \/ TermCuts(s) PROVE Loaded'
  BY <1>5, <1>6 DEF CannotStart, ExitsSuccess, TermCuts, Release, Die, scripts, Ended
<1>7. ASSUME NEW s \in Servers, Dies(s) PROVE Loaded'
  <2>1. UNCHANGED <<torn, tls>> /\ (Enters(s, "dead") \/ Enters(s, phase[s]))
    BY <1>7 DEF Dies, Die, scripts
  <2> QED BY <1>5, <2>1, SameTls DEF Enters, UpOk, Ended
<1>8. ASSUME NEW a \in Stops, Kills(a) PROVE Loaded'
  BY <1>8, SameTls DEF Kills, StopKills, Enters, UpOk
<1>9. CASE UNCHANGED <<phase, tls>>
  <2>1. torn => torn'
    BY NextTorn
  <2> QED BY <1>9, <2>1, SameTls DEF UpOk
<1>10. ASSUME NEW s \in Servers, Revives(s) PROVE UNCHANGED <<phase, tls>>
  BY <1>10 DEF Revives
<1>11. CASE \/ \E a \in Starts : Launches(a)
            \/ \E a \in Stops : Signals(a)
            \/ \E a \in Scripts : Otherwise(a)
            \/ Installs \/ UNCHANGED lifeVars
  BY <1>9, <1>11 DEF Launches, Signals, Otherwise, Installs, lifeVars, life
<1>12. CASE Renews
  BY <1>12 DEF Renews, Loaded, vars
<1>13. CASE ReloadsNobody
  <2>1. ASSUME ~torn, NEW s \in Servers, phase[s] \in Up PROVE FALSE
    BY <1>13, <2>1, OneReached DEF ReloadsNobody
  <2> QED BY <1>13, <2>1 DEF ReloadsNobody, Loaded, vars, Up
<1>14. ASSUME NEW s \in Servers, Reloads(s) PROVE Loaded'
  <2>1. ASSUME ~torn, NEW t \in Servers, phase[t] \in Up PROVE t = s
    BY <1>14, <2>1, OneReached DEF Reloads
  <2>2. UNCHANGED <<torn, phase, cert>> /\ phase[s] \in {"starts", "serves"}
        /\ \/ chain' = [chain EXCEPT ![s] = cert] /\ UNCHANGED missed
           \/ missed' = missed \cup {s} /\ UNCHANGED chain
    BY <1>14 DEF Reloads, HasHook, vars
  <2> QED BY <2>1, <2>2 DEF Loaded, UpOk, Up
<1>15. ASSUME NEW s \in Servers, HupWithoutHook(s) PROVE Loaded'
  <2>1. ASSUME ~torn, NEW t \in Servers, phase[t] \in Up PROVE t = s
    BY <1>15, <2>1, OneReached DEF HupWithoutHook
  <2>2. /\ UNCHANGED <<torn, cert, chain>> /\ missed \subseteq missed'
        /\ Enters(s, "hup") \/ Enters(s, phase[s]) \/ UNCHANGED phase
        /\ ~HasHook(s)
        /\ phase'[s] = "hooks" => phase[s] = "hooks" /\ (s \in missed' \/ pc[s] = "left")
    BY <1>15 DEF HupWithoutHook, Die, Enters, scripts, vars, UpOk
  <2> QED BY <2>1, <2>2 DEF Loaded, UpOk, Up, Enters, HasHook
<1> QED BY <1>1, <1>2, <1>3, <1>4, <1>6, <1>7, <1>8, <1>10, <1>9, <1>11, <1>12, <1>13, <1>14,
           <1>15 DEF LifeNext

\* After a reload every server with TLS shows the certificate in the files, for any
\* number of servers, scripts and renewals (_setup_tls, _on_sighup, the reload
\* command of cert-setup.sh).
THEOREM CertCurrentAlways == LifeSpec => []CertCurrent
<1>1. Loaded => CertCurrent
  BY DEF Loaded, CertCurrent
<1> QED BY <1>1, InitUp, NextUp, NextLoaded, LifeImplements, Inductive, IInvOne, PTL DEF LifeSpec

-----------------------------------------------------------------------------
(* What stays down *)

\* Before it has its handler a server has got no SIGTERM that counts as late, and
\* one that a SIGTERM cut had none either.
TermOk ==
    \A s \in Servers : /\ phase[s] \in {"new", "bare", "cut"} => term[s] # "late"
                       /\ phase[s] = "cut" => pc[s] = "gone"

LEMMA SameTerm ==
    ASSUME TermOk, UNCHANGED term,
           \A s \in Servers : phase'[s] \in {"new", "bare", "cut"} =>
               phase[s] \in {"new", "bare", "cut"},
           \A s \in Servers : phase'[s] = "cut" =>
               \/ phase[s] = "cut" /\ (pc[s] = "gone" => pc'[s] = "gone")
               \/ pc'[s] = "gone"
    PROVE  TermOk'
  BY DEF TermOk

\* A process that has gone stays gone.
LEMMA GoneStays ==
    ASSUME UpOk, [Next]_vars, NEW s \in Servers, pc[s] = "gone"
    PROVE  pc'[s] = "gone"
<1>1. CASE \E t \in Servers : ServerNext(t)
  BY <1>1 DEF ServerNext, Open, Lock, Check, Clear, Write, Release, Die, Ends,
     SupervisorStarts, Spawned, UpOk
<1>2. CASE \/ \E a \in Starts : StartReads(a) \/ StartLaunches(a)
           \/ \E a \in Stops : StopReads(a) \/ StopSees(a) \/ StopKills(a) \/ StopCompares(a)
           \/ \E a \in Scripts : Remove(a)
  BY <1>2 DEF StartReads, StartLaunches, StopReads, StopSees, StopKills, StopCompares,
     Remove, Ends, Spawned, UpOk
<1> QED BY <1>1, <1>2 DEF Next, vars

LEMMA NextTerm == IInv /\ UpOk /\ TermOk /\ [LifeNext]_lifeVars => TermOk'
<1> SUFFICES ASSUME IInv, UpOk, TermOk, [LifeNext]_lifeVars PROVE TermOk'
  OBVIOUS
<1>0. \A s \in Servers : pc[s] = "gone" => pc'[s] = "gone"
  BY LifeSteps, GoneStays
<1>1. ASSUME UNCHANGED <<phase, term>> PROVE TermOk'
  BY <1>0, <1>1, SameTerm DEF TermOk
<1>2. ASSUME NEW s \in Servers, Claims(s) \/ Claimed(s) PROVE TermOk'
  <2>1. phase[s] = "new"
    BY <1>2 DEF Claims, Claimed, Open, Lock, Check, Clear, Write, UpOk
  <2>2. UNCHANGED term /\ \E to \in {"bad", "new", "bare"} : Enters(s, to)
    BY <1>2 DEF Claims, Claimed
  <2> QED BY <1>0, <2>1, <2>2, SameTerm DEF Enters, UpOk
<1>3. ASSUME NEW s \in Servers, UNCHANGED term,
             NEW to \in {"waits", "loads", "hooks", "starts", "serves", "ok", "bad", "hup", "dead"},
             Enters(s, to)
      PROVE  TermOk'
  BY <1>0, <1>3, SameTerm DEF Enters, UpOk
<1>4. ASSUME NEW s \in Servers,
             \/ Handles(s) \/ Waits(s) \/ LoadsCert(s) \/ Hooks(s) \/ Serves(s)
             \/ CannotStart(s) \/ ExitsSuccess(s)
      PROVE  TermOk'
  BY <1>3, <1>4 DEF Handles, Waits, LoadsCert, Hooks, Serves, Goes, CannotStart, ExitsSuccess
<1>5. ASSUME NEW s \in Servers, TermCuts(s) PROVE TermOk'
  <2>1. phase[s] = "bare" /\ pc'[s] = "gone" /\ Enters(s, "cut") /\ UNCHANGED term
    BY <1>5 DEF TermCuts, Die, Ends, UpOk
  <2> QED BY <1>0, <2>1, SameTerm DEF Enters, UpOk
<1>6. ASSUME NEW s \in Servers, Enters(s, phase[s]), UNCHANGED term PROVE TermOk'
  <2>1. phase' = phase
    BY <1>6 DEF Enters, UpOk
  <2> QED BY <1>1, <1>6, <2>1
<1>7. ASSUME NEW s \in Servers, Dies(s) \/ HupWithoutHook(s) PROVE TermOk'
  <2>1. /\ UNCHANGED term
        /\ \/ \E to \in {"hup", "dead"} : Enters(s, to)
           \/ Enters(s, phase[s]) \/ UNCHANGED phase
    BY <1>7 DEF Dies, HupWithoutHook
  <2> QED BY <1>1, <1>3, <1>6, <2>1
<1>8. ASSUME NEW a \in Stops, Kills(a) PROVE TermOk'
  BY <1>0, <1>8, SameTerm DEF Kills, Enters, UpOk
<1>9. ASSUME NEW a \in Stops, Signals(a) PROVE TermOk'
  <2>1. UNCHANGED <<phase, pc>>
    BY <1>9 DEF Signals, StopReads
  <2>2. ASSUME NEW s \in Servers, term'[s] = "late", term[s] # "late"
        PROVE  phase[s] \notin {"new", "bare"} /\ pc[s] # "gone"
    <3>1. target'[a] = s /\ spc'[a] = "wait" /\ phase[s] \notin {"new", "bare"}
      BY <1>9, <2>2 DEF Signals
    <3>2. CASE \E t \in Named : Running(t)
      <4>1. \E t \in Named : Running(t) /\ t = text[path]
        BY <3>2 DEF Named
      <4>2. target' = [target EXCEPT ![a] = text[path]]
        BY <1>9, <3>2 DEF Signals, StopReads
      <4> QED BY <2>2, <3>1, <4>1, <4>2 DEF Running, IInv, TypeOK, Scripts
    <3>3. CASE ~\E t \in Named : Running(t)
      <4>1. spc' = [spc EXCEPT ![a] = "rm"]
        BY <1>9, <3>3 DEF Signals, StopReads, ScriptStep
      <4> QED BY <3>1, <4>1 DEF IInv, TypeOK, Scripts
    <3> QED BY <3>1, <3>2, <3>3
  <2> QED BY <2>1, <2>2 DEF TermOk
<1>10. ASSUME NEW s \in Servers, Revives(s) \/ Reloads(s) PROVE TermOk'
  BY <1>1, <1>10 DEF Revives, Reloads
<1>11. CASE \/ \E a \in Starts : Launches(a)
            \/ \E a \in Scripts : Otherwise(a)
            \/ Installs \/ Renews \/ ReloadsNobody \/ UNCHANGED lifeVars
  BY <1>1, <1>11 DEF Launches, Otherwise, Installs, Renews, ReloadsNobody, lifeVars, life
<1> QED BY <1>2, <1>4, <1>5, <1>7, <1>8, <1>9, <1>10, <1>11 DEF LifeNext

UnitOk == unit \in Servers \cup {Nil}

LEMMA NextUnit == UnitOk /\ [LifeNext]_lifeVars => UnitOk'
<1> SUFFICES ASSUME UnitOk, [LifeNext]_lifeVars PROVE UnitOk'
  OBVIOUS
<1>1. ASSUME NEW s \in Servers, Revives(s) PROVE UnitOk'
  BY <1>1 DEF Revives, UnitOk
<1>2. ASSUME NEW a \in Starts, Launches(a) PROVE UnitOk'
  BY <1>2 DEF Launches, UnitOk
<1> QED BY <1>1, <1>2 DEF UnitOk, LifeNext, Claims, Claimed, Handles, Waits, LoadsCert, Hooks,
           Serves, CannotStart, ExitsSuccess, TermCuts, Dies, Goes, Reloads,
           HupWithoutHook, Signals, Kills, Otherwise, Installs, Renews, ReloadsNobody,
           life, service, lifeVars

\* What stop.sh has stopped after its handler was set stays down, for any number
\* of servers and runs of the scripts (main(), _exit_success, the units).
THEOREM StopSticksAlways == LifeSpec => StopSticks
<1>1. LifeInit => TermOk /\ UnitOk
  BY DEF LifeInit, TermOk, UnitOk
<1>2. IInv /\ UpOk /\ TermOk /\ UnitOk /\ [LifeNext]_lifeVars =>
        [unit # Nil /\ unit' # unit /\ spc' = spc /\ term[unit] = "late" =>
            phase[unit] \in {"bad", "hup", "dead"}]_lifeVars
  <2> SUFFICES ASSUME IInv, UpOk, TermOk, UnitOk, LifeNext,
                      unit # Nil, unit' # unit, spc' = spc, term[unit] = "late"
               PROVE  phase[unit] \in {"bad", "hup", "dead"}
    OBVIOUS
  <2>1. ASSUME NEW s \in Servers, Revives(s) PROVE phase[unit] \in {"bad", "hup", "dead"}
    BY <2>1 DEF Revives, Ended, TermOk, UnitOk
  <2>2. ASSUME NEW a \in Starts, Launches(a) PROVE FALSE
    BY <2>2 DEF Launches, StartLaunches, ScriptStep, IInv, TypeOK, Scripts
  <2> QED BY <2>1, <2>2 DEF LifeNext, Claims, Claimed, Handles, Waits, LoadsCert, Hooks,
             Serves, CannotStart, ExitsSuccess, TermCuts, Dies, Goes, Reloads,
             HupWithoutHook, Signals, Kills, Otherwise, Installs, Renews, ReloadsNobody,
             life, service
<1> QED BY <1>1, <1>2, InitUp, NextUp, NextTerm, NextUnit, LifeImplements, Inductive, PTL
       DEF LifeSpec, StopSticks

-----------------------------------------------------------------------------
(* ChildEnd *)

LEMMA InitEnd == EndInit => EndIInv
<1> SUFFICES ASSUME EndInit PROVE EndIInv
  OBVIOUS
<1>1. EndTypeOK
  BY DEF EndInit, EndTypeOK
<1>2. NoZombie /\ \A t \in Terms : Phases(t)
  BY DEF EndInit, NoZombie, Phases
<1> QED BY <1>1, <1>2 DEF EndIInv

\* One round of a poll, from a phase whose sum is right to one whose sum is.
LEMMA PollKeeps ==
    ASSUME EndIInv, ~blocked, UNCHANGED <<tty, exit, blocked>>,
           terminating' \in BOOLEAN, doomed' \in BOOLEAN, killed' \in BOOLEAN,
           killed => killed',
           NEW t \in Terms, NEW ph \in {"hup", "term", "kill"},
           NEW n \in Nat \ {0}, Poll(t, ph, n),
           spent[t] <= TermWait + KillWait,
           child = "runs" =>
             /\ ph = "hup" => spent[t] + n = HupWait
             /\ ph = "term" => spent[t] + n = TermWait
             /\ ph = "kill" => killed' /\ n > 1 /\ spent[t] + n = TermWait + KillWait
    PROVE  EndIInv'
<1> USE WaitAssumption
<1>1. CASE ~alive \/ child # "runs"
  <2>1. /\ child' = "reaped" /\ alive' = FALSE /\ reader' = FALSE
        /\ stage' = [stage EXCEPT ![t] = "done"] /\ UNCHANGED <<left, spent>>
    BY <1>1 DEF Poll, Finish, EndIInv, NoZombie
  <2>2. EndTypeOK'
    BY <2>1 DEF EndIInv, EndTypeOK
  <2>3. NoZombie'
    BY <2>1 DEF NoZombie
  <2>4. ASSUME NEW u \in Terms PROVE Phases(u)'
    BY <2>1 DEF EndIInv, EndTypeOK, Phases
  <2> QED BY <2>2, <2>3, <2>4 DEF EndIInv
<1>2. CASE alive /\ child = "runs"
  <2>1. /\ stage' = [stage EXCEPT ![t] = ph]
        /\ left' = [left EXCEPT ![t] = n - 1]
        /\ spent' = [spent EXCEPT ![t] = spent[t] + 1]
        /\ UNCHANGED <<child, alive, reader>>
    BY <1>2 DEF Poll
  <2>2. EndTypeOK'
    BY <2>1 DEF EndIInv, EndTypeOK
  <2>3. NoZombie'
    BY <1>2, <2>1 DEF EndIInv, EndTypeOK, NoZombie
  <2>4. ASSUME NEW u \in Terms PROVE Phases(u)'
    BY <1>2, <2>1 DEF EndIInv, EndTypeOK, Phases
  <2> QED BY <2>2, <2>3, <2>4 DEF EndIInv
<1> QED BY <1>1, <1>2 DEF EndIInv, EndTypeOK

LEMMA NextEnd == EndIInv /\ [EndNext]_endVars => EndIInv'
<1> SUFFICES ASSUME EndIInv, [EndNext]_endVars PROVE EndIInv'
  OBVIOUS
<1> USE WaitAssumption
<1>1. CASE ChildDies
  BY <1>1 DEF ChildDies, EndIInv, EndTypeOK, NoZombie, Phases
<1>2. CASE TtyCloses
  BY <1>2 DEF TtyCloses, EndIInv, EndTypeOK, NoZombie, Phases
<1>3. CASE Eof
  BY <1>3 DEF Eof, EndIInv, EndTypeOK, NoZombie, Phases
<1>4. CASE HandleExit
  <2>1. EndTypeOK' /\ UNCHANGED <<killed, stage, left, spent>>
    BY <1>4 DEF HandleExit, EndIInv, EndTypeOK
  <2>2. NoZombie'
    BY <1>4 DEF HandleExit, EndIInv, EndTypeOK, NoZombie
  <2> QED BY <2>1, <2>2 DEF EndIInv, Phases
<1>5. CASE Unblock
  BY <1>5 DEF Unblock, EndIInv, EndTypeOK, NoZombie, Phases
<1>6. ASSUME NEW t \in Terms, Terminate(t) PROVE EndIInv'
  <2>1. CASE ~alive
    <3>1. /\ child = "reaped" /\ stage[t] = "idle" /\ stage' = [stage EXCEPT ![t] = "done"]
          /\ UNCHANGED <<child, doomed, killed, alive, terminating, reader, left, spent,
                         tty, exit, blocked>>
      BY <1>6, <2>1 DEF Terminate, EndIInv, NoZombie
    <3>2. EndTypeOK' /\ NoZombie'
      BY <3>1 DEF EndIInv, EndTypeOK, NoZombie
    <3>3. ASSUME NEW u \in Terms PROVE Phases(u)'
      BY <3>1 DEF EndIInv, EndTypeOK, Phases
    <3> QED BY <3>2, <3>3 DEF EndIInv
  <2>2. CASE alive
    <3>1. ~blocked /\ stage[t] = "idle" /\ Signal("HUP") /\ Poll(t, "hup", HupWait)
      BY <1>6, <2>2 DEF Terminate
    <3>2. UNCHANGED <<tty, exit, blocked>> /\ terminating' = TRUE
      BY <1>6, <2>2 DEF Terminate
    <3>3. doomed' \in BOOLEAN /\ killed' \in BOOLEAN /\ (killed => killed')
      BY <3>1 DEF Signal, EndIInv, EndTypeOK
    <3>4. spent[t] = 0
      BY <3>1 DEF EndIInv, Phases
    <3> QED BY <3>1, <3>2, <3>3, <3>4, PollKeeps
  <2> QED BY <2>1, <2>2 DEF EndIInv, EndTypeOK
<1>7. ASSUME NEW t \in Terms, PollAgain(t) PROVE EndIInv'
  <2>1. /\ ~blocked /\ stage[t] \in {"hup", "term", "kill"} /\ left[t] > 0
        /\ Poll(t, stage[t], left[t])
        /\ UNCHANGED <<tty, terminating, exit, blocked, doomed, killed>>
        /\ killed => child # "runs"
    BY <1>7 DEF PollAgain, Awake
  <2>2. /\ left[t] \in Nat \ {0} /\ spent[t] \in Nat
        /\ {doomed, killed, terminating} \subseteq BOOLEAN
    BY <2>1 DEF EndIInv, EndTypeOK
  <2>3. /\ stage[t] = "hup" => spent[t] + left[t] = HupWait
        /\ stage[t] = "term" => spent[t] + left[t] = TermWait
        /\ stage[t] = "kill" => killed /\ spent[t] + left[t] = TermWait + KillWait
    BY DEF EndIInv, Phases
  <2>4. spent[t] <= TermWait + KillWait
    BY <2>1, <2>2, <2>3
  <2> QED BY <2>1, <2>2, <2>3, <2>4, PollKeeps
<1>8. ASSUME NEW t \in Terms, Escalate(t) PROVE EndIInv'
  <2>1. /\ ~blocked /\ left[t] = 0
        /\ UNCHANGED <<tty, terminating, exit, blocked>> /\ terminating \in BOOLEAN
        /\ spent[t] \in Nat
    BY <1>8 DEF Escalate, Awake, EndIInv, EndTypeOK
  <2>2. stage[t] # "kill"
    BY <2>1 DEF EndIInv, Phases
  <2>3. CASE stage[t] = "hup" /\ Signal("TERM") /\ Poll(t, "term", TermWait - HupWait)
    <3>1. doomed' \in BOOLEAN /\ killed' \in BOOLEAN /\ (killed => killed')
      BY <2>3 DEF Signal, EndIInv, EndTypeOK
    <3>2. spent[t] = HupWait
      BY <2>1, <2>3 DEF EndIInv, Phases
    <3> QED BY <2>1, <2>3, <3>1, <3>2, PollKeeps
  <2>4. CASE stage[t] = "term" /\ Signal("KILL") /\ Poll(t, "kill", KillWait)
    <3>1. doomed' \in BOOLEAN /\ killed' = TRUE
      BY <2>4 DEF Signal, EndIInv, EndTypeOK
    <3>2. spent[t] = TermWait
      BY <2>1, <2>4 DEF EndIInv, Phases
    <3> QED BY <2>1, <2>4, <3>1, <3>2, PollKeeps
  <2> QED BY <1>8, <2>2, <2>3, <2>4 DEF Escalate
<1>9. CASE UNCHANGED endVars
  BY <1>9 DEF endVars, EndIInv, EndTypeOK, NoZombie, Phases
<1> QED BY <1>1, <1>2, <1>3, <1>4, <1>5, <1>6, <1>7, <1>8, <1>9 DEF EndNext

\* The invariant holds in every reachable state.
THEOREM EndInductive == EndSpec => []EndIInv
  BY InitEnd, NextEnd, PTL DEF EndSpec

\* No path of _reap, _wait_reaped and _handle_exit leaves a zombie behind, and no
\* terminate() returns before the process is reaped.
THEOREM NoZombieAlways == EndSpec => []NoZombie
<1>1. EndIInv => NoZombie
  BY DEF EndIInv
<1> QED BY <1>1, EndInductive, PTL

\* A terminate() sleeps SIGTERM_WAIT and the wait for SIGKILL at most.
THEOREM BudgetAlways == EndSpec => []Budget
<1>1. EndIInv => Budget
  <2> SUFFICES ASSUME EndIInv, NEW t \in Terms PROVE spent[t] <= TermWait + KillWait
    BY DEF Budget
  <2> QED BY WaitAssumption DEF EndIInv, EndTypeOK, Phases
<1> QED BY <1>1, EndInductive, PTL
=============================================================================
