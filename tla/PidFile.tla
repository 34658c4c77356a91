------------------------------ MODULE PidFile ------------------------------
(***************************************************************************)
(* logs/wterm.pid, which is both the address of the server and the lock    *)
(* that keeps a second one away (main.py), and the two scripts that read   *)
(* and remove it (start.sh, stop.sh).  The lock is on an inode, the        *)
(* scripts go by the path.  A process that has ended is not heard of       *)
(* again: its pid is not given to another.                                 *)
(***************************************************************************)
EXTENDS Integers

CONSTANTS Servers,    \* server processes, each with its pid
          Starts,     \* runs of start.sh
          Stops,      \* runs of stop.sh
          Inodes,     \* the file system reuses one that nobody holds
          Nil,
          MaxTries,   \* rounds of the claim
          Supervised  \* launchd or systemd may start a server by itself

Scripts == Starts \cup Stops

ASSUME PidAssumption ==
    /\ Starts \cap Stops = {}
    /\ Nil \notin Servers \cup Inodes
    /\ MaxTries \in Nat \ {0} /\ Supervised \in BOOLEAN

VARIABLES
    path,   \* the inode that PID_FILE names
    text,   \* the pid written in an inode
    lock,   \* who holds the lock of an inode
    pc,     \* where a server is
    fd,     \* the inode it has open
    tries,  \* rounds of its claim so far
    spc,    \* where a script is
    target, \* the pid stop.sh has signalled
    torn    \* a script has removed a file that was claimed

vars == <<path, text, lock, pc, fd, tries, spc, target, torn>>
scripts == <<spc, target, torn>>

TypeOK ==
    /\ path \in Inodes \cup {Nil}
    /\ text \in [Inodes -> Servers \cup {Nil}]
    /\ lock \in [Inodes -> Servers \cup {Nil}]
    /\ pc \in [Servers -> {"off", "open", "lock", "check", "clear", "write", "serve",
                           "left", "gone"}]
    /\ fd \in [Servers -> Inodes \cup {Nil}]
    /\ tries \in [Servers -> 0..MaxTries]
    /\ spc \in [Scripts -> {"idle", "rm", "launch", "wait", "drop", "done"}]
    /\ target \in [Scripts -> Servers \cup {Nil}]
    /\ torn \in BOOLEAN

Init ==
    /\ path = Nil
    /\ text = [i \in Inodes |-> Nil] /\ lock = [i \in Inodes |-> Nil]
    /\ pc = [s \in Servers |-> "off"] /\ fd = [s \in Servers |-> Nil]
    /\ tries = [s \in Servers |-> 0]
    /\ spc = [a \in Scripts |-> "idle"] /\ target = [a \in Scripts |-> Nil]
    /\ torn = FALSE

Running(s) == pc[s] \notin {"off", "gone"}

\* The servers that have passed the claim.
Owners == {s \in Servers : pc[s] \in {"clear", "write", "serve"}}

\* The servers that a reader of the file finds.
Named == IF path = Nil THEN {} ELSE {text[path]} \ {Nil}

-----------------------------------------------------------------------------
(* _claim_pid_file *)

\* open with O_CREAT.
Open(s) ==
    /\ pc[s] = "open"
    /\ pc' = [pc EXCEPT ![s] = "lock"]
    /\ \/ path # Nil
          /\ fd' = [fd EXCEPT ![s] = path]
          /\ UNCHANGED <<path, text>>
       \/ /\ path = Nil
          /\ \E i \in Inodes :
                /\ \A t \in Servers : fd[t] # i
                /\ path' = i
                /\ text' = [text EXCEPT ![i] = Nil]
                /\ fd' = [fd EXCEPT ![s] = i]
    /\ UNCHANGED <<lock, tries, scripts>>

\* The end of a process closes what it had open and frees its lock.
Ends(s) ==
    /\ pc' = [pc EXCEPT ![s] = "gone"]
    /\ fd' = [fd EXCEPT ![s] = Nil]
    /\ lock' = [i \in Inodes |-> IF lock[i] = s THEN Nil ELSE lock[i]]

\* lockf without waiting: whoever finds it taken exits.
Lock(s) ==
    /\ pc[s] = "lock"
    /\ IF lock[fd[s]] # Nil
       THEN Ends(s)
       ELSE /\ lock' = [lock EXCEPT ![fd[s]] = s]
            /\ pc' = [pc EXCEPT ![s] = "check"]
            /\ UNCHANGED fd
    /\ UNCHANGED <<path, text, tries, scripts>>

\* Mutant: the file is locked and never compared with the path.
CheckNothing(s) ==
    /\ pc[s] = "check"
    /\ pc' = [pc EXCEPT ![s] = "clear"]
    /\ UNCHANGED <<path, text, lock, fd, tries, scripts>>

\* Is what is locked still what the path names?  Otherwise close and try again,
\* and give up after the last round.
Check(s) ==
    /\ pc[s] = "check"
    /\ IF path = fd[s]
       THEN /\ pc' = [pc EXCEPT ![s] = "clear"]
            /\ UNCHANGED <<lock, fd, tries>>
       ELSE /\ tries' = [tries EXCEPT ![s] = @ + 1]
            /\ IF tries[s] + 1 = MaxTries
               THEN Ends(s)
               ELSE /\ pc' = [pc EXCEPT ![s] = "open"]
                    /\ fd' = [fd EXCEPT ![s] = Nil]
                    /\ lock' = [lock EXCEPT ![fd[s]] = Nil]
    /\ UNCHANGED <<path, text, scripts>>

\* ftruncate, then write: a reader may come in between.
Clear(s) ==
    /\ pc[s] = "clear"
    /\ pc' = [pc EXCEPT ![s] = "write"]
    /\ text' = [text EXCEPT ![fd[s]] = Nil]
    /\ UNCHANGED <<path, lock, fd, tries, scripts>>

Write(s) ==
    /\ pc[s] = "write"
    /\ pc' = [pc EXCEPT ![s] = "serve"]
    /\ text' = [text EXCEPT ![fd[s]] = s]
    /\ UNCHANGED <<path, lock, fd, tries, scripts>>

-----------------------------------------------------------------------------
(* The end of a server *)

\* _release_pid_file: the comparison reads the descriptor, the unlink goes by
\* the path.  Also at exit, when the port cannot be bound.
Release(s) ==
    /\ pc[s] = "serve"
    /\ pc' = [pc EXCEPT ![s] = "left"]
    /\ path' = IF text[fd[s]] = s THEN Nil ELSE path
    /\ UNCHANGED <<text, lock, fd, tries, scripts>>

\* The process ends: after its release, of a crash or of a signal at any point.
Die(s) ==
    /\ Running(s)
    /\ Ends(s)
    /\ UNCHANGED <<path, text, tries, scripts>>

Spawned(s) ==
    /\ pc[s] = "off"
    /\ pc' = [pc EXCEPT ![s] = "open"]
    /\ UNCHANGED <<path, text, lock, fd, tries>>

\* launchd or systemd starts the server.
SupervisorStarts(s) == Supervised /\ Spawned(s) /\ UNCHANGED scripts

-----------------------------------------------------------------------------
(* The scripts *)

ScriptStep(a, from, to) ==
    /\ spc[a] = from
    /\ spc' = [spc EXCEPT ![a] = to]

\* start.sh: a file with the pid of a process that runs, or go on.
StartReads(a) ==
    /\ ScriptStep(a, "idle",
                  IF \E s \in Named : Running(s) THEN "done" ELSE "rm")
    /\ UNCHANGED <<path, text, lock, pc, fd, tries, target, torn>>

\* rm -f "$PID_FILE", whatever file that is by now.
Remove(a) ==
    /\ ScriptStep(a, "rm", IF a \in Starts THEN "launch" ELSE "done")
    /\ torn' = (torn \/ \E s \in Owners : fd[s] = path)
    /\ path' = Nil
    /\ UNCHANGED <<text, lock, pc, fd, tries, target>>

StartLaunches(a) ==
    /\ ScriptStep(a, "launch", "done")
    /\ \E s \in Servers : Spawned(s)
    /\ UNCHANGED <<target, torn>>

\* stop.sh: signal the process that the file names, or remove the file.
StopReads(a) ==
    /\ IF \E s \in Named : Running(s)
       THEN /\ ScriptStep(a, "idle", "wait")
            /\ target' = [target EXCEPT ![a] = text[path]]
       ELSE /\ ScriptStep(a, "idle", "rm")
            /\ UNCHANGED target
    /\ UNCHANGED <<path, text, lock, pc, fd, tries, torn>>

\* The process has gone within twenty seconds.
StopSees(a) ==
    /\ ScriptStep(a, "wait", "drop")
    /\ ~Running(target[a])
    /\ UNCHANGED <<path, text, lock, pc, fd, tries, target, torn>>

\* It has not: SIGKILL.
StopKills(a) ==
    /\ ScriptStep(a, "wait", "drop")
    /\ Running(target[a]) /\ Ends(target[a])
    /\ UNCHANGED <<path, text, tries, target, torn>>

\* drop_pid_file compares first, and the rm comes after.
StopCompares(a) ==
    /\ ScriptStep(a, "drop", IF target[a] \in Named THEN "rm" ELSE "done")
    /\ UNCHANGED <<path, text, lock, pc, fd, tries, target, torn>>

-----------------------------------------------------------------------------
ServerNext(s) ==
    \/ Open(s) \/ Lock(s) \/ Check(s) \/ Clear(s) \/ Write(s) \/ Release(s) \/ Die(s)
    \/ SupervisorStarts(s)

Next ==
    \/ \E s \in Servers : ServerNext(s)
    \/ \E a \in Starts : StartReads(a) \/ StartLaunches(a)
    \/ \E a \in Stops : StopReads(a) \/ StopSees(a) \/ StopKills(a) \/ StopCompares(a)
    \/ \E a \in Scripts : Remove(a)

Spec == Init /\ [][Next]_vars

-----------------------------------------------------------------------------
(* Properties *)

\* "서버는 하나": at most one process has claimed the file.
OneServer == \A s, t \in Owners : s = t

\* As far as no script removed the file of a server that has claimed it, there
\* is one server whatever else is removed, replaced or reused meanwhile, and
\* stop.sh and the reload of the certificate reach it by the file.
OneUnlessTorn ==
    ~torn => /\ OneServer
             /\ \A s \in Servers : pc[s] = "serve" => path = fd[s] /\ text[path] = s

\* Under the same condition a server on its way out removes no file but its own
\* ("늦게 죽는 이전 프로세스가 새 서버의 pid 파일을 지워버리는 상황을 막기 위한 것", main.py:651).
\* Without it the comparison in _release_pid_file does not help: what it reads is
\* the server's own inode.
ReleasesOwnUnlessTorn ==
    [][torn \/ \A s \in Servers :
                   pc[s] = "serve" /\ pc'[s] = "left" => path = fd[s]]_vars

\* What the proof needs: a lock belongs to who has the file open and has passed
\* lockf, an owner holds the lock of what the path names, and a server that
\* serves has its pid in it.
LockOk ==
    /\ \A i \in Inodes : lock[i] # Nil => /\ fd[lock[i]] = i
                                          /\ pc[lock[i]] \in {"check", "clear", "write",
                                                              "serve", "left"}
    /\ \A s \in Servers :
          /\ pc[s] \in {"lock", "check", "clear", "write", "serve", "left"} => fd[s] # Nil
          /\ pc[s] \in {"check", "clear", "write", "serve", "left"} => lock[fd[s]] = s
          /\ pc[s] = "serve" => text[fd[s]] = s

PathOk == ~torn => \A s \in Owners : path = fd[s]

ScriptOk ==
    \A a \in Scripts : spc[a] = "wait" => a \in Stops /\ target[a] \in Servers

TriesOk ==
    \A s \in Servers :
        pc[s] \in {"off", "open", "lock", "check"} => tries[s] \in 0..(MaxTries - 1)

IInv == TypeOK /\ LockOk /\ PathOk /\ ScriptOk /\ TriesOk
=============================================================================
