----------------------------- MODULE ServerLife -----------------------------
(***************************************************************************)
(* The life of a server process around its claim of the PID file: the      *)
(* handlers of its signals, the wait for its address, the certificate and  *)
(* the exit status (main.py), with what goes by them, which is stop.sh,    *)
(* the command that reloads a renewed certificate, and a supervisor that   *)
(* revives a server whose end it takes for a failure.  Each step is one    *)
(* of PidFile or leaves its variables alone.                               *)
(*                                                                         *)
(* A handler of Python runs when it is called.  nohup makes a server that  *)
(* start.sh launches by itself ignore SIGHUP until it has a handler.       *)
(***************************************************************************)
EXTENDS PidFile

CONSTANT MaxCerts   \* bound: renewals of the certificate

ASSUME CertAssumption == MaxCerts \in Nat

VARIABLES
    phase,  \* of a server after its claim, and how it ended: "ok", "bad" (another
            \* exit status), "cut" (SIGTERM), "hup" (SIGHUP) or "dead" (SIGKILL, a crash)
    term,   \* SIGTERM of a server: "none", or sent before ("early") or after
            \* ("late") it had its handler
    unit,   \* the server that launchd or systemd has started last
    installed, \* there is a unit for it
    cert,   \* the certificate in the files
    chain,  \* that of the context of a server; -1 without TLS
    due,    \* acme.sh has still to run its reload command
    missed  \* history: servers that a reload did not change

service == <<unit, installed>>
tls == <<cert, chain, due, missed>>
life == <<phase, term, service, tls>>
lifeVars == <<vars, life>>

Ended == {"ok", "bad", "cut", "hup", "dead"}

LifeTypeOK ==
    /\ phase \in [Servers -> {"new", "bare", "waits", "loads", "hooks", "starts",
                              "serves"} \cup Ended]
    /\ term \in [Servers -> {"none", "early", "late"}]
    /\ unit \in Servers \cup {Nil} /\ installed \in BOOLEAN
    /\ cert \in 0..MaxCerts /\ chain \in [Servers -> -1..MaxCerts]
    /\ due \in BOOLEAN /\ missed \subseteq Servers

LifeInit ==
    /\ Init
    /\ phase = [s \in Servers |-> "new"] /\ term = [s \in Servers |-> "none"]
    /\ unit = Nil /\ installed = FALSE
    /\ cert = 0 /\ chain = [s \in Servers |-> -1] /\ due = FALSE /\ missed = {}

Enters(s, to) == phase' = [phase EXCEPT ![s] = to]

-----------------------------------------------------------------------------
(* main() *)

\* Whoever cannot claim the file exits with EXIT_ALREADY_RUNNING.
Claims(s) ==
    /\ Open(s) \/ Lock(s) \/ Check(s) \/ Clear(s)
    /\ Enters(s, IF pc'[s] = "gone" THEN "bad" ELSE "new")
    /\ UNCHANGED <<term, service, tls>>

Claimed(s) == Write(s) /\ Enters(s, "bare") /\ UNCHANGED <<term, service, tls>>

Goes(s, from, to) == phase[s] = from /\ Enters(s, to) /\ UNCHANGED <<vars, term, service>>

\* The handler of SIGTERM, before the wait for the address.
Handles(s) == term[s] = "none" /\ Goes(s, "bare", "waits") /\ UNCHANGED tls

\* The address is there, or BIND_WAIT_SECONDS are over; on to TLS, or without it.
Waits(s) ==
    \/ Goes(s, "waits", "loads") /\ UNCHANGED tls
    \/ Goes(s, "waits", "starts") /\ UNCHANGED tls

\* _setup_tls: the certificate first, the handler of SIGHUP after it.
LoadsCert(s) ==
    /\ Goes(s, "loads", "hooks")
    /\ chain' = [chain EXCEPT ![s] = cert] /\ UNCHANGED <<cert, due, missed>>

Hooks(s) == Goes(s, "hooks", "starts") /\ UNCHANGED tls

Serves(s) == Goes(s, "starts", "serves") /\ UNCHANGED tls

\* The certificate cannot be read, or the address or port not be bound: exit,
\* with the release of the PID file.  A SIGTERM that uvicorn keeps for the end
\* of its serving is lost with that.
CannotStart(s) ==
    /\ phase[s] \in {"loads", "starts"}
    /\ phase[s] = "loads" => term[s] = "none"
    /\ Release(s) /\ Enters(s, "bad")
    /\ UNCHANGED <<term, service, tls>>

\* Mutant: uvicorn raises the signal again, and nobody handles it.
ExitsBySignal(s) ==
    /\ term[s] # "none" /\ phase[s] \in {"waits", "loads", "hooks", "starts", "serves"}
    /\ Release(s) /\ Enters(s, "cut")
    /\ UNCHANGED <<term, service, tls>>

\* _exit_success, at once or, when uvicorn serves, after its shutdown.
ExitsSuccess(s) ==
    /\ term[s] # "none" /\ phase[s] \in {"waits", "loads", "hooks", "starts", "serves"}
    /\ Release(s) /\ Enters(s, "ok")
    /\ UNCHANGED <<term, service, tls>>

\* Without a handler.
TermCuts(s) ==
    /\ term[s] # "none" /\ phase[s] = "bare"
    /\ Die(s) /\ Enters(s, "cut")
    /\ UNCHANGED <<term, service, tls>>

\* The last of an exit, or a crash.
Dies(s) ==
    /\ Die(s) /\ Enters(s, IF pc[s] = "left" THEN phase[s] ELSE "dead")
    /\ UNCHANGED <<term, service, tls>>

-----------------------------------------------------------------------------
(* The unit and the scripts *)

\* install-launchd.sh or install-systemd.sh.
Installs ==
    /\ Supervised /\ ~installed
    /\ installed' = TRUE
    /\ UNCHANGED <<vars, phase, term, unit, tls>>

\* Mutant: whatever the exit status (KeepAlive true, Restart=always).
RevivesAlways(s) ==
    /\ installed /\ SupervisorStarts(s)
    /\ unit # Nil => pc[unit] = "gone"
    /\ unit' = s
    /\ UNCHANGED <<phase, term, installed, tls>>

\* RunAtLoad, and KeepAlive without SuccessfulExit or Restart=on-failure.  (For
\* systemd an end by SIGTERM or SIGHUP is no failure.)
Revives(s) ==
    /\ installed /\ SupervisorStarts(s)
    /\ unit # Nil => pc[unit] = "gone" /\ phase[unit] \in Ended \ {"ok"}
    /\ unit' = s
    /\ UNCHANGED <<phase, term, installed, tls>>

\* start.sh: by the unit if there is one, which may have run and ended before.
Launches(a) ==
    /\ StartLaunches(a)
    /\ IF installed
       THEN /\ unit # Nil => pc[unit] = "gone"
            /\ \E s \in Servers : pc'[s] # pc[s] /\ unit' = s
       ELSE UNCHANGED unit
    /\ UNCHANGED <<phase, term, installed, tls>>

\* SIGTERM to the server that the file names.
Signals(a) ==
    /\ StopReads(a)
    /\ term' = [s \in Servers |->
         IF spc'[a] = "wait" /\ target'[a] = s /\ term[s] = "none"
         THEN IF phase[s] \in {"new", "bare"} THEN "early" ELSE "late"
         ELSE term[s]]
    /\ UNCHANGED <<phase, service, tls>>

Kills(a) ==
    /\ StopKills(a) /\ Enters(target[a], "dead")
    /\ UNCHANGED <<term, service, tls>>

Otherwise(a) ==
    /\ \/ a \in Starts /\ StartReads(a)
       \/ a \in Stops /\ (StopSees(a) \/ StopCompares(a))
       \/ Remove(a)
    /\ UNCHANGED life

-----------------------------------------------------------------------------
(* The certificate *)

\* acme.sh installs a new one and will run its reload command.
Renews ==
    /\ ~due /\ cert < MaxCerts
    /\ cert' = cert + 1 /\ due' = TRUE
    /\ UNCHANGED <<vars, phase, term, service, chain, missed>>

\* kill -HUP finds nobody.
ReloadsNobody ==
    /\ due /\ due' = FALSE
    /\ \A s \in Named : ~Running(s)
    /\ UNCHANGED <<vars, phase, term, service, cert, chain, missed>>

HasHook(s) == chain[s] >= 0 /\ phase[s] \in {"starts", "serves"}

\* Mutant: the certificate goes to a new context.
ReloadsElsewhere(s) ==
    /\ due /\ due' = FALSE
    /\ s \in Named /\ Running(s) /\ HasHook(s)
    /\ UNCHANGED <<vars, phase, term, service, cert, chain, missed>>

\* _on_sighup: the same context, with the new certificate or, if the files are
\* broken, with the old one.
Reloads(s) ==
    /\ due /\ due' = FALSE
    /\ s \in Named /\ Running(s) /\ HasHook(s)
    /\ \/ chain' = [chain EXCEPT ![s] = cert] /\ UNCHANGED missed
       \/ missed' = missed \cup {s} /\ UNCHANGED chain
    /\ UNCHANGED <<vars, phase, term, service, cert>>

\* Without the handler: nohup, or the default action.
HupWithoutHook(s) ==
    /\ due /\ due' = FALSE
    /\ s \in Named /\ Running(s) /\ ~HasHook(s)
    /\ IF s = unit
       THEN Die(s) /\ Enters(s, IF pc[s] = "left" THEN phase[s] ELSE "hup") /\ UNCHANGED missed
       ELSE /\ missed' = IF phase[s] = "hooks" THEN missed \cup {s} ELSE missed
            /\ UNCHANGED <<vars, phase>>
    /\ UNCHANGED <<term, service, cert, chain>>

-----------------------------------------------------------------------------
LifeNext ==
    \/ \E s \in Servers :
         \/ Claims(s) \/ Claimed(s) \/ Handles(s) \/ Waits(s) \/ LoadsCert(s) \/ Hooks(s)
         \/ Serves(s) \/ CannotStart(s) \/ ExitsSuccess(s) \/ TermCuts(s) \/ Dies(s)
         \/ Revives(s) \/ Reloads(s) \/ HupWithoutHook(s)
    \/ \E a \in Starts : Launches(a)
    \/ \E a \in Stops : Signals(a) \/ Kills(a)
    \/ \E a \in Scripts : Otherwise(a)
    \/ Installs \/ Renews \/ ReloadsNobody

LifeSpec == LifeInit /\ [][LifeNext]_lifeVars

-----------------------------------------------------------------------------
(* Properties *)

\* What stop.sh has stopped stays down: no supervisor revives a server that got
\* its SIGTERM while it waited for its address or later ("종료 코드 0으로 끝나야 감시자가
\* 곧바로 되살리지 않는다", main.py:825), unless it could not bind, or a crash, the SIGKILL after
\* twenty seconds or a SIGHUP came first.
StopSticks ==
    [][unit # Nil /\ unit' # unit /\ spc' = spc /\ term[unit] = "late" =>
          phase[unit] \in {"bad", "hup", "dead"}]_lifeVars

\* Once the reload command has run, every server with TLS shows the certificate in
\* the files, whoever started it and whenever, as long as no script removed the
\* PID file of a server; unless it could not read them, or the signal was ignored
\* in the moment between load_cert_chain and signal.signal.
CertCurrent ==
    ~torn /\ ~due =>
        \A s \in Servers : phase[s] = "serves" /\ chain[s] >= 0 =>
            chain[s] = cert \/ s \in missed
=============================================================================
