------------------------------ MODULE Browser -------------------------------
(***************************************************************************)
(* The connections of one page of the browser (app.js): the WebSocket of   *)
(* each terminal tab and that of the status channel                        *)
(* (project-status.js), with their reconnection, and the login and logout  *)
(* that run beside them.  A handler of an event of the browser is one      *)
(* action; what it does after an await of a fetch is another.              *)
(*                                                                         *)
(* A connection has two slots for sockets: one that is in use and one that *)
(* was closed by the page and whose close event is still to come.  mail is *)
(* what the server has sent over a socket and the page has not handled.    *)
(***************************************************************************)
EXTENDS Integers, Sequences, FiniteSetsExt

CONSTANTS Tabs,        \* pairs of a project and an agent that may get a tab
          Status,      \* the status channel
          MaxAttempts, \* reconnections of a tab in a row, 20 in the code
          MaxLogins,   \* bound: tokens issued
          MaxLosses,   \* bound: connections refused or broken
          None

ASSUME ChannelAssumption == Status \notin Tabs
ASSUME BoundAssumption ==
    MaxAttempts \in Nat /\ MaxLogins \in Nat \ {0} /\ MaxLosses \in Nat
ASSUME NoneAssumption == None \notin Nat

VARIABLES
    \* the page
    open,        \* the tabs that exist
    ws,          \* of each connection: the slot of its socket, or 0
    timer,       \* connections whose reconnectTimer runs
    attempts,    \* reconnectAttempts of a tab
    intentional, \* tabs with intentionalClose
    enabled,     \* of the status channel
    overlay,     \* the login form covers the page
    listed,      \* lastProjects is not empty
    restored,    \* hashRestored
    entering,    \* a login waits for its answer
    leaving,     \* the token a logout was sent with, which waits, or None
    ending,      \* the same of the end of a session (side bar), or None
    \* what is outside it
    sock,        \* of each connection and slot: a socket
    cookie,      \* the token in the cookie, 0 if there is none
    last, valid, \* tokens issued, and those the server accepts
    losses,
    \* history
    told,        \* tabs whose session the server has said to be over, or has
                 \* refused, since they were last opened by hand
    out          \* nobody has logged in since the last logout

page == <<open, ws, timer, attempts, intentional, told>>
form == <<enabled, overlay, listed, restored, entering, leaving, ending, out>>
tokens == <<cookie, last, valid>>
vars == <<page, form, tokens, sock, losses>>

Chan == Tabs \cup {Status}
Slot == {1, 2}
Token == 0..MaxLogins

\* 1000 without an exit message, 1001, 1006 and whatever else is not in the list
\* of onclose are "dropped"; "final" stands for 4000, 4400, 4404, 4408, 4409 and
\* 4410; "unauthed" is 4401.
Code == {"dropped", "final", "unauthed"}
Event == Code \cup {"open", "projects", "exit"}

Socket == [phase : {"free", "connecting", "open", "closed"}, token : Token,
           mail : Seq(Event), server : {"new", "admitted", "gone"}]

Free == [phase |-> "free", token |-> 0, mail |-> <<>>, server |-> "gone"]

TypeOK ==
    /\ open \subseteq Tabs /\ timer \subseteq open \cup {Status}
    /\ ws \in [Chan -> Slot \cup {0}]
    /\ attempts \in [Tabs -> 0..MaxAttempts]
    /\ intentional \subseteq Tabs /\ told \subseteq open
    /\ {enabled, overlay, listed, restored, entering, out} \subseteq BOOLEAN
    /\ {leaving, ending} \subseteq Token \cup {None}
    /\ cookie \in 0..last /\ last \in 1..MaxLogins /\ valid \subseteq 1..last
    /\ losses \in 0..MaxLosses
    /\ sock \in [Chan -> [Slot -> Socket]]

-----------------------------------------------------------------------------
(* What handlers have in common.  They are given the sockets to change. *)

\* The slot the next socket of c gets.
NextSlot(c, s) == Min({n \in Slot : s[c][n].phase = "free"})
CanDial(c) == \E n \in Slot : sock[c][n].phase = "free"

\* new WebSocket(...): the request takes the cookie along.
Dialled(c, s, k) ==
    [s EXCEPT ![c][NextSlot(c, s)] =
        [phase |-> "connecting", token |-> k, mail |-> <<>>, server |-> "new"]]

\* close() of the socket in use: of its events only the close event is to come.
HungUp(c, s) == IF ws[c] = 0 THEN s ELSE [s EXCEPT ![c][ws[c]] = [Free EXCEPT !.phase = "closed"]]

\* connect(tab, mode)
Connect(t, s) ==
    /\ CanDial(t)
    /\ sock' = Dialled(t, HungUp(t, s), cookie)
    /\ ws' = [ws EXCEPT ![t] = NextSlot(t, s)]
    /\ timer' = timer \ {t}
    /\ intentional' = intentional \ {t}

\* openTab: a tab that is not there is created.
Opened(t, s) ==
    /\ Connect(t, s)
    /\ open' = open \cup {t}
    /\ attempts' = [attempts EXCEPT ![t] = IF t \in open THEN @ ELSE 0]
    /\ told' = told \ {t}

\* Mutant: the timer of the tab runs on.
TabsClosedAlone(gone) ==
    /\ open' = open \ gone
    /\ sock' = [c \in Chan |-> IF c \in gone THEN HungUp(c, sock)[c] ELSE sock[c]]
    /\ ws' = [c \in Chan |-> IF c \in gone THEN 0 ELSE ws[c]]
    /\ UNCHANGED timer
    /\ intentional' = intentional \cup gone
    /\ told' = told \ gone

\* closeTab
TabsClosed(gone) ==
    /\ open' = open \ gone
    /\ sock' = [c \in Chan |-> IF c \in gone THEN HungUp(c, sock)[c] ELSE sock[c]]
    /\ ws' = [c \in Chan |-> IF c \in gone THEN 0 ELSE ws[c]]
    /\ timer' = timer \ gone
    /\ intentional' = intentional \cup gone
    /\ told' = told \ gone

\* start() of the status channel at the time of a login: stop(), then connect().
StatusStarted(k) ==
    /\ sock' = Dialled(Status, HungUp(Status, sock), k)
    /\ ws' = [ws EXCEPT ![Status] = NextSlot(Status, sock)]

-----------------------------------------------------------------------------
\* The page has been loaded, with a cookie or without.
Init ==
    /\ open = {} /\ told = {} /\ intentional = {} /\ timer = {}
    /\ attempts = [t \in Tabs |-> 0]
    /\ last = 1 /\ valid = {1} /\ cookie \in {0, 1} /\ losses = 0
    /\ ws = [c \in Chan |-> IF c = Status THEN 1 ELSE 0]
    /\ sock = Dialled(Status, [c \in Chan |-> [n \in Slot |-> Free]], cookie)
    /\ enabled = TRUE /\ overlay = FALSE /\ listed = FALSE /\ restored = FALSE
    /\ entering = FALSE /\ out = FALSE
    /\ leaving = None /\ ending = None

-----------------------------------------------------------------------------
(* The user *)

\* A button of the side bar, which is there when projects are listed.
OpenTab(t) ==
    /\ ~overlay /\ listed
    /\ Opened(t, sock)
    /\ UNCHANGED <<form, tokens, losses>>

CloseTab(t) ==
    /\ ~overlay /\ t \in open
    /\ TabsClosed({t})
    /\ UNCHANGED <<attempts, form, tokens, losses>>

LoginSubmit ==
    /\ overlay /\ ~entering
    /\ entering' = TRUE
    /\ UNCHANGED <<page, enabled, overlay, listed, restored, leaving, ending, out, tokens, sock,
                   losses>>

LoginFails ==
    /\ entering
    /\ entering' = FALSE
    /\ UNCHANGED <<page, enabled, overlay, listed, restored, leaving, ending, out, tokens, sock,
                   losses>>

\* Mutant: a channel that has a socket keeps it.
LoginSucceedsKeeping ==
    /\ entering /\ last < MaxLogins /\ CanDial(Status)
    /\ last' = last + 1 /\ valid' = valid \cup {last'} /\ cookie' = last'
    /\ overlay' = FALSE /\ entering' = FALSE /\ out' = FALSE
    /\ enabled' = TRUE
    /\ timer' = timer \ {Status}
    /\ IF ws[Status] = 0 THEN StatusStarted(last') ELSE UNCHANGED <<sock, ws>>
    /\ UNCHANGED <<open, attempts, intentional, told, listed, restored, leaving, ending, losses>>

\* The answer comes with a new cookie.
LoginSucceeds ==
    /\ entering /\ last < MaxLogins /\ CanDial(Status)
    /\ last' = last + 1 /\ valid' = valid \cup {last'} /\ cookie' = last'
    /\ overlay' = FALSE /\ entering' = FALSE /\ out' = FALSE
    /\ enabled' = TRUE
    /\ timer' = timer \ {Status}
    /\ StatusStarted(last')
    /\ UNCHANGED <<open, attempts, intentional, told, listed, restored, leaving, ending, losses>>

\* stop() of the status channel, and the request.
LogoutClick ==
    /\ ~overlay /\ leaving = None
    /\ leaving' = cookie
    /\ enabled' = FALSE
    /\ timer' = timer \ {Status}
    /\ sock' = HungUp(Status, sock)
    /\ ws' = [ws EXCEPT ![Status] = 0]
    /\ UNCHANGED <<open, attempts, intentional, told, overlay, listed, restored, entering,
                   ending, out, tokens, losses>>

\* Mutant: who could not reach the server may stay.
LogoutReturnsIf ==
    /\ leaving # None
    /\ leaving' = None
    /\ IF leaving \notin valid
       THEN /\ TabsClosed(open)
            /\ cookie' = 0 /\ overlay' = TRUE /\ listed' = FALSE
       ELSE UNCHANGED <<open, ws, timer, intentional, told, sock, cookie, overlay, listed>>
    /\ out' = ~enabled
    /\ UNCHANGED <<attempts, enabled, restored, entering, ending, last, valid, losses>>

\* The answer, which deletes the cookie, or the failure of the request.
LogoutReturns ==
    /\ leaving # None
    /\ leaving' = None
    /\ \/ leaving \notin valid /\ cookie' = 0
       \/ UNCHANGED cookie
    /\ TabsClosed(open)
    /\ listed' = FALSE /\ overlay' = TRUE
    /\ out' = ~enabled
    /\ UNCHANGED <<attempts, enabled, restored, entering, ending, last, valid, losses>>

\* The button that ends a session.  (The server's part is in SessionKey.)
EndClick ==
    /\ ~overlay /\ listed /\ ending = None
    /\ ending' = cookie
    /\ UNCHANGED <<page, enabled, overlay, listed, restored, entering, leaving, out, tokens,
                   sock, losses>>

\* With 401 the login form comes up.
EndReturns ==
    /\ ending # None
    /\ ending' = None
    /\ \/ ending \notin valid /\ overlay' = TRUE
       \/ UNCHANGED overlay
    /\ UNCHANGED <<page, enabled, listed, restored, entering, leaving, out, tokens, sock,
                   losses>>

-----------------------------------------------------------------------------
(* Time-outs *)

\* A tab connects with mode "continue".
TabRetries(t) ==
    /\ t \in timer
    /\ Connect(t, sock)
    /\ UNCHANGED <<open, attempts, told, form, tokens, losses>>

StatusRetries ==
    /\ Status \in timer /\ enabled /\ CanDial(Status)
    /\ timer' = timer \ {Status}
    /\ StatusStarted(cookie)
    /\ UNCHANGED <<open, attempts, intentional, told, form, tokens, losses>>

-----------------------------------------------------------------------------
(* Events of a socket in use *)

Heard(c, n, e) ==
    /\ ws[c] = n /\ sock[c][n].mail # <<>>
    /\ Head(sock[c][n].mail) = e

\* The event has been handled.
Read(c, n) == [sock EXCEPT ![c][n].mail = Tail(@)]

OnOpen(c, n) ==
    /\ Heard(c, n, "open")
    /\ sock' = [Read(c, n) EXCEPT ![c][n].phase = "open"]
    /\ attempts' = IF c = Status THEN attempts ELSE [attempts EXCEPT ![c] = 0]
    /\ UNCHANGED <<open, ws, timer, intentional, told, form, tokens, losses>>

\* Mutant: the message is only shown.
TabExitShown(t, n) ==
    /\ Heard(t, n, "exit")
    /\ sock' = Read(t, n)
    /\ told' = told \cup {t}
    /\ UNCHANGED <<open, ws, timer, attempts, intentional, form, tokens, losses>>

\* onmessage of a tab: {"type": "exit"}.
TabExit(t, n) ==
    /\ Heard(t, n, "exit")
    /\ sock' = Read(t, n)
    /\ intentional' = intentional \cup {t}
    /\ told' = told \cup {t}
    /\ UNCHANGED <<open, ws, timer, attempts, form, tokens, losses>>

\* onclose of a tab.
TabOnClose(t, n) ==
    \E code \in Code :
      /\ Heard(t, n, code)
      /\ sock' = [sock EXCEPT ![t][n] = Free]
      /\ ws' = [ws EXCEPT ![t] = 0]
      /\ IF t \in intentional \/ code # "dropped"
         THEN /\ overlay' = (overlay \/ code = "unauthed")
              /\ told' = IF code = "dropped" THEN told ELSE told \cup {t}
              /\ UNCHANGED <<timer, attempts>>
         ELSE /\ IF attempts[t] < MaxAttempts
                 THEN /\ attempts' = [attempts EXCEPT ![t] = @ + 1]
                      /\ timer' = timer \cup {t}
                 ELSE UNCHANGED <<attempts, timer>>
              /\ UNCHANGED <<overlay, told>>
      /\ UNCHANGED <<open, intentional, enabled, listed, restored, entering, leaving, ending,
                     out, tokens, losses>>

\* restoreFromHash: the tab of location.hash, if there is one and its session is
\* live, is opened.
Restored(s) == \E t \in Tabs : Opened(t, s)

\* applyProjects: with the first list the tab of location.hash may be restored.
StatusProjects(n) ==
    /\ Heard(Status, n, "projects")
    /\ listed' = TRUE /\ restored' = TRUE
    /\ \/ sock' = Read(Status, n) /\ UNCHANGED page
       \/ ~restored /\ Restored(Read(Status, n))
    /\ UNCHANGED <<enabled, overlay, entering, leaving, ending, out, tokens, losses>>

\* Mutant: the number of reconnections is limited, as that of a tab.
StatusOnCloseLimited(n) ==
    \E code \in Code :
      /\ Heard(Status, n, code)
      /\ sock' = [sock EXCEPT ![Status][n] = Free]
      /\ ws' = [ws EXCEPT ![Status] = 0]
      /\ IF code = "unauthed"
         THEN enabled' = FALSE /\ overlay' = TRUE /\ UNCHANGED timer
         ELSE /\ timer' = IF losses <= MaxAttempts THEN timer \cup {Status} ELSE timer
              /\ UNCHANGED <<enabled, overlay>>
      /\ UNCHANGED <<open, attempts, intentional, told, listed, restored, entering,
                     leaving, ending, out, tokens, losses>>

\* onclose of the status channel.
StatusOnClose(n) ==
    \E code \in Code :
      /\ Heard(Status, n, code)
      /\ sock' = [sock EXCEPT ![Status][n] = Free]
      /\ ws' = [ws EXCEPT ![Status] = 0]
      /\ IF code = "unauthed"
         THEN enabled' = FALSE /\ overlay' = TRUE /\ UNCHANGED timer
         ELSE timer' = timer \cup {Status} /\ UNCHANGED <<enabled, overlay>>
      /\ UNCHANGED <<open, attempts, intentional, told, listed, restored, entering,
                     leaving, ending, out, tokens, losses>>

\* Mutant: the handler takes any close event for that of its connection.
StaleCloseTaken(c, n) ==
    /\ sock[c][n].phase = "closed"
    /\ sock' = [sock EXCEPT ![c][n] = Free]
    /\ ws' = [ws EXCEPT ![c] = 0]
    /\ UNCHANGED <<open, timer, attempts, intentional, told, form, tokens, losses>>

\* The close event of a socket the page has closed: another one is in use.
StaleClose(c, n) ==
    /\ sock[c][n].phase = "closed"
    /\ sock' = [sock EXCEPT ![c][n] = Free]
    /\ UNCHANGED <<page, form, tokens, losses>>

-----------------------------------------------------------------------------
(* The server and the network *)

\* The server has sent es, and is from then on as server says.
Sent(c, n, es, server) ==
    LET s == sock[c][n] IN
    [sock EXCEPT ![c][n] = [s EXCEPT !.mail = s.mail \o es, !.server = server]]

\* The routes accept, and then look at the token.
Accept(c, n) ==
    /\ sock[c][n].server = "new"
    /\ IF sock[c][n].token \in valid
       THEN sock' = Sent(c, n, <<"open">>, "admitted")
       ELSE sock' = Sent(c, n, <<"open", "unauthed">>, "gone")
    /\ UNCHANGED <<page, form, tokens, losses>>

\* The end of a terminal: the session exits, is taken over, ends or is refused;
\* or the token is not valid any more.
Says(c, n) ==
    \E es \in {<<"exit", "dropped">>, <<"final">>, <<"unauthed">>} :
      /\ sock[c][n].server = "admitted"
      /\ es = <<"unauthed">> \/ c # Status
      /\ es = <<"unauthed">> => sock[c][n].token \notin valid
      /\ sock' = Sent(c, n, es, "gone")
      /\ UNCHANGED <<page, form, tokens, losses>>

SendsProjects(n) ==
    /\ sock[Status][n].server = "admitted"
    /\ \A i \in 1..Len(sock[Status][n].mail) : sock[Status][n].mail[i] # "projects"
    /\ sock' = Sent(Status, n, <<"projects">>, "admitted")
    /\ UNCHANGED <<page, form, tokens, losses>>

\* The handshake is refused, the server goes down or the network fails: some of
\* what was on its way is lost.
Breaks(c, n) ==
    /\ losses < MaxLosses /\ losses' = losses + 1
    /\ sock[c][n].phase \in {"connecting", "open"}
    /\ LET s == sock[c][n] IN
       \E k \in 0..Len(s.mail) :
         /\ \A i \in 1..k : s.mail[i] \notin Code
         /\ sock' = [sock EXCEPT ![c][n] =
               [s EXCEPT !.mail = SubSeq(s.mail, 1, k) \o <<"dropped">>, !.server = "gone"]]
    /\ UNCHANGED <<page, form, tokens>>

\* A token expires, is pushed out, or revoked by the logout that waits.
Expires(k) ==
    /\ k \in valid
    /\ valid' = valid \ {k}
    /\ UNCHANGED <<page, form, cookie, last, sock, losses>>

Next ==
    \/ LoginSubmit \/ LoginFails \/ LoginSucceeds \/ LogoutClick \/ LogoutReturns
    \/ EndClick \/ EndReturns \/ StatusRetries
    \/ \E t \in Tabs : OpenTab(t) \/ CloseTab(t) \/ TabRetries(t)
    \/ \E n \in Slot :
         \/ StatusProjects(n) \/ StatusOnClose(n) \/ SendsProjects(n)
         \/ \E t \in Tabs : TabExit(t, n) \/ TabOnClose(t, n)
         \/ \E c \in Chan : OnOpen(c, n) \/ StaleClose(c, n) \/ Accept(c, n) \/ Says(c, n)
                            \/ Breaks(c, n)
    \/ \E k \in Token : Expires(k)

Spec == Init /\ [][Next]_vars

\* The browser delivers events and fires timers, and a server that is up answers.
FairSpec ==
    /\ Spec
    /\ WF_vars(StatusRetries)
    /\ \A n \in Slot :
         /\ WF_vars(StatusOnClose(n)) /\ WF_vars(StatusProjects(n))
         /\ WF_vars(OnOpen(Status, n)) /\ WF_vars(Accept(Status, n))

-----------------------------------------------------------------------------
(* Properties *)

\* A tab that is open, or the channel.
InUse(c) == c \in open \/ (c = Status /\ enabled)

\* Every connection that lives or is to be made belongs to a tab that is open or
\* to the channel in use, and it is the only one there: two would throw each
\* other out (4000), and one without a tab would hold a session for ever.
NoOrphans ==
    \A c \in Chan :
      /\ \A n \in Slot :
           sock[c][n].phase \in {"connecting", "open"} =>
             ws[c] = n /\ c \notin timer /\ InUse(c)
      /\ c \in timer => ws[c] = 0 /\ InUse(c)

\* A tab does not come back by itself to a session of which the server has told
\* it that it ended, was taken over or is refused ("4408(...)·4409(...)에서
\* 재연결하면 방금 정리한 세션이 곧바로 다시 뜬다", app.js:1107).
NoReturn ==
    \A t \in told : t \notin timer /\ (ws[t] # 0 => sock[t][ws[t]].server = "gone")

\* After a logout the page has no connection and makes none until someone logs
\* in ("로그아웃은 이 브라우저의 접근을 끊는 것이므로", app.js:134).
LoggedOutIsQuiet ==
    out => /\ ~enabled /\ timer = {} /\ open = {}
           /\ \A c \in Chan, n \in Slot : sock[c][n].phase \in {"free", "closed"}

\* A page that is not locked gets its updates, or is about to.
NeverStranded ==
    ~overlay /\ leaving = None => enabled /\ (ws[Status] # 0 \/ Status \in timer)

\* The status channel never locks a page that has a valid token, whatever its
\* earlier sockets still had to say ("그것을 재사용하면 새 로그인이 곧바로 다시
\* 잠기므로 항상 교체한다", project-status.js:69).
StatusKeepsLogin ==
    [][\A n \in Slot : StatusOnClose(n) /\ overlay' /\ ~overlay => cookie \notin valid]_vars

\* The same of the whole page.
LoginStays ==
    [][overlay' /\ ~overlay => cookie \notin valid \/ leaving # None]_vars

\* However often the connection was lost, the channel comes back as long as the
\* page is not locked ("서버 재시작처럼 오래 끊겨도 새로고침 없이 돌아온다",
\* project-status.js:58).
StatusComesBack ==
    []<>(enabled => ws[Status] # 0 /\ sock[Status][ws[Status]].phase = "open")
=============================================================================
