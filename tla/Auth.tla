-------------------------------- MODULE Auth --------------------------------
(***************************************************************************)
(* AuthManager (auth.py): tokens that expire, are pushed out by newer ones *)
(* or revoked by a logout, and the WebSockets that were opened with them,  *)
(* each with a watchdog task.  All watchdogs wait for one event,           *)
(* _tokens_changed, which the first of them to wake clears.                *)
(*                                                                         *)
(* Tokens are numbered in the order they are issued, which is the order of *)
(* the OrderedDict.  The loop takes no time for what is ready; the close   *)
(* of a socket takes as long as it likes (Outbound bounds it).  Time is    *)
(* relative: the age of a token, and how long a watchdog has yet to wait.  *)
(***************************************************************************)
EXTENDS Integers, FiniteSetsExt

CONSTANTS Socks,     \* WebSockets of both routes, each used once
          MaxTokens, \* MAX_TOKENS
          TTL,       \* AUTH_TOKEN_TTL
          Interval,  \* AUTH_RECHECK_INTERVAL
          MaxLogins, \* bound: tokens issued
          None

ASSUME SizeAssumption == MaxTokens \in Nat \ {0}
ASSUME TimeAssumption == TTL \in Nat \ {0} /\ Interval \in Nat \ {0}
ASSUME BoundAssumption == MaxLogins \in Nat
ASSUME NoneAssumption == None \notin Socks /\ None \notin Nat

VARIABLES
    last,    \* tokens issued so far
    age,     \* time since each was issued, up to TTL
    valid,   \* _valid_tokens
    changed, \* _tokens_changed
    conn,    \* each socket: "new", "admitted" (its route has checked the
             \* token), "open" (registered), "closing" or "closed"
    cookie,  \* the token it came with
    reg,     \* _ws_tokens
    watch,   \* its watchdog: "none", "waits", "woken" or "closes"
    left,    \* what is left of its time-out
    victims, \* of the logout of each token: sockets it has still to close
    busy,    \* and the one it is closing, or None
    over,    \* history: how long each socket has been open without a valid token
    evicted  \* history: sockets whose token was removed under them, otherwise
             \* than by a logout

logouts == <<victims, busy>>
vars == <<last, age, valid, changed, conn, cookie, reg, watch, left, logouts, over,
          evicted>>

Token == 1..MaxLogins

TypeOK ==
    /\ last \in 0..MaxLogins /\ age \in [Token -> 0..TTL]
    /\ valid \subseteq 1..last
    /\ changed \in BOOLEAN
    /\ conn \in [Socks -> {"new", "admitted", "open", "closing", "closed"}]
    /\ cookie \in [Socks -> Token \cup {None}]
    /\ reg \subseteq Socks /\ evicted \subseteq Socks
    /\ watch \in [Socks -> {"none", "waits", "woken", "closes"}]
    /\ left \in [Socks -> 0..Interval] /\ over \in [Socks -> Nat]
    /\ victims \in [Token -> SUBSET Socks]
    /\ busy \in [Token -> Socks \cup {None}]

Init ==
    /\ last = 0 /\ valid = {} /\ changed = FALSE
    /\ age = [k \in Token |-> 0]
    /\ conn = [w \in Socks |-> "new"] /\ cookie = [w \in Socks |-> None]
    /\ reg = {} /\ evicted = {}
    /\ watch = [w \in Socks |-> "none"]
    /\ left = [w \in Socks |-> 0] /\ over = [w \in Socks |-> 0]
    /\ victims = [k \in Token |-> {}] /\ busy = [k \in Token |-> None]

-----------------------------------------------------------------------------
(* The store of tokens *)

Expired(k) == age[k] >= TTL

\* _key_valid
KeyValid(k) == k \in valid /\ ~Expired(k)

\* What _key_valid deletes on its way.
Stale(k) == IF k \in valid /\ Expired(k) THEN {k} ELSE {}

\* Mutant: nobody is told.
WokenNever(gone) == watch

\* _tokens_changed.set() wakes every watchdog that waits.
Woken(gone) ==
    [w \in Socks |-> IF watch[w] = "waits" /\ gone # {} THEN "woken" ELSE watch[w]]

\* The sockets that are to go with the tokens.
Evicted(gone) ==
    evicted' = evicted \cup {w \in reg : cookie[w] \in gone /\ conn[w] = "open"}

\* Mutant: the newest go.
ExcessNewest(kept) == IF Cardinality(kept) > MaxTokens THEN {Max(kept)} ELSE {}

\* The oldest tokens go if there are too many.
Excess(kept) == IF Cardinality(kept) > MaxTokens THEN {Min(kept)} ELSE {}

\* _issue_token, after a login that succeeded.
Login ==
    LET k == last + 1
        purged == {j \in valid : Expired(j)}
        kept == (valid \ purged) \cup {k}
        gone == purged \cup Excess(kept)
    IN /\ last < MaxLogins
       /\ last' = k
       /\ valid' = kept \ Excess(kept)
       /\ changed' = (changed \/ gone # {})
       /\ watch' = Woken(gone)
       /\ Evicted(gone)
       /\ age' = [age EXCEPT ![k] = 0]
       /\ UNCHANGED <<conn, cookie, reg, left, logouts, over>>

\* is_authed, in a request of HTTP or at the start of a route.
IsAuthed(k) ==
    /\ k \in 1..last
    /\ valid' = valid \ Stale(k)
    /\ changed' = (changed \/ Stale(k) # {})
    /\ watch' = Woken(Stale(k))
    /\ Evicted(Stale(k))

Request(k) ==
    /\ IsAuthed(k)
    /\ UNCHANGED <<last, age, conn, cookie, reg, left, logouts, over>>

-----------------------------------------------------------------------------
(* The routes of the WebSockets *)

Admit(w, k) ==
    /\ conn[w] = "new"
    /\ IsAuthed(k)
    /\ conn' = [conn EXCEPT ![w] = IF KeyValid(k) THEN "admitted" ELSE "closed"]
    /\ cookie' = [cookie EXCEPT ![w] = k]
    /\ UNCHANGED <<last, age, reg, left, logouts, over>>

\* The terminal's route has waited for its key, asked for histories and
\* attached; then register_socket.  The watchdog begins to wait a turn of the
\* loop later: one that is awake already may have cleared the event by then.
Register(w) ==
    /\ conn[w] = "admitted"
    /\ conn' = [conn EXCEPT ![w] = "open"]
    /\ reg' = reg \cup {w}
    /\ left' = [left EXCEPT ![w] = Interval]
    /\ \/ changed /\ watch' = [watch EXCEPT ![w] = "woken"]
       \/ /\ ~changed \/ \E v \in Socks : watch[v] = "woken"
          /\ watch' = [watch EXCEPT ![w] = "waits"]
    /\ UNCHANGED <<last, age, valid, changed, cookie, logouts, over, evicted>>

\* The browser leaves, or the route fails before it registers.
Leave(w) ==
    /\ conn[w] \in {"admitted", "open"}
    /\ conn' = [conn EXCEPT ![w] = "closed"]
    /\ UNCHANGED <<last, age, valid, changed, cookie, reg, watch, left, logouts, over,
                   evicted>>

\* The end of the route: unregister_socket cancels the watchdog.
Unregister(w) ==
    /\ w \in reg /\ conn[w] = "closed"
    /\ reg' = reg \ {w}
    /\ watch' = [watch EXCEPT ![w] = "none"]
    /\ left' = [left EXCEPT ![w] = 0] /\ over' = [over EXCEPT ![w] = 0]
    /\ UNCHANGED <<last, age, valid, changed, conn, cookie, logouts,
                   evicted>>

\* _close_unauthed: what somebody closes already raises an exception, which is
\* swallowed.
CloseUnauthed(w) == conn' = [conn EXCEPT ![w] = IF @ = "open" THEN "closing" ELSE @]

\* A close that has begun is over.
CloseDone(w) ==
    /\ conn[w] = "closing"
    /\ conn' = [conn EXCEPT ![w] = "closed"]
    /\ UNCHANGED <<last, age, valid, changed, cookie, reg, watch, left, logouts, over,
                   evicted>>

-----------------------------------------------------------------------------
(* The watchdogs *)

\* The event is set, or the wait has timed out.
Rings(w) ==
    /\ w \in reg
    /\ \/ watch[w] = "woken"
       \/ watch[w] = "waits" /\ left[w] = 0

\* One that was woken clears the event.
Cleared(w) == changed /\ watch[w] # "woken"

\* Mutant: the look at the token is left to the time-out.
WaitsAgainIdly(w) ==
    /\ Rings(w)
    /\ changed' = Cleared(w)
    /\ watch' = [watch EXCEPT ![w] = "waits"]
    /\ left' = [left EXCEPT ![w] = Interval]
    /\ UNCHANGED <<last, age, valid, conn, cookie, reg, logouts, over, evicted>>

\* Its token is valid: it waits again.
WaitsAgain(w) ==
    /\ Rings(w)
    /\ KeyValid(cookie[w])
    /\ changed' = Cleared(w)
    /\ watch' = [watch EXCEPT ![w] = IF Cleared(w) THEN "woken" ELSE "waits"]
    /\ left' = [left EXCEPT ![w] = Interval]
    /\ UNCHANGED <<last, age, valid, conn, cookie, reg, logouts, over, evicted>>

\* It is not: the watchdog closes its socket.  An expired token is deleted,
\* which sets the event for the others.
Closes(w) ==
    LET gone == Stale(cookie[w]) IN
    /\ Rings(w)
    /\ ~KeyValid(cookie[w])
    /\ valid' = valid \ gone
    /\ changed' = (Cleared(w) \/ gone # {})
    /\ watch' = [Woken(gone) EXCEPT ![w] = "closes"]
    /\ Evicted(gone)
    /\ CloseUnauthed(w)
    /\ UNCHANGED <<last, age, cookie, reg, left, logouts, over>>

-----------------------------------------------------------------------------
(* logout *)

\* The token is gone at once; the sockets registered with it are closed one
\* after the other.
Logout(k) ==
    /\ k \in 1..last
    /\ victims[k] = {} /\ busy[k] = None
    /\ valid' = valid \ {k}
    /\ victims' = [victims EXCEPT ![k] = {w \in reg : cookie[w] = k}]
    /\ UNCHANGED <<last, age, changed, conn, cookie, reg, watch, left, busy,
                   over, evicted>>

\* Mutant: it is content with the first.
LogoutClosesFirst(k) ==
    /\ busy[k] = None
    /\ \E w \in victims[k] :
         /\ victims' = [victims EXCEPT ![k] = {}]
         /\ busy' = [busy EXCEPT ![k] = w]
         /\ CloseUnauthed(w)
    /\ UNCHANGED <<last, age, valid, changed, cookie, reg, watch, left, over, evicted>>

LogoutCloses(k) ==
    /\ busy[k] = None
    /\ \E w \in victims[k] :
         /\ victims' = [victims EXCEPT ![k] = @ \ {w}]
         /\ busy' = [busy EXCEPT ![k] = w]
         /\ CloseUnauthed(w)
    /\ UNCHANGED <<last, age, valid, changed, cookie, reg, watch, left, over, evicted>>

\* The close is over, or the watchdog's own came before it.
LogoutGoesOn(k) ==
    /\ busy[k] # None
    /\ conn[busy[k]] = "closed" \/ watch[busy[k]] = "closes"
    /\ busy' = [busy EXCEPT ![k] = None]
    /\ UNCHANGED <<last, age, valid, changed, conn, cookie, reg, watch, left,
                   victims, over, evicted>>

-----------------------------------------------------------------------------
\* Time does not pass while a watchdog has something to do.
Tick ==
    /\ \A w \in Socks : ~Rings(w)
    /\ age' = [k \in Token |-> IF k \in valid /\ ~Expired(k) THEN age[k] + 1 ELSE age[k]]
    /\ left' = [w \in Socks |-> IF watch[w] = "waits" THEN left[w] - 1 ELSE left[w]]
    /\ over' = [w \in Socks |->
         IF w \in reg /\ conn[w] = "open" /\ ~KeyValid(cookie[w]) THEN over[w] + 1
         ELSE over[w]]
    /\ UNCHANGED <<last, valid, changed, conn, cookie, reg, watch, logouts, evicted>>

Next ==
    \/ Tick \/ Login
    \/ \E k \in Token : Request(k) \/ Logout(k) \/ LogoutCloses(k) \/ LogoutGoesOn(k)
    \/ \E w \in Socks : \/ \E k \in Token : Admit(w, k)
                        \/ Register(w) \/ Leave(w) \/ Unregister(w)
                        \/ CloseDone(w) \/ WaitsAgain(w) \/ Closes(w)

Spec == Init /\ [][Next]_vars

\* The loop runs what is ready, and a close that has begun ends.
FairSpec ==
    /\ Spec
    /\ \A w \in Socks : WF_vars(Closes(w)) /\ WF_vars(CloseDone(w))
    /\ \A k \in Token : WF_vars(LogoutCloses(k)) /\ WF_vars(LogoutGoesOn(k))

-----------------------------------------------------------------------------
(* Properties *)

\* No socket stays open for more than AUTH_RECHECK_INTERVAL after its token was
\* revoked, pushed out or has expired (or after its registration if that came
\* later): also if the logout missed it, or another watchdog cleared the event.
NoOverstay == \A w \in reg : conn[w] = "open" => over[w] <= Interval

\* A token that is pushed out or found to have expired takes the sockets opened
\* with it along at once, and not with the next time-out ("인증 watchdog이 즉시
\* 깨어 열린 WebSocket을 4401로 닫는다", CHANGELOG.md:33): when all who were woken
\* have run, none of those sockets is open.
EvictedAtOnce == (\A w \in Socks : ~Rings(w)) => \A w \in evicted : conn[w] # "open"

\* What the two are proved from: an open socket has a watchdog that waits or is
\* awake, and what it has yet to wait makes up for what the token is late.
Watched(w) ==
    /\ w \in reg /\ cookie[w] \in 1..last
    /\ watch[w] \in {"waits", "woken"}
    /\ KeyValid(cookie[w]) => over[w] = 0
    /\ watch[w] = "waits" => over[w] + left[w] <= Interval
    /\ over[w] <= Interval
    /\ w \in evicted => watch[w] = "woken" /\ cookie[w] \notin valid

IInv ==
    /\ TypeOK
    /\ \A w \in Socks :
         /\ w \notin reg => watch[w] = "none" /\ over[w] = 0
         /\ conn[w] \in {"new", "admitted"} => w \notin reg /\ w \notin evicted
         /\ conn[w] = "admitted" => cookie[w] \in 1..last
         /\ conn[w] = "open" => Watched(w)

\* A login counts, and costs no other one before its time: what is removed has
\* expired, was revoked, or as many newer tokens as fit are kept, and no more
\* than those (MAX_TOKENS).
NoLoginLost ==
    [][/\ last' # last => last' \in valid'
       /\ Cardinality(valid') <= MaxTokens
       /\ \A k \in valid \ valid' :
             \/ Expired(k) \/ Logout(k)
             \/ Cardinality({j \in valid' : j > k}) = MaxTokens]_vars

\* A logout that has begun comes to its end, and no socket that was registered
\* with its token is open then ("그 토큰으로 열린 소켓을 즉시 닫는다", auth.py:234).
LogoutCompletes ==
    \A k \in Token, w \in Socks : w \in victims[k] ~> conn[w] = "closed"
=============================================================================
