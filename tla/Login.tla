------------------------------- MODULE Login --------------------------------
(***************************************************************************)
(* What a peer reaches before it has a token: the login, with the delays   *)
(* of addresses whose logins failed and the few slots for the expensive    *)
(* verification (auth.py), and the audit lines of refused WebSockets,      *)
(* which are folded (audit.py).  Both keep an ordered dictionary of        *)
(* bounded size, whose oldest entry goes first, and both go by the clock.  *)
(*                                                                         *)
(* Time is relative: what is left of a delay (negative: how long ago it    *)
(* ended) and of a window.  A success is also a Login of module Auth.      *)
(***************************************************************************)
EXTENDS Integers, SequencesExt

CONSTANTS Addrs,       \* addresses of peers; all are one behind a proxy or a UDS
          Reqs,        \* requests of /api/login in progress
          Free,        \* LOGIN_FREE_ATTEMPTS
          MaxDelay,    \* LOGIN_BACKOFF_MAX
          MaxExponent, \* the first n for which 2.0 ** n raises OverflowError
          Decay,       \* LOGIN_FAIL_DECAY
          Limit,       \* LOGIN_BUCKET_LIMIT
          Slots,       \* LOGIN_MAX_CONCURRENT
          Refused,     \* pairs of an address and a reason
          Window,      \* AUDIT_THROTTLE_WINDOW
          Shelf,       \* AUDIT_THROTTLE_KEYS
          MaxHeld,     \* bound: rejections folded into one line
          None

ASSUME DelayAssumption == /\ Free \in Nat /\ Decay \in Nat
                          /\ MaxDelay \in Nat \ {0} /\ MaxExponent \in Nat \ {0}
ASSUME SizeAssumption == /\ Limit \in Nat \ {0} /\ Slots \in Nat \ {0}
                         /\ Shelf \in Nat \ {0}
ASSUME WindowAssumption == Window \in Nat \ {0} /\ MaxHeld \in Nat

VARIABLES
    book,   \* _login_fails: its keys, oldest failure first
    fails,  \* the count of each, 0 for those that are not in it
    due,    \* the time until unblock_at
    pc,     \* each request: "idle", "body", "line" or "verify"
    from,   \* and its address
    line,   \* requests that wait for a slot
    recent, \* history: all addresses that have failed, in the order of their last failures
    early,  \* history: requests under way when the delay of their address began
    fold,   \* _throttle: its keys, oldest line first
    win,    \* what is left of the window of each
    held,   \* rejections counted since its last line
    untold  \* history: rejections that no line has told of
            \* (those of an entry that is pushed out go with it)

delays == <<book, fails, due, recent>>
requests == <<pc, from, line>>
throttle == <<fold, win, held, untold>>
vars == <<delays, requests, early, throttle>>

TypeOK ==
    /\ book \in Seq(Addrs) /\ recent \in Seq(Addrs)
    /\ fails \in [Addrs -> 0..(Free + MaxExponent - 1)]
    /\ due \in [Addrs -> (-Decay - 1)..MaxDelay]
    /\ pc \in [Reqs -> {"idle", "body", "line", "verify"}]
    /\ from \in [Reqs -> Addrs \cup {None}] /\ line \in Seq(Reqs) /\ early \subseteq Reqs
    /\ fold \in Seq(Refused) /\ win \in [Refused -> 0..Window]
    /\ held \in [Refused -> 0..MaxHeld] /\ untold \in [Refused -> 0..MaxHeld]

Init ==
    /\ book = <<>> /\ recent = <<>> /\ line = <<>> /\ fold = <<>>
    /\ fails = [a \in Addrs |-> 0] /\ due = [a \in Addrs |-> 0]
    /\ pc = [r \in Reqs |-> "idle"] /\ from = [r \in Reqs |-> None] /\ early = {}
    /\ win = [k \in Refused |-> 0]
    /\ held = [k \in Refused |-> 0] /\ untold = [k \in Refused |-> 0]

\* An ordered dictionary has each key once.
In(dict, k) == \E i \in 1..Len(dict) : dict[i] = k
Place(dict, k) == CHOOSE i \in 1..Len(dict) : dict[i] = k

\* It without k, with k as the newest, and without the oldest if there are too many.
Popped(dict, k) == IF In(dict, k) THEN RemoveAt(dict, Place(dict, k)) ELSE dict
Renewed(dict, k) == Append(Popped(dict, k), k)
Kept(dict, size) == SubSeq(dict, IF Len(dict) > size THEN 2 ELSE 1, Len(dict))

-----------------------------------------------------------------------------
(* The delays *)

\* _login_block_remaining
Blocked(a) == due[a] > 0

\* 2.0 ** n
Power[n \in Nat] == IF n = 0 THEN 1 ELSE 2 * Power[n - 1]

Delay(n) ==
    IF n <= Free THEN 0
    ELSE IF Power[n - Free] <= MaxDelay THEN Power[n - Free] ELSE MaxDelay

\* The failure that is being counted, after the decay.
Nth(a) == 1 + IF due[a] < -Decay THEN 0 ELSE fails[a]

\* pop(key): a success, and an exception before the entry is put back.
Forget(a) ==
    /\ book' = Popped(book, a)
    /\ fails' = [fails EXCEPT ![a] = 0] /\ due' = [due EXCEPT ![a] = 0]

Entered(a, dict) ==
    /\ book' = Kept(dict, Limit)
    /\ fails' = [x \in Addrs |-> IF x = a THEN Nth(a)
                                 ELSE IF In(book', x) THEN fails[x] ELSE 0]
    /\ due' = [x \in Addrs |-> IF x = a THEN Delay(Nth(a))
                               ELSE IF In(book', x) THEN due[x] ELSE 0]

\* Mutant: an entry that is there keeps its place.
RecordInPlace(a) ==
    IF Nth(a) - Free >= MaxExponent THEN Forget(a)
    ELSE Entered(a, IF fails[a] > 0 THEN book ELSE Append(book, a))

\* _record_login_failure: the float overflows before min() is asked.
Record(a) ==
    IF Nth(a) - Free >= MaxExponent THEN Forget(a) ELSE Entered(a, Renewed(book, a))

-----------------------------------------------------------------------------
(* A request *)

\* Mutant: the delay is not looked at.
AdmitAll(r, a) ==
    /\ pc[r] = "idle"
    /\ pc' = [pc EXCEPT ![r] = "body"] /\ from' = [from EXCEPT ![r] = a]
    /\ UNCHANGED <<delays, line, early, throttle>>

\* Origin, length and delay are in order.  (A request that is refused here
\* changes nothing.)
Admit(r, a) ==
    /\ pc[r] = "idle" /\ ~Blocked(a)
    /\ pc' = [pc EXCEPT ![r] = "body"] /\ from' = [from EXCEPT ![r] = a]
    /\ UNCHANGED <<delays, line, early, throttle>>

\* The body has come; a slot, or the end of the line.
GetsBody(r) ==
    /\ pc[r] = "body"
    /\ IF line = <<>> /\ Cardinality({q \in Reqs : pc[q] = "verify"}) < Slots
       THEN pc' = [pc EXCEPT ![r] = "verify"] /\ UNCHANGED line
       ELSE pc' = [pc EXCEPT ![r] = "line"] /\ line' = Append(line, r)
    /\ UNCHANGED <<delays, from, early, throttle>>

\* It is no JSON with a password, or the browser has gone.
BadBody(r) ==
    /\ pc[r] = "body"
    /\ pc' = [pc EXCEPT ![r] = "idle"] /\ from' = [from EXCEPT ![r] = None]
    /\ early' = early \ {r}
    /\ UNCHANGED <<delays, line, throttle>>

\* The verification is over, and its slot goes to the first in the line.
Leaves(r) ==
    /\ pc[r] = "verify"
    /\ pc' = [q \in Reqs |-> IF q = r THEN "idle"
                             ELSE IF line # <<>> /\ q = Head(line) THEN "verify" ELSE pc[q]]
    /\ line' = IF line = <<>> THEN line ELSE Tail(line)
    /\ from' = [from EXCEPT ![r] = None]

\* The password is wrong.
Fails(r) ==
    LET a == from[r] IN
    /\ Leaves(r) /\ Record(a)
    /\ recent' = Renewed(recent, a)
    /\ early' = (early \ {r}) \cup {q \in Reqs \ {r} : from[q] = a /\ due'[a] > 0}
    /\ UNCHANGED throttle

Succeeds(r) ==
    /\ Leaves(r) /\ Forget(from[r])
    /\ early' = early \ {r}
    /\ UNCHANGED <<recent, throttle>>

\* Another exception than those that are caught: the answer is 500.
Raises(r) == Leaves(r) /\ early' = early \ {r} /\ UNCHANGED <<delays, throttle>>

-----------------------------------------------------------------------------
(* The audit of refused WebSockets *)

InWindow(k) == In(fold, k) /\ win[k] > 0

\* Mutant: the line does not tell what was folded.
NewLineAlone(k) ==
    LET now == Kept(Renewed(fold, k), Shelf)
        gone == ToSet(fold) \ ToSet(now)
    IN /\ fold' = now
       /\ win' = [x \in Refused |-> IF x = k THEN Window ELSE IF x \in gone THEN 0 ELSE win[x]]
       /\ held' = [x \in Refused |-> IF x \in gone \cup {k} THEN 0 ELSE held[x]]
       /\ untold' = [x \in Refused |-> IF x \in gone THEN 0 ELSE untold[x]]

\* A line that tells what was folded since the last.  What the oldest entry had
\* still to tell goes with it.
NewLine(k) ==
    LET now == Kept(Renewed(fold, k), Shelf)
        gone == ToSet(fold) \ ToSet(now)
    IN /\ fold' = now
       /\ win' = [x \in Refused |-> IF x = k THEN Window ELSE IF x \in gone THEN 0 ELSE win[x]]
       /\ held' = [x \in Refused |-> IF x \in gone \cup {k} THEN 0 ELSE held[x]]
       /\ untold' = [x \in Refused |-> IF x \in gone THEN 0
                                       ELSE IF x = k THEN untold[x] - held[x] ELSE untold[x]]

\* audit_throttled
Reject(k) ==
    /\ IF InWindow(k)
       THEN /\ held[k] < MaxHeld
            /\ held' = [held EXCEPT ![k] = @ + 1]
            /\ untold' = [untold EXCEPT ![k] = @ + 1]
            /\ UNCHANGED <<fold, win>>
       ELSE NewLine(k)
    /\ UNCHANGED <<delays, requests, early>>

-----------------------------------------------------------------------------
Tick ==
    /\ due' = [a \in Addrs |-> IF fails[a] > 0 /\ due[a] >= -Decay THEN due[a] - 1 ELSE due[a]]
    /\ win' = [k \in Refused |-> IF win[k] > 0 THEN win[k] - 1 ELSE 0]
    /\ <<due', win'>> # <<due, win>>
    /\ UNCHANGED <<book, fails, recent, requests, early, fold, held, untold>>

Next ==
    \/ \E r \in Reqs : \/ \E a \in Addrs : Admit(r, a)
                       \/ GetsBody(r) \/ BadBody(r)
                       \/ Fails(r) \/ Succeeds(r) \/ Raises(r)
    \/ \E k \in Refused : Reject(k)
    \/ Tick

Spec == Init /\ [][Next]_vars

-----------------------------------------------------------------------------
(* Properties *)

\* The check is not made again after the waits for the body and for a slot.  So
\* during a delay requests of its address are verified, but none that came when
\* the delay had begun.
BlockHolds == \A r \in Reqs : pc[r] # "idle" /\ Blocked(from[r]) => r \in early

\* Of the addresses that are remembered, a has not failed for the longest time.
Oldest(a) == \E i \in 1..Len(recent) :
    recent[i] = a /\ \A j \in 1..i-1 : ~In(book, recent[j])

\* Failures are forgotten, and a delay ends, only by a login that succeeds,
\* LOGIN_FAIL_DECAY after the end of the delay, because as many addresses as fit
\* have failed since, or because the float overflows.
NotForgotten ==
    [][\A a \in Addrs :
          fails'[a] < fails[a] \/ (due'[a] < due[a] /\ ~Tick) =>
             \/ \E r \in Reqs : from[r] = a /\ Succeeds(r)
             \/ due[a] < -Decay
             \/ fails[a] + 1 - Free >= MaxExponent
             \/ Len(book) = Limit /\ Oldest(a)]_vars

\* Folding loses no count: every rejection is in a line or will be told by the
\* next line of its key, unless AUDIT_THROTTLE_KEYS others push the entry out.
Folded == untold = held
=============================================================================
