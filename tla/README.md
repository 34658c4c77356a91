# wterm in TLA+

wterm is a web terminal: a FastAPI server (`src/server`) that keeps one PTY
process per project and agent, a browser application (`src/static`) that shows
it over a WebSocket, and shell scripts that start, stop and install the server.
This directory holds TLA+ models of its parts, the configurations that
model-check them, and proofs about them.

Everything in the server runs on one asyncio event loop. An action of a model is
therefore what one task does between two suspension points (`await`), and the
interleaving of the models is the interleaving of those pieces. A dispatcher of
callbacks (PTY readable, file writable, timer) is one more task.

## 1. Inventory

| part | state | operations | what is hard | what makes it correct |
|---|---|---|---|---|
| session manager and session life cycle (`session.py`, `terminal_ws` and `end_session` of `main.py`) | the registered session per key, a lock per key, and of each session: alive, terminating, attached socket, grace and idle timers, exit task | attach, replace (`new`), start with or without history, detach, end, expiry by grace or idleness, natural exit, shutdown | every operation suspends, most while holding the lock; exits and detaches run without it; timers race the lock | one process per key; nobody attached to a dying session; every socket taken off a session is closed; no session without socket or timer; shutdown reaps everything |
| outbound writer (`session.py`) | replay buffer, queue, the one writer task, pending bytes, whether the PTY reader is paused | read PTY, enqueue, send, attach with replay, stop, bounded close | cancellation between two frames, watermarks shared by successive writers, a reader that pauses | each browser gets one contiguous stream; the reader never stays paused without a writer to resume it; memory stays bounded |
| input buffer (`session.py`) | bytes not yet accepted by the PTY, overflow flag, writer registration | write_input, flush | partial writes, EAGAIN, errors, the limit | whole messages in order or not at all; overflow reported once per episode |
| child termination (`session.py`) | child state, escalation stage | SIGHUP, SIGTERM, SIGKILL, waits, reaping | several terminators and the exit task at once, a child that ignores signals | reaped exactly once; bounded time |
| history lookup (`session.py`) | cache of Codex roll-outs with its lock, a helper process per question | look into Claude's files, scan and cache, ask another host | time-out and cancellation of the helper, stale cache, a scan with the key's lock held | no conversation passed over in silence; the lock held for a bounded time; no helper left behind |
| project status hub (`project_status.py`) | last snapshot, subscribers, changed event, version | subscribe, poll, broadcast | a snapshot computed across suspension points, slow subscribers | every subscriber converges to the present state |
| authentication (`auth.py`) | tokens with expiry, sockets per token, watchdog tasks | login, logout, check, register a socket, watchdog | a socket registered after its token was revoked, expiry racing logout | no socket outlives its token by more than the check interval |
| login verification (`auth.py`) | failures and end of the delay per address, in order of age; the slots | admit, verify, count a failure, forget | the check is made before two waits, the count after them; a bounded dictionary; a power that overflows | a delay holds for whoever comes in it; failures are forgotten only for a reason |
| audit, audit throttle (`audit.py`, `main.py`) | window and count per reason and peer, in order of age | log, fold repeated rejections | window boundary, entries pushed out | no rejection of a remembered key is lost |
| guards of the routes, response headers (`main.py`) | none | origin, token, project, agent, mode checks | their order | nothing is answered before authentication |
| configuration (`config.py`) | none | load and validate | many inputs | fail closed |
| TLS and its reload (`main.py`, `cert-setup.sh`) | the SSL context, the certificate in the files | load at the start, reload on SIGHUP | the signal goes by the PID file and may come before the handler; a broken pair of files | every server shows the certificate in the files |
| start and exit status (`main.py`, the units of `install-*.sh`) | phase of the start, pending signals, exit status | claim, wait for the address, serve, exit | a signal at every point; a supervisor that revives what failed | what was stopped stays down |
| PID file and scripts (`main.py`, `start.sh`, `stop.sh`) | the file, the lock on it, processes | start, stop, restart | two starters, a dying server, stale files | one server at a time |
| browser tab connection (`app.js`) | socket, reconnect timer and counter, stop reason | connect, open, close, retry, end | a stale socket's events, timers, visibility | at most one current socket, owned by an open tab; no automatic return to a session the server has ended |
| status channel of the browser (`project-status.js`) | enabled flag, socket, back-off timer | start, stop, connect, retry | events of a replaced socket, a login while the old 4401 is on its way | a page that is not locked gets updates; it is not locked by an older token |
| panes, tabs, key bar, side bar, theme (`app.js`, `modules/*.js`) | layout, focus, one-shot modifier, font size | user actions, each run to its end | little: no suspension | one pane per tab, the focused pane exists |
| installers and certificates (`scripts/*.sh`) | files of the system | install, renew, report | partial installation | sequential; only what they leave behind acts on the server |

How they interact: a route authenticates, takes the key's lock from the session
manager, attaches its socket to a session, and then feeds the session's input
buffer; the session's PTY feeds the outbound writer of the attached socket. A
change of liveness calls the status hub, which pushes snapshots to the side
bars. The authentication manager closes sockets through the session's writer.
The browser's tab decides from the close code whether to reconnect, and with
which mode.

## 2. Modules

| module | models | proofs | instance for TLC |
|---|---|---|---|
| `SessionKey` | one key of the session manager: routes, end requests, timers, exit tasks, shutdown | `SessionKeyProofs` | `MCSessionKey` |
| `LiveSlot` | what the manager promises of a key; `SessionKey` implements it | | |
| `Outbound` | output: PTY reader, replay, queue, writer, watermarks, bounded close | `StreamProofs` | itself |
| `InputBuffer` | input: `write_input` and the flush callback | `StreamProofs` | `MCInputBuffer` |
| `ChildEnd` | escalation of signals and reaping, in ticks of the polling | `ProcessProofs` | `MCChildEnd` |
| `StatusHub` | the task that pushes project snapshots | `StatusHubProofs` | itself |
| `Auth` | tokens, sockets opened with them, watchdogs, logout | `AuthProofs` | itself |
| `Browser` | connections of one page, login and logout | `BrowserProofs` | itself |
| `PidFile` | PID file, its lock, `start.sh`, `stop.sh` | `ProcessProofs` | through `ServerLife` |
| `ServerLife` | the rest of a server's life, composed with `PidFile`: signals, exit status, supervisor, certificate | `ProcessProofs` | itself |
| `Login` | delays of failed logins, verification slots, folded audit lines | `LoginProofs` | itself |
| `History` | the three history lookups and what the route makes of them | `HistoryProofs` | itself |

The modules meet at interfaces that each keeps as nondeterminism of its own.
`SessionKey` lets a close through the writer end in "closed" or "stuck", which
is what `Outbound` shows of it; it takes the wait for the child as one step,
which `ChildEnd` shows to be bounded; its history lookup takes any time and has any
outcome, which `History` shows to be bounded and right; `Auth` takes a login as an event, which
`Login` lets happen; `Auth` lets a close take any time and
`Browser` lets the server say anything a route may say. `ServerLife` extends `PidFile`:
each of its steps is one of `PidFile` with more about it, or leaves the file alone
(`LifeImplements`). Definitions after
a comment "Mutant:" are deliberate faults, used to see that each
property notices them; no specification refers to them.

### SessionKey

One key stands for all: keys share no state but the dictionary. A `task` is a
name such as `Conn(c)` (the route `terminal_ws` of socket `c`) and `pc[task]` is
the suspension point it stands at:

| `pc` | in the code |
|---|---|
| `lock` | waiting for `transition(key)`; `lockQ` is the FIFO queue of the `asyncio.Lock`, its head the holder |
| `evict`, `oust` | awaiting the close (4000) of the socket that `attach()` or `start_locked` throws out |
| `replay` | awaiting the future of the replay frame |
| `history` | awaiting the history lookup |
| `close` | `_notify_and_terminate` or `_handle_exit` awaiting the writer's close |
| `term` | in `terminate()`, polling for the child |
| `open`, `detach` | in the receive loop; in `detach()` awaiting the old writer |
| `sleep` | a timer |

`reg` is `SessionManager.sessions.get(key)`, `ws`, `writer`, `graceRef`, `alive`
and `terminating` are the attributes of a `Session`, `child` what the kernel
knows. `left`, `late` and `told` are history variables. `Reattach`, `Replace`,
`StartFresh` and `AskHistory` are the branches of the route under the lock;
`GraceStarted` is the end of `detach()`, which runs without the lock. Closing a
socket twice, and sending on a socket that is closed, raise exceptions that the
code swallows; they appear as `IF @ = "open"`.

Abstracted: what the history lookup finds (any outcome is possible), the launch
command, terminal sizes, and the frames themselves (`Outbound`).

### Outbound

Output is counted in chunks, frames are intervals of chunks, `queue`, `current`
and `task` belong to the attachment of a socket, and `writer` says whose they are
for the session (`_out_queue`, `_out_writer_task`, `_out_writer_ws` are set and
cleared together). `Ended` is the `finally` clause of the writer: it pays back what
the queue still holds and clears the references only if they are its own. Status
texts carry no output and are left out; the cancellation of a route in `attach()`
when the server is shut down is too.

### InputBuffer

A message is its size, and a byte knows its place in its message, so that a cut or
an inversion shows. `Flushed` is `_flush_write`: partial write, `EAGAIN` and `OSError`
are the three outcomes of `os.write`. `room` is the terminal's queue, outside
the program. A string that cannot be encoded makes `write_input` raise; texts
are not modelled.

### ChildEnd

The constants are `SIGHUP_WAIT`, `SIGTERM_WAIT` and the second after `SIGKILL` in
ticks of the 0.1 s poll (the proportions matter, and that `SIGTERM_WAIT` is counted
from the start, `TermWait - HupWait`). `blocked` is the loop inside a blocking
`waitpid`. The kernel is taken to end a process within one poll of SIGKILL. A pid
that is reaped is not given to another process in the course of a termination.

### StatusHub

`run()` stands at `idle` (nobody subscribed), `wait`, `snap` or `send`. A snapshot
reads one project per step, since `has_codex_history` is awaited between projects;
the three live flags of a project are one here, and its histories another. A
broadcast (`gather`) ends when every `send_text` has returned. Cancellation at
shutdown is left out.

### Auth

Time is relative: `age` of a token, `left` of a watchdog's wait, `over` how long a
socket has been open without a valid token. `Tick` does not happen while a watchdog
has something to do, because the loop takes no time for what is ready. `Woken` is
`_tokens_changed.set()`; the first watchdog that runs clears the event (`Cleared`). A
route is `admitted` when it has checked the token and `open` when it has registered
its socket: for a terminal the waits for the lock, the history and the attachment
lie in between. `Admit` carries the outcome of the check.

### Browser

A connection is a tab or the status channel. `mail` is what the server has sent and the
page has not handled; `ws[c]` is the slot of the socket in use, and the second slot is a
socket that the page has closed and whose close event is still to come. `Dialled`
reads the cookie at the moment of `new WebSocket`. Close codes are grouped by what
`onclose` does with them: `unauthed` (4401), `final` (4000, 4400, 4404, 4408, 4409,
4410) and `dropped` (everything else). One login, one logout and one end request
are on their way at a time, and other pages of the same browser, which share the
cookie, are not modelled.

### PidFile

The lock is on an inode, the scripts go by the path, and the file system may reuse an
inode nobody has open. `Ends` is the end of a process, by whatever cause: the kernel
closes its descriptor and frees the lock. The scripts' polls and messages are left out.
`torn` is a history variable: a script has removed a file that a server had claimed. A
pid is not given out twice.

### ServerLife

`phase` is where `main()` stands after the claim: `bare` (no handler yet), `waits` (for its
address), `loads` and `hooks` (`load_cert_chain`, then `signal.signal(SIGHUP, ...)`), `starts` (uvicorn
binds) and `serves`; then how the process ended. `term` remembers whether `stop.sh` sent its
SIGTERM before or after the handler. `ExitsSuccess` is `_exit_success`, which uvicorn calls at the end of its
own shutdown. A supervisor (`Revives`) starts a server when the unit's last one ended with anything
but status 0; after a SIGTERM or SIGHUP that nobody handles launchd does and systemd does not, so the
model lets it. `Launches` is `start.sh`, through the unit if it is installed. `kickstart`
does nothing for a unit that runs, so the script waits until it has ended. A certificate is its number,
`chain` what a server shows, `missed` (history) the servers that a reload did not change.
`nohup` lets a server ignore SIGHUP until it has its handler; a unit does not.
Abstracted: the polls of the address and of the scripts, the socket file of a UDS, and what uvicorn does
between taking over a signal and its end.

### Login

Time is relative: `due` is what is left of the delay of an address, negative when it has ended;
`win` what is left of an audit window. `book` and `fold` are the two ordered dictionaries: `Renewed` puts a key at
the end, `Kept` drops the oldest. A request is `body` while its JSON comes, `line` while it waits for a
slot and `verify` in the thread. `recent` and `early` are histories: all addresses that have ever failed in the order of
their last failures, which nothing pushes out, and the requests under way when the delay began. The delay
doubles up to `MaxDelay`; `MaxExponent` stands for 1024, the first power of 2.0 that raises `OverflowError`.

### History

An ask is a route (with the lock of its key) or the refresh of the hub. `queue` is the `asyncio.Lock` of
the scan, its head the holder. A scan finds what there was when it began and any part of what is written
while it goes on. `age` is how long a record of Codex has existed. `helper` is the ssh process, `reaper` is
`_reap_subprocess`, which outlives a route that is cancelled a second time if it is shielded. Time passes when nothing is ready.
The remote command, `munge_cwd` and the search of a line in a file are text and left out; that
`create_subprocess_exec` fails has the same outcome as an ssh that fails.

## 3. Runs

| run | question | bounds | result |
|---|---|---|---|
| `key_safety` | is there ever a second process, a browser on a dying session, a browser taken off its session (by its end, too) and not told, an observer not told, a child not reaped; is the promise kept | 2 sockets, 1 end request, 2 sessions, idle timer on | holds |
| `key_live` | does every request and connection settle, and every abandoned session end | the same, idle timer off | holds under `FairSpec` |
| `outbound` | does each browser get one contiguous stream, is the count exact, does the reader always come back, does a close end | 2 sockets, a buffer of 1 chunk, watermarks 1 and 2, 2 chunks | holds |
| `input` | whole messages in order, delivered | limit 3, a terminal of 2 bytes, 5 messages of every size that fits | holds |
| `child` | reaped always, exactly once, in time | two overlapping `terminate()`, a process that ignores SIGHUP and SIGTERM and may close its terminal | holds |
| `child_freeze` | can the loop stop for ever in `_reap` (session.py:396) | one `terminate()` | violated |
| `hub` | is every subscriber told the present state in the end, through changes at any moment and a failed snapshot | 2 browsers, 2 projects, 2 changes, 1 failure | holds |
| `auth` | is any socket open too long after its token has ceased to be valid, is a login lost | 2 sockets, 1 token kept of 2 issued, a lifetime of 2 ticks, an interval of 1 | holds |
| `browser` | orphaned or double connections, returns to ended sessions, silence after logout, coming back | 1 tab and the channel, 2 tokens, 1 attempt, 2 losses | holds |
| `life` | one server, as long as no script removes a claimed file; does what was stopped stay down; does every server show the certificate in the files | 2 servers, 1 `start.sh`, 1 `stop.sh`, 3 inodes, 2 rounds, a supervisor, 1 renewal | holds |
| `login` | is a request verified in a delay that it did not come before, is a failure or a folded rejection forgotten | 2 requests, 3 addresses of which 2 are remembered, 1 slot, 2 refused peers of which 1 is remembered, delays up to 2 ticks, overflow at 2 | holds |
| `history` | is a conversation passed over, is a lookup too long, is a helper left | 1 route, the hub, 1 project of Claude, Codex and another host, lifetime 2, scan 1, time-out 2 | holds |

Why the bounds are enough. In `SessionKey` the races need a socket that is thrown out
and one that comes, a session and its successor, and one request from outside; every pair
of handlers meets. A second end request finds what the first has left, as a
route does. Whatever needs a third socket (a grace timer of the first firing after the
second has left and the third has come) is covered by `SessionKeyProofs` for
every safety property of the key and for the refinement. In `Outbound` two chunks fill the queue up to the
high watermark, and one chunk of buffer makes the replay drop output. `InputBuffer` has a limit
larger than the terminal, so that a message can be written, kept and refused within one
episode. `Auth` keeps one token so that the second login pushes the first out.
`MaxTries` of `life` is 2 instead of 5: the first round that fails shows what a further
one does, and `ProcessProofs` holds for any number. One `start.sh` and the supervisor are two
starters; a second `start.sh` adds nothing that `ProcessProofs` does not cover. `Login` remembers one address
less than there are, so that one is pushed out, and its overflow comes at the third failure,
so that every branch of the count is taken. `History` has a scan shorter than the lifetime of the
cache and a question of the hub beside that of the route, so that one waits for the
other's scan.

`CHECK_DEADLOCK FALSE` stands where the bounded resources may be used up (all messages
sent, all tokens issued, all sockets gone). `SessionKey` and `Outbound` have a final
stuttering step instead (`Exited`, `Rest`) and are checked for deadlock.

### Fairness

`asyncio` runs every task that is ready, so a step that waits for nothing but the loop is
weakly fair. Timers and time-outs expire. A child that is sent a signal it does not ignore
dies, and any dies of SIGKILL. Nothing is assumed of requests, disconnections, natural
exits, input, network failures and the actions of users. Three assumptions go beyond the code:

- `key_live` assumes that browsers keep reading (`BrowsersRead`), because `attach()` awaits the
  close of an evicted socket and the replay without a limit (section 6). The server's own
  part is `ServerFairness`.
- `hub` assumes the same of subscribers (`WF_vars(Sent(w))`).
- `input` assumes that the process reads (`WF_vars(ChildReads)`), in `Delivered` only.

`outbound` needs nothing of the browser: `CloseBounded` is about a browser that does not
read. `browser` assumes that the browser delivers events and fires timers and that the
server accepts the status channel once losses have stopped.

## 4. Properties

Safety of a key. `OneProcess`: no process that is not reaped is out of the manager's reach.
`NoneAttachedToDying`, `NobodyForgotten`, `ObserversKnow` and `ShutdownReaps` relate sockets,
termination, tasks and observers. `NobodyForgotten` says that a browser in the receive loop has a session
that lives, or somebody is about to close its socket. It excepts one browser, the one in `late`:
`attach()` put it on a session that had ended while the evicted socket was being closed (`NotOnDeadPty`,
section 6). `CancelHitsSleepers`, which is proved and not run, is the contract between
`cancel_grace` and `_grace_countdown`: a cancellation must not stop a timer in the middle of
`terminate()`, which would leave the child unreaped. `ImplementsSlot` is the refinement
`SessionKey => LiveSlot`; `EndCompletes`, `ConnectSettles` and `AbandonedSettles` are its liveness.

Streams. `Seamless`, `ExitIsLast`, `Accounted`, `NeverDeaf`, `CloseBounded`; `Whole` and
`Delivered`, with `Pumped`, `ToldOnce` and `Bounded` proved.

Ends. `NoZombie`, `Budget`, `Gone`.

Observers and logins. `UpToDate`, `ChangesSurvive`; `NoOverstay`,
`EvictedAtOnce`, `NoLoginLost`, `LogoutCompletes`; `BlockHolds`, `NotForgotten`, `Folded`.

Lookups. `NothingPassedOver`, `LookupBounded`, `NoHelperLeft`.

The page. `NoOrphans`, `NoReturn`, `LoggedOutIsQuiet`, `NeverStranded`, `StatusKeepsLogin`,
`StatusComesBack`.

Start and stop. `OneUnlessTorn`, `StopSticks`, `CertCurrent`.

Each is stated in the comment above it, with the line of the repository it takes its words
from where there is one. The runs check these and no type invariants: `TypeOK` of each module (`InputTypeOK`, `EndTypeOK`,
`LifeTypeOK`: the names of modules that are proved about together differ) says
what its variables hold; the invariants of the proof modules contain it or the part of it that they need.

## 5. Proofs

Each proof module extends its component and proves an inductive invariant, `IInv` beside the
properties or, for `Login`, `History` and the later invariants of `SessionKey`, in the proof module, checked by TLC before it was proved; the theorems hold for every value of the
constants that satisfies the ASSUMEs.
`StreamProofs` and `ProcessProofs` hold those of several modules that belong together.

- **SessionKeyProofs** (`Inductive`, `TypeCorrect`, `OneProcessAlways`, `CancelSafe`,
  `NoneAttachedToDyingAlways`, `ShutdownReapsAlways`, `SlotImplemented`, `ObserversKnowAlways`,
  `NobodyForgottenAlways`): every safety property the runs check of the session key. `OneProcess`
  is not inductive: a start is safe because whoever starts knows of no other living
  session (`NoOtherLives`), which rests on the lock (`LockHeld`: a task at a critical suspension
  point is the head of the queue), on every living session being registered
  (`LivesRegistered`), and on a termination that has begun having somebody at it
  (`DyingIsHandled`), since `get_live` takes a terminating session for absent. `HasTarget`,
  `RoutesGone` and `OwnSteps` say which tasks can be where; `RoutesGone` keeps shutdown, which takes
  no lock, apart from the routes. There is one lemma per action, on top of lemmas about what
  `cancel_grace`, `_cancel_idle`, `terminate` and a launch have in common.
  `KInv` adds what the lock is worth beyond the start of a process: a session is not condemned while a
  route takes it over, nobody attaches to one whose socket is being closed, and a wait in
  `terminate()` is always for a session that has been marked (`Undisturbed`). The last of these is why a
  replacement is a step of `LiveSlot`: it takes the place of a condemned session, so that
  `SlotImplemented` needs one lemma for a step that condemns, one for one that ends and one for one that starts.
  `Reported` says which unreported change is still on its way (an exit task at its close, of a session nobody
  condemned), and `Watched` follows a socket from its attachment to its end: what is attached and open has
  the writer of its session, so that giving it up always leaves a victim that somebody closes. `Manned` says that a
  session with a socket on it lives, unless `attach()` came too late: what ends a session has taken its socket off
  before (`terminate()`, by `NoneAttachedToDying`) or does so in the same step (`_handle_exit`).
- **StreamProofs**, of `Outbound` (`StreamInductive`, `SeamlessAlways`, `ExitIsLastAlways`, `AccountedAlways`,
  `NeverDeafAlways`), for any set of sockets, buffer and watermarks, as long as a replay fits below the low
  watermark. Nothing of this is inductive when it is said of what a browser has got. `Stream` is that, with what its writer holds
  and what its queue holds behind it: a frame that is taken or sent moves inside it, a frame that is
  queued is put to its end, and the end of a writer cuts it; so its frames fit together in every step
  (`Coherent`), and the last of them ends at `n` while its socket has the writer (`Streams`). `Roles` says whose the writer
  is, so that output enters one stream only; `Lock`, that one route at a time replays, which is
  why only one replay can exceed the high watermark (`Bound`); `Reader`, how the two flags of the reader go with
  `pending`, which is the sum of what is held (`Exact`). That last part needs a theory of `SumFunction`: what a sum does
  when one value changes, one is added at the end or the first is taken away. The library's induction theorems
  cannot be used here, so `LeastNatural` gives a set of numbers its least member, and each induction is one over such a set.
- **StreamProofs**, of `InputBuffer` (`InputInductive`, `WholeAlways`, `BoundedAlways`, `PumpedAlways`, `ToldOnceAlways`). The
  invariant says of the bytes taken and waiting that they are whole messages in order and that
  none has a number beyond the last one sent. `ToldOnceAlways` assumes `AllFit`, no message longer
  than the limit: one that is longer and meets an empty buffer sets the flag with nothing to
  clear it (section 6).
- **ProcessProofs**, of `ChildEnd` (`EndInductive`, `NoZombieAlways`, `BudgetAlways`), for any number of overlapping
  `terminate()`. `Phases` says that what a call has slept and has yet to sleep add up to the end of its
  phase; that the last phase has a round left after SIGKILL is why none returns before the
  child is reaped, and why `WaitAssumption` asks for two rounds there.
- **StatusHubProofs** (`UpToDateAlways`, `UnsentIsShownAlways`). The invariant speaks of every place of `run()`: while
  nothing is dirty, what was read is still so, and who has not been sent the present state
  is among those being sent to. It holds while no snapshot has failed. `Abreast` holds whether or not any has: `run()` compares
  with `last_payload` alone, and that is what every browser shows that has seen one, so that what is not sent hides nothing. It is the
  safe half of `ChangesSurvive`, and only proved, not run.
- **AuthProofs** (`NoOverstayAlways`, `EvictedAtOnceAlways`, `NoLoginLostAlways`). `Watched`: an open socket has a
  watchdog that waits or is awake, and lateness and remaining wait add up to at most the interval,
  whoever clears the event. The invariant needs no premise about how long a registration
  takes after the check of the token, since a fresh watchdog waits at most one interval. `NoLoginLost` counts: there are never more
  tokens than fit (`Fits`), so a login pushes out one at most, the least of their numbers, and exactly `MaxTokens` stay.
- **ProcessProofs**, of `PidFile` and `ServerLife` (`OneServerAlways`, `ReleasesOwnAlways`, `Inductive`), under `~torn`. A lock belongs to
  who has the inode open and has passed `lockf`, and every server past the check has the
  inode that the path names. `LifeImplements` shows that every step of `ServerLife` is one of `PidFile` or leaves
  its variables alone, so that the invariant holds there too (`LifeOneServer`). `StopSticksAlways` adds
  that a server whose SIGTERM came late and that has ended did so with status 0 or for one of the named
  reasons. `CertCurrentAlways` adds that the file names the server that has loaded a certificate, which is why the
  reload finds it: the second property of the certificate rests on the first of the lock.
- **LoginProofs** (`Inductive`, `BlockHoldsAlways`, `FoldedAlways`, `NotForgottenAlways`). Every request under way when a delay begins is
  recorded; what is admitted afterwards finds the delay or comes after it, and time only
  shortens it. For `NotForgotten` the dictionary has to have its keys in the order of the history (`Ordered`), so that the
  first is the one that has not failed for the longest time, and no delay may be longer than its count says (`Counted`), so that
  one failure more does not shorten it; on the way, that the recursive `Power` is what its equation says and grows.
- **HistoryProofs** (`Inductive`, `NothingPassedOverAlways`, `NoHelperLeftAlways`, `LookupBoundedAlways`). The core is an arithmetic one: a record
  that a scan could miss is not older than the scan, and one that a fresh cache lacks is not older
  than the cache and the longest scan together (`Missed`, `Lacking`). `LookupBounded` rests on the line (`Lined`: only the head
  scans, and who waits is in it once) and on `Punctual`: while somebody waits, time passes during a scan only, and when the
  scan is over the cache is fresh for all of them, however they leave.
- **BrowserProofs** (`PageInductive`, `NoOrphansAlways`, `NoReturnAlways`, `LoggedOutIsQuietAlways`, `NeverStrandedAlways`,
  `StatusKeepsLoginAlways`), for any set of tabs and any number of logins, attempts and losses. What is on its way to the page has to be in the
  invariant: `Honest` says of each socket that an exit message or a close in its mail is the last word of its server and that a 4401
  is about a token that is not valid. `InPlace` says that what a connection uses is in use, which with `NoOrphans` leaves
  a free slot for the next socket. `Resigned` is why a tab that was told does not return (no timer, and a socket that cannot open any more),
  `Barred` why the page is quiet after a logout (there is nothing left to press), and `SameToken` why a 4401 of the status
  channel is about the cookie the page has.

Only model-checked: the properties under fairness (`EndCompletes`, `ConnectSettles`, `AbandonedSettles`, `CloseBounded`,
`Delivered`, `Gone`, `ChangesSurvive`, `LogoutCompletes`, `StatusComesBack`), since liveness and ENABLED are
outside the reach of the prover. Every invariant and every action property of the passing runs is a theorem, and so
is the refinement of `LiveSlot`.

## 6. What the code does otherwise than it says

One run ends in a counterexample.

- `child_freeze`: end of output is taken for end of process. `_handle_exit` calls `waitpid` without
  WNOHANG in the event loop; a process that closes its terminal and runs on stops the server.

Others, met while modelling. The first two concern a line that says otherwise; a property shows each.

- `attach()` awaits the close of the socket it evicts (session.py:683). `_handle_exit` takes no lock; if
  the process ends in that time it finds no socket to tell, and `attach()` then attaches the newcomer
  to a dead session, without looking again. The newcomer sees an old screen and gets no
  exit message. CHANGELOG.md:18 says the race was closed; it is closed between routes, not
  towards the exit task. `NotOnDeadPty` in `SessionKey` is what that line claims, and it is false: put it in place of
  `NobodyForgotten`, which excepts this browser, in `MCSessionKey_safety.cfg`. The trace has nine states: two
  browsers connect, `Reattach` takes the first off, then `ChildExits`, `Eof`, `HandleExit` with nobody attached,
  and `EvictDone` puts the second on the session that has ended.
- `start.sh` reads the file, decides it is stale and removes it by its path (start.sh:25); if a server
  started by the supervisor claims the file in between, its lock is on an inode without a
  name, and the next server passes the claim as well. main.py:614 says of this very `rm` that two servers do not
  survive; its check covers an `rm` before it, not after. To see it, put `OneServer` in place of `OneUnlessTorn` in
  `ServerLife.cfg`.

For the next three a property is in the module; add it to the cfg named to see the trace.

- `GraceKillsAfterItsDetach` (`SessionKey`, PROPERTY in `MCSessionKey_safety.cfg`): `detach()`
  stops the writer before it starts the grace timer and does not look whether a newcomer has
  attached meanwhile. A timer from that detach, or one that waits for the lock behind an
  attachment, may end a session whose last browser has only just left (session.py:708, against session.py:4).
- `FirstSnapshot` (`StatusHub`, PROPERTY in `StatusHub.cfg`): a snapshot that fails has consumed the
  event (project_status.py:105, 118); if nothing has changed at the next refresh, a newcomer
  that joined before the failure is not sent anything.
- `LoginStays` (`Browser`, PROPERTY in `Browser.cfg`): project-status.js:68 replaces its socket at a
  login so that an old 4401 cannot lock the page again. A terminal tab's late 4401
  (app.js:1106), or the 401 of an end request sent before, still does.
- A normal logout shows "auth expired" if a tab's 4401 is handled before the answer: app.js:126
  avoids that for the status socket only.
- The idle timer decides before it waits for the lock and does not decide again (session.py:1004):
  a session in use at the time of its expiry may end.
- A browser that does not read holds `attach()` of its successor, with the key's lock
  (session.py:683, 696), and delays the status of all others (project_status.py:78).
- An input message longer than the limit, met with an empty buffer, sets `_input_dropped`; the next
  overflow is then not reported (session.py:828). JSON may carry a lone surrogate, whose
  encoding raises out of the receive loop (session.py:826).
- The three phases of `terminate()` wait for 10 s and then one more second for SIGKILL; session.py:639
  says that together they do not exceed `SIGTERM_WAIT` (10 s). `Budget` states what holds. A request to
  end waits for the bounded close (3 s + 1 s) before that.
- A snapshot mixes moments: a project read first may have changed when the last one is. The change
  sets the event, so another round follows.
- `_release_pid_file` compares the pid in the inode it holds itself, which is always its own, and
  then removes by path; what keeps it from removing another's file is the lock.
- The routes accept before they check, so every attempt that reaches the server resets the tab's count
  of attempts (app.js:1063): the limit of twenty applies to refused handshakes only.
- The Codex cache may be up to 30 s old; the comment at session.py:114 relies on a new session
  still being alive then. One that has ended is started again without its history. The cache is dated by the end of
  the scan, so that a record may be missed for 30 s and the time of a scan (`NothingPassedOver` says so).
- A lookup whose time is up reaps its helper without a shield (session.py:214). A cancellation of the route in that second
  stops the reaping, and an ssh that ignores SIGTERM stays; session.py:160 says it is reaped for certain.
  `NoHelperLeft` excepts that moment.
- After 1029 failures of one address without a pause for the decay, 2.0 ** 1024 raises `OverflowError` before `min()` is asked
  (auth.py:149). The entry has been popped by then: the answer is 500, and the count begins again at one.
- The delay is looked at before the body and the slot are waited for (auth.py:198, 212). Requests that are
  under way together are all verified, however long the delay that the first of them causes; the slots bound how many run at a time.
- Behind a proxy or on a UDS all peers are one address, with one count. An exception that `login` does not catch is
  answered with 500 and not counted.
- What has been folded of a key is lost when 256 others push it out (audit.py:58).
- A server launched by `nohup` ignores a SIGHUP between `load_cert_chain` and `signal.signal` (main.py:575, 581), and shows the old
  certificate until the next renewal. One started by a unit dies of a SIGHUP before its handler is set; launchd revives it,
  systemd takes that end for a clean one and does not.
- A SIGTERM that uvicorn holds while its bind fails is lost: the exit status is that of the failure, and a
  supervisor starts the server again. One before `signal.signal(SIGTERM, ...)` ends the process by the signal, with the
  PID file left.

## 7. Not modelled

- The configuration loader (`config.py`): a pure function of one file, run once before the server starts; its
  many rules have one outcome, to refuse.
- The launch command of an agent and the remote commands: text built for `execve` and for a shell.
- The comparison of origins (`origin_allowed`, `_is_secure`) and the security headers: functions of one request.
- Wording, control characters and rotation of the logs; the warning about permissions.
- Panes and layout, key bar, theme, drawing, search and notifications: handlers of the page that run to their end
  without a wait. What of them opens, closes or moves a socket is in `Browser`.
- The vendored terminal, and what it shows.
- The steps of the installers, but for the restart rule and the reload command they leave behind.

`PROJECT.json` names each part with its status. Cancellation of the hub's task and of an `attach()` at shutdown is left out
of `StatusHub` and `Outbound`.

## 8. Plan

1. Done: `SessionKey` with `LiveSlot`, `Outbound`, `InputBuffer`, `ChildEnd`, `StatusHub`, `Auth`, `Browser`, `PidFile`; then `Login`, `History`
   and `ServerLife`, each with its proofs.
2. Done: proofs of every invariant and action property of the passing runs.
3. Composition of `Browser` with `LiveSlot`: what a tab that reconnects with mode "continue" gets, against a
   manager that ends, expires and restarts sessions.
4. `Panes` with the key bar, if the layout is ever changed across a wait.
