# A verification project for Max-Net

Max-Net is a set of Max/MSP externals that speak WebSocket. This directory
holds TLA+ specifications of its networking core, the TLC configurations that
check them on small instances, and TLAPS proofs of the results that matter most.
Paths below are relative to the repository's `source/` unless they say otherwise.

    tlc -workers 2 -config session_shipped.cfg MCSession     # one run
    tlapm SessionProofs.tla                                  # one proof module

## 1. The system

| Component | State | Operations | Talks to |
|---|---|---|---|
| `session` (`shared/include/session.h`) | status, stream, `msg_queue`, two strands, close timer, statistics, four optional callbacks | `connect`, `accept`, `write`, `close`, eight completion handlers | Boost.Asio/Beast below, its owner's callbacks above |
| `multi_resolver` (`devices/multi_resolver.h`) | queue of url/handler pairs, one asio resolver | `resolve`, `resolve_handler` | any thread calls it, its handlers run on the io thread |
| client hosts: `o::client` (`client.h`), `websocketclient.cpp`, `websocketclient_iiwa.cpp` | the session pointer, resolver, work guard, io thread, message factory | construct, look up, connect, send, report status, destroy | resolver, session |
| `session_stats` (`devices/stats.h`) | counters, `is_enabled`, a one second timer, a mutex | `set_enabled`, the timer's callback | owned by a session, whose handlers take its mutex |
| `listener` (`devices/listener.h`) | status, acceptor, one socket, `socket_mtx`, two strands | `start_listen`, `stop_listen`, `accept_handler` and the lambda it posts | the server's handler |
| `websocketserver` (`websocketserver.cpp`) | an `io_context`, its thread and guard, two attributes | construct, attribute setters, destroy | Max |
| `websocket_server` (`server.h`, `session_query_macros.h`) | sessions, listener | `start`, `do_handle_session`, `shutdown` | nobody: no file includes it |
| `protobuf_decoder_worker` | an io_context, its threads and its work guard | `run`, `stop`, `async_decode`, `async_encode` | the client object |
| `net_url`, `min_utils.h` | host, port, path, endpoints | parsing, `set_port`, `has_port`, resolver results | hosts, resolver |
| messages (`shared/proto/proto_messages`) | a list of atoms, the count of live messages | `push_atom`, `get_atoms`, allocate, deallocate | sessions, outlets |
| `iiwa_move`, `iiwa_joints` | one `Movement` message | one handler per parameter | the iiwa client object |
| adapters, macros, examples, test server | none that matters | output to Max, logging | |

Several parts are not live code: `write_queue.h` and `protobuf_decoder.h` are
commented out, the handlers of `iiwa_joints` are not registered, `server.h`
is included by no file and names a class, `ohlano::session`, that the tree does
not have (`session` is in the namespace `o`), so that the server role of `session`
has never been instantiated. `accept()` is modelled all the same,
because it shares everything after its completion with the client role.

### What is hard here

* **Locks.** Completion handlers call back into the application with one or two
  mutexes held; what the callback calls may need one of them, and with a second
  io thread the order in which they are taken starts to matter.
* **Numbers.** Max hands over 64-bit integers and doubles; the objects narrow them
  to `int`, `short`, `sint32` and `float` on their way.
* **Threads.** Each host runs its `io_context` on exactly one thread of its own
  and calls `write()`, `close()`, `resolve()` and its destructor from Max's
  threads. So completion handlers never overlap one another, but application
  calls fall between any two of them, and between the dispatch of a lambda and
  its run.
* **Four ways to end.** A session can end by its own closing handshake, by the
  peer's, by an error and by the 500 ms deadline of `close()`; they race, and
  each of their handlers changes the status and may flush the queue.
* **Ownership.** A message belongs to the session from `write()` until it is
  handed back, through `on_write_done` or to the factory. Two handlers hand back.
* **Lifetimes.** Operations keep the session alive through `shared_from_this()`,
  timers do not. A host's destructor returns only when its `io_context` has run
  out of work, so any operation that never completes hangs Max.
* **Platforms.** `read_handler` treats an error with value 89 as a normal end.
  89 is `operation_aborted` on macOS; on Linux that is 125, so the same event
  ends in `OFFLINE` with a flush on one and in `ABORTED` without on the other.

The list of hazards with their lines and the properties that guard them is in
`PROJECT.json`.

### What makes each component correct

* session: one write at a time, messages handed back once and in order, nothing
  in the queue without a write under way, ONLINE implies reading, a closed
  session comes to rest.
* multi_resolver: one lookup at a time, one answer per request, in order.
* hosts: `connect()` only with endpoints, a destructor that returns and leaves
  nothing behind.
* session_stats: never two timer chains, each message in one report, no chain that
  holds up the destructor.
* listener: at most one accept outstanding and one user of the socket, no
  connection lost or delivered twice, the mutex released by whoever took it.
* websocketserver: the port attribute holds a port, the destructor returns.
* locks: no thread waits for itself, no two for each other.
* messages: what a receiver puts out is what the sender pushed, as far as the fields
  can hold it.
* decoder worker: everything posted before `stop` runs, `stop` returns.
* iiwa_move: what is sent is what was set, in whole groups.
* net_url: host, port and path of the first argument that can supply them.

## 2. Modules

| Module | What it is |
|---|---|
| `Session` | one session, at the grain of handlers and application calls; its properties |
| `Outbox` | the abstract promise of a session to the owner of the messages |
| `SessionOutbox` | the statement that `Session` implements `Outbox` |
| `MCSession` | the instance TLC checks, with its symmetry |
| `SessionProofs` | theorems about `Session`, `SessionOutbox` and `ClientHost` |
| `SessionLocks`, `LocksProofs` | the mutexes of session and resolver, and the callbacks that run under them; theorems about them |
| `MultiResolver` | the queueing resolver |
| `ResolverService` | its abstract promise |
| `ResolverProofs` | theorems about `MultiResolver`, the refinement included |
| `ClientHost` | the owner of a session: lookup, session and destructor together; extends `Session` |
| `SessionStats`, `StatsProofs` | the statistics of a session, and theorems about them |
| `Listener`, `ListenerProofs` | the accept loop, and theorems about it |
| `DecoderWorker`, `WorkerProofs` | the decoding threads of a client object, and theorems about them |
| `MovementState` | the one message of an `iiwa_move` object, and how it is sent |
| `Atoms` | Max's atoms and the conversions between their widths |
| `MaxMessage` | a `max_message` from `push_atom` through a frame to the outlet |
| `ServerObject` | a `websocketserver` object |
| `MaxAtoms`, `MaxProofs` | one of the three objects above, the instance TLC checks; theorems about each |
| `NetUrl`, `MCNetUrl`, `UrlProofs` | the arguments of a client object and the url made of them; the ports TLC tries; theorems |

### Session

State. `status` is the atomic of the base class, `queue` is `msg_queue`,
`strand` the lambdas dispatched on `write_strand_` that have not run, `timer`
the current `close_tmt`, and `fired` counts expiry lambdas that are queued and
that no `cancel()` reaches. `ws` and `tcp` are the two layers of `stream_`,
`setup`/`result`, `read`, `wr[m]`, `closeOps`/`closeDone` the asynchronous
operations of start-up, read, write and close: outstanding, completed with an
outcome, or over. `accepted`, `handed`, `sent`, `stale` are history.

Actions. `Connect`, `Accept`, `Write`, `Close` are the public calls;
`ConnectHandler`, `ReadyHandler` (handshake and accept), `RunStrand`,
`WriteCompleteHandler`, `ReadHandlerOk`, `ReadHandlerErr`, `CloseHandler`,
`TimerExpire`, `TimerHandler` are what the io thread runs. Each is the whole
handler: `WriteCompleteHandler` pops, hands back and either starts the next
write or clears the queue; `ReadHandlerErr` sets the status and flushes.
`write()` on the io thread starts its write at once, on another thread it
dispatches a lambda; both are in `Write`. The lambda of `dispatch()` called on
the io thread with an idle strand would run inside the call; the model queues
it and may run it next, which gives the same state.

`NetStep` is external: Boost.Asio, Boost.Beast and the peer. An operation on a
dead socket or stream completes with an error; a live one may succeed at any
time or never. Beast's rules that matter are kept: a write on a stream that is
not open fails at once, `async_close` waits for the frame being written, a second
`async_close` is refused, a peer's close frame is answered and the socket shut.

Left out: message contents, `stats()` (a component of its own), the callbacks
`on_ready`, `on_close` and `on_read`, which only report, and a second
`connect()` on one session, which no host makes.

Two details of the code that the model keeps and that its properties have to
allow for:

* `stale`. `read_handler` hands back the whole queue when `on_write_done` is set,
  also the message whose write is in flight. When that write completes, its
  message is handed back again, and if something was queued in between, the
  front of the queue is popped and never handed back. `OneWriteInFlight` and
  `HandedInOrder` therefore speak of sessions with no such write (`stale = {}`);
  `HandBackBalance` and `OnlyStaleTwice` say what still holds afterwards. No
  object of the repository sets `on_write_done`.
* Two closes. `close_handler` cancels the current deadline, whichever
  `async_close` it belongs to. After two calls of `close()` on an ONLINE session
  Beast refuses the second operation, whose handler cancels the deadline, and
  the first may then wait for the peer forever. `CloseEnds` and `EndedDrains`
  speak of sessions closed at most once; with that condition dropped TLC finds
  this behaviour. The hosts close once, from their destructors.

### SessionLocks

`Session` takes a handler as one step, which is right as long as one thread runs the
`io_context` and nobody waits for a mutex for ever. `SessionLocks` looks inside: a
call or handler is a sequence of `lock`, `unlock` and the begin and end of a
callback, for `write()` and `resolve()` from the application's threads, and for
`write_complete_handler`, both ends of `read_handler` and `resolve_handler` from
any number of io threads. What the three callbacks call in their turn is chosen in
the initial state, all 64 combinations. `NeverStuck` states what an application
has to keep to: `on_write_done_` must not write and a resolver's handler must not
resolve, as each runs under the mutex it would need; and with more than one io
thread `on_read_` must not write, because it runs under the statistics mutex, which
`write_complete_handler` takes after the queue's, and the callbacks must agree
on an order for the resolver's. The mutant, `write()` counting what it queues, is
the change to the statistics that suggests itself, and deadlocks with `on_read_`.
That two threads of each kind show everything is a theorem (section 4).

### Outbox and SessionOutbox

`Outbox` has three sequences: accepted, handed back, on the wire. Messages are
handed back in order, one or all that remain; only the oldest message not handed
back may be sent, and only directly after its predecessor, so the wire carries a
contiguous block. `Session` without `on_write_done` implements it with its
history variables as the abstract ones; `SessionOutbox!ImplementsOutbox` is
checked as a property of the run `session_shipped`.

### MultiResolver and ResolverService

One action per call and handler. A lookup carries a copy of its queue element, as
`begin_resolve` takes it by value; that this copy and the front of the queue stay
the same request is `OneLookup`. `ResolverService` answers requests once, in
order, and in the end.

### ClientHost

Extends `Session` with the owner. `early` distinguishes `o::client`,
which makes the session before the lookup, from `websocketclient.cpp`, which
makes it after. `AssignSession` and `ConnectSession` are two steps because the
destructor tests the pointer from another thread and may fall between them. With
arguments that are no address there is no session, and `Send`, which does not look,
crashes the object (`host = "crashed"`), as `~session()` would with a message it
cannot hand back. `Destruct` closes the session if there is one; `JoinReturns` needs an
`io_context` without lookup, operation, queued handler or timer.

`binary` is the flag `on_ready` of `websocketclient_iiwa` sets. Between the end of
the handshake and that call a write may begin, and its frame is text: a receiver
of the repository makes nothing of it (`MaxMessage`). `ReadySendsBinary` says that
only messages sent before `on_ready` are exposed to this.

`DestructorReturns` is conditional, and the condition is the finding of this
module that matters to its users: a destructor that runs while the name is still
looked up finds no session (`websocketclient`) or starts a deadline that passes
before there is a socket (`o::client`); the session then connects, nobody closes
it, and the destructor waits for the peer. The property says it returns in all
other cases: when it is called after the connection has begun, when its deadline is
still running when the connection begins, or when the lookup fails.

### SessionStats

`waits` are the `async_wait` operations pending on the timer, `due` and `cut` the
calls of `do_stat_check` that are queued with success and with
`operation_aborted`; `expires_after` and `cancel` turn waits into aborted calls
and do not reach what is queued. One counter stands for the four, which are
treated alike. `host` and `session` are as much of the owner as the statistics
depend on.

`set_enabled()` takes no lock, and threads of the application (`Apps`), the session's
error handlers (`IoThread`) and the destructor (`Owner`) call it. It is taken apart:
`call` says of each thread how far it is. An enable looks at `is_enabled` (`Enter`),
resets the counters and sets the flag (`Reset`), and starts the timer (`StartTimer`);
everything else looks at the flag a second time (`LooksAgain`) and cancels
(`StopTimer`). The io thread runs no handler while it is in `set_enabled()` itself.
`Destruct` waits until no thread of the application is inside, as nobody may call into
an object that is being destroyed. A step of `do_stat_check` stays one: it starts the
timer anew whatever fell between its own calls, and what other threads do there has
the effect it would have before the step. `expires_after` and the `async_wait` behind it
are one step, and so is each access to the flag. The flag is no atomic and the timer is
not made for two threads at once; that both do what they do in some order is the
mildest reading of the code.

Two enables that both find the flag unset (`crossed`) both start the timer. The second
aborts the wait of the first, the aborted check clears the flag while the second wait is
pending, and from then on a chain runs that `set_enabled( false )` does not cancel and
beside which an enable starts another. `OneChain` and `ChainLetsGo` make an exception of
it, and without it TLC shows both fail. What they do say is that one enable at a time is
safe, whatever disables on other threads fall between its steps.

An increment is two steps, because `set_enabled( true )` resets the counters on
the application's thread without the mutex that the handlers hold: a reset that
falls between them is undone. One that comes while `do_stat_check` is queued may fall
between the two assignments of `diff_callback()`, which is one step here. Both are
`raced`, the exception in `NothingCountedTwice`.

`ChainLetsGo` has also the condition `~late`. `set_enabled( false )` cancels the timer
and does nothing else, so if a second has just passed and `do_stat_check` is
queued, that call starts the timer again: the statistics stay on, and if the
caller was the destructor, its `join()` waits for an `io_context` that always has
one more wait. With the condition dropped TLC shows it. The objects of the
repository never enable the statistics.

### Listener

The queue `io` holds what the one thread of the `io_context` has still to run, in
order: `accept_handler` with a connection or an error, and the lambda it posts.
`accepting` counts outstanding `async_accept` operations. `StartListen` replaces
the acceptor, which aborts what was pending on the old one; each of its calls may
fail. `StopListen` has the guard of `shutdown()` in `server.h`. Asio assigns the
connection to `socket_` when it invokes the handler and refuses a socket that is
open.

`delivered` is what the handler was given as connections and `ends` counts its
calls with an error and none.

All properties speak of listeners that are not started again before the old loop
has run its last lambda (`overlap`). A restart that comes earlier makes two loops
over one socket, and then `accept_handler` of the one may wait for the mutex that
only a lambda behind it in the same thread's queue releases. Dropping the
condition from `NeverBlocked` shows it. Two more facts a user of the class should
know: `OpenAccepts` needs `~failed`, because after an accept error of the
operating system the loop is over and `status()` still says `OPEN`; and the end
of a loop is passed to the handler like a connection (`EndReported`), of which
`do_handle_session` (`server.h:68`), not looking at the error, makes a session.

### NetUrl

A port is its value, with four values below zero for texts that have none. A
symbol is abstracted to host, port and whether a path follows. `Symbol`
and `Long` are the two branches of the argument loops that do something, for
`websocketclient.cpp` and for `min_utils.h`, which differ only in when they ask
both urls for their ports. Floats and other atoms are only reported. A number has 64
bits, and both loops read it as `int` (`Narrow` of `Atoms`) before they print it for
`set_port()`: 2^32 + 8080 is port 8080, and 2^31 is negative and no port. The atoms in
`FirstPortWins` mean what this leaves of them.

What the properties have to allow for: `set_port()` makes an endpoint of the host
and so throws when the host is a name or empty, which makes an object with a name
and a separate port impossible to construct; a port of more digits than an `int`
holds throws in `std::stoi`; a port above 65535 is replaced by 80 without a
word; a symbol that "could not be decoded" is used if a number behind it supplies
the port, or if the text behind its colon is empty, and then has no path, not even
the root, as the parser had given up before it came to that. `FirstPortWins` and
`AddressIsEnough` are the reading of the arguments that remains true.

### DecoderWorker

The `io_context` is its queue, the guard and the flag `stopped`, which it sets when
neither guard, queue nor running job is left and which it never clears; threads that
find it set leave `run()`. `done` counts how often a job was run. `stop()` is two steps,
the release of the guard and the return, so that jobs may be posted in between. A job
posted after the flag is set stays in the queue for good, on later threads too
(`NothingAfterStop`), and so does its message: a caller of `async_decode` has to stop
posting before it calls `stop()`. `websocketclient` runs two threads and posts nothing.

### MovementState

A step is one protobuf call. With one thread a peer reads what was set last
(`SentIsLatest`), with the peculiarity that `JointParams` clears the filter
parameters (`iiwa_move.cpp:100`), where the two neighbouring handlers clear the
group they are about to fill. A message with too few arguments makes
`array_from_atoms` throw before anything is changed (`NotEnough`); two of the three
handlers let the exception out, to whatever Max does with it. The type of the
movement is set by the constructor alone. With two threads see the findings. Protobuf itself
is not thread-safe, so taking its calls as atomic is the mildest reading of the
code.

### Atoms, MaxMessage, ServerObject and MaxAtoms

`Atoms` has a long of 64 bits as a number, an `int` as a number of a width that is a
constant, and a double as a number of steps of which a `float` has every other one.

`MaxMessage` takes any atoms (`IsAtom`) and any arrays of them. It encodes them as
`push_atom` and `push_atomarray` do: a single long is stored in a `sint32`, an array of
longs in 64 bits, and an atom Max has and the message has not becomes the number 0. A
frame comes whole, cut short, or as text. Of a text frame nothing is copied; of a cut
one `deserialize()` reports the failure and `on_read` sends on what had been parsed.
`EmittedIsPushed` states what may be relied on: a whole frame gives the atoms that were
pushed, in order and number, each as far as its field can hold it; of a cut frame all
atoms but the last are right.

`ServerObject`: `attr_restrict_long` tests the number narrowed to `int` and passes
the number itself on, which the attribute narrows again; `PortIsPort` says that
nevertheless a port comes out, the nearest one for a number that is an `int`. The
object's `io_context` has no work but its guard, as no message of the object opens
a listener, and its thread exists only if there are two arguments or more;
`ObjectEnds` is the destructor against a thread at any point of its life.

`MaxAtoms` lets one of the three objects of the atoms' world be there and checks
them in one run.

## 3. Runs

| Run | Instance | Shows |
|---|---|---|
| `session_shipped` | 3 messages, 2 closes, no `on_write_done`, Linux; both roles | the safety properties and the refinement of `Outbox` |
| `session_callback` | 3 messages, 1 close, `on_write_done`, macOS, fair | the bounds on the damage of a flush, `CloseEnds`, `EndedDrains` |
| `locks` | 2 io threads, 2 of the application, every choice of callbacks | which callbacks cannot deadlock; `on_write_done_` never runs twice at once |
| `hosts` | both hosts, 2 messages, Linux, fair | their destructors return and leave nothing; who may send text frames |
| `host_unresolved` | both hosts | violation: the assertion of `connect()` fails |
| `resolver` | 4 requests, fair | one lookup at a time, and the promise of `ResolverService` |
| `stats` | 2 threads of the application with 4 calls of `set_enabled` together, 3 messages per enable, fair | one timer chain, each message reported once, no chain after the end |
| `listener` | 3 connections, 3 starts, fair | one user of the socket, no self-deadlock, each connection and each end delivered once |
| `decoder` | 2 threads, 3 jobs, 2 stops, fair | jobs posted in time are done, later ones never run, `stop()` returns |
| `atoms` | 1 thread, 5 messages, groups of 2 fields; 2 pushes; ports 1 and 2, `int` from -4 to 3; fair | what is sent is what was set last; what is put out is what was pushed; the port is a port; the object ends |
| `movement_threads` | 2 threads | violation: what is sent is half set |
| `url_arguments` | lists of at most 3 arguments; 2 hosts, 8 port texts, 6 numbers | the endpoint is the url's, the first port wins, an address is enough |

Bounds. Three messages are one in flight, one behind it, and one that arrives while the
queue is being emptied or after it was flushed; no condition in the code looks further
than the second element of the queue. Two closes are one that runs and one that replaces
its timer; a third meets the same code as the second. Four requests keep the resolver's
queue longer than the threshold of two. Four calls of `set_enabled` are an enable, a
disable, and both again while the first chain is still ending, or two pairs that cross;
two threads of the application, the io thread and the owner may be inside it at once.
Three starts are one that succeeds, one that fails or overlaps, and one after it. Three
arguments are a symbol that is refused, one that is taken, and a number, in any order;
the ports lie on both sides of the limits of `short`, of a port and of `int`. As TLC's
own numbers have 32 bits, `int` has 18 there: above a port, with room for longs that do
not fit it, of which one is left as a port and one as a negative. Two threads are enough
for one job to be running while another is taken, and two fields tell a group that is
half set from a whole one. Two threads of each kind are enough for every pair of
mutexes, and there are three, of which a thread holds at most two while it waits. The
numbers of `atoms` lie on both sides of both ends of a port and of an `int`, one of them
wrapping into the range of a port; two pushes put an atom before another that is cut;
five messages of `iiwa_move` are one of each group, one more, and `bang`. Symmetry of
messages is used only in runs without temporal properties; `ImplementsOutbox` has no
liveness part and treats messages alike. Deadlock is not checked anywhere, since every
one of these systems stops when the session, the object or the list of requests is used
up; `locks` states its own deadlocks in `NeverStuck`.

Fairness. Every handler that is queued is run (one thread runs the `io_context`), a
timer expires, an operation on a socket that is shut or reset, or on a stream that is
not open, completes, a lookup ends, an increment once begun is stored, a decoding job
ends, a thread that was started gets to its function, a thread that is in
`set_enabled()` gets on with it, and `join()` returns when it can. Nothing is assumed of
the peer or of the application.

Every property of a passing run has a mutant in `PROJECT.json`: a small operator
next to the one it replaces, marked `mutant`, with which the property fails.

### Findings

`movement_threads`: the messages of `iiwa_move` and the receiver in
`websocketclient_iiwa` are declared `threadsafe::yes` (`iiwa_move.cpp:189`,
`websocketclient_iiwa.cpp:116`), by which Max may call them on its scheduler and
its main thread, and they share one `Movement` without a lock. `SentIsWhole` fails:
a message leaves while the other thread is filling one of its groups (joints, filter or
parameters, depending on the trace), which is then half set in what is sent.

`host_unresolved`: neither resolver callback looks at its error code
(`client.h:70`, `websocketclient.cpp:139`). After a failed lookup `connect()` is
called with a url without endpoints, against its own `assert( url.is_resolved() )`
(`session.h:197`). With assertions compiled out the connection attempt fails and
the session becomes ABORTED, which is how the owner learns of it
(`LookupFailureIsReported`).

## 4. Proofs

`SessionProofs`, from `SessionAssumption` alone (any set of messages, any bound
on closes, either callback setting, either platform):

* `TypeCorrect`, one lemma per group of actions.
* `WritesAreSerial` and `MessagesComeBackInOrder`. Neither property is inductive:
  a lambda on the strand could be about a message that is not posted, and running
  it would start a second write. `IInv` adds `StrandPosted` (each lambda is about
  a posted write, and no two about the same one) and puts everything under
  `stale = {}`; `StaleGrows` shows that this condition, once lost, stays lost.
  The key lemma is `QueueComplete`: the message a completion is bound to is the
  front of the queue, because only that message is in flight.
* `QueueIsDriven`, inductive together with the type invariant and without any
  condition on `stale`: the flush empties the queue, and each other step that
  leaves a message in it leaves a write in flight.
* `HandBackIsBalanced`, `OnlineReads`.
* `OnlyStaleComeTwice`. Once a flush has left a write behind, hardly anything of
  `IInv` holds: that write shares the stream with the write of a newer message, and
  its handler pops that one. What holds in every state is `StaleInv`: each message
  is in one place, in the queue or handed back, and only stale ones were handed
  back twice (`Places`); a write under way is of the front of the queue or of no
  message in it, and if its message was handed back, that one is stale
  (`WritesAreDue`).

Further, for sessions without `on_write_done` (`ASSUME ~HasWriteDone`, as in
every object of the repository):

* `SessionKeepsPromise`: `Session` implements `Outbox`. Such a session never has a
  stale write (`NeverStale`), so `IInv` applies, and `SentInv` is about the wire:
  frames are of messages up to the one whose write is being completed (`SentUpTo`),
  the stream opens once (`OpensOnce`), and while it is open no write has failed
  since the first frame (`NoGap`), which is why the frames are contiguous.
* `HostRunsSession`: an owner makes only steps that its session's specification has,
  so `SInv`, what is proved of the session, holds under both. With the life of
  the object (`LifeInv`) follows `HostLeavesNothing`, where the step that matters is
  the return of `join()`, and with `FrameInv` `ReadyFramesAreBinary`.

`LocksProofs`, for any number of threads and any choice of callbacks. `LInv` says
of each thread where it is: what it has still to do is one of finitely many rests of
a call or handler, and with each goes the set of mutexes it holds then. Both
theorems are read off it. `DoneRunsAlone`: inside `on_write_done_` the queue's mutex
is held (`InsideHolds`). `ThreadsNeverStick`: under `OneOrder` the mutexes have ranks
that ascend from those a thread holds to the one it waits for (`WaitsInOrder`), and
the application's threads hold none while they wait; so of a set of threads that
wait for one another, the one that waits for the highest waits for a thread that waits
for a higher one. With one thread for the `io_context` only that one
holds a mutex while it waits, and what it waits for it would hold itself, which
`NoReentry` excludes. That the io threads are finitely many is needed
only to count them.

`StatsProofs`, for any threads and calls. `SInv` adds to `TypeOK` and `OneChain` where
the enables are (`OneEnables`): until two have crossed, one thread at most is between its
test and the start of the timer, the flag is unset before its assignment, and set after
it, as no check is left that could clear it (`OneChainAtATime`). `CInv` says that an
increment under way works on the current count unless a reset fell into it, and gives
`MessagesCountedOnce`, crossing enables included.

`ListenerProofs`, for any connections and any number of starts: at most one of
accept, handler and lambda exists, and the mutex is locked exactly while it is the
lambda (`SocketIsExclusive`, `ListenerNeverBlocks`). `OpenInv` adds that what is
under way is no error while the listener is OPEN and nothing has failed, and gives
`OpenListenerAccepts`. `DInv` adds that the lambda was posted with a connection
exactly if `socket_` holds one (`LambdaKnows`): `ConnectionsComeOutOnce` and
`EndsAreReported`.

`WorkerProofs`, for any jobs and threads: each job posted is in the queue, with one
thread, or done, and in one of these once (`OnePlace`); the context stops only when
nothing is queued or running, and threads leave and `stop()` returns only after that
(`StoppedIdle`). `EarlyJobsAreDone` and `StoppedForGood` follow.

`MaxProofs`:

* `PortStaysPort`, for any width of `int` and any 64-bit numbers: narrowing is the
  identity on `int`s and always gives an `int` (`NarrowIsInt`), so that each arm of
  the restriction yields a port (`RestrictedIsPort`).
* `OneThreadSendsLatest`, for one thread and any number of fields, values and calls:
  at every step of a call the fields before the one that is set have the new
  value, and the others what the call began with or cleared (`JointsInv`,
  `FilterInv`, `ParamsInv`); the size taken before serializing is still that of the
  message (`SendInv`). Two threads refute it, see the findings.
* `MessagesArriveAsPushed`, for any atoms and arrays. `MessageInv`: every beginning
  of the message, not only the whole of it, decodes to the beginning of what was
  pushed (`Tells`), which is also what a cut frame needs. The community
  modules flatten sequences by a fold, whose value the provers do not compute:
  `JoinsExists`, `JoinsAgree` and `FlattenIs` give it, by an induction over a set of
  numbers that derives from the least-element principle and needs no operator as
  parameter (`Induction`).

`UrlProofs`, for any list of arguments: `EndpointFollowsUrl`, by the arithmetic of the
two conversions between signed and unsigned 16 bit numbers; `AnAddressIsEnough`, as
behind an address the host stays one and the port is never junk (`EnoughInv`); and
`ArgumentsMeanUrl`: at each argument the url is either empty and no argument so far
is usable, or comes from one of them, the first usable one if it is valid already,
and has the first port since (`SourceInv`).

`ResolverProofs`: `RInv` adds to `OneLookup` that the queue is the part of the
requests that is not answered (`QueueIsRest`, by index rather than by
concatenation). `ResolverTypes`, `OneLookupAtATime` and `ResolverKeepsPromise` (every
step of the resolver is a step of `ResolverService` or a stutter) follow.

So every invariant of a passing run, and every property of one that is not about
liveness, has a theorem. Assumed are only the named assumptions on the constants,
`~HasWriteDone` for the refinement and the hosts, and one thread for
`OneThreadSendsLatest`.

Only model-checked is liveness, which the proof system does not reach: `CloseEnds`,
`EndedDrains`, `DestructorReturns`, `LookupFailureIsReported`, `ChainLetsGo`, both
`StopEnds`, `ObjectEnds`, and the fairness part of `ResolverService`. `SentIsWhole` and
`ConnectIsResolved` are refuted by TLC.

## 5. Plan

No module and no theorem about a checked safety property is left to write. Worth
proving next are facts no run asks for: what liveness rests on, step by step (the rank
that each step of a closing session lowers, and that a queued handler is never
dequeued without being run), and that `SessionLocks` and `Session` agree on the
order in which a handler touches the queue.

## 6. Not modelled

* `server.h` and `session_query_macros.h`: included by no file and not compilable, see
  above. With the name repaired, `do_handle_session` would hand each session a null
  counter, which its constructor increments, and never call `accept()`: there is no
  behaviour past the first connection to be faithful to. Two facts about `server.h`
  are noted under Listener, since `shutdown()` is the only caller of `stop_listen()`.
* `write_queue.h`, `protobuf_decoder.h`: commented out from end to end.
* `iiwa_joints.cpp`: its handlers are never registered with Max.
* The allocators' count of live messages, which only an assertion of the destructor
  reads (that every message comes back is `NothingOutlivesHost`);
  `proto_message_wrapper.h` and `iiwa_message.h`, which no object uses.
* `set_host`, `set_path` and the comparisons of `net_url`, which nobody calls.
* Output to Max and logging (pure I/O), status reports, `ohlano.h`'s and
  `ohlano_min.h`'s macros and templates without state, `optional_locks`.
* The generated protobuf classes and the submodules, which are not in the tree;
  examples, the test server and build files.
