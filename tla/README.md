# A TLA+ development of muduo-pro

muduo-pro is a C++ network library after the reactor pattern: every IO thread
runs one `EventLoop`, and everything that happens to a connection happens in the
thread of its loop. Other threads hand functors to a loop. Most of what is hard
to get right is in those hand-overs, in the life time of objects that several
threads refer to, and in sequences of calls that no test makes. This directory
models that part of the code, checks it with TLC and proves the central facts
with TLAPS.

Sources are cited as `net/...` and `base/...` for `src/muduo/net/...` and
`src/muduo/base/...`. The default build is a Debug build (`CMakeLists.txt`), so an
`assert()` is part of the behaviour: a failed one ends the program.

## The system

| part | state | operations | what it touches | hard behaviour |
|---|---|---|---|---|
| `EventLoop` | `quit_`, `looping_`, `callingPendingFunctors_`, `pendingFunctors_` (under `mutex_`), eventfd | `loop`, `quit`, `runInLoop`, `queueInLoop`, `wakeup` | pollers, every other class | lost wakeups, functors that queue functors, `quit()` at any time |
| `EventLoopThread` | `loop_` (under `mutex_`/`cond_`), the loop on the thread's stack | `startLoop`, destructor | `EventLoop` | start handshake, quit before `loop()`, pointer to a dead stack |
| `EventLoopThreadPool` | `loops_`, `next_` | `start`, `getNextLoop` | `EventLoopThread` | wrap-round, no loops |
| `Channel` + `Poller` | `events_`, `index_`, `channels_`, kernel interest | `enable*`, `disable*`, `remove`, `poll` | kernel | long call sequences, short event list |
| `TimerQueue` | `timers_`, `activeTimers_`, `cancelingTimers_`, timerfd | `addTimer`, `cancel`, `handleRead` | `EventLoop`, heap | cancel from a callback, address reuse, re-arming |
| `TcpConnection` | `state_`, `outputBuffer_`, channel interest | `send`, `shutdown`, handlers | loop, kernel, peer | state tested in one thread and used in another, deferred FIN, object life time |
| `TcpServer` + `Acceptor` | `connections_`, `started_`, `listenning_`, `idleFd_` | `start`, `newConnection`, `removeConnection`, destructor | pool, connections, loops | three-hop close, destructor against queued functors, `EMFILE` |
| `Connector` + `TcpClient` | `state_`, `connect_`, `channel_`, retry timer | `start`, `stop`, `retry`, `restart` | timers, loop | stale retry timers, deferred channel reset |
| `Buffer` | indices into a vector | `append`, `retrieve`, `prepend`, `readFd` | - | index arithmetic |
| HTTP, RPC, Inspector | parser state, outstanding calls | `onMessage` and friends | `Buffer`, `TcpConnection` | requests cut anywhere, answers out of order |
| `AsyncLogging`, `LogFile` | buffers, file | `append`, back-end thread, roll | condition variable | swap against append, overload |
| queues, latch, `ThreadPool` | queue under a mutex | `put`, `take`, `run`, `stop` | condition variables | lost notifications, stop against take |
| `Date`, `TimeZone`, `LogStream` | - | conversions | - | boundaries |

## Modules

| module | models | extends / instance |
|---|---|---|
| `EventLoop` | `net/EventLoop.cc` | `FunctorQueue` as abstract specification |
| `FunctorQueue` | what a loop promises those who queue functors | |
| `EventLoopThread` | `net/EventLoopThread.cc` | composes `EventLoop` |
| `EventLoopThreadPool` | `net/EventLoopThreadPool.cc` | |
| `Poller` | what a poller promises (`net/Poller.h`), `Channel`'s interest operations | |
| `EPollPoller`, `PollPoller` | `net/poller/*.cc` under the calls of `Channel` | `Poller` as abstract specification |
| `DefaultPoller` | `net/poller/DefaultPoller.cc`: either poller | composes both pollers |
| `TimerQueue` | `net/TimerQueue.cc`, `net/Timer.*`, `net/TimerId.h` | |
| `TcpConnection` | `net/TcpConnection.cc`, `handleEvent()` of `net/Channel.cc` for its channel | |
| `Acceptor` | `net/Acceptor.cc`, and the process's descriptor table | |
| `TcpServer` | `net/TcpServer.cc` | composes `Acceptor` and `EventLoopThreadPool` |
| `Connector` | `net/Connector.cc` | |
| `TcpClient` | `net/TcpClient.cc`, with the loop that runs both | composes `Connector` |
| `Buffer` | `net/Buffer.*`, `net/Endian.h` | |
| `Inspector` | `net/inspect/Inspector.cc`, the commands of `ProcessInspector` | |
| `HttpServer` | `net/http/HttpServer.cc`, `HttpContext.h`, `HttpRequest.h` | extends `Buffer` and `Inspector` |
| `RpcChannel` | `net/protorpc/RpcChannel.cc`, `RpcCodec.cc` | |
| `Services` | one of the three above at a time | composes `HttpServer` and `RpcChannel` |
| `Monitor` | `base/Mutex.h`, `base/Condition.*`: critical sections, `wait`, `notify` | |
| `BlockingQueue`, `BoundedBlockingQueue`, `CountDownLatch`, `ThreadPool` | the headers and sources of that name | extend `Monitor` |
| `Monitors` | threads at one of the four | composes them |
| `LogFile` | `base/LogFile.cc` | |
| `AsyncLogging` | `base/AsyncLogging.cc` | composes `LogFile` |
| `LogStream`, `Logger` | `base/LogStream.*`, `base/Logging.*` | |
| `Date`, `TimeZone`, `FileUtil` | the sources of that name | |
| `Conversions` | the pure algorithms, the logger and the reader of files, one at a time | composes `TimeZone`, `Logger`, `FileUtil` |
| `EventLoopProofs` | theorems about `EventLoop` and `EventLoopThread` | extends `EventLoopThread` |
| `DefaultPollerProofs` | theorems about both pollers and the choice between them | extends `DefaultPoller` |
| `TimerQueueProofs`, `TcpConnectionProofs`, `AsyncLoggingProofs` | theorems about the module of that name | extend that module |
| `TcpServerProofs` | theorems about `TcpServer` and the pool | extends `TcpServer` |
| `MonitorLemmas`, `MonitorsProofs` | theorems about `Monitors`: what the steps share and the queues; latch, pool and results | extend `Monitors` |

Names follow the code: a variable `pendingFunctors_` is the member of that name,
an action `QueueInLoop` is the function `queueInLoop()`. Definitions whose name
has a suffix (`Quit_NoWakeup`) are plausible bugs of the definition after them,
used to see that a property notices them; no specification uses them.

**EventLoop.** `ioPc` is the place of the loop thread: before `loop()` (`init`),
at `while (!quit_)` (`test`), in `poll()`, between handlers (`handle`), in a
handler, about to swap, between functors (`run`), in a functor, or out of
`loop()` (`done`). `queueInLoop()` is two steps, the push under the mutex and the
write to the eventfd (`waking` holds the threads in between), because another
thread can run in between. Handlers and functors are user code: while one runs
the loop thread may itself queue functors and call `quit()`.

**EventLoopThread.** One owner thread and one IO thread over the steps of
`EventLoop`. The destructor's `loop_->quit()` is split at the store of `quit_`,
for after it the loop object may die; without `startLoop()` it meets a NULL `loop_`.

**Pollers.** A step is a whole `Channel` operation up to the poller, or a `poll()`.
The kernel's readiness changes at any time. `failed` is set where an `assert()`
or `epoll_ctl()` fails. `DefaultPoller` picks one of the two, as
`newDefaultPoller()` does, and is where both are checked. Channels are enabled,
disabled and removed in any order; a `Channel` that was removed is not used again.
`Poller`'s promise is stated of the events a poller watches (`Watched`), which for
`PollPoller` are not always those the channel asked for, and `fresh` holds the
channels whose removal fails its assertion: both are described under "What the
code does not prevent".

**TimerQueue.** Timers live at addresses that are used again after `delete`.
`runInLoop()` is immediate in the loop thread and queued (`pending`) from another
thread. `handleRead()` is cut at the callbacks, which may add and cancel. The
timerfd may fire early, since it runs on another clock than `Timestamp::now()`.
`cancelInLoop()` reads a node of `activeTimers_` after it was erased; the model has
the value the node held.

**TcpConnection.** One connection with a second thread that sends through its
own `shared_ptr`. A message is a sequence of numbered bytes, so that `wire`,
`outputBuffer_` and `stream` can be compared; `write()` takes any number of them.
`poll()` reports any mix of POLLIN, POLLHUP, POLLERR and POLLOUT that a TCP socket
in that state can have (`Revents`), and `HandleEvent` runs the handlers in the order
of `handleEventWithGuard()` (`Dispatch`).
`Alive` counts the `shared_ptr`s: the server's, the second thread's and those in
functors; a functor of `send()` has a raw pointer only.

**TcpServer and Acceptor.** A base loop (0) and the loops of the pool, each with
its queue of functors. Connections are reduced to what their life cycle needs.
The descriptor table holds the spare `idleFd_`, the connections and descriptors
of other threads, which may take the freed one between `close(idleFd_)` and
`open("/dev/null")`: `handleRead()` is cut there.

**TcpClient and Connector.** The loop's iteration is explicit: the events `poll()`
returned (`active`), then the functors queued so far. Retry timers carry the
`shared_ptr` to the connector they were made with, and more than one may be
pending. The user calls `connect()`, `disconnect()`, `stop()` and the destructor
from another thread or from a functor. `connect(2)` is under way, or fails with an
error that is retried or one that is final; an attempt under way ends connected,
or in one failure step for `handleError()`, `SO_ERROR` and a socket that connected
to itself, which the code treats alike; an event in another state fails the
assertion of its handler (`HandleUnexpected`). Timing is kept in two respects
only: `resetChannel()`, queued with a retry timer of at least 0.5 s, runs before that
timer expires (`RetryDue`), and the functors that the destructor leaves run before
its timer of one second does (`HackDue`). The history variables `unready` and `raced`
record that a `connect()` or a destructor came in one of the situations that the
code does not handle (`Unready`, `Unsafe`, `ClientCalledBack`).

**Services.** `Buffer` is its vector with both indices, beside the bytes it should
hold; its operations are functions, so that they compose as they do in the code.
`HttpServer` reads a script of requests that arrives in pieces of any size, and
answers by the default callback or by an `Inspector`; a request may have an
unknown method or no valid version. `RpcChannel` has several
calling threads, one of them the loop's; `CallMethod()` is cut between taking an
id, `send()` and the entry in `outstandings_`, in the order of the code.

**Monitors.** A critical section is one step up to a wait; a woken thread tests its
condition in a step of its own, after anyone else has taken the mutex. `notify()`
after the mutex is released (`BlockingQueue::put()`) is a step of its own.
`SpuriousWakeup` wakes any waiter at any time.

**AsyncLogging and LogFile.** Lines are numbered in the order of `append()`. The
swap of the buffers is one step, each write to the `LogFile` another. The history
variables `large` and `stale` count the appends that left the current file too large
after its first second, and those of a new day that went to it.

**Conversions.** Each state is one input, its answer is computed by the code's
algorithm and compared with a definition that counts days, searches offsets or
reads digits back. `Date` keeps C++'s division towards zero; `TimeZone` is given
zones that start with standard time and have up to three transitions to summer
time of one hour and back, so that the last may be either. `Logger` is a thread
that logs lines while the clock is set, also back. `FileUtil` reads a regular file,
a directory or a missing file into a string that holds something already.

## Runs

Each `.cfg` is one question. A property of a run is often the conjunction of a few
named ones that make up one promise (`EndsOnce` is `UpDownPaired`,
`GivenUpOnlyWhenClosed`, `DeletedOnlyWhenRemoved`, `FailsOnlyWhenDisconnecting` and the
types); each part has its own comment. Bounds are in the `.cfg` files; the table
gives the reason they suffice, and the number of distinct states.

| run | properties | what they say | bounds, states |
|---|---|---|---|
| `EventLoop` | `NoLostWakeup`, `NoLostQuit`, `FunctorsConserved`, `PromptlyServed`, `ImplementsFunctorQueue` | wakeups and quits are not lost, functors are conserved, run without the poll timeout and in bounded batches, `quit()` works, `FunctorQueue` is implemented | 2 callers, 3 functors: two callers and a functor that queues can all be between push and wakeup, and two batches overlap (102,154) |
| `EventLoopThread` | `StartedLoopUsable`, `StartsAndEnds` | handshake, usable loop, join returns once looping | one owner, 2 functors, which it may queue before and after `loop()` starts (5,572) |
| `DefaultPoller` | `IndexFollows`, `AssertsHold`, `ImplementsPoller`, `NoStarvation` | index discipline of both pollers, no `epoll_ctl()` refused and one assertion at most that fails, refinement of `Poller`, no starvation | 3 channels: the entry that removal moves is neither first nor removed; an event list of 1, so that it overflows and doubles twice (198,656) |
| `TimerQueue` | `QueueConsistent`, `CancelledIsGone`, `RunUnlessCancelled` | the two sets agree, no timer leaks, the timerfd is armed, cancels work from callbacks, no timer is dropped, due timers run | 2 addresses, 2 timers, 3 instants: an address is used again while its old id is still held, both timers are in one batch, a periodic timer runs twice (142,261) |
| `TcpConnection` | `StreamInOrder`, `PeerSeesPrefix`, `OutputDrains`, `EndsOnce`, `OrderlyEnd` | stream order and completeness, no gap in what the peer gets of a thread, POLLOUT interest, FIN, callbacks, life time, the one failing assertion, input before close, deferred shutdown | 2 messages of at most 3 bytes, of one thread or of two, a byte of the peer unread: every split of a write, every mix of events at the end (279,653) |
| `TcpServer` | `ConnectionsTracked`, `Balanced`, `ClosedIsDestroyed`, `ClientIsServed` | life cycle over threads, shares of the loops, every client is served or refused | 3 connections, at most 2 io loops, 3 descriptors of which another thread may take one: all connections in the base loop, in one or in two loops, and the table full (155,831) |
| `TcpClient` | `SocketsOwned`, `AttemptsBounded`, `OnlyKnownFailures`, `ConnectsInTheEnd` | who owns a socket, one attempt at a time and none after a stop, when assertions can fail and deleted objects be used, a wanted connection comes up | 2 descriptors, delays 1 and 2, 3 calls: a retry timer of an earlier start meets a later one, the delay reaches its limit, an old channel is still to be reset (254,850) |
| `AsyncLogging` | `FilesRolled`, `WriterKeepsUp`, `LinesInOrder`, `LoggerCompletes` | roll by size and by day, spare buffers, no sleep on full buffers, flush at stop, order, no line lost but by the overload rule, start and stop return | 6 lines in buffers of 2, at most 2 buffers, files of 3 bytes, days of 2 seconds: three buffers are full at once, so that the overload rule applies, a file outgrows its size within a second and a day ends in the middle of a file, and both bounds are reached (177,278) |
| `Monitors` | `HandedOverInOrder`, `NoneSleeps`, `AllReturn` | order, bounded queues keep their bound, no lost notification, every call returns | 3 and 3 threads with 2 calls, room for 1 or 2 items, latches from 0 to 6, pools of no or three workers: a producer and a consumer can wait at the same time, and a notification can reach the wrong one of two (42,583) |
| `Services` | `BufferHolds`, `HttpAnswers`, `RpcCompletes` | buffer contents and integers, responses independent of arrival, a call gets its own reply | buffers of up to 4 bytes round a vector of 4, scripts of up to 3 requests, two of six kinds refused, and all short paths, 3 callers: growing, moving and the extra buffer of `readFd()` all happen, a frame is cut, replies are reordered (105,316) |
| `Conversions` | `CalendarExact`, `LogLinesExact`, `ReadsThePrefix` | calendar, UTC and local time in both directions; digits, whole log lines, cached time; what `readFile()` leaves in the caller's string | years 1900 to 2500 contain each kind of leap year; numbers to 1023; zones around each transition; files of up to 5 bytes through a buffer of 3 (224,439) |

`CHECK_DEADLOCK FALSE` stands where the system may stop: a loop that returned, a
server that is gone, a model whose bounds are used up.

The run `EventLoopThread_join` shows where the code does something else than its
comment says: `quit()` before `loop()` is erased by `quit_ = false`, and the
destructor's `join()` hangs.

### What the code does not prevent

The models contain these behaviours of the code too. No property excludes them,
and where one ends the program the model stops there:

- the destructor of `EventLoopThread` may call `wakeup()` on a loop that is gone
  (`net/EventLoop.cc:141`), and `quit()` on a NULL `loop_` if `startLoop()` was not
  called (`net/EventLoopThread.cc:22`, `DtorUnstarted`);
- a functor that the loop thread queues before it enters `loop()` gets no wakeup
  and waits out the first poll timeout (`early` in `EventLoop`;
  `net/EventLoop.cc:169` allows this for handlers only);
- a channel in `channels_` need not be in the epoll tree, as
  `net/poller/EPollPoller.h:41` has it: `kDeleted` ones are not (`IndexMeaning`);
- a channel of a `PollPoller` enabled again after `disableAll()` stays ignored
  (`net/poller/PollPoller.cc:94`; `Watched` does not hold it), and `removeChannel()`
  asserts on a channel whose first and last update was `disableAll()`, which is what
  the destructor of an `Acceptor` that never listened does (`AssertsHold` says that no
  other assertion of the pollers fails);
- a `cancel()` may overtake the add of another thread and is dropped
  (`net/TimerQueue.cc:156`); `addTimer()` in another thread reads the sequence number
  of a `Timer` that may be deleted (`OtherAddTimerReturn`), and `cancelInLoop()` reads
  an iterator that it has erased (`net/TimerQueue.cc:153`);
- the functor of `send()` has a raw `this` and may outlive the connection
  (`net/TcpConnection.cc:97`); a message that another thread's `send()` accepted is
  dropped when the loop thread's `shutdown()` comes before its functor
  (`GivenUpOnlyWhenClosed` says when a message can be dropped);
- `connectDestroyed()` by the destructor of `TcpServer` meets `kConnected`, which its
  comment excludes, and `kDisconnecting`, where `Channel::remove()` asserts
  (`FailsOnlyWhenDisconnecting` says that no assertion fails otherwise); io loops
  that quit drop the functor altogether (`net/TcpServer.cc:40`);
- the first `TcpServer::start()` from another thread aborts (`OtherStart`);
- `removeConnectionInLoop()` and the `Acceptor::listen()` that `start()` queued run on
  a destroyed `TcpServer` (`dangling`);
- with a full descriptor table another thread may take the descriptor that
  `Acceptor` freed: the client waits, and the spare one can be lost;
- `TcpClient::connect()` fails the assertion in `startInLoop()` or `connecting()` when
  the last one is under way or up; when its connection has closed without `retry_`,
  which leaves the `Connector` in `kConnected`; when the timer of a retry is pending,
  which `stop()` does not cancel; or when `stop()` or `resetChannel()` is still queued
  (`Unready`; `FailsOnlyWhenUnready` says that nothing else makes an assertion fail);
- `~TcpClient` deletes a connection that is up and that nobody else holds with its
  channel registered, and does not hold the `Connector` for its queued functors if
  there is a connection; from another thread it may leave a close callback into the
  dead client, and the loop may call the client back meanwhile (`Unsafe`,
  `ClientCalledBack`; `DestructionSafe` says that nothing else goes wrong); `stop()`
  between `removeConnection()`'s test and `restart()` is undone;
- `AsyncLogging::stop()` loses the lines appended after the last swap, and its
  `notify()` without the mutex can be missed, which costs up to `flushInterval_`;
- tasks in the queue of a `ThreadPool` at `stop()` are not run;
- `HttpServer::onMessage()` answers one request per call, so that a pipelined one
  may wait for the next bytes; `HttpContext::reset()` keeps `version_`, which the
  next request line sets; a line refused for its version leaves its method set, so
  that the bytes that come before the connection is closed may fail the assertion
  of `setMethod()` (`net/http/HttpRequest.h:46`; `AssertsOnlyWhenRefused` says when);
- an RPC response that overtakes `CallMethod()` between `send()` and the entry in
  `outstandings_` is dropped and its call never completes (`RpcCompletes` says that
  no other is lost); a request for an unknown service gets no reply;
- a log line longer than its buffer loses items, its newline possibly among them;
- `readFile()` of a file that cannot be opened leaves the caller's string as it was,
  and a directory or a failed `fstat()` does not end the call.

`net/inspect/Inspector.cc:22` says of `split()` that it "Looks buggy": it is right on
every path checked here.

## Fairness

Threads are scheduled and callbacks return: weak fairness of the loop's own
steps and of the wakeup a thread is about to write. `PromptSpec` leaves the poll
timeout out, so what holds there does not wait 10 seconds; only the liveness part
of `ImplementsFunctorQueue` has it as a premise, for a functor queued before
`loop()` waits for it. `DPSpec` assumes that `poll()` is called again and again.
`TQFairSpec` assumes that an armed timerfd fires when it is due and that the loop
handles it; nobody has to call anything. `TCFairSpec` assumes that a peer that has
not reset the connection goes on reading (strong fairness of a write that makes
progress, which handlers of other events may interrupt), and that `poll()` reports
an event that lasts: strong fairness, because the functors run between two polls.
In `TcpServer` each loop
runs its functors and the acceptor handles a waiting client; strong fairness of
the base loop, because the acceptor's handler may come in between. In `TcpClient`
the loop goes on, `poll()` reports an event that stays ready, and, strongly,
an attempt that is made again and again is under way in the end and then
succeeds: without it a server that always refuses refutes `ConnectsInTheEnd`.
`MSpec` is fair to every thread that is not waiting, and to no spurious
wakeup. `ALFairSpec` is fair to the logging thread, whose wait ends after
`flushInterval_` at the latest, and to the thread in `start()` or `stop()`. In
`RpcChannel` bytes arrive and both loops and all callers go on.

## Proofs

`EventLoopProofs` (any threads, functors, channels):

- `TypeCorrect`, `FunctorsNeverLost` are inductive as they stand, except that the
  batch is empty outside `run`/`functor` (`BatchInv`).
- `WakeupNeverLost` needs to know why a pending functor has a wakeup: `WakeupInv`
  says that from the swap on, every functor pushed by another thread or by a
  functor of the batch has left the eventfd readable or its thread in `waking`,
  up to the moment the eventfd is read, after which the swap is still to come.
  `CallingInv` ties `callingPendingFunctors_` to the place of the loop thread: it
  is what makes a functor's own `queueInLoop()` wake the loop.
- `QuitNeverLost` rests on `QuitInv`, the same argument for `quit_`.
- `LoopImplementsQueue`: every step of the loop is a step of `FunctorQueue` or
  leaves it alone, under the mapping `backlog <- functors \o pendingFunctors_`.
- `StartedLoopExists` (any owner): `HandshakeInv` says that before the destructor
  nobody asks the loop to quit, so that the thread cannot have left it, and that
  `loop_` is set only by a thread whose loop exists. `ThreadKeepsFunctors` carries
  `FunctorsConserved` over to the loop of an `EventLoopThread`: each of its steps
  is a step of the loop, leaves it alone, or is a half of the destructor's `quit()`.

`DefaultPollerProofs` (any finite set of channels, any size of the event list):

- for `EPollPoller`, `IndexMeaning` with the types is inductive (`EPInv`); from it no
  assertion and no `epoll_ctl()` fails (`EPollNeverFails`), and what `epoll_wait()`
  reports is what `Poller` allows (`EPollImplementsPoller`);
- for `PollPoller`, that `index_` points back (`IndexPointsBack`) is not inductive: the
  swap with the last entry in `removeChannel()` needs that `pollfds_` and the map
  have the same size (`Sized`), an entry without events has a negated descriptor
  unless its channel is `fresh` (`IdleIgnored`), and a channel the poller does not
  know has no events (`UnknownIdle`, all in `PollInv`);
- `IndexLeadsBack`, `PollersFailOnlyFresh` and `PollersImplementPoller` put them
  together for whichever poller was chosen (`DPInv`).

`TimerQueueProofs` (any finite set of addresses, any delays, intervals, numbers of
timers and pending calls): `TQInv` relates the heap, `timers_`, `activeTimers_`, the
batch of `getExpired()` and the timers other threads have handed over.

- `Pointers`: both sets name the same live Timers under their expiration, and none
  of them is in the batch; the sizes the assertions compare follow from it.
- `PendingInv`: a Timer on its way to `addTimerInLoop()` is alive, in no set, and
  comes once. Without it an insert could find its address in the queue.
- `BatchInv`: those of the batch that `reset()` finds in `cancelingTimers_` are the
  ones that were cancelled, and those with no callback left have run.
- `TimersConsistent`, `CancelIsFinal` follow; `DeletedOnlyWhenDone` is an action
  property proved from the same invariant. It rests on sequence numbers: an
  address that is used again has another id.

`TcpConnectionProofs` (any number and length of messages, any mark): `TCInv` has,
beside the types,

- `FunctorInv`: `connectDestroyed()` waits at most once, in the queue or in what is
  left of the batch, and only after the connection went down;
- `LifeInv`: what each `state_` says of the callbacks, the channel, the owner and the
  pending `connectDestroyed()`;
- `OutputInv`: the bytes in order, POLLOUT, and when a message may be given up.

`StreamIsKept`, `OutputIsDrained`, `ConnectionEndsOnce` follow. `ReadsBeforeClosing` is
an action property: the connection goes down only after its peer closed or reset
it and all its input was read, or because its server destroys it.

`TcpServerProofs` (any number of loops, connections and descriptors):

- `RoundRobin` and `ServerSpreadsLoad`: the loops before `next_` have had one
  connection more than those after it (`PoolInv`), for the pool alone and in a
  server;
- `ServerTracksConnections`: `TSInv` follows a connection through the three hops of
  its close. While the server lives, a functor of a connection waits in the one
  loop it belongs to, once, and finds the connection in the state it asserts
  (`ChainOf`); the map holds it exactly until `removeConnectionInLoop()` has run
  (`MapOf`); callbacks and channel follow the state (`StageOf`), also after the
  server is gone.

`AsyncLoggingProofs` (any sizes, any number of lines): the invariant has three
parts, which need each other.

- `LogFileInv`: as long as a file is not rolled no append has left it too large after
  its first second, and those of a later day have been counted by `count_`.
  `FilesAreRolled` follows: one append at most leaves a file too large after that
  second, and `kCheckTimeRoll_` + 2 at most come on a later day. The lemma it rests
  on is that periods follow the clock (`PeriodMonotone`).
- `BuffersInv`: the front end has taken `nextBuffer_` only if a full buffer came
  back for it, so two of the buffers written make up both spare ones, also after
  the overload rule cut them to two.
- `ThreadsInv`: where both threads are when the writer waits and when `stop()`
  returns. `WriterIsInStep` follows from both.

`LinesAreKept` is about the `Pipeline`, the sequence of the file, the buffers still to
be written, the full ones and the current one. `LineInv` says that its lines are in
order and are those appended and not thrown away, and that only appended lines
were thrown away. Each step changes the pipeline in one of four ways: a line is
added to the last buffer, a buffer to the end, the first buffer is written to
the file, or those after the third are left out. Each way has a lemma about
sequences of sequences (`ExtendOrder`, `GrowOrder`, `MergeOrder`, `SkipOrder`), and
each action one that says which way it is.

`MonitorsProofs` (any finite set of threads, any number of calls, queues of any
size up to any `MaxRoom`):
`MonitorInv` adds to the properties that a waiter is in the call that waits on
that condition (`WaitsInCall`), and that calls of a bounded queue are not mixed with
others (`Alphabet`): `BlockingQueue::take()` wakes no producer. Every step has one
thread that moves while the others are at most woken (`Frame`), which reduces
each step to a count of threads: an item that is put is counted against the
thread that will notify, then against the thread it wakes. `NoLostNotify` follows.
`RoomIsKept` adds the bound of a `BoundedBlockingQueue` (`RoomInv`): a woken producer
tests it again before it puts. `OrderIsKept` is that bound and the order together.

Assumptions: the loop's thread is not one of the callers, the wakeup channel is
none of the others, the event list has room for one event, channels, addresses of
Timers and the threads of `Monitors` are finite sets, delays are bounded, a
message has at least one byte, the high-water mark is at least one, there is at
least one descriptor, a line fits in a buffer, at least two buffers are kept, the
other sizes, numbers and periods are naturals. TLC evaluates them in the runs.

Only model-checked:

- all liveness, fairness and `ENABLED` being outside the prover's reach:
  `PromptlyServed`, `StartsAndEnds`, `NoStarvation`, the second half of
  `RunUnlessCancelled`, the deferred shutdown in `OrderlyEnd` (its other half is
  `ReadsBeforeClosing`), `ClosedIsDestroyed`, `ClientIsServed`, `ConnectsInTheEnd`,
  `LoggerCompletes`, `AllReturn`, `RpcCompletes`, and the fairness of
  `ImplementsFunctorQueue`, whose safety is `LoopImplementsQueue`;
- what recursive definitions compute, which would take induction over data: `BufferHolds`
  and `HttpAnswers`, whose modules parse recursively, `CalendarExact`, `LogLinesExact`
  and `ReadsThePrefix`;
- `PeerSeesPrefix`, and the invariants of `TcpClient` (`SocketsOwned`,
  `AttemptsBounded`, `OnlyKnownFailures`), which have no proof yet.

## Not modelled

- Wrappers of system calls (`Socket`, `SocketsOps`, `InetAddress`) and of pthreads
  (`Thread`, `ThreadLocal`, `Singleton`, `Atomic`): they have no state of their own;
  what they return is a choice of the modules that use them.
- Pure input and text: `ProcessInfo`, `Exception`, the text of the commands of
  `ProcessInspector`, of HTTP responses, of doubles, `Fmt` and `Timestamp`; the bytes
  of zone files (`TimeZone` starts from a well-formed one with summer time of an
  hour, whose first local time is standard time: the FIXME at `base/TimeZone.cc:224`
  is about others), the names of log files, `StringPiece` and `readToBuffer()`.
- Errors the code answers by ending the process (`accept()` beyond the temporary
  errors, exceptions of pool tasks), and write errors of log files.
- HTTP: lines refused for another reason than method and version, requests with a
  body, headers without a colon. RPC: frames that the codec refuses, on which
  `onMessage()` calls `errorCallback_` again and again (`net/protorpc/RpcCodec.cc:75`),
  the end of a connection, the table of services of `RpcServer`. `Channel::tie()` and the guard against a second loop in a
  thread beyond what `TcpConnection` and `EventLoop` use of them.
- UTC is compared for the years 1902 to 2037 only, TLC's integers having 32 bits.
- Generated protobuf code.
