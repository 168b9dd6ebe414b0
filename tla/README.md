# A TLA+ development of muduo as kept in this repository

The program is the `muduo` network library under
`src/linux_multithread_server/muduo` (`base/`: threads, queues, logging;
`net/`: event loop, TCP, HTTP, protobuf codecs and RPC), with the examples under
`src/linux_multithread_server/examples`. This directory holds TLA+ modules that
model it, TLC configurations that check them on small instances, and proofs
checked by TLAPS. Paths below are relative to
`src/linux_multithread_server/muduo`. `PROJECT.json` maps every definition to
the lines it stands for, and lists the runs, slips (deliberate errors that a
property must catch), hazards and theorems.

## 1. The system

**Threads and locks (`base/`).** `Thread` starts a pthread and waits on a
`CountDownLatch` until it has published its `tid_`. `BlockingQueue` and
`BoundedBlockingQueue` are monitors with one and two conditions. `ThreadPool`
is a bounded queue of tasks with workers, and `stop()` at any time.
`AsyncLogging` exchanges double buffers between the threads that log and one
that writes. `Singleton`, `ThreadLocal` and `ThreadLocalSingleton` make objects
on first use and delete them when the process or the thread ends.

**Logging and data (`base/`).** A `Logger` lives for one line: it stamps the line
with a time whose text its thread caches, lets the user stream into a
`FixedBuffer` (`LogStream`), and hands the line to `g_output` and, for FATAL,
`g_flush`. A `LogFile` appends lines to an `AppendFile` and rolls it by size and
by day. `Date`, `TimeZone` and the `format...()` functions compute;
`ReadSmallFile` reads a file that others may change.

**One loop per thread (`net/`).** An `EventLoop` polls, runs the handlers of
the active `Channel`s, then the functors that any thread queued, and is woken
through an eventfd. A `Poller` (`EPollPoller` or `PollPoller`) keeps which
channel waits for what. A `TimerQueue` multiplexes timers over one timerfd.
`EventLoopThread` and `EventLoopThreadPool` give loops threads of their own.

**Connections.** A `TcpServer` has an `Acceptor`, deals connections to the
loops of its pool and erases them when they close. A `TcpClient` has a
`Connector` that retries. A `TcpConnection` lives in one loop, is used by any
thread, and is kept alive by `shared_ptr`s in the map of its owner, in functors
and with its users. Its bytes are in `Buffer`s.

**Protocols.** `HttpServer` parses requests into the `HttpContext` of each
connection. `ProtobufCodecLite` frames messages. `RpcChannel` runs calls of
several threads over one connection. An `Inspector` is an `HttpServer` whose
commands other threads add and remove. A `ZlibOutputStream` compresses into a
`Buffer`. The examples are five small servers and two clients.

What is hard about it: wakeups that cross the moment a thread goes to sleep;
tests and assignments of shared members without a lock; objects destroyed while
functors, callbacks or other threads still refer to them; asserts about the
order of callbacks; descriptors that run out; input that is cut anywhere.

## 2. Modules

| module | models | state | actions |
|---|---|---|---|
| `EventLoop` | `EventLoop.cc` | `quit_`, `looping_`, `pendingFunctors_`, `callingPendingFunctors_`, the swapped batch, `activeChannels_`, the eventfd, where the loop thread is, who is about to call `wakeup()` | `Loop`, `While`, `Poll`, `HandleRead`, `HandleEvent`, `SwapFunctors`, `RunFunctor`, ... for the loop thread; `QueueInLoop`, `Quit`, `Wakeup` for others, each split where the code leaves the mutex |
| `EventLoopThread` | `EventLoopThread.cc`, extends `EventLoop` | `loop_`, `mutex_`, where the owner and `threadFunc()` are, which uses of the loop came too late (`dangling`) | `StartLoop`, `StartLoopReturn`, `Dtor*`, `Publish`, `EnterLoop`, `Unpublish`, ... |
| `TimerQueue` | `TimerQueue.cc`, `Timer.h` | the heap of Timers, `timers_`, `activeTimers_`, `cancelingTimers_`, the timerfd and the clock, queued functors | `AddTimer`, `Cancel` (of the loop and of other threads), `HandleRead`, `RunTimer`, `Reset`, `Tick` |
| `BlockingQueues` | `BlockingQueue.h`, `BoundedBlockingQueue.h` | the queue, who sleeps on which condition, who is awake inside | `Put`, `PutWait`, `Take`, `TakeWait`, spurious wakeups |
| `ThreadPool` | `ThreadPool.cc` | `running_`, `queue_`, workers, clients, owner | `Start*`, `Stop`, `Join`, `Run*`, `Take*`, `TaskDone` |
| `AsyncLogging` | `AsyncLogging.cc`, `.h` | the two buffers of the front, the two spares, `buffers_`, `buffersToWrite`, the file as a sequence of lines | `append`, `Start`, `Stop*`, the steps of `threadFunc()` |
| `Thread` | `Thread.cc`, `CountDownLatch.cc`, `Mutex.h`, `Condition.h` | the steps of the owner and of the new thread, the latch with its mutex and `holder_` | one per step of `lock()`, `wait()`, `unlock()`, `countDown()` |
| `ThreadLocals` | `Singleton.h`, `ThreadLocal.h`, `ThreadLocalSingleton.h` | `ponce_`, `value_`, the value of each key in each thread, objects alive and deleted | `onceBegin`, `onceEnd`, `value`, `instance`, the destructors of the keys, `exit`, `destroy` |
| `PollerBase` | `Channel.h`, `Poller.h` | constants only: channels, fds, conditions | |
| `Poller` | `Poller.h` (abstract) | interest and registered channels, readiness, what was reported | `UpdateChannel`, `RemoveChannel`, `poll` |
| `EPollPoller`, `PollPoller` | `poller/*.cc`, `Channel.cc` | `index_`, `channels_`, the list of the kernel and the event list; `pollfds_` | `updateChannel`, `removeChannel`, `poll` |
| `TcpConnection` | `TcpConnection.cc`, `Channel.cc`, the map of `TcpServer.cc` | `state_`, interest and index of the channel, `outputBuffer_`, the functors of the io loop and of the base loop, the socket and the peer, another user thread in the middle of a call | handlers, `*InLoop` functions, user calls in a callback and in the other thread, erase and destruction |
| `TcpServer` | `TcpServer.cc`, `Acceptor.cc`, `EventLoopThreadPool.cc` | the pool, the steps of `Acceptor::handleRead()`, the descriptors of the process, `connections_` | `start`, `accept`, `acceptFatal`, `closeIdle`, `acceptIdle`, `openIdle`, `newConnection`, ... |
| `TcpClient` | `TcpClient.cc`, `Connector.cc` | both objects, functors, retry timers, sockets; which calls came where the code is not prepared for them (`unsafe`) | `connect`, `handleWrite`, `handleError`, `retry`, `restart`, `stopInLoop`, `dtor`, ... |
| `Buffer` | `Buffer.h`, `Buffer.cc`, `Endian.h` | the vector and its two indexes | every call that changes them |
| `Http` | `http/*` | `HttpContext`, how much of the stream arrived and was retrieved, what was handled and answered | `receive`: `handleRead()` and all of `onMessage()` |
| `ProtobufCodecLite` | `protobuf/ProtobufCodecLite.cc` | the same for frames | `receive` |
| `RpcChannel` | `protorpc/RpcChannel.cc`, `RpcServer.cc` | `outstandings_`, calls, messages in both directions, services | the steps of `CallMethod()`, `onRpcMessage()`, `doneCallback()`, `~RpcChannel()` |
| `ServerEnd` | `TcpServer.cc`, `TcpConnection.cc`, over `EventLoopThread` and `EventLoop` | the connections of one I/O loop, who refers to them | `newConnection`, the destructor of the server, the two functors, deletion of a connection |
| `LogFile` | `LogFile.cc`, `AppendFile` of `FileUtil.cc` | the members, the clock, the file with what stdio still holds, the files closed | `append`, `flush`, `Roll`, `Tick`, `SetBack`, `Crash` |
| `Logger` | `Logging.cc`, `FixedBuffer` of `LogStream.h` | the shared settings, the cache of each thread, the Logger of each thread, what a sink has and has flushed | `Log`, `Output`, `Flush`, `Abort`, the setters, `Tick`, `SetBack` |
| `LogStream` | `LogStream.cc` | one call and its text | `Call`: `convert()`, `convertHex()`, `formatSI()`, `formatIEC()` |
| `Calendar` | `Date.cc`, `TimeZone.cc` | a day beside its date; a zone and a time | `NextDay`, `NextHour` walk; the functions are operators |
| `ReadSmallFile` | `FileUtil.cc`, `.h` | the file and its length, how far the reader is | `open`, `fstat`, `read`, `readEnd`, `readToBuffer`, `change` |
| `Inspector` | `inspect/Inspector.cc`, `ProcessInspector.cc` | `modules_`, `helps_`, `mutex_`, the request being answered, the threads of the process | `ctor`, `add`, `remove`, `request`, the steps of an answer, `threadMoves` |
| `ZlibStream` | `ZlibStream.h` | the members of `z_stream` the code reads, the two Buffers | `write`, `writeStep`, `writeEnd`, `writeBuffer`, `finish`, ... |
| `Simple` | `examples/simple/*` | one connection seen from both ends | the callbacks of the servers and of the clients |

`MC*` modules give the constants values. Four of them hold several components
side by side, with `part` saying which one moves: `MCEventLoop` (loop, loop of an
`EventLoopThread`, timers), `MCThreads` (queues, pool, logging, thread,
thread-local objects), `MCNetwork` (server, client, RPC, examples, zlib) and
`MCData` (buffer, log file, logger, numbers, calendar, file reader, HTTP, codec,
inspector). The components of one such module do not interact. Properties of
several components that say the same kind of thing have one name there, for
example `AssertsHold`; each conjunct is a definition of its own in the module of
the component. The real compositions are `EventLoopThread` over `EventLoop`,
`ServerEnd` over both, `TcpConnection` with its server, loop and channel,
`TcpServer` with acceptor and pool, `TcpClient` with connector, and the pollers
under `Poller`.

Conventions. A critical section is one step. An unprotected test followed by an
assignment is two. An `assert` of the code that the model is not about is a
guard; one that a property is about leaves its state visible (`aborted`, a
history variable, or the negated condition). An operator whose comment begins
with "Slip" is a deliberate error for the definition that follows it; no
specification uses it.

Abstractions that matter: messages, functors, tasks and log lines are names or
numbers; readiness of descriptors is a choice of the environment; HTTP lines
are records of what the two parsers read off them, cut in halves; `adler32` is
injective; a protobuf payload is a name with a size; time in `TimerQueue` is in
ticks of the 100 microseconds of `howMuchTimeFromNow()`; timers of `TcpClient`
(half a second and more) expire after the functors queued before them. In
`LogFile` a line has length 1, so that a line written in part is left out; in
`Logger` a line is a sequence of pieces with lengths, since what is cut off is
what matters. `LogStream` keeps the value of a quantity in thousandths of a unit
and a small rest, which decides how a double rounds. Zones of `Calendar` count
hours. `deflate()` is the identity with a delay.

## 3. Runs

| run | instance | states | shows |
|---|---|---|---|
| `event_loop` | 2 threads, 3 functors, 1 channel; loop alone, or owned by an `EventLoopThread`; timers with 1 foreign thread, 2 addresses, 2 timers, 3 ticks | 214,308 | `NoLostWakeup`, `RunInQueueOrder`, `QuitReachesPoll`, `JoinedBeforeDestroyed`, `TimersKept`, `CancelIsFinal`; `LoopGoesOn` |
| `threads` | 3 producers, 3 consumers, capacity 2; 2 workers, 2 clients, 5 tasks, queue of 2; 10 lines, buffers of 3, drop above 3 buffers; 2 Threads in turn; 2 threads with 2 objects of each kind | 36,533 | `NoStuckConsumer`, `NoStuckProducer`, `AssertsHold`, `NoStuckThread`, `OnceInOrder`, `NoDangling`; `WaitsEnd` |
| `default_poller` | 3 channels over 2 fds, event list of 1 | 148,672 | `BooksAgree`; `ImplementsPoller`, `EveryReadyReported` |
| `tcp_connection` | 4 programs (see below), messages of 2 bytes, 3 calls | 471,616 | `AssertsHold`, `BytesInOrder`, `UpDownOnce`; `ClosingEnds` |
| `network` | 3 peers, 0 to 3 loops, 3 descriptors; 3 failures of the peer, 3 calls of a client, of its loop and of another thread, 2 of them `connect()`; 3 RPC calls; 5 example servers; 8 bytes to compress | 83,016 | `AssertsHold`, `NoDescriptorLeaked`, `DoesAsTold`, `OwnAnswerOnce`, `ExamplesRight`, `CompressedInOrder`; `Served` |
| `data` | 2 byte values, up to 3 readable bytes; 4 lines in log files of 2 with a stdio buffer of 3, days of 4 seconds; 2 threads that log 2 lines; numbers around every edge; 14 years and 36 zones; files of up to 5 bytes read by 2; 5 HTTP lines; 2 frames of 9 kinds; 2 commands and 3 threads under inspection | 331,115 | `SpaceCanBeMade`, `FindsFirstLine`, `LinesInOrder`, `RollsInTime`, `LogLines`, `NumbersRight`, `CalendarRight`, `ReadWhole`, `DeliveredWhole`, `ClosedInTime`, `CommandsRight`; `QueueOfBytes` |
| `event_loop_thread_dtor` | as `event_loop` | | `DtorEnds` is violated |
| `timer_queue_add_race` | timers as in `event_loop` | | `AddTimerReadsOwnTimer` is violated |
| `server_end` | one loop with connections, and the end of their server | | `DtorFindsDisconnected` is violated |
| `tcp_connection_force_close` | one other thread calls `forceClose()` | | `FoundInMap` is violated |
| `stop_race` | the client of `network` | | `StopIsFinal` is violated |
| `format_si` | quantities around 99950 * 10^12 | | `AtMost5` is violated |

The comment above each property says what it states and of which lines. Those
after a semicolon are temporal. `TypeOK` of `EventLoop` and `Buffer` is proved
(section 4) and not checked again.

**Bounds.** Each is the smallest at which its hazard happens. Two foreign
threads and three functors give a functor queued by a functor while another
thread queues. Two addresses for two timers over several ticks give the reuse
of an address while a stale `TimerId` exists. Three threads on each side of a
queue of two give a newcomer that takes what a notified sleeper wakes for, with
another one asleep. Three channels over two fds let an fd pass to another
channel while a third entry moves; an event list of one is too short for two
ready fds. Buffers of three lines with a drop above three buffers reach rounds
that drop within ten lines. Two objects of each kind let a thread that ends make
one again. Three descriptors for three peers and the spare one run out. Eight
bytes fill the output of a `ZlibOutputStream` up to the size at which it stops
growing. Four log lines in files of two roll by size or by day, with a clock
that was set back or a write that failed, and a crash; the stdio buffer holds
one line more than are looked at together, so that lines can be late. Log bodies
leave just the room that `finish()` needs, too little for the line number, and
none. Two `connect()` and a `stop()` meet what the first one left behind. Numbers lie around each limit
between units and at the ends of `int`; years are leap years and none of every
kind, and zones have transitions three hours apart. Five HTTP lines hold two
requests with a header between them; a stream begins with a line that has a
method, of a known version or not, and anything may come in the place of the next
request line, and at the end of the headers; two frames put a good one behind a bad one.
Buffer sizes of two reach growing, moving, reads that spill into `extrabuf`, and
bytes in front.

**Deadlock** is checked where the system never stops (loops, pollers). It is off
where objects are destroyed, input ends, or a bound on calls is reached.

**The programs of `tcp_connection`.** One whose callbacks send and close in
every way while another thread sends; one in which callbacks and another thread
call everything; two that send and close in every way and destroy the server, in
the loop of the connection and in another one. `BytesInOrder` holds for all four.
The others are about orderly programs (`Orderly`): other threads only send, nobody
stops or starts reading; and they except a server that ends while the connection
is in `kDisconnecting`. Section 5 says what fails otherwise.

**Fairness.** A thread that is inside a call, or a loop that is running, goes on
(weak fairness of its steps): the kernel schedules threads and callbacks return.
Never fair: what users decide to call, descriptors becoming ready, the 10 s
timeout of `poll()`, spurious wakeups, notifications. So the wakeups themselves
must suffice. The timed wait of `AsyncLogging` ends, as `waitForSeconds()`
does. Strong fairness is used in three places where a step is enabled again and
again: a mutex that is free again and again is locked at last (`Thread`),
timers expire although other events come (`TcpConnection`, `TcpClient`), and a
result of `connect(2)` is seen. In `TimerQueue` time passes and every iteration
polls the timerfd. The two processes of `Simple` handle what has arrived, and the
loops of `ZlibStream` go on.

## 4. Proofs

Eight modules hold proofs; each extends its component and `TLAPS`. The bounds of
the models (`MaxTasks`, `MaxLines`, ...) are arbitrary in them. What they assume
of constants is the named `ASSUME` of the component, or, where a module of runs
takes the component by `INSTANCE`, a hypothesis of the theorem (`PoolRight`,
`LoggingRight`, `AsksRight`).

**`EventLoopProofs`**: for any threads, functors and channels, from
`ChannelAssumption` (the wakeup channel is not one of the user's, `NULL` is
neither channel nor functor).
`TypeCorrect`, `WakeupNeverLost` (`[]NoLostWakeup`), `QuitNeverMissed`
(`[]QuitReachesPoll`), `QueueOrder` (`[]RunInQueueOrder`).
`NoLostWakeup` speaks of a loop that sleeps or is about to; it is not inductive,
since nothing in it says what was true before. `IndInv` adds `LoopPosition`
(`callingPendingFunctors_`, the batch and the running callback follow the
position of the loop thread, which is what the test in `queueInLoop()` relies
on) and `WakeupPending` (a functor may be pending without a wakeup only between
`poll()` and the swap). `QueueOrder` is a second invariant on top: what ran,
the rest of the batch and the pending functors are, in this order, what was
queued.

**`BlockingQueuesProofs`**: for any finite sets of threads and any capacity, the
unbounded queue included, from `QueueAssumption`. `TypeCorrect`,
`ConsumersNeverStuck`, `ProducersNeverStuck`, and `SomeoneAwake` (the two
conditions never hold everyone), which follows from the two. The invariant
counts: while someone sleeps on a condition there are at least as many threads
awake on that side as there are items, or slots. A `notify()` adds one to the
side it wakes; an item or slot is used up by a thread that was counted. The
lemmas on cardinalities say how a count changes when a thread enters or leaves.

**`BufferProofs`**: for all sizes, bytes and data, from `BufferAssumption`.
`TypeCorrect` (the indexes stay in order and in the vector), `SpaceAlwaysMade`
(`ensureWritableBytes()` makes any room, and the asserts of `makeSpace()` hold),
`BytesInOrder` (`[][...]`: every call changes the readable bytes as the call of
a queue of bytes would). The invariant is well-formedness of the buffer; the
lemmas say for each helper what it makes of the readable bytes (`Resized`,
`Moved`, `Written`, `Indexed`, ...), and one lemma per call puts them together.

**`ThreadPoolProofs`**: for any finite sets of workers and clients and any
`maxQueueSize_`, 0 included (`PoolRight`). `WorkersNeverStuck`
(`[]NoStuckWorker`), `ClientsNeverStuck` (`[]NoStuckClient`), `TasksInOrder`
(`[]BegunInOrder`): the conjuncts of `NoStuckThread` and `OnceInOrder` of the run.
The counting is that of `BlockingQueues`, with two differences: `stop()` leaves
no worker asleep and none goes to sleep after it, which the invariant says
itself; and a task run inline keeps the order only because `queue_` is empty
while `threads_` is (`Started`).

**`AsyncLoggingProofs`**: for lines and buffers of any number and size
(`LoggingRight`). `AlwaysSpares` (`[]SparesReady`) and `AlwaysEnough`
(`[]EnoughToRecycle`): the asserts of `threadFunc()`. Neither is inductive.
`Circulating` adds the reason: `nextBuffer_` is moved from only together with a
push to `buffers_`, so that a round that has to give away both its spares has at
least two buffers to take back, also after it dropped all but two.

**`EPollPollerProofs` and `PollPollerProofs`**: for any channels and fds and any
first size of the event list, from `PollerAssumption`. `KernelAlwaysAgrees` and
`IndexesAlwaysAgree` are the invariants of the books (the list of the kernel
against `index_` and `channels_`; `pollfds_` against `index_` and `channels_`).
`Implements` is `Spec => Promised!Spec`: each poller implements `Poller`,
which is `ImplementsPoller` of the run. The initial states map, and every
step is a step of `Poller` or leaves its variables alone; the books are what
makes `poll()` find the channel that asked.

**`RpcChannelProofs`**: for any calls (`AsksRight`: each asks for something the
server has or has not). `AnswersOwn` (`[]OwnAnswer`) and `GivesBackOnce`
(`[]GivenBackOnce`). The invariant follows an id from the call that drew it
through the request, the service, the answer and `outstandings_`, and says at
which of these a call can be at the same time.

Only model-checked: everything else, in particular liveness (fairness and
`ENABLED` are beyond the prover) and what folds and recursive functions over
input compute (`Http`, `ProtobufCodecLite`, `LogStream`, `LinesInOrder` of
`AsyncLogging`: induction over data is beyond it too).

## 5. Where the code and its words disagree

Six disagreements have a run of their own:

* `event_loop_thread_dtor`: `loop()` sets `quit_ = false` on entry
  (`net/EventLoop.cc:108`), so a `quit()` of `~EventLoopThread()` that comes
  between the publication of `loop_` and `loop()` is lost and the join waits for
  ever.
* `timer_queue_add_race`: `addTimer()` reads `timer->sequence()` after the Timer
  was handed to the loop, which may have run and deleted it
  (`net/TimerQueue.cc:123`).
* `tcp_connection_force_close`: `forceClose()` tests and sets `state_` without
  synchronisation (`net/TcpConnection.cc:242`); with a close of the peer in
  between, the connection is closed twice and `assert(n == 1)`
  (`net/TcpServer.cc:113`) fails.
* `server_end`: `loop()` tests `quit_` after a batch and leaves what was queued
  meanwhile (`net/EventLoop.cc:111`). The `connectDestroyed()` that `~TcpServer()`
  queues may so be dropped with the loop, and the last reference to a connection
  goes while it is up: `assert(state_ == kDisconnected)`
  (`net/TcpConnection.cc:71`) fails.
* `stop_race`: `removeConnection()` tests `connect_` (`net/TcpClient.cc:174`) and then
  calls `restart()`, which sets the flag of the Connector (`net/Connector.cc:124`). A
  `stop()` of another thread in between is undone, although `net/Connector.h:42`
  says "can be called in any thread". `DoesAsTold` of `network` excepts this window
  and shows that there is no other one.
* `format_si`: `formatSI()` compares an integer and prints the double it was
  converted to; eight numbers just below 99950 * 10^12 come out as `100.0P`, six
  characters (`base/LogStream.cc:145`; `base/LogStream.h:193` says "atmost 5").
  In the `data` run that unit is left out.

Met while modelling. Where a property has an exception for one of these, its
formula and its comment name it, and the runs reach it unless it says otherwise here:

* `base/ThreadPool.cc:138`: workers leave as soon as `running_` is false; the
  comment at line 56 says that `stop()` has the queue emptied.
* `net/TimerQueue.cc:174`: a timer cancelled by a callback of its own batch still
  runs once; line 128: `cancel()` in the loop overtakes an `addTimerInLoop()`
  that another thread queued. `CancelIsFinal` speaks of timers that were in.
* `net/poller/PollPoller.cc:84`: a new channel whose first update has no events
  gets an entry with its real fd, and `removeChannel()` of it fails the assert at
  line 122. The first update of a channel of the model asks for something.
* `net/EventLoop.cc:139`: the loop may see `quit_` and be destroyed before `quit()`
  of the destructor of `EventLoopThread` calls `wakeup()`. `JoinedBeforeDestroyed`
  allows this one use of a destroyed loop.
* `net/EventLoopThread.cc:30`: if the user quits the loop first, the destructor
  may neither join nor find `mutex_` free.
* `net/TcpConnection.cc`: `startReadInLoop()` (line 301) does not look at
  `state_` and enables a channel about to be removed; after `stopRead()` the
  `disableAll()` of `handleClose()` (line 415) puts the channel back into epoll,
  and a hang-up reaches a closed connection; `connectDestroyed()` (line 337) does
  not disable the channel in `kDisconnecting`, which `~TcpServer()` can meet
  after a `shutdown()`, and the assert of `Channel::remove()` fails. Hence `Orderly`,
  and the exception for `kDisconnecting` in `RemovedWithoutInterest` (of
  `AssertsHold`) and `ClosingEnds`. A server destroyed in another loop than its
  connection's may be gone when `handleClose()` calls it (`net/TcpServer.cc:96`, "FIXME:
  unsafe"); `ErasedOnce` (of `AssertsHold`) does not speak of those.
* `net/EventLoopThreadPool.cc:36`: the first `start()` must be made in the loop's
  thread, although `TcpServer.h:74` says "Thread safe.". `StartHarmless` (of
  `AssertsHold`) says that nothing else makes `start()` fail. `accept()` may also fail
  for good (`net/SocketsOps.cc:143-152`), which ends the process.
* `net/Acceptor.cc:85`: another thread can take the descriptor that was given up
  for a moment; `idleFd_` is then -1. `IdleFdKept` (of `AssertsHold`) and `EveryPeerAnswered` speak
  of processes where none does (`races` is false); `NoDescriptorLeaked` of both.
* `net/Connector.cc`, `net/TcpClient.cc`: `stop()`
  and then `connect()` meet the old retry timer (line 64, "FIXME: cancel timer")
  or the old channel (line 149); `connect()` again without `enableRetry()` meets
  `kConnected`; a client destroyed in the iteration in which its connection was
  made still has its channel. `unsafe` records each of these, and the properties
  of the client say that its asserts fail in no other case. The client of `network`
  has `enableRetry()`.
* `net/http/HttpContext.cc`: after a request line with a good method and a bad
  version, the line is parsed again with the next bytes and
  `assert(method_ == kInvalid)` fails; `MethodUnset` (of `DeliveredWhole`) excepts
  this line. Any line without a colon ends the headers (line 101), which is what
  `ParsedWhole` takes a request to be.
* `base/LogStream.cc:252`: with less than `kMaxNumericSize` left the line number is
  left out of ` - file:line`, although the newline still fits; `LinesEnd` (of `LogLines`)
  says from which room on the source is whole. `base/Logging.cc:144`: a thread
  that has cached the second when the time zone is set shows the old zone in it;
  `StampRight` excepts those.
* `net/ZlibStream.h:98`: `write(Buffer*)` leaves `next_in` set, and a
  `write(StringPiece)` after it fails its assert (line 75); `NextInClear` (of
  `AssertsHold`) says that nothing else makes it fail.
* `base/FileUtil.cc:29`, `:57`: the results of `fclose()` and `fflush()` are not looked
  at; in `LogFile` both succeed.
* `base/TimeZone.cc:220`: `readTimeZoneFile()` returns true also when it caught an
  exception; the test of the constructor (line 264) never fails.
* `net/inspect/Inspector.cc:189`: a command's callback that calls `add()` or
  `remove()` of its Inspector waits for the `mutex_` it holds; line 79: `start()`
  is queued on an object that may be gone ("little race condition"). Callbacks
  of the model call neither, and the Inspector stays.
* `net/ZlibStream.h`: `finish()` after a `write(Buffer*)` that stopped half way also
  compresses what is left in the Buffer, and `next_in` is stale if that Buffer
  has grown. In the model it does not grow in between.
* `base/ThreadLocalSingleton.h`, `base/ThreadLocal.h`: `~ThreadLocal()` deletes the
  key and leaves the values; `Singleton::instance()` after `exit()` fails its
  assert. In the model nobody asks after `exit()`, and keys stay.

## 6. Not modelled

* `ProcessInfo` and the commands of the Inspector that print what it reads: text
  from `/proc`, without a state of their own. The list of threads is modelled.
* `Atomic`, `CurrentThread`, `Exception`, `StringPiece`, `Types`, `WeakCallback` and
  the like: no state of their own; they are used as what they are.
* `Socket`, `SocketsOps`, `InetAddress`: wrappers of system calls, whose failures
  appear where they are called. Addresses and options are left out.
* Text: names of threads and connections, `HttpResponse`, query strings, level
  names, `strerror_tl()`, `Timestamp::toString()`, doubles in a `LogStream`, `Fmt`.
* The reading of zone files: a parser of bytes into the table that `Calendar`
  starts from.
* `ZlibInputStream`: its methods are declared and not defined.
* `examples/simple/allinone`: names an object that is not declared
  (`allinone.cc:27`) and does not compile.
* Registration of RPC services, contexts, `setTcpNoDelay()`: set once, read later.
* The destructors of `EventLoop`, `TimerQueue` and `Inspector`: they run when
  nobody else refers to the object. That of the loop is modelled as far as
  `ServerEnd` needs it.
* Integers are unbounded where the code cannot come near their limits:
  `nextConnId_` (an `int`) overflows only after 2^31 connections.

Hazards beyond the list of `PROJECT.json` that no module covers: a task that
calls `run()` of its own full pool (`base/ThreadPool.cc:144`); functors bound to
a raw `this` (`net/TcpConnection.cc:105`, `net/TcpServer.cc:96`); `errno` tested
after logging (`net/Acceptor.cc:80`); a service that answers after its
connection is gone (`net/protorpc/RpcChannel.cc:139`).

## 7. Possible next steps

`LogFile` under `AsyncLogging` with lines of several lengths; theorems about
`TimerQueue` (`SetsAgree`, `OneOwner`) and `ThreadLocals` (`OneObjectEach`), whose
invariants are inductive but for what the places of the threads add.
