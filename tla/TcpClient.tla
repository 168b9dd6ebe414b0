----------------------------- MODULE TcpClient ------------------------------
(***************************************************************************)
(* muduo/net/Connector.cc and TcpClient.cc: connecting with retries,       *)
(* reconnecting, stop() from any thread, and the destruction of a client.  *)
(*                                                                         *)
(* The loop works through work, as in TcpConnection.  Of the connection    *)
(* only its existence is kept.  Timers run at least half a second, by when *)
(* the loop is taken to have run the functors that were queued.  An assert *)
(* of the code is a guard: the process ends where it does not hold.        *)
(***************************************************************************)
EXTENDS Integers, Sequences, SequencesExt, FiniteSets

CONSTANTS
  retry_,                            \* enableRetry() was called
  kInitRetryDelayMs, kMaxRetryDelayMs,
  LoopCalls, ThreadCalls,            \* what is called in the loop, and in another thread
  MaxConnects, MaxCalls, MaxPeer     \* bounds of the model: calls, failures of the peer

Calls == {"connect", "disconnect", "stop"}

VARIABLES
  connect_, state_, channel_, retryDelayMs_,   \* the Connector
  timers,              \* startInLoop() timers of retry()
  keep,                \* the timer of ~TcpClient() that keeps the Connector
  clientConnect_, connection_, clientUp,       \* the TcpClient
  fds,                 \* open sockets
  pending, work, phase,                        \* the loop
  call,                \* what the other thread is in the middle of calling
  connects, calls, peers,                      \* numbers of calls and failures
  wanted,              \* the user called connect() and still waits for a connection or has one
  stopped,             \* history: the last call was stop(), and it returned
  fatal,               \* history: connect(2) failed for good
  unsafe               \* history: what the code leaves to its FIXMEs has happened, to
                       \* "connect", to "restart" since the last call, or in "dtor"

connector == <<connect_, state_, channel_, retryDelayMs_, timers>>
client == <<clientConnect_, connection_, clientUp, keep>>
loop == <<pending, work, phase>>
bounds == <<connects, calls, peers>>
user == <<wanted, stopped, fatal, unsafe>>
vars == <<connector, client, fds, loop, call, bounds, user>>

Init ==
  /\ connect_ = FALSE /\ state_ = "kDisconnected" /\ channel_ = "none"
  /\ retryDelayMs_ = kInitRetryDelayMs /\ timers = 0 /\ keep = FALSE
  /\ clientConnect_ = TRUE /\ connection_ = FALSE /\ clientUp = TRUE /\ fds = 0
  /\ pending = <<>> /\ work = <<>> /\ phase = "functors"
  /\ call = "none" /\ connects = 0 /\ calls = 0 /\ peers = 0
  /\ wanted = FALSE /\ stopped = FALSE /\ fatal = FALSE /\ unsafe = {}

Doing(f) == work # <<>> /\ Head(work) = f
Then(fs) == work' = fs \o Tail(work)
Waiting(f) == f \in ToSet(pending) \cup ToSet(work)

-----------------------------------------------------------------------------
(* The Connector, in the loop. *)

\* An attempt or a connection fails.
Fails == peers < MaxPeer /\ peers' = peers + 1

LongerDelay == IF retryDelayMs_ * 2 < kMaxRetryDelayMs THEN retryDelayMs_ * 2 ELSE kMaxRetryDelayMs

\* retry(), without the close of the socket.
retry ==
  /\ state_' = "kDisconnected"
  /\ IF connect_ THEN timers' = timers + 1 /\ retryDelayMs_' = LongerDelay
     ELSE UNCHANGED <<timers, retryDelayMs_>>

\* connecting(): the asserts are guards.
connecting ==
  /\ channel_ = "none"
  /\ state_' = "kConnecting" /\ channel_' = "added" /\ fds' = fds + 1
  /\ UNCHANGED <<timers, retryDelayMs_>>

\* connect(): in progress, refused for now, or for good.
connect ==
  \/ connecting /\ UNCHANGED <<peers, fatal>>
  \/ Fails /\ retry /\ UNCHANGED <<channel_, fds, fatal>>
  \/ fatal' = TRUE /\ UNCHANGED <<state_, channel_, fds, timers, retryDelayMs_, peers>>

\* startInLoop(), called by start() or, with f "retryInLoop", by a timer.
startInLoop(f) ==
  /\ Doing(f) /\ state_ = "kDisconnected"
  /\ IF connect_ THEN connect ELSE UNCHANGED <<state_, channel_, fds, timers, retryDelayMs_, peers, fatal>>
  /\ Then(<<>>)
  /\ UNCHANGED <<connect_, client, pending, phase, call, connects, calls, wanted, stopped,
                 unsafe>>

\* removeAndResetChannel(): the channel is removed now and destroyed later.
removeAndResetChannel ==
  /\ channel_' = "removed"
  /\ pending' = Append(pending, "resetChannel")

\* Slip: the attempt goes on.
stopInLoopIdle ==
  /\ Doing("stopInLoop")
  /\ Then(<<>>)
  /\ UNCHANGED <<connector, client, fds, pending, phase, call, bounds, user>>

stopInLoop ==
  /\ Doing("stopInLoop")
  /\ IF state_ = "kConnecting" THEN removeAndResetChannel /\ retry /\ fds' = fds - 1
     ELSE UNCHANGED <<state_, channel_, timers, retryDelayMs_, fds, pending>>
  /\ Then(<<>>)
  /\ UNCHANGED <<connect_, client, phase, call, bounds, user>>

\* Slip: the channel stays.
resetChannelForgotten ==
  /\ Doing("resetChannel")
  /\ Then(<<>>)
  /\ UNCHANGED <<connector, client, fds, pending, phase, call, bounds, user>>

resetChannel ==
  /\ Doing("resetChannel")
  /\ channel_' = "none"
  /\ Then(<<>>)
  /\ UNCHANGED <<connect_, state_, retryDelayMs_, timers, client, fds, pending, phase, call, bounds,
                 user>>

\* The connection is made, but stop() was called.
Unwanted == fds' = fds - 1 /\ UNCHANGED connection_ /\ Then(<<>>)

\* TcpClient::newConnection(), with connectionCallback_.
newConnection == clientUp /\ connection_' = TRUE /\ UNCHANGED fds /\ Then(<<"user">>)

handleWrite ==
  /\ Doing("handleWrite")
  /\ \/ /\ state_ = "kConnecting" /\ removeAndResetChannel
        /\ \/ Fails /\ retry /\ fds' = fds - 1 /\ Then(<<>>) /\ UNCHANGED connection_
           \/ /\ state_' = "kConnected"
              /\ IF connect_ THEN newConnection ELSE Unwanted
              /\ UNCHANGED <<timers, retryDelayMs_, peers>>
     \/ /\ state_ = "kDisconnected" /\ Then(<<>>)
        /\ UNCHANGED <<connector, connection_, fds, pending, peers>>
  /\ UNCHANGED <<connect_, clientConnect_, clientUp, keep, phase, call, connects, calls, user>>

handleError ==
  /\ Doing("handleError")
  /\ IF state_ = "kConnecting" THEN removeAndResetChannel /\ retry /\ fds' = fds - 1
     ELSE UNCHANGED <<state_, channel_, timers, retryDelayMs_, fds, pending>>
  /\ Then(<<>>)
  /\ UNCHANGED <<connect_, client, phase, call, bounds, user>>

-----------------------------------------------------------------------------
(* The TcpClient, in the loop. *)

\* A closed connection is to be replaced.
Again == clientUp /\ retry_ /\ clientConnect_

\* removeConnection(), of the client or, once it is destroyed, of detail; the
\* test of connect_ comes before restart().
removeConnection ==
  /\ Doing("removeConnection") /\ connection_
  /\ connection_' = FALSE
  /\ pending' = Append(pending, "connectDestroyed")
  /\ Then(IF Again THEN <<"restart">> ELSE <<>>)
  /\ wanted' = (wanted /\ Again) /\ UNCHANGED <<stopped, fatal, unsafe>>
  /\ UNCHANGED <<connector, clientConnect_, clientUp, keep, fds, phase, call, bounds>>

\* Connector::restart(), with startInLoop().  The client may have been stopped since its test.
restart ==
  /\ Doing("restart")
  /\ state_' = "kDisconnected" /\ retryDelayMs_' = kInitRetryDelayMs /\ connect_' = TRUE
  /\ work' = <<"startInLoop">> \o Tail(work)
  /\ unsafe' = unsafe \cup (IF clientConnect_ THEN {} ELSE {"restart"})
  /\ UNCHANGED <<channel_, timers, client, fds, pending, phase, call, bounds, wanted, stopped, fatal>>

\* TcpConnection::connectDestroyed(); the last pointer closes the socket.
connectDestroyed ==
  /\ Doing("connectDestroyed")
  /\ fds' = fds - 1
  /\ Then(<<>>)
  /\ UNCHANGED <<connector, client, pending, phase, call, bounds, user>>

\* forceClose() of ~TcpClient().
forceCloseInLoop ==
  /\ Doing("forceCloseInLoop")
  /\ Then(IF connection_ THEN <<"removeConnection">> ELSE <<>>)
  /\ UNCHANGED <<connector, client, fds, pending, phase, call, bounds, user>>

\* ~TcpClient() without a connection: stop(), and a timer keeps the Connector.
dtorStops == connect_' = FALSE /\ pending' = Append(pending, "stopInLoop") /\ keep' = TRUE

\* Functors bound to the Connector without a shared_ptr are waiting, and nobody but the
\* client holds it.
Dangling ==
  /\ \E f \in {"startInLoop", "stopInLoop", "resetChannel"} : Waiting(f)
  /\ timers = 0 /\ ~Waiting("retryInLoop")

\* ~TcpClient() with a connection, which the user may still hold: the Connector is destroyed
\* with the client, and what it left dangling is undefined.
dtorLeaves ==
  /\ pending' = pending \/ pending' = Append(pending, "forceCloseInLoop")
  /\ IF Dangling THEN unsafe' = unsafe \cup {"dtor"} /\ work' = <<"undefined">> \o work
     ELSE UNCHANGED <<unsafe, work>>

\* ~TcpClient(), in the loop, while no other thread calls the client.
dtor ==
  /\ clientUp /\ Doing("user") /\ call = "none"
  /\ clientUp' = FALSE
  /\ \/ connection_ /\ dtorLeaves /\ UNCHANGED <<connect_, keep>>
     \/ ~connection_ /\ dtorStops /\ UNCHANGED <<unsafe, work>>
  /\ UNCHANGED <<state_, channel_, retryDelayMs_, timers, clientConnect_, connection_, fds,
                 phase, call, bounds, wanted, stopped, fatal>>

-----------------------------------------------------------------------------
(* Calls: in the loop, and in another thread, where the functor is queued  *)
(* after the flags were set.  The user makes one call at a time, and calls *)
(* connect() only at first, after stop(), or when a connection was lost.   *)

\* What an earlier connect() began is not over.
Busy ==
  \/ state_ # "kDisconnected" \/ channel_ # "none" \/ timers > 0
  \/ Waiting("startInLoop") \/ Waiting("retryInLoop")

Called(op, allowed) ==
  /\ op \in allowed /\ clientUp /\ call = "none" /\ calls < MaxCalls /\ calls' = calls + 1
  /\ op = "connect" => connects < MaxConnects /\ ~wanted
  /\ wanted' = (op = "connect" \/ (wanted /\ op = "disconnect"))
  /\ connects' = connects + (IF op = "connect" THEN 1 ELSE 0)
  /\ unsafe' = (unsafe \ {"restart"}) \cup (IF op = "connect" /\ Busy THEN {"connect"} ELSE {})
  /\ UNCHANGED <<peers, fatal>>

\* The flags that connect(), disconnect() and stop() set.
Flags(op) ==
  /\ clientConnect_' = (op = "connect")
  /\ connect_' = IF op = "disconnect" THEN connect_ ELSE op = "connect"

loopCall(op) ==
  /\ Doing("user") /\ Called(op, LoopCalls) /\ Flags(op)
  /\ work' = (IF op = "connect" THEN <<"startInLoop">> ELSE <<>>) \o work
  /\ pending' = IF op = "stop" THEN Append(pending, "stopInLoop") ELSE pending
  /\ stopped' = (op = "stop")
  /\ UNCHANGED <<state_, channel_, retryDelayMs_, timers, connection_, clientUp, keep, fds, phase,
                 call>>

threadCall(op) ==
  /\ Called(op, ThreadCalls) /\ Flags(op)
  /\ call' = op /\ stopped' = FALSE
  /\ UNCHANGED <<state_, channel_, retryDelayMs_, timers, connection_, clientUp, keep, fds, loop>>

threadQueue ==
  /\ call # "none"
  /\ pending' = CASE call = "connect" -> Append(pending, "startInLoop")
                  [] call = "stop" -> Append(pending, "stopInLoop")
                  [] call = "disconnect" -> pending
  /\ stopped' = (call = "stop") /\ call' = "none" /\ UNCHANGED <<wanted, fatal, unsafe>>
  /\ UNCHANGED <<connector, client, fds, work, phase, bounds>>

-----------------------------------------------------------------------------
(* The loop and its events. *)

\* One event of a poll(), or none.
Event(w) == work = <<>> /\ phase \in {"functors", "before"} /\ phase' = "handle" /\ work' = w

\* The socket of the Connector is writable, with or without an error.
socketEvent ==
  /\ channel_ = "added"
  /\ \/ Event(<<"handleWrite">>) /\ UNCHANGED peers
     \/ Fails /\ Event(<<"handleError", "handleWrite">>)
  /\ UNCHANGED <<connector, client, fds, pending, call, connects, calls, user>>

\* The peer closes the connection: connectionCallback_, then closeCallback_.
peerCloses ==
  /\ connection_ /\ Fails
  /\ Event(<<"user", "removeConnection">>)
  /\ UNCHANGED <<connector, client, fds, pending, call, connects, calls, user>>

retryTimer ==
  /\ timers > 0 /\ pending = <<>> /\ timers' = timers - 1
  /\ Event(<<"retryInLoop">>)
  /\ UNCHANGED <<connect_, state_, channel_, retryDelayMs_, client, fds, pending, call, bounds,
                 user>>

keepTimer ==
  /\ keep /\ pending = <<>> /\ keep' = FALSE
  /\ Event(<<>>)
  /\ UNCHANGED <<connector, clientConnect_, connection_, clientUp, fds, pending, call, bounds,
                 user>>

\* User code in callbacks of other channels, before and after this event.
userEvent ==
  /\ work = <<>> /\ work' = <<"user">>
  /\ \/ phase = "functors" /\ phase' = "before"
     \/ phase = "handle" /\ phase' = "after"
  /\ clientUp
  /\ UNCHANGED <<connector, client, fds, pending, call, bounds, user>>

userReturns ==
  /\ Doing("user") /\ Then(<<>>)
  /\ UNCHANGED <<connector, client, fds, pending, phase, call, bounds, user>>

wakeup ==
  /\ pending # <<>> /\ Event(<<>>)
  /\ UNCHANGED <<connector, client, fds, pending, call, bounds, user>>

doPendingFunctors ==
  /\ work = <<>> /\ phase \in {"before", "handle", "after"}
  /\ work' = pending /\ pending' = <<>> /\ phase' = "functors"
  /\ UNCHANGED <<connector, client, fds, call, bounds, user>>

Handler ==
  \/ startInLoop("startInLoop") \/ startInLoop("retryInLoop") \/ stopInLoop \/ resetChannel
  \/ handleWrite \/ handleError \/ removeConnection \/ restart \/ connectDestroyed
  \/ forceCloseInLoop \/ userReturns
UserCall == dtor \/ \E op \in Calls : loopCall(op) \/ threadCall(op)
LoopStep == Handler \/ wakeup \/ doPendingFunctors

Next ==
  \/ LoopStep \/ UserCall \/ userEvent \/ threadQueue
  \/ socketEvent \/ peerCloses \/ retryTimer \/ keepTimer

\* The loop runs, connect(2) gives a result, timers expire, a call ends.
Fairness ==
  /\ WF_vars(LoopStep) /\ SF_vars(socketEvent) /\ SF_vars(retryTimer) /\ SF_vars(keepTimer)
  /\ WF_vars(threadQueue)

Spec == Init /\ [][Next]_vars /\ Fairness
-----------------------------------------------------------------------------
(* Properties *)

One(b) == IF b THEN 1 ELSE 0
Functors == {"startInLoop", "stopInLoop", "resetChannel", "connectDestroyed", "forceCloseInLoop"}

\* Who holds a shared_ptr to the Connector.
ConnectorAlive == clientUp \/ keep \/ timers > 0 \/ Waiting("retryInLoop")

\* The types of the variables; the delay between attempts is within its limits.
TypeOK ==
  /\ {connect_, clientConnect_, connection_, clientUp, keep, wanted, stopped, fatal} \subseteq BOOLEAN
  /\ state_ \in {"kDisconnected", "kConnecting", "kConnected"}
  /\ channel_ \in {"none", "added", "removed"}
  /\ retryDelayMs_ \in kInitRetryDelayMs..kMaxRetryDelayMs
  /\ {timers, fds, connects, calls, peers} \subseteq Nat
  /\ pending \in Seq(Functors) /\ phase \in {"functors", "before", "handle", "after"}
  /\ work \in Seq(Functors \cup {"retryInLoop", "handleWrite", "handleError", "user",
                                 "removeConnection", "restart", "undefined"})
  /\ call \in Calls \cup {"none"} /\ unsafe \subseteq {"connect", "restart", "dtor"}

\* Every socket is closed or in use: by the attempt, by the connection, or by
\* one that waits for connectDestroyed() (Connector.cc:108, 186, 211).
SocketsAccounted ==
  fds = One(channel_ = "added") + One(connection_)
        + Len(SelectSeq(pending \o work, LAMBDA f : f = "connectDestroyed"))

\* The assert of connecting() (Connector.cc:131): the channel of the last attempt was
\* destroyed before the next attempt, unless the user called connect() before what an
\* earlier connect() had begun was over.
ChannelFree ==
  /\ "connect" \notin unsafe /\ connect_
  /\ Doing("startInLoop") \/ Doing("retryInLoop")
  => channel_ = "none"

\* The assert of startInLoop() (Connector.cc:49), whether start(), restart() or the timer of
\* retry() calls it, with the same exception: connect() does not look at the state
\* ("FIXME: check state", TcpClient.cc:106) and stop() leaves the timer ("FIXME: cancel
\* timer", Connector.cc:64).
StartedDisconnected ==
  "connect" \notin unsafe /\ (Doing("startInLoop") \/ Doing("retryInLoop"))
  => state_ = "kDisconnected"

\* "can be called in any thread" (Connector.h:42): once the functor of stop() has run there is
\* no attempt, until connect() is called again.
StopIsFinal == stopped /\ ~Waiting("stopInLoop") => state_ # "kConnecting"

\* stop() is final, unless another thread called it between the test of connect_
\* (TcpClient.cc:174) and restart(), which sets the flag again (Connector.cc:124); and the
\* attempt of a client that was destroyed calls no newConnectionCallback_, which is bound to
\* the client (TcpClient.cc:67, Connector.cc:180-182).
StopStops ==
  /\ "restart" \notin unsafe => StopIsFinal
  /\ ~clientUp /\ Doing("handleWrite") /\ state_ = "kConnecting" => ~connect_

\* The assert of ~Connector() (Connector.cc:37), unless a client with a connection was
\* destroyed while functors of its Connector were waiting: in the iteration of the loop in
\* which the connection was made the channel is still to be reset, and the assert fails.
DestroyedWithoutChannel == "dtor" \notin unsafe /\ ~ConnectorAlive => channel_ = "none"

\* While the user wants a connection, one is made or replaced, unless connect(2) fails for
\* good (Connector.cc:209-225, TcpClient.cc:174-179) or connect() came too early again.
Wants == clientUp /\ connect_ /\ clientConnect_
Connects == Wants ~> (connection_ \/ ~Wants \/ fatal \/ "connect" \in unsafe)
=============================================================================
