----------------------------- MODULE TcpServer -----------------------------
(***************************************************************************)
(* The accepting side of muduo/net: TcpServer::start() starts the          *)
(* EventLoopThreadPool and then has the Acceptor listen; the Acceptor      *)
(* accepts peers one by one and TcpServer::newConnection() gives each to   *)
(* the next loop of the pool.  When the process is out of descriptors the  *)
(* Acceptor gives up its spare one, idleFd_, to accept a peer and close    *)
(* it.  The descriptors are shared with the rest of the process.  What a   *)
(* connection does once it is given to its loop is module TcpConnection.   *)
(***************************************************************************)
EXTENDS Integers, Sequences, FiniteSets, SequencesExt

CONSTANTS Peers,
          Base,         \* the thread of loop_
          Threads,      \* the threads that call start()
          MaxLoops,     \* setThreadNum() is called with 0..MaxLoops
          Limit,        \* the descriptors the process has besides the listening socket
          MaxOthers     \* bound of the model: descriptors of the rest of the process

VARIABLES
  races,        \* other threads open descriptors while the Acceptor runs; does not change
  numThreads_,
  started_,     \* TcpServer::started_
  starting,     \* the thread of loop_ is in start()
  pool,         \* started_, loops_ and next_ of threadPool_
  acceptor,     \* listenning_, idleFd_, and where handleRead() is
  backlog,      \* the peers that wait in the listening socket
  fate,         \* what became of each peer
  fds,          \* how many descriptors are open
  others,       \* those that are nobody's here
  nextConnId_,
  connections_, \* a name, a peer and a loop each
  handed,       \* how many connections each loop was given
  alive,        \* the TcpServer
  aborted       \* an assert failed, or LOG_FATAL ended the process

startVars == <<numThreads_, started_, starting>>
serverVars == <<pool, nextConnId_, connections_, handed>>
lifeVars == <<alive, aborted>>
vars == <<races, startVars, acceptor, backlog, fate, fds, others, serverVars, lifeVars>>

\* What setThreadNum() is called with, and the loops; 0 is baseLoop_.
Loops == 0..MaxLoops
Running == alive /\ ~aborted
Quiet == acceptor.at = "poll" /\ ~starting   \* the thread of loop_ is in neither

\* EventLoopThreadPool::EventLoopThreadPool() and Acceptor::Acceptor()
NewPool == [started_ |-> FALSE, loops_ |-> <<>>, next_ |-> 0]
NewAcceptor == [listenning_ |-> FALSE, idleFd_ |-> "null", at |-> "poll"]

Init ==
  /\ races \in BOOLEAN
  /\ numThreads_ \in Loops /\ started_ = FALSE /\ starting = FALSE
  /\ pool = NewPool
  /\ acceptor = NewAcceptor
  /\ backlog = <<>> /\ fate = [p \in Peers |-> "away"]
  /\ fds = 1 /\ others = 0
  /\ nextConnId_ = 1 /\ connections_ = {} /\ handed = [l \in Loops |-> 0]
  /\ alive = TRUE /\ aborted = FALSE

-----------------------------------------------------------------------------
(* start() *)

\* if (started_.getAndSet(1) == 0)
mustStart == ~started_

\* TcpServer::start(), up to EventLoopThreadPool::start() and its two asserts.
\* The second one is of the loop's thread.
start(t) ==
  /\ Running /\ (t = Base => Quiet)
  /\ started_' = TRUE
  /\ IF ~mustStart
     THEN UNCHANGED <<starting, pool, aborted>>
     ELSE IF pool.started_ \/ t # Base
     THEN aborted' = TRUE /\ UNCHANGED <<starting, pool>>
     ELSE /\ starting' = TRUE
          /\ pool' = [pool EXCEPT !.started_ = TRUE]
          /\ UNCHANGED aborted
  /\ UNCHANGED <<numThreads_, acceptor, backlog, fate, fds, others, nextConnId_, connections_,
                 handed, alive>>

\* loops_.push_back(t->startLoop()): returns when the new thread has its loop.
startLoop ==
  /\ Running /\ starting /\ Len(pool.loops_) < numThreads_
  /\ pool' = [pool EXCEPT !.loops_ = Append(@, Len(@) + 1)]
  /\ UNCHANGED <<startVars, acceptor, backlog, fate, fds, others, nextConnId_, connections_,
                 handed, lifeVars>>

poolStarted == Len(pool.loops_) = numThreads_

\* The end of start(): Acceptor::listen(), in the loop's thread already.
listen ==
  /\ Running /\ starting /\ poolStarted
  /\ starting' = FALSE
  /\ acceptor' = [acceptor EXCEPT !.listenning_ = TRUE]
  /\ UNCHANGED <<numThreads_, started_, backlog, fate, fds, others, serverVars, lifeVars>>

-----------------------------------------------------------------------------
(* The peers, and the rest of the process. *)

connect(p) ==
  /\ Running /\ acceptor.listenning_ /\ fate[p] = "away"
  /\ backlog' = Append(backlog, p)
  /\ fate' = [fate EXCEPT ![p] = "waits"]
  /\ UNCHANGED <<startVars, acceptor, fds, others, serverVars, lifeVars>>

\* A peer that was not accepted yet goes away.
giveUp(p) ==
  /\ ~aborted /\ fate[p] = "waits"
  /\ backlog' = SelectSeq(backlog, LAMBDA q : q # p)
  /\ fate' = [fate EXCEPT ![p] = "gone"]
  /\ UNCHANGED <<startVars, acceptor, fds, others, serverVars, lifeVars>>

otherOpens ==
  /\ ~aborted /\ (races \/ Quiet)
  /\ fds < Limit /\ others < MaxOthers
  /\ fds' = fds + 1 /\ others' = others + 1
  /\ UNCHANGED <<startVars, acceptor, backlog, fate, serverVars, lifeVars>>

otherCloses ==
  /\ ~aborted /\ others > 0
  /\ fds' = fds - 1 /\ others' = others - 1
  /\ UNCHANGED <<startVars, acceptor, backlog, fate, serverVars, lifeVars>>

-----------------------------------------------------------------------------
(* Acceptor::handleRead(), in the thread of loop_. *)

nextAfter(n) == IF n + 1 >= Len(pool.loops_) THEN 0 ELSE n + 1

\* EventLoopThreadPool::getNextLoop()
getNextLoop == IF pool.loops_ = <<>> THEN 0 ELSE pool.loops_[pool.next_ + 1]

connIdAfter == nextConnId_ + 1

\* TcpServer::newConnection()
newConnection(p) ==
  /\ pool' = IF pool.loops_ = <<>> THEN pool ELSE [pool EXCEPT !.next_ = nextAfter(@)]
  /\ nextConnId_' = connIdAfter
  /\ connections_' = {c \in connections_ : c.name # nextConnId_}
                     \cup {[name |-> nextConnId_, peer |-> p, loop |-> getNextLoop]}
  /\ handed' = [handed EXCEPT ![getNextLoop] = @ + 1]
  /\ fate' = [fate EXCEPT ![p] = "served"]

\* The listening socket is readable: handleRead() is called.
Polls == Running /\ Quiet /\ acceptor.listenning_ /\ backlog # <<>>

\* accept() gives a connection.
accept ==
  /\ Polls /\ fds < Limit
  /\ backlog' = Tail(backlog) /\ fds' = fds + 1
  /\ newConnection(Head(backlog))
  /\ UNCHANGED <<startVars, acceptor, others, lifeVars>>

\* sockets::accept() fails with an error that is not expected: LOG_FATAL.  The expected ones,
\* but EMFILE, change nothing, and the loop polls again.
acceptFatal ==
  /\ Polls
  /\ aborted' = TRUE /\ acceptor' = [acceptor EXCEPT !.at = "fatal"]
  /\ UNCHANGED <<startVars, backlog, fate, fds, others, serverVars, alive>>

\* errno == EMFILE
outOfDescriptors == fds = Limit

\* ::close(idleFd_), which may be -1.
closeIdle ==
  /\ Polls /\ outOfDescriptors
  /\ fds' = IF acceptor.idleFd_ = "null" THEN fds - 1 ELSE fds
  /\ acceptor' = [acceptor EXCEPT !.idleFd_ = "none", !.at = "accept"]
  /\ UNCHANGED <<startVars, backlog, fate, others, serverVars, lifeVars>>

\* idleFd_ = ::accept(...)
acceptIdle ==
  /\ acceptor.at = "accept" /\ ~aborted
  /\ IF backlog # <<>> /\ fds < Limit
     THEN /\ acceptor' = [acceptor EXCEPT !.idleFd_ = "peer", !.at = "close"]
          /\ fds' = fds + 1 /\ backlog' = Tail(backlog)
          /\ fate' = [fate EXCEPT ![Head(backlog)] = "refused"]
     ELSE /\ acceptor' = [acceptor EXCEPT !.idleFd_ = "none", !.at = "close"]
          /\ UNCHANGED <<fds, backlog, fate>>
  /\ UNCHANGED <<startVars, others, serverVars, lifeVars>>

\* Slip: the accepted descriptor is not closed.
fdsAfterKept == fds

fdsAfter == IF acceptor.idleFd_ = "peer" THEN fds - 1 ELSE fds

\* ::close(idleFd_), which may be -1.
closePeer ==
  /\ acceptor.at = "close" /\ ~aborted
  /\ fds' = fdsAfter
  /\ acceptor' = [acceptor EXCEPT !.idleFd_ = "none", !.at = "open"]
  /\ UNCHANGED <<startVars, backlog, fate, others, serverVars, lifeVars>>

canOpen == fds < Limit

\* idleFd_ = ::open("/dev/null"), the end of handleRead().
openIdle ==
  /\ acceptor.at = "open" /\ ~aborted
  /\ acceptor' = [acceptor EXCEPT !.at = "poll", !.idleFd_ = IF canOpen THEN "null" ELSE "none"]
  /\ fds' = IF canOpen THEN fds + 1 ELSE fds
  /\ UNCHANGED <<startVars, backlog, fate, others, serverVars, lifeVars>>

\* A connection is closed, by its peer or by its loop: removeConnectionInLoop()
\* erases it by its name.
removeConnection(c) ==
  /\ Running /\ Quiet
  /\ connections_' = {d \in connections_ : d.name # c.name}
  /\ fate' = [fate EXCEPT ![c.peer] = "closing"]
  /\ UNCHANGED <<startVars, acceptor, backlog, fds, others, pool, nextConnId_, handed, lifeVars>>

\* Its loop, which may be of another thread, destroys it and closes its socket.
closeConnection(p) ==
  /\ ~aborted /\ fate[p] = "closing" /\ (numThreads_ = 0 => Quiet)
  /\ fate' = [fate EXCEPT ![p] = "gone"]
  /\ fds' = fds - 1
  /\ UNCHANGED <<startVars, acceptor, backlog, others, serverVars, lifeVars>>

\* ~TcpServer and ~Acceptor.  The peers that were not accepted are reset, and
\* every connection is told to be destroyed.
destroy ==
  /\ Running /\ Quiet
  /\ alive' = FALSE
  /\ acceptor' = [acceptor EXCEPT !.listenning_ = FALSE, !.idleFd_ = "none"]
  /\ backlog' = <<>> /\ connections_' = {}
  /\ fate' = [p \in Peers |-> CASE fate[p] = "waits" -> "gone"
                                [] fate[p] = "served" -> "closing"
                                [] OTHER -> fate[p]]
  /\ fds' = IF acceptor.idleFd_ = "null" THEN fds - 1 ELSE fds
  /\ UNCHANGED <<startVars, others, pool, nextConnId_, handed, aborted>>

handleRead == accept \/ acceptFatal \/ closeIdle \/ acceptIdle \/ closePeer \/ openIdle

Step(A) == A /\ UNCHANGED races

Next ==
  \/ \E t \in Threads : Step(start(t))
  \/ Step(startLoop) \/ Step(listen)
  \/ \E p \in Peers : Step(connect(p) \/ giveUp(p) \/ closeConnection(p))
  \/ Step(otherOpens) \/ Step(otherCloses)
  \/ Step(handleRead)
  \/ \E c \in connections_ : Step(removeConnection(c))
  \/ Step(destroy)

\* The loop keeps polling, and accept() does not fail for ever: each step of handleRead() is taken.
Spec == Init /\ [][Next]_vars /\ WF_vars(Step(handleRead))

-----------------------------------------------------------------------------
(* Properties. *)

TypeOK ==
  /\ numThreads_ \in Loops /\ started_ \in BOOLEAN /\ starting \in BOOLEAN
  /\ pool.started_ \in BOOLEAN /\ pool.loops_ \in Seq(Loops \ {0}) /\ pool.next_ \in Loops
  /\ pool.loops_ # <<>> => pool.next_ < Len(pool.loops_)
  /\ acceptor \in [listenning_ : BOOLEAN, idleFd_ : {"null", "none", "peer"},
                   at : {"poll", "accept", "close", "open", "fatal"}]
  /\ backlog \in Seq(Peers) /\ fate \in [Peers -> {"away", "waits", "served", "closing", "refused", "gone"}]
  /\ fds \in 0..Limit /\ others \in 0..MaxOthers
  /\ connections_ \subseteq [name : Nat, peer : Peers, loop : Loops]
  /\ nextConnId_ \in Nat \ {0} /\ handed \in [Loops -> Nat]
  /\ alive \in BOOLEAN /\ aborted \in BOOLEAN

\* "new connections are assigned on a round-robin basis" (TcpServer.h:62), and
\* the base loop gets one only if there is no other: no loop ever has been given
\* two connections more than another.
RoundRobin ==
  LET mine == IF numThreads_ = 0 THEN {0} ELSE 1..numThreads_ IN
  /\ \A l \in Loops \ mine : handed[l] = 0
  /\ \A l, m \in mine : handed[l] <= handed[m] + 1

\* Every open descriptor has an owner, whatever fails in handleRead(): none is
\* leaked when a peer is refused or idleFd_ could not be opened (Acceptor.cc:82-85),
\* and no connection is lost from connections_ to another of the same name
\* (TcpServer.cc:76-91).
NoDescriptorLeaked ==
  fds = others + Cardinality(connections_) + Cardinality({p \in Peers : fate[p] = "closing"})
        + (IF acceptor.idleFd_ = "none" THEN 0 ELSE 1)

\* "It's harmless to call it multiple times." (TcpServer.h:73): calls of start() by any
\* thread fail no assert of the pool once the thread of the loop has called it, even before
\* that call is over.  "Thread safe." (TcpServer.h:74) goes further than the code: when
\* another thread makes the first call, the pool is not started and assertInLoopThread()
\* ends the process (EventLoopThreadPool.cc:36).
StartHarmless == aborted => ~pool.started_ \/ acceptor.at = "fatal"

\* assert(idleFd_ >= 0) (Acceptor.cc:32), wherever handleRead() can be entered: the
\* spare descriptor is there when it is needed, unless another thread opened one
\* while handleRead() had given it up.
IdleFdKept == ~races /\ alive /\ acceptor.at = "poll" => acceptor.idleFd_ = "null"

\* No peer waits in the listening socket for ever, even when the process stays
\* out of descriptors: it is accepted or refused, unless another thread took the
\* spare descriptor (Acceptor.cc:80-86) or accept() ended the process.
EveryPeerAnswered ==
  \A p \in Peers : (~races /\ fate[p] = "waits") ~> (fate[p] # "waits" \/ aborted)
=============================================================================
