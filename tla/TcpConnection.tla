--------------------------- MODULE TcpConnection ----------------------------
(***************************************************************************)
(* muduo/net/TcpConnection.cc with the Channel of the connection, the io   *)
(* loop it lives in, and the part of TcpServer.cc that creates, removes    *)
(* and destroys it.                                                        *)
(*                                                                         *)
(* The io loop works through work: the handlers of an event, then the      *)
(* functors that were pending.  "user" in work stands for user code in a   *)
(* callback, which may call operations of the connection; what runInLoop() *)
(* runs at once is put in front.  Another user thread calls operations     *)
(* too, and its test of state_ and its setState() are two steps.  The      *)
(* TcpServer runs in the base loop, which may be the io loop (SameLoop).   *)
(*                                                                         *)
(* Bytes are numbered in the order in which sendInLoop() accepts them.     *)
(***************************************************************************)
EXTENDS Integers, Sequences, SequencesExt, FiniteSets

CONSTANTS
  Settings,     \* the ways in which programs use a connection
  MsgLen,       \* bytes of a message
  highWaterMark_

Ops == {"send", "shutdown", "forceClose", "forceCloseWithDelay", "startRead", "stopRead"}

ASSUME ConnectionAssumption ==
  /\ Settings \subseteq [sameLoop : BOOLEAN, serverDies : BOOLEAN, maxOps : Nat,
                         loopOps : SUBSET Ops, threadOps : SUBSET Ops]
  /\ MsgLen \in Nat \ {0} /\ highWaterMark_ \in Nat

VARIABLES
  setting,                    \* the one of Settings; it does not change
  state_, reading_,
  events_, index_,            \* of channel_: interest, and state in the poller
  outputBuffer_, wire,        \* bytes buffered, and bytes written to the socket
  accepted,                   \* number of bytes accepted so far
  finSent,                    \* socket_->shutdownWrite() was called
  room,                       \* the socket takes bytes
  pending, work, phase,       \* the io loop
  delayed,                    \* a timer of forceCloseWithDelay() is set
  base, inMap, serverUp,      \* the base loop, and the TcpServer
  held, test, ops,            \* the other thread: its pointer, its test of state_
  peer, input,                \* the peer, and bytes to read
  ups, downs                  \* history: calls of connectionCallback_

channel == <<events_, index_>>
output == <<outputBuffer_, wire, accepted, finSent, room>>
loop == <<pending, work, phase, delayed>>
server == <<base, inMap, serverUp>>
thread == <<held, test>>
net == <<peer, input>>
history == <<ups, downs>>
vars == <<setting, state_, reading_, channel, output, loop, server, thread, ops, net, history>>

SameLoop == setting.sameLoop       \* the base loop is the io loop
ServerDies == setting.serverDies   \* the TcpServer may be destroyed
LoopOps == setting.loopOps         \* operations that user code calls in callbacks
ThreadOps == setting.threadOps     \* operations that the other thread calls
MaxOps == setting.maxOps           \* bound of the model: operations called

\* TcpServer::newConnection(): the connection is in connections_ and
\* connectEstablished() is given to the io loop, which may be this one.
Init ==
  /\ setting \in Settings
  /\ state_ = "kConnecting" /\ reading_ = TRUE /\ events_ = {} /\ index_ = "kNew"
  /\ outputBuffer_ = <<>> /\ wire = <<>> /\ accepted = 0 /\ finSent = FALSE /\ room = TRUE
  /\ pending = IF SameLoop THEN <<>> ELSE <<"connectEstablished">>
  /\ work = IF SameLoop THEN <<"connectEstablished">> ELSE <<>>
  /\ phase = IF SameLoop THEN "handle" ELSE "functors"
  /\ delayed = FALSE
  /\ base = <<>> /\ inMap = TRUE /\ serverUp = TRUE
  /\ held = FALSE /\ test = "none" /\ ops = 0
  /\ peer = "open" /\ input = FALSE
  /\ ups = 0 /\ downs = 0

-----------------------------------------------------------------------------
(* Channel and its poller (see EPollPoller). *)

\* Channel::update(): a channel that is not added is added, even without
\* interest; one that is added and has none is deleted.
update(ev) ==
  /\ events_' = ev
  /\ index_' = IF index_ = "kAdded" /\ ev = {} THEN "kDeleted" ELSE "kAdded"

isWriting == "OUT" \in events_
isReading == "IN" \in events_

\* The peer reset the connection; "gone" once an error was read.
Reset == peer \in {"reset", "gone"}

\* What the poller reports.  A hang-up needs both directions closed, or a reset.
revents ==
  IF index_ # "kAdded" THEN {}
  ELSE (IF "IN" \in events_ /\ (input \/ peer # "open") THEN {"IN"} ELSE {})
       \cup (IF "OUT" \in events_ /\ (room \/ Reset) THEN {"OUT"} ELSE {})
       \cup (IF Reset \/ (peer = "closed" /\ finSent) THEN {"HUP"} ELSE {})

\* Channel::handleEventWithGuard(): the handlers of an event, in order.
Handlers(r) ==
  (IF "HUP" \in r /\ "IN" \notin r THEN <<"handleClose">> ELSE <<>>)
  \o (IF "IN" \in r THEN <<"handleRead">> ELSE <<>>)
  \o (IF "OUT" \in r THEN <<"handleWrite">> ELSE <<>>)

-----------------------------------------------------------------------------
(* The lifetime of the connection: who holds a shared_ptr. *)

\* Functors and handlers bound to this, without a shared_ptr.
Raw == {"sendInLoop", "shutdownInLoop", "startReadInLoop", "stopReadInLoop"}

Functors == Raw \cup {"connectEstablished", "connectDestroyed", "forceCloseInLoop",
                      "writeCompleteCallback", "highWaterMarkCallback"}

Referenced ==
  inMap \/ held \/ base # <<>> \/ \E f \in ToSet(work) \cup ToSet(pending) : f \notin Raw

\* The next piece of work is f; what comes before the rest of the work.
Doing(f) == work # <<>> /\ Head(work) = f
Then(fs) == work' = fs \o Tail(work)

-----------------------------------------------------------------------------
(* Handlers and functors, in the io loop. *)

connectEstablished ==
  /\ Doing("connectEstablished") /\ state_ = "kConnecting"
  /\ state_' = "kConnected"
  /\ update(events_ \cup {"IN"})
  /\ ups' = ups + 1
  /\ Then(<<"user">>)
  /\ UNCHANGED <<reading_, output, pending, phase, delayed, server, thread, ops, net, downs>>

\* Slips: nothing is disabled; the state is not looked at.
DestroyedFromNone == FALSE
DestroyedFromAny == TRUE

\* The state in which connectDestroyed() disconnects.
DestroyedFrom == state_ = "kConnected"

connectDestroyed ==
  /\ Doing("connectDestroyed")
  /\ \/ /\ DestroyedFrom
        /\ state_' = "kDisconnected" /\ update({}) /\ downs' = downs + 1
        /\ Then(<<"user", "channelRemove">>)
     \/ /\ ~DestroyedFrom
        /\ Then(<<"channelRemove">>)
        /\ UNCHANGED <<state_, channel, downs>>
  /\ UNCHANGED <<reading_, output, pending, phase, delayed, server, thread, ops, net, ups>>

\* channel_->remove(), the end of connectDestroyed(); its assert is a guard.
channelRemove ==
  /\ Doing("channelRemove") /\ events_ = {}
  /\ index_' = "kNew"
  /\ Then(<<>>)
  /\ UNCHANGED <<state_, reading_, events_, output, pending, phase, delayed, server, thread,
                 ops, net, history>>

\* handleClose() up to connectionCallback_; closeCallback_ comes after it.
Close ==
  /\ state_ \in {"kConnected", "kDisconnecting"}
  /\ state_' = "kDisconnected"
  /\ update({})
  /\ downs' = downs + 1
  /\ Then(<<"user", "closeCallback">>)
  /\ UNCHANGED <<reading_, output, pending, phase, delayed, server, thread, ops, ups>>

handleClose == Doing("handleClose") /\ Close /\ UNCHANGED net

\* TcpServer::removeConnectionInLoop(), whose assert is a guard.
Erase ==
  /\ inMap /\ serverUp
  /\ inMap' = FALSE
  /\ pending' = Append(pending, "connectDestroyed")

\* closeCallback_: TcpServer::removeConnection().
closeCallback ==
  /\ Doing("closeCallback") /\ serverUp
  /\ IF SameLoop THEN Erase /\ UNCHANGED base
     ELSE base' = Append(base, "removeConnectionInLoop") /\ UNCHANGED <<inMap, pending>>
  /\ Then(<<>>)
  /\ UNCHANGED <<state_, reading_, channel, output, phase, delayed, serverUp, thread, ops, net,
                 history>>

\* handleRead(): bytes for messageCallback_, the end of the stream, or an error.
handleRead ==
  /\ Doing("handleRead")
  /\ \/ /\ input
        /\ input' = FALSE
        /\ Then(<<"user">>)
        /\ UNCHANGED <<state_, reading_, channel, output, pending, phase, delayed, server, thread,
                       ops, peer, history>>
     \/ ~input /\ peer # "open" /\ Close /\ UNCHANGED net
     \/ /\ ~input /\ peer = "reset"
        /\ peer' = "gone"
        /\ Then(<<>>)
        /\ UNCHANGED <<state_, reading_, channel, output, pending, phase, delayed, server, thread,
                       ops, input, history>>

\* Slip: the rest is sent before what the buffer holds.
UnsentFirst(bytes) == bytes \o outputBuffer_

\* The buffer after append().
Unsent(bytes) == outputBuffer_ \o bytes

\* sendInLoop(), the bytes left after n of them were written: they are
\* buffered, and the channel waits for room.
Buffered(bytes, n) ==
  /\ wire' = wire \o SubSeq(bytes, 1, n)
  /\ outputBuffer_' = Unsent(SubSeq(bytes, n + 1, Len(bytes)))
  /\ IF isWriting THEN UNCHANGED channel ELSE update(events_ \cup {"OUT"})
  /\ LET oldLen == Len(outputBuffer_) IN
     pending' = IF oldLen < highWaterMark_ /\ oldLen + Len(bytes) - n >= highWaterMark_
                THEN Append(pending, "highWaterMarkCallback") ELSE pending

\* Nothing in the output queue: try writing directly.
Direct == ~isWriting /\ outputBuffer_ = <<>>

sendInLoop ==
  /\ Doing("sendInLoop") /\ Referenced
  /\ LET bytes == [i \in 1..MsgLen |-> accepted + i] IN
     \/ /\ state_ = "kDisconnected" \/ (Direct /\ (finSent \/ Reset))
        /\ UNCHANGED <<channel, output, pending>>
     \/ /\ state_ # "kDisconnected" /\ accepted' = accepted + MsgLen
        /\ \/ /\ Direct /\ ~finSent /\ ~Reset /\ room
              /\ wire' = wire \o bytes
              /\ pending' = Append(pending, "writeCompleteCallback")
              /\ UNCHANGED <<channel, outputBuffer_>>
           \/ /\ Direct /\ ~finSent /\ ~Reset
              /\ \E n \in IF room THEN 1..MsgLen - 1 ELSE {0} : Buffered(bytes, n)
           \/ ~Direct /\ Buffered(bytes, 0)
        /\ room' \in IF Direct THEN BOOLEAN ELSE {room}
        /\ UNCHANGED finSent
  /\ Then(<<>>)
  /\ UNCHANGED <<state_, reading_, phase, delayed, server, thread, ops, net, history>>

\* Slip: the shutdown that waited for the buffer is forgotten.
FinDueNever == FALSE

FinDue == state_ = "kDisconnecting"

\* handleWrite(): some of the buffer; when it is empty, no more interest, and
\* the shutdown that waited for it.
handleWrite ==
  /\ Doing("handleWrite")
  /\ \/ /\ isWriting /\ room /\ ~Reset
        /\ \E n \in 1..Len(outputBuffer_) :
             /\ wire' = wire \o SubSeq(outputBuffer_, 1, n)
             /\ outputBuffer_' = SubSeq(outputBuffer_, n + 1, Len(outputBuffer_))
             /\ IF n < Len(outputBuffer_) THEN UNCHANGED <<channel, pending, finSent>>
                ELSE /\ update(events_ \ {"OUT"})
                     /\ pending' = Append(pending, "writeCompleteCallback")
                     /\ finSent' = (finSent \/ FinDue)
        /\ room' \in BOOLEAN
     \/ /\ ~isWriting \/ ~room \/ Reset
        /\ UNCHANGED <<channel, outputBuffer_, wire, finSent, room, pending>>
  /\ Then(<<>>)
  /\ UNCHANGED <<state_, reading_, accepted, phase, delayed, server, thread, ops, net, history>>

\* shutdownInLoop() may close the writing side.
Flushed == ~isWriting

shutdownInLoop ==
  /\ Doing("shutdownInLoop") /\ Referenced
  /\ finSent' = (finSent \/ Flushed)
  /\ Then(<<>>)
  /\ UNCHANGED <<state_, reading_, channel, outputBuffer_, wire, accepted, room, pending, phase,
                 delayed, server, thread, ops, net, history>>

Closable == state_ \in {"kConnected", "kDisconnecting"}

forceCloseInLoop ==
  /\ Doing("forceCloseInLoop") /\ UNCHANGED net
  /\ \/ Closable /\ Close
     \/ /\ ~Closable /\ Then(<<>>)
        /\ UNCHANGED <<state_, reading_, channel, output, pending, phase, delayed, server, thread,
                       ops, history>>

\* startReadInLoop() and stopReadInLoop(), in any state.
startReadInLoop ==
  /\ Doing("startReadInLoop") /\ Referenced
  /\ IF reading_ /\ isReading THEN UNCHANGED <<reading_, channel>>
     ELSE update(events_ \cup {"IN"}) /\ reading_' = TRUE
  /\ Then(<<>>)
  /\ UNCHANGED <<state_, output, pending, phase, delayed, server, thread, ops, net, history>>

stopReadInLoop ==
  /\ Doing("stopReadInLoop") /\ Referenced
  /\ IF ~reading_ /\ ~isReading THEN UNCHANGED <<reading_, channel>>
     ELSE update(events_ \ {"IN"}) /\ reading_' = FALSE
  /\ Then(<<>>)
  /\ UNCHANGED <<state_, output, pending, phase, delayed, server, thread, ops, net, history>>

\* writeCompleteCallback_ and highWaterMarkCallback_ are user code.
userCallback ==
  /\ Doing("writeCompleteCallback") \/ Doing("highWaterMarkCallback")
  /\ Then(<<"user">>)
  /\ UNCHANGED <<state_, reading_, channel, output, pending, phase, delayed, server, thread, ops,
                 net, history>>

userReturns ==
  /\ Doing("user")
  /\ Then(<<>>)
  /\ UNCHANGED <<state_, reading_, channel, output, pending, phase, delayed, server, thread, ops,
                 net, history>>

-----------------------------------------------------------------------------
(* Operations called by user code in the io loop: runInLoop() is a call. *)

InLoop(op) == Doing("user") /\ op \in LoopOps /\ ops < MaxOps /\ ops' = ops + 1

loopSend ==
  /\ InLoop("send") /\ state_ = "kConnected"
  /\ work' = <<"sendInLoop">> \o work
  /\ UNCHANGED <<state_, reading_, channel, output, pending, phase, delayed, server, thread, net,
                 history>>

loopShutdown ==
  /\ InLoop("shutdown") /\ state_ = "kConnected"
  /\ state_' = "kDisconnecting"
  /\ work' = <<"shutdownInLoop">> \o work
  /\ UNCHANGED <<reading_, channel, output, pending, phase, delayed, server, thread, net, history>>

loopForceClose ==
  /\ InLoop("forceClose") /\ Closable
  /\ state_' = "kDisconnecting"
  /\ pending' = Append(pending, "forceCloseInLoop")
  /\ UNCHANGED <<reading_, channel, output, work, phase, delayed, server, thread, net, history>>

loopForceCloseWithDelay ==
  /\ InLoop("forceCloseWithDelay") /\ Closable
  /\ state_' = "kDisconnecting" /\ delayed' = TRUE
  /\ UNCHANGED <<reading_, channel, output, pending, work, phase, server, thread, net, history>>

\* The timer: forceClose() through a weak pointer, in the io loop.
delayedForceClose ==
  /\ delayed /\ work = <<>> /\ phase = "functors"
  /\ delayed' = FALSE /\ phase' = "handle"
  /\ IF Referenced /\ Closable
     THEN state_' = "kDisconnecting" /\ pending' = Append(pending, "forceCloseInLoop")
     ELSE UNCHANGED <<state_, pending>>
  /\ UNCHANGED <<reading_, channel, output, work, server, thread, ops, net, history>>

loopReading(op, functor) ==
  /\ InLoop(op)
  /\ work' = <<functor>> \o work
  /\ UNCHANGED <<state_, reading_, channel, output, pending, phase, delayed, server, thread, net,
                 history>>

\* User code gives its pointer to the other thread.
share ==
  /\ Doing("user") /\ ThreadOps # {} /\ state_ = "kConnected" /\ ~held
  /\ held' = TRUE
  /\ UNCHANGED <<state_, reading_, channel, output, loop, server, test, ops, net, history>>

LoopOp ==
  \/ loopSend \/ loopShutdown \/ loopForceClose \/ loopForceCloseWithDelay
  \/ loopReading("startRead", "startReadInLoop") \/ loopReading("stopRead", "stopReadInLoop")
  \/ share

-----------------------------------------------------------------------------
(* Operations called by the other thread: runInLoop() queues. *)

InThread(op) == held /\ test = "none" /\ op \in ThreadOps /\ ops < MaxOps /\ ops' = ops + 1

threadQueue(op, functor) ==
  /\ InThread(op)
  /\ pending' = Append(pending, functor)
  /\ UNCHANGED <<state_, reading_, channel, output, work, phase, delayed, server, thread, net,
                 history>>

\* send(), shutdown() and forceClose(): the test of state_ ...
threadTest(op) ==
  /\ InThread(op)
  /\ state_ = "kConnected" \/ (op \in {"forceClose", "forceCloseWithDelay"} /\ Closable)
  /\ test' = op
  /\ UNCHANGED <<state_, reading_, channel, output, loop, server, held, net, history>>

\* ... and setState() and the functor.
threadCall ==
  /\ test # "none"
  /\ state_' = (IF test = "send" THEN state_ ELSE "kDisconnecting") /\ test' = "none"
  /\ pending' = CASE test = "send" -> Append(pending, "sendInLoop")
                  [] test = "shutdown" -> Append(pending, "shutdownInLoop")
                  [] test = "forceClose" -> Append(pending, "forceCloseInLoop")
                  [] test = "forceCloseWithDelay" -> pending
  /\ delayed' = (delayed \/ test = "forceCloseWithDelay")
  /\ UNCHANGED <<reading_, channel, output, work, phase, server, held, ops, net, history>>

\* The thread drops its pointer.  It is taken to keep it until what it queued
\* has run: functors bound to this need a live connection.
threadRelease ==
  /\ held /\ test = "none"
  /\ Raw \cap (ToSet(pending) \cup ToSet(work)) = {}
  /\ held' = FALSE
  /\ UNCHANGED <<state_, reading_, channel, output, loop, server, test, ops, net, history>>

ThreadStep ==
  \/ threadQueue("startRead", "startReadInLoop") \/ threadQueue("stopRead", "stopReadInLoop")
  \/ \E op \in {"send", "shutdown", "forceClose", "forceCloseWithDelay"} : threadTest(op)
  \/ threadCall \/ threadRelease

-----------------------------------------------------------------------------
(* The loops, the server, the peer. *)

\* EventLoop::loop(): poll() and the handlers of the channel, if its owner
\* still lives (Channel::tie()).
poll ==
  /\ work = <<>> /\ phase = "functors"
  /\ pending # <<>> \/ (Referenced /\ revents # {})
  /\ work' = IF Referenced THEN Handlers(revents) ELSE <<>>
  /\ phase' = "handle"
  /\ UNCHANGED <<state_, reading_, channel, output, pending, delayed, server, thread, ops, net,
                 history>>

\* EventLoop::doPendingFunctors().
doPendingFunctors ==
  /\ work = <<>> /\ phase = "handle"
  /\ work' = pending /\ pending' = <<>> /\ phase' = "functors"
  /\ UNCHANGED <<state_, reading_, channel, output, delayed, server, thread, ops, net, history>>

removeConnectionInLoop ==
  /\ base # <<>>
  /\ Erase
  /\ base' = Tail(base)
  /\ UNCHANGED <<state_, reading_, channel, output, work, phase, delayed, serverUp, thread, ops,
                 net, history>>

\* TcpServer::~TcpServer(), in the base loop, called by code that is no callback of the
\* connection: a handler of another channel, a timer or a functor.
serverDtor ==
  /\ ServerDies /\ serverUp
  /\ SameLoop => work = <<>> \/ (phase = "functors" /\ ToSet(work) \subseteq Functors)
  /\ serverUp' = FALSE /\ inMap' = FALSE
  /\ CASE inMap /\ SameLoop -> work' = <<"connectDestroyed">> \o work /\ UNCHANGED pending
       [] inMap /\ ~SameLoop -> pending' = Append(pending, "connectDestroyed") /\ UNCHANGED work
       [] ~inMap -> UNCHANGED <<pending, work>>
  /\ UNCHANGED <<state_, reading_, channel, output, phase, delayed, base, thread, ops, net, history>>

\* The peer sends, closes, resets, and reads.
PeerStep ==
  /\ \/ peer = "open" /\ ~input /\ input' = TRUE /\ UNCHANGED <<peer, room>>
     \/ peer = "open" /\ peer' = "closed" /\ UNCHANGED <<input, room>>
     \/ peer \in {"open", "closed"} /\ peer' = "reset" /\ input' = FALSE /\ UNCHANGED room
  /\ UNCHANGED <<state_, reading_, channel, outputBuffer_, wire, accepted, finSent, loop, server,
                 thread, ops, history>>

peerReads ==
  /\ ~room /\ room' = TRUE
  /\ UNCHANGED <<state_, reading_, channel, outputBuffer_, wire, accepted, finSent, loop, server,
                 thread, ops, net, history>>

Handler ==
  \/ connectEstablished \/ connectDestroyed \/ channelRemove
  \/ handleClose \/ closeCallback \/ handleRead \/ handleWrite
  \/ sendInLoop \/ shutdownInLoop \/ forceCloseInLoop \/ startReadInLoop \/ stopReadInLoop
  \/ userCallback \/ userReturns

LoopStep == Handler \/ poll \/ doPendingFunctors
ServerStep == removeConnectionInLoop \/ serverDtor
Step(A) == A /\ UNCHANGED setting

Next ==
  Step(LoopStep \/ delayedForceClose \/ LoopOp \/ ThreadStep \/ ServerStep \/ PeerStep \/ peerReads)

\* The loops run and callbacks return, the peer reads what was sent, timers
\* expire, and a thread finishes the call it is in.
Fairness ==
  /\ WF_vars(Step(LoopStep)) /\ WF_vars(Step(removeConnectionInLoop)) /\ WF_vars(Step(peerReads))
  /\ SF_vars(Step(delayedForceClose)) /\ WF_vars(Step(threadCall \/ threadRelease))

Spec == Init /\ [][Next]_vars /\ Fairness
-----------------------------------------------------------------------------
(* Properties *)

States == {"kConnecting", "kConnected", "kDisconnecting", "kDisconnected"}

\* The types of the variables.
TypeOK ==
  /\ state_ \in States /\ {reading_, finSent, room, delayed, inMap, serverUp, held, input} \subseteq BOOLEAN
  /\ events_ \subseteq {"IN", "OUT"} /\ index_ \in {"kNew", "kAdded", "kDeleted"}
  /\ outputBuffer_ \in Seq(Nat) /\ wire \in Seq(Nat)
  /\ pending \in Seq(Functors) /\ phase \in {"handle", "functors"}
  /\ work \in Seq(Functors \cup {"handleClose", "handleRead", "handleWrite", "user",
                                 "closeCallback", "channelRemove"})
  /\ base \in Seq({"removeConnectionInLoop"}) /\ peer \in {"open", "closed", "reset", "gone"}
  /\ test \in Ops \cup {"none"} /\ {ops, accepted, ups, downs} \subseteq Nat

\* Bytes reach the socket once each and in the order in which sendInLoop()
\* accepted them, through direct, partial and buffered writes
\* (TcpConnection.cc:151-191, 373-378); until the connection was closed, its
\* writing side is closed only when all of them were written, whoever calls
\* shutdown() and when (TcpConnection.cc:208, 386-389).
BytesInOrder ==
  /\ wire \o outputBuffer_ = [i \in 1..accepted |-> i]
  /\ finSent /\ downs = 0 => outputBuffer_ = <<>>

\* Other threads only send, and nobody stops or starts reading.
Orderly == ThreadOps \subseteq {"send"} /\ {"startRead", "stopRead"} \cap LoopOps = {}

\* In an orderly program connectionCallback_ is called once up and once down,
\* and the state is down exactly when the second call was made, whether the
\* peer, the user or the end of the server closes (TcpConnection.cc:331, 340, 418).
UpDownOnce ==
  Orderly =>
    /\ downs <= ups /\ ups <= 1
    /\ downs = 1 <=> state_ = "kDisconnected"

\* The assert of removeConnectionInLoop() (TcpServer.cc:113): the connection is
\* still in connections_ when it is to be erased.
FoundInMap ==
  base # <<>> \/ (SameLoop /\ Doing("closeCallback")) => inMap /\ Len(base) <= 1

\* In an orderly program the connection is erased once, however many reasons to close it
\* come together (TcpServer.cc:113), and closeCallback_ finds the server it is bound to.
\* This is not said of a server that is destroyed while its connections live in other loops:
\* there handleClose() may reach a server that is gone ("FIXME: unsafe", TcpServer.cc:96, 102).
ErasedOnce ==
  Orderly /\ (ServerDies => SameLoop) => FoundInMap /\ (Doing("closeCallback") => serverUp)

\* In an orderly program handleClose() meets a connection that is up, though a
\* hang-up may be reported after forceClose() (the assert at TcpConnection.cc:412).
ClosedWhenUp == Orderly /\ Doing("handleClose") => Closable

\* In an orderly program connectDestroyed() removes a channel without interest, after a close
\* and at the end of the server (the assert at Channel.cc:61), except where it does not: at
\* the end of a server whose connection is in kDisconnecting, after shutdown() or
\* forceClose(), because connectDestroyed() disables the channel of a connection in
\* kConnected only (TcpConnection.cc:337), and the assert fails.
RemovedWithoutInterest ==
  Orderly /\ Doing("channelRemove") =>
    events_ = {} \/ (~serverUp /\ state_ = "kDisconnecting")

\* The asserts of the destructors (TcpConnection.cc:71, Channel.cc:40): once
\* nobody holds the connection of an orderly program, it is disconnected and its
\* channel removed.
DestroyedClean == Orderly /\ ~Referenced => state_ = "kDisconnected" /\ index_ = "kNew"

\* No assert of a connection in an orderly program fails but the ones that ErasedOnce and
\* RemovedWithoutInterest except at the end of the server, and the variables have their types.
AssertsHold == TypeOK /\ ErasedOnce /\ ClosedWhenUp /\ RemovedWithoutInterest /\ DestroyedClean

\* Closing ends, in an orderly program: the writing side is closed or the connection is down
\* some time after shutdown() or forceClose(), as long as the peer reads
\* (TcpConnection.cc:386-389) and the server is not destroyed in between (see
\* RemovedWithoutInterest); and when the peer closes or resets and the server lives, the
\* connection is removed from the server and from the poller, and is destroyed
\* (TcpConnection.cc:408-421).
ClosingEnds ==
  /\ (Orderly /\ state_ = "kDisconnecting") ~> (finSent \/ state_ = "kDisconnected" \/ ~serverUp)
  /\ (Orderly /\ ~ServerDies /\ peer # "open") ~> ~Referenced
=============================================================================
