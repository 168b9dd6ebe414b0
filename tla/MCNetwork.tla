----------------------------- MODULE MCNetwork ------------------------------
(* Both ends of a connection, and users of one, each on its own: `part' says    *)
(* which one moves, the others stay as they are created.                        *)
EXTENDS Integers, Sequences, FiniteSets, TLC

CONSTANTS Parts,
          Peers, Base, Threads, MaxLoops, Limit, MaxOthers,
          retry_, kInitRetryDelayMs, kMaxRetryDelayMs, LoopCalls, ThreadCalls,
          MaxConnects, MaxCalls, MaxPeer,
          c1, c2, c3,
          Chars, Columns, TimeSize, Times, Window, MaxSent, MaxMessages,
          FirstSize, LastSize, MaxBytes

ASSUME SizesAssumption ==
  /\ Base \in Threads /\ MaxLoops \in Nat /\ Limit \in Nat \ {0} /\ MaxOthers \in Nat
  /\ retry_ \in BOOLEAN /\ {MaxConnects, MaxCalls, MaxPeer} \subseteq Nat
  /\ kInitRetryDelayMs \in 1..kMaxRetryDelayMs
  /\ Columns \in 1..Chars /\ FirstSize \in 1..LastSize

VARIABLES
  part,
  races, numThreads_, started_, starting, pool, acceptor, backlog, fate, serverFds, others,
  nextConnId_, connections_, handed, alive, aborted,
  connect_, state_, channel_, retryDelayMs_, timers, keep, clientConnect_, connection_, clientUp,
  clientFds, pending, work, phase, call, connects, calls, peers, wanted, stopped, fatal, unsafe,
  pc, id, id_, outstandings_, taken, ran, deleted, channelAlive, up, toServer, toClient, services,
  server, serverState, outputBuffer_, complete, wire, fin, back, backFin, sent, messages,
  transferred_, printed, said, client, quit, inputBuffer_, got, times,
  zerror_, bufferSize_, next_in, avail_in, kept, output_, writable, input, given, from, at, failed

serverVars ==
  <<races, numThreads_, started_, starting, pool, acceptor, backlog, fate, serverFds, others,
    nextConnId_, connections_, handed, alive, aborted>>
clientVars ==
  <<connect_, state_, channel_, retryDelayMs_, timers, keep, clientConnect_, connection_, clientUp,
    clientFds, pending, work, phase, call, connects, calls, peers, wanted, stopped, fatal, unsafe>>
rpcVars ==
  <<pc, id, id_, outstandings_, taken, ran, deleted, channelAlive, up, toServer, toClient, services>>
simpleVars ==
  <<server, serverState, outputBuffer_, complete, wire, fin, back, backFin, sent, messages,
    transferred_, printed, said, client, quit, inputBuffer_, got, times>>
zlibVars ==
  <<zerror_, bufferSize_, next_in, avail_in, kept, output_, writable, input, given, from, at, failed>>
vars == <<part, serverVars, clientVars, rpcVars, simpleVars, zlibVars>>

Server == INSTANCE TcpServer WITH fds <- serverFds
Client == INSTANCE TcpClient WITH fds <- clientFds

\* Two calls that are served, and one that is not.
Asks == (c1 :> "response") @@ (c2 :> "response") @@ (c3 :> "NO_METHOD")

Rpc == INSTANCE RpcChannel WITH Calls <- {c1, c2, c3}, alive <- channelAlive

Simple_ == INSTANCE Simple WITH state_ <- serverState
Zlib == INSTANCE ZlibStream WITH aborted <- failed

\* A part that does not move has one initial state.
Init ==
  /\ part \in Parts
  /\ Server!Init /\ (part # "TcpServer" => numThreads_ = 0 /\ ~races)
  /\ Client!Init /\ Rpc!Init
  /\ Simple_!Init /\ (part # "Simple" => server = "echo")
  /\ Zlib!Init /\ (part # "ZlibStream" => writable = 0)

ForServer(A) ==
  part = "TcpServer" /\ A /\ UNCHANGED <<part, clientVars, rpcVars, simpleVars, zlibVars>>
ForClient(A) ==
  part = "TcpClient" /\ A /\ UNCHANGED <<part, serverVars, rpcVars, simpleVars, zlibVars>>
ForRpc(A) ==
  part = "RpcChannel" /\ A /\ UNCHANGED <<part, serverVars, clientVars, simpleVars, zlibVars>>
ForSimple(A) ==
  part = "Simple" /\ A /\ UNCHANGED <<part, serverVars, clientVars, rpcVars, zlibVars>>
ForZlib(A) ==
  part = "ZlibStream" /\ A /\ UNCHANGED <<part, serverVars, clientVars, rpcVars, simpleVars>>

Next ==
  \/ ForServer(Server!Next)
  \/ ForClient(Client!Next)
  \/ ForRpc(Rpc!Next)
  \/ ForSimple(Simple_!Next)
  \/ ForZlib(Zlib!Next)

\* The fairness of each part, as in its module.
Fairness ==
  /\ WF_vars(ForServer(Server!Step(Server!handleRead)))
  /\ WF_vars(ForClient(Client!LoopStep)) /\ SF_vars(ForClient(Client!socketEvent))
  /\ SF_vars(ForClient(Client!retryTimer)) /\ SF_vars(ForClient(Client!keepTimer))
  /\ WF_vars(ForClient(Client!threadQueue))
  /\ \A c \in {c1, c2, c3} : WF_vars(ForRpc(Rpc!Register(c))) /\ WF_vars(ForRpc(Rpc!SendRequest(c)))
  /\ WF_vars(ForRpc(Rpc!onRequest)) /\ WF_vars(ForRpc(\E m \in services : Rpc!serviceDone(m)))
  /\ WF_vars(ForRpc(Rpc!onResponse)) /\ WF_vars(ForRpc(Rpc!RunDone))
  /\ WF_vars(ForSimple(Simple_!Server)) /\ WF_vars(ForSimple(Simple_!Client))
  /\ WF_vars(ForZlib(Zlib!writeStep \/ Zlib!writeEnd \/ Zlib!finishStep \/ Zlib!finishEnd))

Spec == Init /\ [][Next]_vars /\ Fairness
-----------------------------------------------------------------------------
(* Properties *)

\* The types of the members; next_ is the index of a loop, the delay between attempts is
\* within its limits, and bufferSize_ of a ZlibOutputStream stops growing.
TypeOK == Server!TypeOK /\ Client!TypeOK /\ Rpc!TypeOK /\ Simple_!TypeOK /\ Zlib!TypeOK

\* No assert fails but in the cases that the code leaves open, which the properties of the
\* parts name and the runs reach.  Of the server: start() of any thread, unless another
\* thread than the loop's makes the first call (EventLoopThreadPool.cc:36), and idleFd_ is
\* there when handleRead() needs it, unless another thread took its number (Acceptor.cc:32).
\* Of the client: an attempt begins in kDisconnected and without a channel, unless connect()
\* is called while an earlier attempt, connection or timer is left (Connector.cc:49, 131), and
\* ~Connector() finds no channel, unless the client is destroyed while functors of its
\* Connector wait (Connector.cc:37).  Of a ZlibOutputStream: next_in is NULL, unless a Buffer
\* was written to it before (ZlibStream.h:75).
AssertsHold ==
  /\ TypeOK
  /\ Server!StartHarmless /\ Server!IdleFdKept
  /\ Client!StartedDisconnected /\ Client!ChannelFree /\ Client!DestroyedWithoutChannel
  /\ Zlib!NextInClear

\* Every open descriptor has an owner, at both ends, whatever fails in handleRead()
\* (Acceptor.cc:82-85) and however the attempt ends (Connector.cc:108, 186, 211); and
\* no connection is lost from connections_ to another of the same name
\* (TcpServer.cc:76-91).
NoDescriptorLeaked == Server!NoDescriptorLeaked /\ Client!SocketsAccounted

\* "new connections are assigned on a round-robin basis" (TcpServer.h:62), and the base
\* loop gets one only if there is no other: no loop ever has been given two connections
\* more than another.  Once the functor of stop() has run there is no attempt, until
\* connect() is called again, unless another thread called stop() between the test of
\* connect_ and restart() (TcpClient.cc:174, Connector.cc:124); and the attempt of a client
\* that was destroyed calls nothing of it (TcpClient.cc:67, Connector.cc:180-182).
DoesAsTold == Server!RoundRobin /\ Client!StopStops

\* However the calls of several threads and their answers cross, done of a call
\* gets the answer to its own request (RpcChannel.cc:58-69, 86-114); the response
\* and done are given back once, after done was run or by ~RpcChannel()
\* (RpcChannel.cc:34-43, 96-105).
OwnAnswerOnce == Rpc!OwnAnswer /\ Rpc!GivenBackOnce

\* The examples: TimeClient logs the server's time whole and once, echo repeats what was
\* said in order, and chargen counts what has left (timeclient.cc:51-61, echo.cc:38-41,
\* chargen.cc:68-81).
ExamplesRight == Simple_!TimeToldOnce /\ Simple_!EchoInOrder /\ Simple_!TransferredLeft

\* Bytes are compressed once and in order, and a finished stream has put out all that
\* was taken (ZlibStream.h:70-136).
CompressedInOrder == Zlib!CompressedInOrder

\* "can be called in any thread" (Connector.h:42), said of stop(): whoever calls it, once its
\* functor has run there is no attempt, until connect() is called again.
StopIsFinal == Client!StopIsFinal

\* Who waits is served.  No peer waits in the listening socket for ever, even when the
\* process stays out of descriptors: it is accepted or refused, unless another thread
\* took the spare descriptor (Acceptor.cc:80-86) or accept() fails for good.  While the user
\* wants a connection, one is made or replaced, unless connect(2) fails for good or connect()
\* came too early again (Connector.cc:209-225, TcpClient.cc:174-179).  Unless the connection
\* goes down every call is answered, also one that asks for what the server does not have
\* (RpcChannel.cc:116-173).  A client whose server is done goes down (timeclient.cc:45-48),
\* and the loops of write() and finish() of a ZlibOutputStream end (ZlibStream.h:79, 104).
Served ==
  /\ Server!EveryPeerAnswered /\ Client!Connects /\ Rpc!AllAnswered
  /\ Simple_!ClientEnds /\ Zlib!LoopsEnd
=============================================================================
