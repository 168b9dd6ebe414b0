------------------------------- MODULE Simple -------------------------------
(***************************************************************************)
(* The servers and clients of examples/simple: chargen, daytime, discard,  *)
(* echo and time, with ChargenClient and TimeClient; the servers that have *)
(* no client of their own meet a peer that sends bytes and hangs up.       *)
(*                                                                         *)
(* One connection is followed from both ends.  What TcpConnection does     *)
(* with it is kept to what the callbacks see: send() is dropped unless     *)
(* the connection is up, bytes leave the output buffer in order and a few  *)
(* at a time, the write complete callback is queued when the last one has  *)
(* left, shutdown() waits for that, and the buffer of the other end is     *)
(* shown to its message callback whenever more has arrived.                *)
(***************************************************************************)
EXTENDS Integers, Sequences, SequencesExt

CONSTANTS Chars, Columns,   \* of the pattern of chargen (94 and 72)
          TimeSize,         \* sizeof(int32_t)
          Times,            \* what time(NULL) may be
          Window,           \* room of the kernel's buffers
          MaxSent,          \* bound of the model: bytes the peer sends
          MaxMessages       \* bound of the model: patterns chargen sends

VARIABLES
  server,         \* which of the five
  state_,         \* of the server's TcpConnection
  outputBuffer_, complete,   \* and its queued write complete callbacks
  wire, fin,      \* on the way to the client, and whether the end is too
  back, backFin,  \* on the way to the server
  sent,           \* all that the server has sent
  messages,       \* patterns sent
  transferred_, printed,     \* of ChargenServer, and what printThroughput has printed
  said,           \* all that the peer has sent
  client,         \* the client's connection: "up" or "down"
  quit,           \* its loop has been told to quit
  inputBuffer_,   \* of the client's TcpConnection
  got,            \* all that the client has read
  times           \* what TimeClient has logged

vars == <<server, state_, outputBuffer_, complete, wire, fin, back, backFin, sent, messages,
          transferred_, printed, said, client, quit, inputBuffer_, got, times>>
serverVars == <<state_, outputBuffer_, complete, sent, messages, transferred_, printed>>
clientVars == <<said, client, quit, inputBuffer_, got, times>>

-----------------------------------------------------------------------------
(* What the servers send *)

\* ChargenServer's message_: Chars lines, each of which starts a character later in the
\* characters written twice; 0 is the end of a line.
message_ ==
  LET line == [i \in 1..(2 * Chars) |-> ((i - 1) % Chars) + 1]
  IN FlattenSeq([i \in 1..Chars |-> SubSeq(line, i, i + Columns - 1) \o <<0>>])

\* The time in network order: the high digit first.
networkOrder(now) == [i \in 1..TimeSize |-> (now \div (10 ^ (TimeSize - i))) % 10]

networkToHost32(be32) == FoldLeft(LAMBDA n, d : 10 * n + d, 0, be32)

\* Slip: the buffer must have more than a time.
enoughMore(buf) == Len(buf) > TimeSize

\* buf->readableBytes() >= sizeof(int32_t)
enough(buf) == Len(buf) >= TimeSize

-----------------------------------------------------------------------------
(* The server's callbacks *)

\* What onConnection sends to a connection that comes up; the text of the day is told
\* apart by the time in it too.
Greetings ==
  IF server = "chargen" THEN {message_}
  ELSE IF server \in {"daytime", "time"} THEN {networkOrder(now) : now \in Times}
  ELSE {<<>>}

Init ==
  /\ server \in {"chargen", "daytime", "discard", "echo", "time"}
  /\ state_ = "kConnecting" /\ outputBuffer_ = <<>> /\ complete = 0
  /\ wire = <<>> /\ fin = FALSE /\ back = <<>> /\ backFin = FALSE
  /\ sent = <<>> /\ messages = 0 /\ transferred_ = 0 /\ printed = 0
  /\ said = <<>> /\ client = "up" /\ quit = FALSE /\ inputBuffer_ = <<>> /\ got = <<>>
  /\ times = <<>>

\* send(), which drops what is sent to a connection that is not up.
send(bytes) ==
  IF state_ = "kConnected"
  THEN outputBuffer_' = outputBuffer_ \o bytes /\ sent' = sent \o bytes
  ELSE UNCHANGED <<outputBuffer_, sent>>

\* onConnection of the server, with the connection up; daytime and time shut it down.
onConnection ==
  /\ state_ = "kConnecting"
  /\ \E bytes \in Greetings : outputBuffer_' = bytes /\ sent' = bytes
  /\ state_' = IF server \in {"daytime", "time"} THEN "kDisconnecting" ELSE "kConnected"
  /\ messages' = IF server = "chargen" THEN 1 ELSE 0
  /\ UNCHANGED <<server, complete, wire, fin, back, backFin, transferred_, printed, clientVars>>

\* handleWrite: some bytes leave; after the last one the callback is queued, and
\* shutdown() gets its turn.
handleWrite ==
  /\ state_ \in {"kConnected", "kDisconnecting"} /\ outputBuffer_ # <<>>
  /\ \E n \in 1..(Window - Len(wire)) :
       /\ n <= Len(outputBuffer_)
       /\ wire' = wire \o SubSeq(outputBuffer_, 1, n)
       /\ outputBuffer_' = SubSeq(outputBuffer_, n + 1, Len(outputBuffer_))
  /\ complete' = IF outputBuffer_' = <<>> /\ server = "chargen" THEN complete + 1 ELSE complete
  /\ fin' = (outputBuffer_' = <<>> /\ state_ = "kDisconnecting")
  /\ UNCHANGED <<server, state_, back, backFin, sent, messages, transferred_, printed, clientVars>>

\* transferred_ += message_.size()
counted == transferred_ + Len(message_)

\* ChargenServer::onWriteComplete
onWriteComplete ==
  /\ complete > 0 /\ messages < MaxMessages
  /\ complete' = complete - 1
  /\ transferred_' = counted
  /\ UNCHANGED state_ /\ send(message_)
  /\ messages' = IF state_ = "kConnected" THEN messages + 1 ELSE messages
  /\ UNCHANGED <<server, wire, fin, back, backFin, printed, clientVars>>

printThroughput ==
  /\ server = "chargen" /\ transferred_ > 0
  /\ printed' = printed + transferred_ /\ transferred_' = 0
  /\ UNCHANGED <<server, state_, outputBuffer_, complete, wire, fin, back, backFin, sent, messages,
                 clientVars>>

\* What EchoServer::onMessage sends back; the others discard what they read.
echoed(bytes) == bytes

onMessage ==
  /\ state_ \in {"kConnected", "kDisconnecting"} /\ back # <<>>
  /\ back' = <<>>
  /\ UNCHANGED state_ /\ send(IF server = "echo" THEN echoed(back) ELSE <<>>)
  /\ UNCHANGED <<server, complete, wire, fin, backFin, messages, transferred_, printed, clientVars>>

\* The client is gone: the connection goes down, and what it had to send with it.
handleClose ==
  /\ state_ \in {"kConnected", "kDisconnecting"} /\ back = <<>> /\ backFin
  /\ state_' = "kDisconnected" /\ outputBuffer_' = <<>>
  /\ fin' = TRUE
  /\ UNCHANGED <<server, complete, wire, back, backFin, sent, messages, transferred_, printed,
                 clientVars>>

-----------------------------------------------------------------------------
(* The clients *)

\* Bytes arrive: TimeClient takes the time out of the buffer when it is whole,
\* ChargenClient and the peer take all.
clientOnMessage ==
  /\ client = "up" /\ wire # <<>>
  /\ \E n \in 1..Len(wire) :
       LET bytes == SubSeq(wire, 1, n)
           buf == inputBuffer_ \o bytes
       IN /\ wire' = SubSeq(wire, n + 1, Len(wire))
          /\ got' = got \o bytes
          /\ IF server # "time"
             THEN inputBuffer_' = <<>> /\ UNCHANGED times
             ELSE IF enough(buf)
             THEN /\ times' = Append(times, networkToHost32(SubSeq(buf, 1, TimeSize)))
                  /\ inputBuffer_' = SubSeq(buf, TimeSize + 1, Len(buf))
             ELSE inputBuffer_' = buf /\ UNCHANGED times
  /\ UNCHANGED <<server, serverVars, fin, back, backFin, said, client, quit>>

\* The end arrives: the connection goes down, and onConnection quits the loop.
clientOnClose ==
  /\ client = "up" /\ wire = <<>> /\ fin
  /\ client' = "down" /\ quit' = TRUE /\ backFin' = TRUE
  /\ UNCHANGED <<server, serverVars, wire, fin, back, said, inputBuffer_, got, times>>

peerSend ==
  /\ client = "up" /\ server \in {"echo", "discard", "daytime"} /\ ~backFin
  /\ Len(said) < MaxSent
  /\ said' = Append(said, Len(said) + 1) /\ back' = Append(back, Len(said) + 1)
  /\ UNCHANGED <<server, serverVars, wire, fin, backFin, client, quit, inputBuffer_, got, times>>

\* The peer, or the process of a client, ends.
hangUp ==
  /\ client = "up" /\ server # "time"
  /\ client' = "down" /\ backFin' = TRUE
  /\ UNCHANGED <<server, serverVars, wire, fin, back, said, quit, inputBuffer_, got, times>>

Server == onConnection \/ handleWrite \/ onWriteComplete \/ onMessage \/ handleClose
Client == clientOnMessage \/ clientOnClose
Next == Server \/ Client \/ printThroughput \/ peerSend \/ hangUp

\* The loops of the two processes go on: they handle what has arrived.
Fairness == WF_vars(Server) /\ WF_vars(Client)
Spec == Init /\ [][Next]_vars /\ Fairness
-----------------------------------------------------------------------------
(* Properties *)

\* The types of the state of both ends (examples/simple).
TypeOK ==
  /\ server \in {"chargen", "daytime", "discard", "echo", "time"}
  /\ state_ \in {"kConnecting", "kConnected", "kDisconnecting", "kDisconnected"}
  /\ client \in {"up", "down"} /\ {fin, backFin, quit} \subseteq BOOLEAN
  /\ {complete, messages, transferred_, printed} \subseteq Nat

\* TimeClient logs the time the server sent, whole and once, however its bytes are cut on
\* the way, and before it quits (timeclient.cc:51-61, time.cc:29-35).
TimeToldOnce ==
  /\ \A i \in DOMAIN times : networkOrder(times[i]) = sent
  /\ server = "time" /\ quit => Len(times) = 1

\* What the server counts as transferred is what has left for the client, less at most
\* the messages whose callback is still queued (chargen.cc:68-81).
TransferredLeft ==
  server = "chargen" /\ state_ = "kConnected" =>
    /\ printed + transferred_ <= Len(sent) - Len(outputBuffer_)
    /\ outputBuffer_ = <<>> => printed + transferred_ + complete * Len(message_) = Len(sent)

\* An echo is what was said, in order and once (echo.cc:38-41).
EchoInOrder == server = "echo" => IsPrefix(sent, said) /\ IsPrefix(got, said)

\* A connection that daytime or time has answered is closed by the client's loop, which
\* quits, unless the peer hung up first (time.cc:29-35, timeclient.cc:45-48).
ClientEnds == (state_ = "kDisconnecting") ~> (client = "down")
=============================================================================
