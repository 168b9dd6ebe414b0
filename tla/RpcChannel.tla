----------------------------- MODULE RpcChannel -----------------------------
(***************************************************************************)
(* muduo/net/protorpc: the RpcChannel of a client, used by several threads *)
(* at once, and that of the connection of an RpcServer.  Messages travel   *)
(* in order, as framed by the codec; the connection may go down.           *)
(***************************************************************************)
EXTENDS Integers, Sequences, FiniteSets, Functions

CONSTANTS
  Calls,         \* of CallMethod(), each by a thread of its own
  Asks           \* what a call asks for: [Calls -> Answers]

Answers == {"response", "NO_SERVICE", "NO_METHOD", "INVALID_REQUEST"}

VARIABLES
  pc,            \* of the thread that makes the call
  id,            \* the call's id
  id_,           \* AtomicInt64
  outstandings_, \* id -> call, for its response and done; guarded by mutex_
  taken,         \* the message the client's loop has found an OutstandingCall for
  ran,           \* the calls whose done was run, with the answer
  deleted,       \* the calls whose response and done ~RpcChannel() has deleted
  alive,         \* the RpcChannels that are: "client", "server"
  up,            \* the connection
  toServer, toClient,
  services       \* requests whose done has still to be run

client == <<pc, id, id_, outstandings_, taken, ran, deleted>>
vars == <<client, alive, up, toServer, toClient, services>>

None == [call |-> "none"]
Count(bag, c) == Cardinality({k \in DOMAIN bag : bag[k].call = c})

\* codec_.send(): lost unless connected.
send(queue, message) == IF up THEN Append(queue, message) ELSE queue

-----------------------------------------------------------------------------
(* CallMethod(), in a thread. *)

Number(c) ==
  /\ pc[c] = "idle" /\ "client" \in alive
  /\ id_' = id_ + 1 /\ id' = [id EXCEPT ![c] = id_ + 1]
  /\ pc' = [pc EXCEPT ![c] = "numbered"]
  /\ UNCHANGED <<outstandings_, taken, ran, deleted, alive, up, toServer, toClient, services>>

Register(c) ==
  /\ pc[c] = "numbered"
  /\ outstandings_' = [i \in DOMAIN outstandings_ \cup {id[c]} |->
                         IF i = id[c] THEN c ELSE outstandings_[i]]
  /\ pc' = [pc EXCEPT ![c] = "registered"]
  /\ UNCHANGED <<id, id_, taken, ran, deleted, alive, up, toServer, toClient, services>>

Ready(c) == pc[c] = "registered"

SendRequest(c) ==
  /\ Ready(c)
  /\ toServer' = send(toServer, [id |-> id[c], call |-> c])
  /\ pc' = [pc EXCEPT ![c] = "returned"]
  /\ UNCHANGED <<id, id_, outstandings_, taken, ran, deleted, alive, up, toClient, services>>

-----------------------------------------------------------------------------
(* The server's loop: onRpcMessage() with a REQUEST, and doneCallback(). *)

Response(i, answer, c) == [id |-> i, answer |-> answer, call |-> c]

doneCallback(m) == toClient' = send(toClient, Response(m.id, "response", m.call))

\* Slip: only good requests are answered.
ErrorUnanswered(m) == UNCHANGED toClient

ErrorAnswered(m) == toClient' = send(toClient, Response(m.id, Asks[m.call], m.call))

\* A service runs done before it returns, or keeps it.
onRequest ==
  /\ toServer # <<>> /\ "server" \in alive
  /\ toServer' = Tail(toServer)
  /\ LET m == Head(toServer) IN
     \/ Asks[m.call] # "response" /\ ErrorAnswered(m) /\ UNCHANGED services
     \/ Asks[m.call] = "response" /\ doneCallback(m) /\ UNCHANGED services
     \/ /\ Asks[m.call] = "response"
        /\ services' = services \cup {m}
        /\ UNCHANGED toClient
  /\ UNCHANGED <<client, alive, up>>

\* A service that has kept done runs it.
serviceDone(m) ==
  /\ m \in services /\ services' = services \ {m}
  /\ doneCallback(m)
  /\ UNCHANGED <<client, alive, up, toServer>>

-----------------------------------------------------------------------------
(* The client's loop: onRpcMessage() with a RESPONSE. *)

Erased(i) == Restrict(outstandings_, DOMAIN outstandings_ \ {i})

\* Slip: answers are taken to come in order.
FoundFirst(i) == outstandings_[CHOOSE k \in DOMAIN outstandings_ : \A j \in DOMAIN outstandings_ : k <= j]

Found(i) == outstandings_[i]

\* The critical section; a message nobody waits for is dropped.
onResponse ==
  /\ taken = None /\ toClient # <<>> /\ "client" \in alive
  /\ toClient' = Tail(toClient)
  /\ LET m == Head(toClient) IN
     IF m.id \in DOMAIN outstandings_
     THEN taken' = [call |-> Found(m.id), answer |-> m.answer, of |-> m.call]
          /\ outstandings_' = Erased(m.id)
     ELSE UNCHANGED <<taken, outstandings_>>
  /\ UNCHANGED <<pc, id, id_, ran, deleted, alive, up, toServer, services>>

\* done->Run(), and the response is deleted.
RunDone ==
  /\ taken # None
  /\ ran' = Append(ran, taken) /\ taken' = None
  /\ UNCHANGED <<pc, id, id_, outstandings_, deleted, alive, up, toServer, toClient, services>>

-----------------------------------------------------------------------------
(* The end. *)

\* RpcServer::onConnection(): the context, with the channel, is dropped. A service
\* must not run its done from then on, which would call doneCallback() of it.
disconnect ==
  /\ up /\ up' = FALSE
  /\ toServer' = <<>> /\ toClient' = <<>>
  /\ alive' = alive \ {"server"}
  /\ services' = {}
  /\ UNCHANGED client

deletes == Range(outstandings_)

\* ~RpcChannel() of the client, by its owner, when nobody uses it any more.
destroy ==
  /\ ~up /\ "client" \in alive /\ taken = None
  /\ \A c \in Calls : pc[c] \in {"idle", "returned"}
  /\ alive' = alive \ {"client"}
  /\ deleted' = deletes
  /\ UNCHANGED <<pc, id, id_, outstandings_, taken, ran, up, toServer, toClient, services>>

Init ==
  /\ pc = [c \in Calls |-> "idle"] /\ id = [c \in Calls |-> 0] /\ id_ = 0
  /\ outstandings_ = <<>> /\ taken = None /\ ran = <<>> /\ deleted = {}
  /\ alive = {"client", "server"} /\ up = TRUE
  /\ toServer = <<>> /\ toClient = <<>> /\ services = {}

Next ==
  \/ \E c \in Calls : Number(c) \/ Register(c) \/ SendRequest(c)
  \/ onRequest \/ \E m \in services : serviceDone(m)
  \/ onResponse \/ RunDone \/ disconnect \/ destroy

\* The threads and the loops run on, and services answer.
Fairness ==
  /\ \A c \in Calls : WF_vars(Register(c)) /\ WF_vars(SendRequest(c))
  /\ WF_vars(onRequest) /\ WF_vars(\E m \in services : serviceDone(m))
  /\ WF_vars(onResponse) /\ WF_vars(RunDone)

Spec == Init /\ [][Next]_vars /\ Fairness
-----------------------------------------------------------------------------
(* Properties *)

TypeOK ==
  /\ pc \in [Calls -> {"idle", "numbered", "registered", "returned"}]
  /\ id_ \in 0..Cardinality(Calls) /\ id \in [Calls -> 0..id_]
  /\ DOMAIN outstandings_ \subseteq 1..id_ /\ Range(outstandings_) \subseteq Calls
  /\ alive \subseteq {"client", "server"} /\ deleted \subseteq Calls
  /\ up \in BOOLEAN

\* However the calls of several threads and their answers cross, done of a call
\* gets the answer to its own request (RpcChannel.cc:58-69, 86-114).
OwnAnswer == \A k \in 1..Len(ran) : ran[k].of = ran[k].call /\ ran[k].answer = Asks[ran[k].call]

\* The response and done of a call are given back once: after done was run, or by
\* ~RpcChannel(); and when that is over, by one of the two
\* (RpcChannel.cc:34-43, 96-105).
GivenBackOnce ==
  \A c \in Calls :
    LET times == Count(ran, c) + (IF taken # None /\ taken.call = c THEN 1 ELSE 0)
                 + (IF c \in deleted THEN 1 ELSE 0)
    IN  /\ times <= 1
        /\ pc[c] = "returned" /\ "client" \notin alive => times = 1

\* Unless the connection goes down every call is answered, also one that asks for
\* what the server does not have (RpcChannel.cc:116-173).
AllAnswered == \A c \in Calls : (pc[c] # "idle") ~> (Count(ran, c) = 1 \/ ~up)
=============================================================================
