------------------------------ MODULE ServerEnd -----------------------------
(***************************************************************************)
(* The end of a TcpServer with one I/O thread: the modules EventLoop and   *)
(* EventLoopThread put together with what TcpServer.cc does to the         *)
(* connections that live on that loop.  ~TcpServer queues                  *)
(* connectDestroyed() for every connection, and the destructors of its     *)
(* members then end the EventLoopThread of its pool.                       *)
(*                                                                         *)
(* A functor is connectEstablished() or connectDestroyed() bound to a      *)
(* connection, which it keeps alive; a connection is deleted with the last *)
(* reference to it.  connectionCallback_ calls nothing of the loop.        *)
(***************************************************************************)
EXTENDS EventLoopThread

CONSTANT Conn

Established(c) == [connectEstablished |-> c]
Destroyed(c) == [connectDestroyed |-> c]
ConnFunctors == {Established(c) : c \in Conn} \cup {Destroyed(c) : c \in Conn}

VARIABLES
  connections_,   \* of the TcpServer
  ending,         \* ~TcpServer has begun
  state_          \* of each connection: a state of TcpConnection, or "none"

serverEndVars == <<connections_, ending, state_>>
endVars == <<allVars, serverEndVars>>

EndInit ==
  /\ ThreadInit
  /\ connections_ = {} /\ ending = FALSE /\ state_ = [c \in Conn |-> "none"]

\* TcpServer::newConnection
newConnection(c) ==
  /\ opc = "has" /\ ~ending /\ state_[c] = "none"
  /\ connections_' = connections_ \cup {c}
  /\ state_' = [state_ EXCEPT ![c] = "kConnecting"]
  /\ QueueInLoop(Owner, Established(c))
  /\ UNCHANGED <<threadVars, ending>>

\* ~TcpServer: its turn for one connection.
dtor(c) ==
  /\ opc = "has" /\ c \in connections_
  /\ ending' = TRUE
  /\ connections_' = connections_ \ {c}
  /\ QueueInLoop(Owner, Destroyed(c))
  /\ UNCHANGED <<threadVars, state_>>

\* ~TcpServer is over, and its members are destroyed.
endThreads ==
  /\ connections_ = {} /\ ending
  /\ Dtor
  /\ UNCHANGED serverEndVars

\* The I/O thread; the functor that it starts to run does its work.
ioThread ==
  /\ \/ Publish \/ EnterLoop \/ Unpublish \/ Unlock \/ Finish
     \/ tpc = "looping" /\ looping_ /\ UNCHANGED threadVars
        /\ (LoopStep \/ \E io \in SUBSET Channel : Poll(io))
  /\ state_' = [c \in Conn |-> IF current' = Established(c) THEN "kConnected"
                               ELSE IF current' = Destroyed(c) THEN "kDisconnected" ELSE state_[c]]
  /\ UNCHANGED <<connections_, ending>>

EndNext ==
  \/ \E c \in Conn : newConnection(c) \/ dtor(c)
  \/ endThreads \/ ioThread
  \/ (StartLoop \/ StartLoopReturn \/ OwnerWakeup \/ DtorQuit \/ DtorJoin) /\ UNCHANGED serverEndVars

EndSpec == EndInit /\ [][EndNext]_endVars
-----------------------------------------------------------------------------
(* Properties *)

\* "assert(state_ == kDisconnected);" (TcpConnection.cc:71): the destructor of a connection
\* finds it disconnected; the last reference may be a functor that ~EventLoop drops.
DtorFindsDisconnected ==
  \A c \in Conn :
    state_[c] \in {"kConnecting", "kConnected"} =>
      \/ c \in connections_ \/ tpc # "finished"
=============================================================================
