-------------------------- MODULE MCTcpConnection ---------------------------
(* Connections of five programs: one whose callbacks send and close in every *)
(* way, one in which two threads call everything, two that also destroy the  *)
(* server, which is in the loop of the connection or in another one, and one *)
(* in which another thread calls forceClose().                               *)
EXTENDS TcpConnection

Closing == {"send", "shutdown", "forceClose", "forceCloseWithDelay"}

MCSettings ==
  { [sameLoop |-> FALSE, serverDies |-> FALSE, maxOps |-> 3, loopOps |-> Closing, threadOps |-> {"send"}],
    [sameLoop |-> FALSE, serverDies |-> FALSE, maxOps |-> 3, loopOps |-> Ops, threadOps |-> Ops],
    [sameLoop |-> TRUE, serverDies |-> TRUE, maxOps |-> 3, loopOps |-> Closing, threadOps |-> {"send"}],
    [sameLoop |-> FALSE, serverDies |-> TRUE, maxOps |-> 2, loopOps |-> Closing, threadOps |-> {"send"}] }

RaceSettings ==
  { [sameLoop |-> FALSE, serverDies |-> FALSE, maxOps |-> 1, loopOps |-> {}, threadOps |-> {"forceClose"}] }
=============================================================================
