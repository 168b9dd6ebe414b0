-------------------------- MODULE EventLoopThread --------------------------
(***************************************************************************)
(* muduo/net/EventLoopThread.cc: an owner thread starts a thread that has  *)
(* an EventLoop on its stack, uses the loop through the pointer that       *)
(* startLoop() returned, and destroys the EventLoopThread.  The loop is    *)
(* the EventLoop of that module; here only the owner uses it from outside, *)
(* and nobody but the destructor calls quit().                             *)
(*                                                                         *)
(* cond_ is notified under mutex_ by the assignment it waits for, so the   *)
(* wait of startLoop() is a guard on loop_.  The destructor reads loop_    *)
(* without mutex_.                                                         *)
(***************************************************************************)
EXTENDS EventLoop

CONSTANT Owner

ASSUME OwnerAssumption == Owner \in Thread

VARIABLES
  loop_,    \* loop_ # NULL
  opc,      \* the owner: "fresh", "startLoop", "has", "quit", "join", "destroyed"
  tpc,      \* threadFunc(): "unstarted", "ctor", "published", "looping", "unlock",
            \* "dtor", "finished"
  dangling  \* history: where the owner was when it used a loop that was gone

threadVars == <<loop_, opc, tpc, dangling>>
allVars == <<vars, threadVars>>

\* EventLoopThread::EventLoopThread: no thread, no loop.
ThreadInit ==
  /\ Init
  /\ loop_ = FALSE /\ dangling = {}
  /\ opc = "fresh" /\ tpc = "unstarted"

-----------------------------------------------------------------------------
(* The owner. *)

\* What a use of the loop adds to the history.
Used(gone) == IF gone THEN {opc} ELSE {}

\* startLoop(): thread_.start(), then the wait for loop_.
StartLoop ==
  /\ opc = "fresh"
  /\ opc' = "startLoop"
  /\ tpc' = "ctor"
  /\ UNCHANGED <<vars, loop_, dangling>>

\* startLoop() leaves its wait and returns the loop.
StartLoopReturn ==
  /\ opc = "startLoop" /\ loop_
  /\ opc' = "has"
  /\ UNCHANGED <<vars, loop_, tpc, dangling>>

\* The owner uses the loop.
OwnerUse ==
  /\ opc = "has"
  /\ \E f \in Functor : QueueInLoop(Owner, f)
  /\ UNCHANGED threadVars

\* wakeup(), the end of queueInLoop() and of quit(), on a loop that may be destroyed.
OwnerWakeup ==
  /\ Wakeup(Owner)
  /\ dangling' = dangling \cup Used(tpc = "finished")
  /\ UNCHANGED <<loop_, opc, tpc>>

\* ~EventLoopThread: the test of loop_.  NULL means nothing to join, and
\* ~Thread detaches the thread.
Dtor ==
  /\ opc \in {"fresh", "has"} /\ Owner \notin waking
  /\ opc' = IF loop_ THEN "quit" ELSE "destroyed"
  /\ UNCHANGED <<vars, loop_, tpc, dangling>>

\* Slip: the destructor quits the loop and does not join the thread.
DtorQuitNoJoin ==
  /\ opc = "quit"
  /\ opc' = "destroyed"
  /\ dangling' = dangling \cup Used(~loop_)
  /\ IF loop_ THEN Quit(Owner) ELSE UNCHANGED vars
  /\ UNCHANGED <<loop_, tpc>>

\* ~EventLoopThread: loop_->quit(), up to its wakeup().
DtorQuit ==
  /\ opc = "quit"
  /\ opc' = "join"
  /\ dangling' = dangling \cup Used(~loop_)
  /\ IF loop_ THEN Quit(Owner) ELSE UNCHANGED vars
  /\ UNCHANGED <<loop_, tpc>>

\* ~EventLoopThread: thread_.join() returns and the members are destroyed.
DtorJoin ==
  /\ opc = "join" /\ Owner \notin waking /\ tpc = "finished"
  /\ opc' = "destroyed"
  /\ UNCHANGED <<vars, loop_, tpc, dangling>>

-----------------------------------------------------------------------------
(* threadFunc() *)

\* callback_, which may use the loop that is not running yet.
Callback ==
  /\ tpc = "ctor"
  /\ \E f \in Functor : QueueInLoopHere(f)
  /\ UNCHANGED threadVars

\* The loop is constructed, callback_ has run: loop_ = &loop, cond_.notify().
Publish ==
  /\ tpc = "ctor"
  /\ loop_' = TRUE
  /\ tpc' = "published"
  /\ UNCHANGED <<vars, opc, dangling>>

\* loop.loop() is entered.
EnterLoop ==
  /\ tpc = "published"
  /\ Loop
  /\ tpc' = "looping"
  /\ UNCHANGED <<loop_, opc, dangling>>

\* A step inside loop(), callbacks included.
RunLoop ==
  /\ tpc = "looping" /\ looping_
  /\ \/ LoopStep
     \/ \E io \in SUBSET Channel : Poll(io)
     \/ \E f \in Functor : QueueInLoopHere(f)
  /\ UNCHANGED threadVars

\* loop() has returned: lock mutex_, loop_ = NULL.
Unpublish ==
  /\ tpc = "looping" /\ ~looping_
  /\ loop_' = FALSE
  /\ tpc' = "unlock"
  /\ UNCHANGED <<vars, opc, dangling>>

\* ~MutexLockGuard, the last use threadFunc() makes of the EventLoopThread.
Unlock ==
  /\ tpc = "unlock"
  /\ tpc' = "dtor"
  /\ UNCHANGED <<vars, loop_, opc, dangling>>

\* ~EventLoop; the thread ends.
Finish ==
  /\ tpc = "dtor"
  /\ tpc' = "finished"
  /\ UNCHANGED <<vars, loop_, opc, dangling>>

-----------------------------------------------------------------------------
FairLoopStep == tpc = "looping" /\ looping_ /\ LoopStep /\ UNCHANGED threadVars

FairThreadFunc == Publish \/ EnterLoop \/ FairLoopStep \/ Unpublish \/ Unlock \/ Finish

OwnerStep ==
  \/ StartLoop \/ StartLoopReturn \/ OwnerUse \/ OwnerWakeup
  \/ Dtor \/ DtorQuit \/ DtorJoin

ThreadFuncStep == Callback \/ Publish \/ EnterLoop \/ RunLoop \/ Unpublish \/ Unlock \/ Finish

ThreadNext == OwnerStep \/ ThreadFuncStep

\* threadFunc() is over, or will never start, and the owner is gone.
Ended ==
  /\ opc = "destroyed" /\ tpc \in {"unstarted", "finished"}
  /\ UNCHANGED allVars

\* Both threads are scheduled; only what the user decides to call is not fair.
ThreadFairness ==
  /\ WF_allVars(StartLoopReturn) /\ WF_allVars(OwnerWakeup)
  /\ WF_allVars(DtorQuit) /\ WF_allVars(DtorJoin)
  /\ WF_allVars(FairThreadFunc)

ThreadSpec == ThreadInit /\ [][ThreadNext]_allVars /\ ThreadFairness
-----------------------------------------------------------------------------
(* Properties *)

\* While only the destructor quits the loop, loop_ does not become NULL between its test
\* and its use, and the EventLoopThread is not destroyed before threadFunc() is over
\* (EventLoopThread.cc:27-37).  One use of a destroyed loop is left, and it does happen:
\* the wakeup() that ends the destructor's own quit(), when the thread has left loop() and
\* destroyed the loop as soon as quit_ was set ("There is a chance that loop() just executes
\* while(!quit_) and exits, then EventLoop destructs", EventLoop.cc:139-141).
JoinedBeforeDestroyed ==
  /\ dangling \subseteq {"join"}
  /\ opc = "destroyed" => tpc \in {"unstarted", "finished"}

\* The destructor ends, if threadFunc() had entered loop() when quit() was
\* called (EventLoopThread.cc:34-35).
DtorOfLoopingEnds == (opc = "quit" /\ looping_) ~> (opc = "destroyed")

\* "dtor calls quit()" (tests/EventLoopThread_unittest.cc:33): the destructor
\* of a started EventLoopThread quits the loop, joins the thread, and ends.
DtorEnds == (opc = "quit") ~> (opc = "destroyed")
=============================================================================
