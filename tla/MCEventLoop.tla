---------------------------- MODULE MCEventLoop ----------------------------
(* A loop by itself, used by the threads t1 and t2, the loop of an          *)
(* EventLoopThread that t1 owns, or the timers of a loop with t1 as the     *)
(* other thread and addresses that are used again: `part' says which one    *)
(* moves, the others stay as they are created.                              *)
EXTENDS EventLoopThread

CONSTANTS Parts,
          t1, t2, f1, f2, f3, ch1,
          a1, a2, Free, Interval, MaxSeq, MaxTime, MaxPending

ASSUME TimeAssumption ==
  /\ MaxSeq \in Nat /\ MaxTime \in Nat /\ MaxPending \in Nat
  /\ Interval \subseteq Nat

MCThread == {t1, t2}
MCFunctor == {f1, f2, f3}
MCChannel == {ch1}

VARIABLES
  part,
  now, timerfd_, timerfdActive, heap, numCreated_, timers_, activeTimers_, cancelingTimers_,
  callingExpiredTimers_, expired, toRun, readNow, timerCalls, adding, ids, ranSeq, cancelled,
  revoked

timerVars ==
  <<now, timerfd_, timerfdActive, heap, numCreated_, timers_, activeTimers_, cancelingTimers_,
    callingExpiredTimers_, expired, toRun, readNow, timerCalls, adding, ids, ranSeq, cancelled,
    revoked>>
MCVars == <<part, allVars, timerVars>>

Timers_ == INSTANCE TimerQueue
             WITH Thread <- {t1}, Addr <- {a1, a2}, pendingFunctors_ <- timerCalls

LoopAlone(A) == part = "EventLoop" /\ A /\ UNCHANGED <<part, threadVars, timerVars>>
LoopOfThread(A) == part = "EventLoopThread" /\ A /\ UNCHANGED <<part, timerVars>>
ForTimers(A) == part = "TimerQueue" /\ A /\ UNCHANGED <<part, allVars>>

MCInit == part \in Parts /\ ThreadInit /\ Timers_!Init

MCNext ==
  \/ LoopAlone(Next)
  \/ LoopOfThread(ThreadNext) \/ LoopOfThread(Ended)
  \/ ForTimers(Timers_!Next)

\* The fairness of each part, as in its module.
MCFairness ==
  /\ WF_MCVars(LoopAlone(LoopStep)) /\ \A t \in Thread : WF_MCVars(LoopAlone(Wakeup(t)))
  /\ WF_MCVars(LoopOfThread(StartLoopReturn)) /\ WF_MCVars(LoopOfThread(OwnerWakeup))
  /\ WF_MCVars(LoopOfThread(DtorQuit)) /\ WF_MCVars(LoopOfThread(DtorJoin))
  /\ WF_MCVars(LoopOfThread(FairThreadFunc))
  /\ WF_MCVars(ForTimers(Timers_!Tick)) /\ WF_MCVars(ForTimers(Timers_!PollTimerfd))
  /\ WF_MCVars(ForTimers(Timers_!HandleRead \/ Timers_!RunTimer \/ Timers_!Reset))

MCSpec == MCInit /\ [][MCNext]_MCVars /\ MCFairness
-----------------------------------------------------------------------------
(* Properties *)

\* A functor that is pending while the loop runs is run, unless the loop stops, with no
\* help from the poll timeout (EventLoop.cc:160-171); the destructor of an
\* EventLoopThread ends, if its thread had entered loop() when quit() was called
\* (EventLoopThread.cc:34-35); and a timer that is in the queue runs, or is cancelled
\* (TimerQueue.cc:163-232).
LoopGoesOn == FunctorsRun /\ DtorOfLoopingEnds /\ Timers_!TimersFire

\* timers_ and activeTimers_ hold the same live timers, of which none leaks and none is
\* deleted twice; and while timers wait and handleRead() is not at work, the timerfd is
\* due, or set for no later than the earliest of them, whichever of add, cancel and
\* expiry came last (TimerQueue.cc:137-160, 183-257).
TimersKept == Timers_!BooksAgree /\ Timers_!ArmedForEarliest

\* Once cancelInLoop() met a timer that was in, the timer is never active again and is
\* deleted at the latest when the batch being called ends, also when a repeating timer
\* is cancelled by its own callback (TimerQueue.cc:156-159, 211-221).
CancelIsFinal == Timers_!CancelIsFinal

\* addTimer() is "Must be thread safe. Usually be called from other threads."
\* (TimerQueue.h:45): the Timer it reads the sequence of is still its own.
AddTimerReadsOwnTimer == Timers_!AddTimerReadsOwnTimer
=============================================================================
