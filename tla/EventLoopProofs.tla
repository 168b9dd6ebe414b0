-------------------------- MODULE EventLoopProofs --------------------------
(***************************************************************************)
(* Proofs about EventLoop for any threads, functors and channels.          *)
(*                                                                         *)
(* IndInv adds to the properties how callingPendingFunctors_, the local    *)
(* vector of doPendingFunctors() and the running callback follow the       *)
(* position of the loop thread (LoopPosition), and that a functor may be   *)
(* pending without a wakeup only between poll() and the swap               *)
(* (WakeupPending).                                                        *)
(***************************************************************************)
EXTENDS EventLoop, TLAPS

LoopPosition ==
  /\ looping_ = (pc # "idle")
  /\ callingPendingFunctors_ = (pc = "functors")
  /\ pc # "functors" => functors = <<>>
  /\ pc # "dispatch" => activeChannels_ = {}
  /\ pc \notin {"dispatch", "functors"} => current = NULL

WakeupPending ==
  \/ pc \in {"dispatch", "swap"}
  \/ \A i \in 1..Len(pendingFunctors_) :
       pendingFunctors_[i] \in early \/ wakeupFd_ \/ waking # {}

IndInv == TypeOK /\ LoopPosition /\ WakeupPending /\ QuitReachesPoll

\* The steps of Next, named one by one.
LEMMA NextCases ==
  ASSUME Next
  PROVE  \/ While
         \/ \E io \in SUBSET Channel : Poll(io)
         \/ HandleRead
         \/ \E ch \in Channel : HandleEvent(ch)
         \/ CallbackReturn
         \/ EndDispatch
         \/ SwapFunctors
         \/ RunFunctor
         \/ EndFunctors
         \/ \E f \in Functor : QueueInLoopHere(f)
         \/ QuitHere
         \/ Loop
         \/ \E t \in Thread : \E f \in Functor : QueueInLoop(t, f)
         \/ \E t \in Thread : Quit(t)
         \/ \E t \in Thread : Wakeup(t)
BY SMTT(60) DEF Next, LoopStep, UserStep, ThreadStep

\* Every step keeps the types of the members and locals (EventLoop.h:140-160).
LEMMA TypeStep ==
  ASSUME TypeOK, [Next]_vars
  PROVE  TypeOK'
<1> USE DEF TypeOK, LoopPc, loopVars, sharedVars
<1>1. CASE While
  BY <1>1, Zenon DEF While
<1>2. CASE \E io \in SUBSET Channel : Poll(io)
  BY <1>2 DEF Poll, Readable
<1>3. CASE HandleRead
  BY <1>3, Zenon DEF HandleRead
<1>4. CASE \E ch \in Channel : HandleEvent(ch)
  BY <1>4 DEF HandleEvent
<1>5. CASE CallbackReturn
  BY <1>5 DEF CallbackReturn
<1>6. CASE EndDispatch
  BY <1>6 DEF EndDispatch
<1>7. CASE SwapFunctors
  BY <1>7 DEF SwapFunctors
<1>8. CASE RunFunctor
  BY <1>8 DEF RunFunctor
<1>9. CASE EndFunctors
  BY <1>9, Zenon DEF EndFunctors
<1>10. CASE \E f \in Functor : QueueInLoopHere(f)
  BY <1>10 DEF QueueInLoopHere, QueueWakes
<1>11. CASE QuitHere
  BY <1>11 DEF QuitHere, QuitWakes
<1>12. CASE Loop
  BY <1>12, Zenon DEF Loop
<1>13. CASE \E t \in Thread : \E f \in Functor : QueueInLoop(t, f)
  BY <1>13 DEF QueueInLoop, QueueWakes
<1>14. CASE \E t \in Thread : Quit(t)
  BY <1>14 DEF Quit, QuitWakes
<1>15. CASE \E t \in Thread : Wakeup(t)
  BY <1>15 DEF Wakeup
<1>16. CASE UNCHANGED vars
  BY <1>16 DEF vars
<1> QED
  BY <1>1, <1>2, <1>3, <1>4, <1>5, <1>6, <1>7, <1>8, <1>9, <1>10, <1>11,
     <1>12, <1>13, <1>14, <1>15, <1>16, NextCases, SMTT(60)

\* The empty queue has no index.
LEMMA EmptyQueue == <<>> \in Seq(Functor) /\ \A i \in 1..Len(<<>>) : FALSE
BY SMTT(60)

\* Every step keeps the position facts, the wakeup of pending functors
\* (EventLoop.cc:160-171) and that of quit() (EventLoop.cc:136-146).
LEMMA IndInvStep ==
  ASSUME IndInv, [Next]_vars
  PROVE  IndInv'
<1>0. TypeOK'
  BY TypeStep DEF IndInv
<1> USE ChannelAssumption DEF TypeOK, IndInv, LoopPc, LoopPosition, WakeupPending,
        QuitReachesPoll, loopVars, sharedVars
<1>1. CASE While
  BY <1>0, <1>1 DEF While
<1>2. CASE \E io \in SUBSET Channel : Poll(io)
  BY <1>0, <1>2 DEF Poll, Readable
<1>3. CASE HandleRead
  BY <1>0, <1>3 DEF HandleRead
<1>4. CASE \E ch \in Channel : HandleEvent(ch)
  BY <1>0, <1>4 DEF HandleEvent
<1>5. CASE CallbackReturn
  BY <1>0, <1>5 DEF CallbackReturn
<1>6. CASE EndDispatch
  BY <1>0, <1>6 DEF EndDispatch
<1>7. CASE SwapFunctors
  BY <1>0, <1>7, EmptyQueue, Zenon DEF SwapFunctors
<1>8. CASE RunFunctor
  BY <1>0, <1>8 DEF RunFunctor
<1>9. CASE EndFunctors
  BY <1>0, <1>9 DEF EndFunctors
<1>10. CASE \E f \in Functor : QueueInLoopHere(f)
  <2>1. PICK f \in Functor : QueueInLoopHere(f)
    BY <1>10
  <2>2. LoopPosition' /\ QuitReachesPoll'
    BY <2>1 DEF QueueInLoopHere, QueueWakes, InUserCode
  <2>3. \A i \in 1..Len(pendingFunctors_') :
           \/ i \in 1..Len(pendingFunctors_)
                /\ pendingFunctors_'[i] = pendingFunctors_[i]
           \/ pendingFunctors_'[i] = f
    BY <2>1 DEF QueueInLoopHere, QueueWakes
  <2>4. WakeupPending'
    BY <2>1, <2>3, Zenon DEF QueueInLoopHere, QueueWakes, InUserCode
  <2> QED
    BY <1>0, <2>2, <2>4, SMTT(60)
<1>11. CASE QuitHere
  BY <1>0, <1>11, Zenon DEF QuitHere, QuitWakes, InUserCode
<1>12. CASE Loop
  BY <1>0, <1>12, Zenon DEF Loop
<1>13. CASE \E t \in Thread : \E f \in Functor : QueueInLoop(t, f)
  BY <1>0, <1>13, SMTT(60) DEF QueueInLoop, QueueWakes
<1>14. CASE \E t \in Thread : Quit(t)
  BY <1>0, <1>14 DEF Quit, QuitWakes
<1>15. CASE \E t \in Thread : Wakeup(t)
  BY <1>0, <1>15 DEF Wakeup
<1>16. CASE UNCHANGED vars
  BY <1>0, <1>16 DEF vars
<1> HIDE DEF TypeOK, IndInv, LoopPc, LoopPosition, WakeupPending, QuitReachesPoll, loopVars, sharedVars
<1> QED
  BY <1>1, <1>2, <1>3, <1>4, <1>5, <1>6, <1>7, <1>8, <1>9, <1>10, <1>11,
     <1>12, <1>13, <1>14, <1>15, <1>16, NextCases, SMTT(60)

\* The inductive invariant holds throughout.
LEMMA Inductive == Spec => []IndInv
<1>1. Init => IndInv
  BY ChannelAssumption, EmptyQueue, Zenon DEF Init, IndInv, TypeOK, LoopPc, LoopPosition,
     WakeupPending, QuitReachesPoll
<1> QED
  BY <1>1, IndInvStep, PTL DEF Spec

\* Whatever the threads, functors and channels, the loop's state is well typed.
THEOREM TypeCorrect == Spec => []TypeOK
<1>1. IndInv => TypeOK
  BY DEF IndInv
<1> QED
  BY <1>1, Inductive, PTL

\* No functor queued by another thread, or by a callback, is pending while
\* the loop goes to sleep in poll() with no wakeup made or on its way: the
\* condition !isInLoopThread() || callingPendingFunctors_ of queueInLoop()
\* (EventLoop.cc:167) is sufficient.
THEOREM WakeupNeverLost == Spec => []NoLostWakeup
<1>1. IndInv => NoLostWakeup
  BY DEF IndInv, WakeupPending, NoLostWakeup
<1> QED
  BY <1>1, Inductive, PTL

\* quit() by another thread is never missed by a loop asleep in poll()
\* (EventLoop.cc:136-146).
THEOREM QuitNeverMissed == Spec => []QuitReachesPoll
<1>1. IndInv => QuitReachesPoll
  BY DEF IndInv
<1> QED
  BY <1>1, Inductive, PTL

-----------------------------------------------------------------------------
(* The order in which functors run. *)

\* A push at the end of the pending queue is a push at the end of the whole.
LEMMA AppendLast ==
  ASSUME NEW r \in Seq(Functor), NEW u \in Seq(Functor),
         NEW p \in Seq(Functor), NEW e \in Functor
  PROVE  r \o u \o Append(p, e) = Append(r \o u \o p, e)
BY SMTT(60)

\* Calling the first of the swapped functors moves it from one list to the other.
LEMMA MoveHead ==
  ASSUME NEW r \in Seq(Functor), NEW u \in Seq(Functor), u # <<>>
  PROVE  Append(r, Head(u)) \o Tail(u) = r \o u
BY SMTT(60)

\* Every step keeps the functors in their order of queueing.
LEMMA OrderStep ==
  ASSUME IndInv, RunInQueueOrder, [Next]_vars
  PROVE  RunInQueueOrder'
<1> USE DEF RunInQueueOrder, TypeOK, IndInv, LoopPosition, loopVars, sharedVars
<1>1. CASE While \/ (\E io \in SUBSET Channel : Poll(io)) \/ HandleRead
  BY <1>1, Zenon DEF While, Poll, Readable, HandleRead
<1>2. CASE (\E ch \in Channel : HandleEvent(ch)) \/ CallbackReturn \/ EndDispatch
  BY <1>2, Zenon DEF HandleEvent, CallbackReturn, EndDispatch
<1>3. CASE EndFunctors \/ QuitHere \/ Loop
  BY <1>3, Zenon DEF EndFunctors, QuitHere, Loop
<1>4. CASE \E t \in Thread : Quit(t) \/ Wakeup(t)
  BY <1>4, Zenon DEF Quit, Wakeup
<1>5. CASE SwapFunctors
  BY <1>5 DEF SwapFunctors
<1>6. CASE RunFunctor
  <2>1. /\ functors # <<>> /\ functors' = Tail(functors)
        /\ ran' = Append(ran, Head(functors))
        /\ pendingFunctors_' = pendingFunctors_ /\ queued' = queued
    BY <1>6 DEF RunFunctor
  <2>2. Append(ran, Head(functors)) \o Tail(functors) = ran \o functors
    <3>1. ran \in Seq(Functor) /\ functors \in Seq(Functor)
      BY Zenon
    <3> QED
      BY ONLY <2>1, <3>1, MoveHead, Zenon
  <2>3. ran' \o functors' = ran \o functors
    BY ONLY <2>1, <2>2, Zenon
  <2> QED
    BY ONLY <2>1, <2>3, RunInQueueOrder, Zenon DEF RunInQueueOrder
<1>7. CASE \E f \in Functor : QueueInLoopHere(f)
  <2>1. PICK f \in Functor : QueueInLoopHere(f)
    BY <1>7
  <2>2. /\ pendingFunctors_' = Append(pendingFunctors_, f)
        /\ queued' = Append(queued, f)
        /\ ran' = ran /\ functors' = functors
    BY <2>1 DEF QueueInLoopHere, QueueWakes
  <2>3. ran \o functors \o Append(pendingFunctors_, f)
          = Append(ran \o functors \o pendingFunctors_, f)
    <3>1. /\ ran \in Seq(Functor) /\ functors \in Seq(Functor)
          /\ pendingFunctors_ \in Seq(Functor) /\ f \in Functor
      BY <2>1, Zenon
    <3> QED
      BY ONLY <3>1, AppendLast, ZenonT(60)
  <2> QED
    BY ONLY <2>2, <2>3, RunInQueueOrder, Zenon DEF RunInQueueOrder
<1>8. CASE \E t \in Thread : \E f \in Functor : QueueInLoop(t, f)
  <2>1. PICK t \in Thread, f \in Functor : QueueInLoop(t, f)
    BY <1>8
  <2>2. /\ pendingFunctors_' = Append(pendingFunctors_, f)
        /\ queued' = Append(queued, f)
        /\ ran' = ran /\ functors' = functors
    BY <2>1 DEF QueueInLoop, QueueWakes
  <2>3. ran \o functors \o Append(pendingFunctors_, f)
          = Append(ran \o functors \o pendingFunctors_, f)
    <3>1. /\ ran \in Seq(Functor) /\ functors \in Seq(Functor)
          /\ pendingFunctors_ \in Seq(Functor) /\ f \in Functor
      BY <2>1, Zenon
    <3> QED
      BY ONLY <3>1, AppendLast, ZenonT(60)
  <2> QED
    BY ONLY <2>2, <2>3, RunInQueueOrder, Zenon DEF RunInQueueOrder
<1>9. CASE UNCHANGED vars
  BY <1>9 DEF vars
<1> QED
  BY <1>1, <1>2, <1>3, <1>4, <1>5, <1>6, <1>7, <1>8, <1>9, NextCases, SMTT(30)

\* Functors run at most once, in the order queued, whatever is queued while
\* doPendingFunctors() runs (EventLoop.cc:254-269).
THEOREM QueueOrder == Spec => []RunInQueueOrder
<1>1. Init => RunInQueueOrder
  BY DEF Init, RunInQueueOrder
<1> QED
  BY <1>1, Inductive, OrderStep, PTL DEF Spec
=============================================================================
