----------------------------- MODULE EventLoop -----------------------------
(***************************************************************************)
(* The reactor of muduo/net/EventLoop.cc: one loop thread alternates       *)
(* between poller_->poll(), the handlers of the active channels and        *)
(* doPendingFunctors(), while other threads call queueInLoop() (which is   *)
(* what runInLoop() does for them) and quit().                             *)
(*                                                                         *)
(* The eventfd wakeupFd_ is never opened as a semaphore, so a read returns *)
(* the whole counter and resets it: only "readable or not" can be told     *)
(* apart, and wakeupFd_ is a Boolean.  poll() blocks until a descriptor is *)
(* readable or kPollTimeMs has passed.  User code (a channel's handler, a  *)
(* functor, or what the loop thread does outside loop()) may make any      *)
(* number of calls of queueInLoop() and quit() before it returns; a        *)
(* runInLoop() made in the loop thread just runs its argument, so it is    *)
(* part of that user code.                                                 *)
(***************************************************************************)
EXTENDS Integers, Sequences

CONSTANTS Thread,    \* the threads other than the loop's own
          Functor,   \* the functors they may queue, each of them once
          Channel    \* the channels of the loop besides wakeupChannel_

CONSTANT wakeupChannel_, NULL

ASSUME ChannelAssumption ==
  /\ wakeupChannel_ \notin Channel
  /\ NULL \notin Channel \cup {wakeupChannel_} \cup Functor

VARIABLES
  looping_, quit_, callingPendingFunctors_,
  pendingFunctors_,   \* the queue guarded by mutex_
  wakeupFd_,          \* the eventfd is readable
  activeChannels_,    \* channels reported by poll() and not handled yet
  functors,           \* doPendingFunctors()'s local vector, still to run
  current,            \* channel or functor whose callback is running, or NULL
  pc,                 \* where the loop thread is
  waking,             \* threads that changed the loop's state (a push or
                      \* quit_ = true) and have not called wakeup() yet
  queued, ran,        \* history: functors in the order queued, and run
  early               \* history: functors the loop thread queued outside loop()

loopVars == <<looping_, callingPendingFunctors_, activeChannels_, functors,
              current, pc, ran>>
sharedVars == <<quit_, pendingFunctors_, wakeupFd_, waking, queued, early>>
vars == <<loopVars, sharedVars>>

LoopPc == {"idle", "while", "poll", "dispatch", "swap", "functors"}

Queued(f) == \E i \in 1..Len(queued) : queued[i] = f

(***************************************************************************)
(* EventLoop::EventLoop: idle, nothing queued, wakeupFd_ empty.            *)
(***************************************************************************)
Init ==
  /\ looping_ = FALSE /\ quit_ = FALSE /\ callingPendingFunctors_ = FALSE
  /\ pendingFunctors_ = <<>> /\ functors = <<>>
  /\ wakeupFd_ = FALSE
  /\ activeChannels_ = {}
  /\ current = NULL
  /\ pc = "idle"
  /\ waking = {}
  /\ queued = <<>> /\ ran = <<>> /\ early = {}

-----------------------------------------------------------------------------
(* The other threads. *)

\* Slip: the second half of the condition below is left out.
QueueWakesForeign(inLoopThread) == ~inLoopThread

\* The condition under which queueInLoop() calls wakeup().
QueueWakes(inLoopThread) == ~inLoopThread \/ callingPendingFunctors_

\* Slip: quit() wakes up the loop from its own thread only.
QuitWakesInLoop(inLoopThread) == inLoopThread

\* The condition under which quit() calls wakeup().
QuitWakes(inLoopThread) == ~inLoopThread

\* queueInLoop(f) in another thread: the push under mutex_; wakeup() follows
\* as a step of its own.
QueueInLoop(t, f) ==
  /\ t \notin waking /\ ~Queued(f)
  /\ pendingFunctors_' = Append(pendingFunctors_, f)
  /\ queued' = Append(queued, f)
  /\ waking' = IF QueueWakes(FALSE) THEN waking \cup {t} ELSE waking
  /\ UNCHANGED <<loopVars, quit_, wakeupFd_, early>>

\* quit() in another thread: quit_ = true; wakeup() follows.
Quit(t) ==
  /\ t \notin waking
  /\ quit_' = TRUE
  /\ waking' = IF QuitWakes(FALSE) THEN waking \cup {t} ELSE waking
  /\ UNCHANGED <<loopVars, pendingFunctors_, wakeupFd_, queued, early>>

\* wakeup(): write(wakeupFd_).
Wakeup(t) ==
  /\ t \in waking
  /\ wakeupFd_' = TRUE
  /\ waking' = waking \ {t}
  /\ UNCHANGED <<loopVars, quit_, pendingFunctors_, queued, early>>

-----------------------------------------------------------------------------
(* User code running in the loop thread. *)

InUserCode == pc = "idle" \/ current # NULL

\* queueInLoop(f) in the loop thread.  The wakeup() it makes while functors
\* are being called is in the same step as the push: nobody else reads either.
QueueInLoopHere(f) ==
  /\ InUserCode /\ ~Queued(f)
  /\ pendingFunctors_' = Append(pendingFunctors_, f)
  /\ queued' = Append(queued, f)
  /\ wakeupFd_' = (wakeupFd_ \/ QueueWakes(TRUE))
  /\ early' = IF pc = "idle" THEN early \cup {f} ELSE early
  /\ UNCHANGED <<loopVars, quit_, waking>>

\* quit() in the loop thread.
QuitHere ==
  /\ InUserCode
  /\ quit_' = TRUE
  /\ wakeupFd_' = (wakeupFd_ \/ QuitWakes(TRUE))
  /\ UNCHANGED <<loopVars, pendingFunctors_, waking, queued, early>>

-----------------------------------------------------------------------------
(* loop() *)

\* The entry of loop(): assert(!looping_), and quit_ is reset.
Loop ==
  /\ pc = "idle" /\ ~looping_
  /\ looping_' = TRUE
  /\ quit_' = FALSE
  /\ pc' = "while"
  /\ UNCHANGED <<callingPendingFunctors_, activeChannels_, functors, current,
                 ran, pendingFunctors_, wakeupFd_, waking, queued, early>>

\* while (!quit_), and the exit of loop().
While ==
  /\ pc = "while"
  /\ IF quit_ THEN pc' = "idle" /\ looping_' = FALSE
              ELSE pc' = "poll" /\ UNCHANGED looping_
  /\ UNCHANGED <<callingPendingFunctors_, activeChannels_, functors, current,
                 ran, sharedVars>>

\* wakeupChannel_ is always enabled for reading: poll() reports it whenever the
\* eventfd is readable.
Readable == wakeupFd_

\* poll() returns the descriptors that are ready: io among the user's
\* channels, and wakeupChannel_ whenever the eventfd is readable.  Nothing
\* ready is the timeout of kPollTimeMs.
Poll(io) ==
  /\ pc = "poll"
  /\ activeChannels_' = io \cup (IF Readable THEN {wakeupChannel_} ELSE {})
  /\ pc' = "dispatch"
  /\ UNCHANGED <<looping_, callingPendingFunctors_, functors, current, ran,
                 sharedVars>>

\* handleEvent() of wakeupChannel_: EventLoop::handleRead() empties the eventfd.
HandleRead ==
  /\ pc = "dispatch" /\ current = NULL
  /\ wakeupChannel_ \in activeChannels_
  /\ activeChannels_' = activeChannels_ \ {wakeupChannel_}
  /\ wakeupFd_' = FALSE
  /\ UNCHANGED <<looping_, callingPendingFunctors_, functors, current, pc, ran,
                 quit_, pendingFunctors_, waking, queued, early>>

\* handleEvent() of a user's channel starts.
HandleEvent(ch) ==
  /\ pc = "dispatch" /\ current = NULL
  /\ ch \in activeChannels_ \ {wakeupChannel_}
  /\ activeChannels_' = activeChannels_ \ {ch}
  /\ current' = ch
  /\ UNCHANGED <<looping_, callingPendingFunctors_, functors, pc, ran,
                 sharedVars>>

\* The running callback, a handler or a functor, returns.
CallbackReturn ==
  /\ current # NULL
  /\ current' = NULL
  /\ UNCHANGED <<looping_, callingPendingFunctors_, activeChannels_, functors,
                 pc, ran, sharedVars>>

\* All active channels are handled.
EndDispatch ==
  /\ pc = "dispatch" /\ current = NULL /\ activeChannels_ = {}
  /\ pc' = "swap"
  /\ UNCHANGED <<looping_, callingPendingFunctors_, activeChannels_, functors,
                 current, ran, sharedVars>>

\* Slip: the queue is copied and not emptied.
SwapFunctorsCopy ==
  /\ pc = "swap"
  /\ callingPendingFunctors_' = TRUE
  /\ functors' = pendingFunctors_
  /\ pc' = "functors"
  /\ UNCHANGED <<looping_, activeChannels_, current, ran, pendingFunctors_,
                 quit_, wakeupFd_, waking, queued, early>>

\* doPendingFunctors(): callingPendingFunctors_ = true and the swap.
SwapFunctors ==
  /\ pc = "swap"
  /\ callingPendingFunctors_' = TRUE
  /\ functors' = pendingFunctors_
  /\ pendingFunctors_' = <<>>
  /\ pc' = "functors"
  /\ UNCHANGED <<looping_, activeChannels_, current, ran,
                 quit_, wakeupFd_, waking, queued, early>>

\* doPendingFunctors(): the next functor is called.
RunFunctor ==
  /\ pc = "functors" /\ current = NULL /\ functors # <<>>
  /\ current' = Head(functors)
  /\ functors' = Tail(functors)
  /\ ran' = Append(ran, Head(functors))
  /\ UNCHANGED <<looping_, callingPendingFunctors_, activeChannels_, pc,
                 sharedVars>>

\* doPendingFunctors(): callingPendingFunctors_ = false.
EndFunctors ==
  /\ pc = "functors" /\ current = NULL /\ functors = <<>>
  /\ callingPendingFunctors_' = FALSE
  /\ pc' = "while"
  /\ UNCHANGED <<looping_, activeChannels_, functors, current, ran, sharedVars>>

-----------------------------------------------------------------------------
\* What the loop thread does by itself; poll() only returns by itself when
\* the eventfd is readable.
LoopStep ==
  \/ While
  \/ Readable /\ \E io \in SUBSET Channel : Poll(io)
  \/ HandleRead
  \/ \E ch \in Channel : HandleEvent(ch)
  \/ CallbackReturn
  \/ EndDispatch
  \/ SwapFunctors
  \/ RunFunctor
  \/ EndFunctors

UserStep ==
  \/ \E f \in Functor : QueueInLoopHere(f)
  \/ QuitHere
  \/ Loop

ThreadStep(t) ==
  \/ \E f \in Functor : QueueInLoop(t, f)
  \/ Quit(t)
  \/ Wakeup(t)

Next ==
  \/ LoopStep
  \/ \E io \in SUBSET Channel : Poll(io)
  \/ UserStep
  \/ \E t \in Thread : ThreadStep(t)

\* The loop thread is scheduled and callbacks return; a thread that began
\* queueInLoop() or quit() finishes the call.  No fairness for descriptors
\* becoming ready nor for the poll timeout: the wakeups must suffice.
Fairness == WF_vars(LoopStep) /\ \A t \in Thread : WF_vars(Wakeup(t))

Spec == Init /\ [][Next]_vars /\ Fairness
-----------------------------------------------------------------------------
(* Properties *)

\* Every variable keeps the type of the member or local it models
\* (EventLoop.h:140-160).
TypeOK ==
  /\ looping_ \in BOOLEAN /\ quit_ \in BOOLEAN
  /\ callingPendingFunctors_ \in BOOLEAN
  /\ pendingFunctors_ \in Seq(Functor) /\ functors \in Seq(Functor)
  /\ wakeupFd_ \in BOOLEAN
  /\ activeChannels_ \subseteq Channel \cup {wakeupChannel_}
  /\ current \in Channel \cup Functor \cup {NULL}
  /\ pc \in LoopPc
  /\ waking \subseteq Thread
  /\ queued \in Seq(Functor) /\ ran \in Seq(Functor)
  /\ early \subseteq Functor

\* No wakeup is lost (the condition of queueInLoop(), EventLoop.cc:167): when
\* the loop is about to block in poll(), every pending functor has the
\* eventfd readable, or about to be made so by a thread inside queueInLoop()
\* or quit(), unless the loop thread queued it before it entered loop().
NoLostWakeup ==
  pc \in {"while", "poll"} =>
    \A i \in 1..Len(pendingFunctors_) :
      pendingFunctors_[i] \in early \/ wakeupFd_ \/ waking # {}

\* Functors run at most once and in the order in which they were queued,
\* across the swap of doPendingFunctors() and what is queued while it runs
\* (EventLoop.cc:254-269): none is dropped, repeated or overtaken.
RunInQueueOrder == ran \o functors \o pendingFunctors_ = queued

\* While poll() is blocked, quit_ set by another thread has its wakeup()
\* made or on its way: quit() cannot be missed by a sleeping loop
\* (EventLoop.cc:136-146).
QuitReachesPoll == pc = "poll" /\ quit_ => wakeupFd_ \/ waking # {}

\* A functor that is pending while the loop runs, and was not queued before
\* loop(), is run, unless the loop stops: with no help from the poll timeout.
FunctorsRun ==
  \A f \in Functor :
    (looping_ /\ Queued(f) /\ f \notin early)
      ~> ((\E i \in 1..Len(ran) : ran[i] = f) \/ ~looping_)
=============================================================================
