----------------------------- MODULE TimerQueue -----------------------------
(***************************************************************************)
(* muduo/net/TimerQueue.cc: the timers of one EventLoop.  The loop thread  *)
(* calls addTimer() and cancel() at any point of its own code, also from a *)
(* timer's callback; other threads reach the same operations through       *)
(* runInLoop(), which queues addTimerInLoop() and cancelInLoop() (first in *)
(* first out, see RunInQueueOrder of EventLoop).                           *)
(*                                                                         *)
(* A Timer is an object at an address that the allocator may hand out      *)
(* again after delete; its sequence_ is never reused.  The timerfd is a    *)
(* one-shot deadline: readable from that moment on, until it is read or    *)
(* set again.  One tick stands for the 100 microseconds of                 *)
(* howMuchTimeFromNow(), and the wall clock only moves forward.            *)
(***************************************************************************)
EXTENDS Integers, Sequences, FiniteSets

CONSTANTS Thread,      \* threads other than the loop's
          Addr,        \* addresses of Timer objects
          MaxSeq,      \* bound: timers ever created
          MaxTime,     \* bound: the last tick
          MaxPending,  \* bound: queued calls
          Interval,    \* intervals of repeating timers, with 0 for none
          Free         \* no object, no call

VARIABLES
  now,                \* Timestamp::now()
  timerfd_,           \* deadline of the timerfd, or Disarmed
  timerfdActive,      \* poll() reported the timerfd, handleRead() is to come
  heap,               \* the Timer at each address, or Free
  numCreated_,        \* Timer::s_numCreated_
  timers_,            \* pairs <<expiration, address>>
  activeTimers_, cancelingTimers_,   \* pairs <<address, sequence>>
  callingExpiredTimers_,
  expired, toRun,     \* handleRead()'s local vector, and what is left of it
  readNow,            \* handleRead()'s local now
  pendingFunctors_,   \* queued addTimerInLoop() and cancelInLoop() calls
  adding,             \* TimerId each thread is about to return, or Free
  ids,                \* TimerIds returned by addTimer()
  ranSeq,             \* history: sequences of timers that ran
  cancelled, revoked  \* history: TimerIds that cancelInLoop() was called for,
                      \* and those of them that addTimerInLoop() had put in

vars == <<now, timerfd_, timerfdActive, heap, numCreated_, timers_,
          activeTimers_, cancelingTimers_, callingExpiredTimers_, expired,
          toRun, readNow, pendingFunctors_, adding, ids, ranSeq, cancelled,
          revoked>>

setVars == <<timers_, activeTimers_, cancelingTimers_>>
cancelVars == <<cancelled, revoked>>
readVars == <<callingExpiredTimers_, expired, toRun, readNow>>

Disarmed == 0

Seqs == 0..MaxSeq
TimerId == Addr \X Seqs

Init ==
  /\ now = 1
  /\ timerfd_ = Disarmed /\ timerfdActive = FALSE
  /\ heap = [a \in Addr |-> Free] /\ numCreated_ = 0
  /\ timers_ = {} /\ activeTimers_ = {} /\ cancelingTimers_ = {}
  /\ callingExpiredTimers_ = FALSE /\ expired = {} /\ toRun = {} /\ readNow = 0
  /\ pendingFunctors_ = <<>>
  /\ adding = [t \in Thread |-> Free]
  /\ ids = {} /\ ranSeq = {} /\ cancelled = {} /\ revoked = {}

-----------------------------------------------------------------------------
(* The sets of timers. *)

Live(a) == heap[a] # Free
ActiveTimer(a) == <<a, heap[a].sequence_>>

\* timers_.begin()->first of a set of entries that is not empty.
Earliest(entries) == CHOOSE w \in {e[1] : e \in entries} :
                       \A e \in entries : w <= e[1]

\* The deadline of resetTimerfd() and howMuchTimeFromNow(): at least one tick
\* from now (at once on the last tick, so that the horizon hides nothing).
Deadline(when) ==
  IF when > now THEN when ELSE IF now < MaxTime THEN now + 1 ELSE now

\* Slip: the timerfd is set for the first timer only.
EarliestChangedFirst(when) == timers_ = {}

\* What insert() returns: the new timer is before all the others.
EarliestChanged(when) == timers_ = {} \/ when < Earliest(timers_)

\* addTimerInLoop() with insert(): both sets, and the timerfd when the new
\* timer is the earliest.
AddTimerInLoop(a, timer) ==
  /\ timers_' = timers_ \cup {<<timer.expiration_, a>>}
  /\ activeTimers_' = activeTimers_ \cup {<<a, timer.sequence_>>}
  /\ IF EarliestChanged(timer.expiration_)
     THEN timerfd_' = Deadline(timer.expiration_)
     ELSE UNCHANGED timerfd_
  /\ UNCHANGED cancelingTimers_

\* activeTimers_.find(timer) in cancelInLoop().
IsActive(id) == id \in activeTimers_

\* Slip: only timers that are active can be cancelled.
CancelingNever(id) == cancelingTimers_

\* cancelingTimers_ after cancelInLoop() did not find the timer active.
Canceling(id) ==
  IF callingExpiredTimers_ THEN cancelingTimers_ \cup {id} ELSE cancelingTimers_

\* The entry cancelInLoop() erases from timers_.
CancelledEntry(a) == {<<heap[a].expiration_, a>>}

\* cancelInLoop(): delete the timer if it is active; while the expired ones
\* are being called, remember the TimerId instead.
CancelInLoop(id) ==
  LET a == id[1] IN
  /\ cancelled' = cancelled \cup {id}
  /\ revoked' = IF id \in activeTimers_ \cup {ActiveTimer(e[2]) : e \in expired}
                THEN revoked \cup {id} ELSE revoked
  /\ IF IsActive(id)
     THEN /\ timers_' = timers_ \ CancelledEntry(a)
          /\ activeTimers_' = activeTimers_ \ {ActiveTimer(a)}
          /\ heap' = [heap EXCEPT ![a] = Free]
          /\ UNCHANGED cancelingTimers_
     ELSE /\ cancelingTimers_' = Canceling(id)
          /\ UNCHANGED <<timers_, activeTimers_, heap>>

-----------------------------------------------------------------------------
(* Calls made in the loop thread. *)

\* While expired timers are called, user code runs only inside a callback.
InUserCode == callingExpiredTimers_ => toRun # expired

\* addTimer() in the loop thread: new Timer and addTimerInLoop() at once.
AddTimerHere(a, when, interval) ==
  LET timer == [sequence_ |-> numCreated_ + 1, expiration_ |-> when,
                interval_ |-> interval] IN
  /\ InUserCode /\ ~Live(a) /\ numCreated_ < MaxSeq
  /\ heap' = [heap EXCEPT ![a] = timer]
  /\ numCreated_' = numCreated_ + 1
  /\ AddTimerInLoop(a, timer)
  /\ ids' = ids \cup {<<a, timer.sequence_>>}
  /\ UNCHANGED <<now, timerfdActive, readVars, pendingFunctors_, adding, ranSeq,
                 cancelVars>>

\* cancel() in the loop thread.
CancelHere(id) ==
  /\ InUserCode
  /\ CancelInLoop(id)
  /\ UNCHANGED <<now, timerfd_, timerfdActive, numCreated_, readVars,
                 pendingFunctors_, adding, ids, ranSeq>>

-----------------------------------------------------------------------------
(* Calls made in other threads. *)

\* addTimer(): new Timer, and runInLoop() queues addTimerInLoop().
AddTimer(t, a, when, interval) ==
  /\ adding[t] = Free /\ ~Live(a) /\ numCreated_ < MaxSeq
  /\ Len(pendingFunctors_) < MaxPending
  /\ numCreated_' = numCreated_ + 1
  /\ heap' = [heap EXCEPT ![a] = [sequence_ |-> numCreated_ + 1,
                                  expiration_ |-> when, interval_ |-> interval]]
  /\ pendingFunctors_' = Append(pendingFunctors_, <<"add", a>>)
  /\ adding' = [adding EXCEPT ![t] = <<a, numCreated_ + 1>>]
  /\ UNCHANGED <<now, timerfd_, timerfdActive, setVars, readVars, ids, ranSeq,
                 cancelVars>>

\* addTimer(): return TimerId(timer, timer->sequence()).  If the object is
\* gone by now, what is read is whatever the memory holds.
AddTimerReturn(t) ==
  LET a == adding[t][1] IN
  /\ adding[t] # Free
  /\ \E s \in IF Live(a) THEN {heap[a].sequence_} ELSE Seqs :
       ids' = ids \cup {<<a, s>>}
  /\ adding' = [adding EXCEPT ![t] = Free]
  /\ UNCHANGED <<now, timerfd_, timerfdActive, heap, numCreated_, setVars,
                 readVars, pendingFunctors_, ranSeq, cancelVars>>

\* cancel(): runInLoop() queues cancelInLoop().
Cancel(t, id) ==
  /\ adding[t] = Free /\ Len(pendingFunctors_) < MaxPending
  /\ pendingFunctors_' = Append(pendingFunctors_, <<"cancel", id>>)
  /\ UNCHANGED <<now, timerfd_, timerfdActive, heap, numCreated_, setVars,
                 readVars, adding, ids, ranSeq, cancelVars>>

-----------------------------------------------------------------------------
(* The loop thread. *)

\* poll() finds the timerfd readable.
PollTimerfd ==
  /\ ~timerfdActive /\ ~callingExpiredTimers_
  /\ timerfd_ # Disarmed /\ timerfd_ <= now
  /\ timerfdActive' = TRUE
  /\ UNCHANGED <<now, timerfd_, heap, numCreated_, setVars, readVars,
                 pendingFunctors_, adding, ids, ranSeq, cancelVars>>

\* Slip: a timer that expires this very moment is left.
DueStrict == {e \in timers_ : e[1] < now}

\* getExpired(): what lower_bound(sentry) leaves before it.
Due == {e \in timers_ : e[1] <= now}

\* handleRead(): readTimerfd() (which finds nothing to read if a handler that
\* ran before set the timerfd again), getExpired(), and the start of the calls.
HandleRead ==
  /\ timerfdActive /\ timerfdActive' = FALSE
  /\ timerfd_' = IF timerfd_ # Disarmed /\ timerfd_ <= now THEN Disarmed
                                                           ELSE timerfd_
  /\ readNow' = now
  /\ expired' = Due /\ toRun' = Due
  /\ timers_' = timers_ \ Due
  /\ activeTimers_' = activeTimers_ \ {ActiveTimer(e[2]) : e \in Due}
  /\ callingExpiredTimers_' = TRUE
  /\ cancelingTimers_' = {}
  /\ UNCHANGED <<now, heap, numCreated_, pendingFunctors_, adding, ids, ranSeq,
                 cancelVars>>

\* handleRead(): the callback of the next expired timer starts.  What it
\* calls are the steps of the loop thread before the next RunTimer or Reset.
RunTimer ==
  /\ callingExpiredTimers_
  /\ \E e \in toRun :
       /\ \A d \in toRun : e[1] <= d[1]
       /\ toRun' = toRun \ {e}
       /\ ranSeq' = ranSeq \cup {heap[e[2]].sequence_}
  /\ UNCHANGED <<now, timerfd_, timerfdActive, heap, numCreated_, setVars,
                 callingExpiredTimers_, expired, readNow, pendingFunctors_,
                 adding, ids, cancelVars>>

\* reset(): a timer of the batch is deleted, not started again.
Deleted(e) ==
  heap[e[2]].interval_ = 0 \/ ActiveTimer(e[2]) \in cancelingTimers_

\* The end of reset(): the timerfd for the earliest of the timers, if any.
NextDeadline(entries) ==
  IF entries # {} THEN Deadline(Earliest(entries)) ELSE timerfd_

\* handleRead() after the calls, and reset(): repeating timers that were not
\* cancelled meanwhile go back, the others are deleted, the timerfd is set
\* for what is now the earliest.
Reset ==
  LET deleted == {e[2] : e \in {d \in expired : Deleted(d)}}
      again == {e[2] : e \in {d \in expired : heap[d[2]].interval_ > 0}} \ deleted
      next(a) == readNow + heap[a].interval_
  IN
  /\ callingExpiredTimers_ /\ toRun = {}
  /\ callingExpiredTimers_' = FALSE /\ expired' = {} /\ readNow' = 0
  /\ heap' = [a \in Addr |->
                IF a \in again THEN [heap[a] EXCEPT !.expiration_ = next(a)]
                ELSE IF a \in deleted THEN Free ELSE heap[a]]
  /\ timers_' = timers_ \cup {<<next(a), a>> : a \in again}
  /\ activeTimers_' = activeTimers_ \cup {ActiveTimer(a) : a \in again}
  /\ timerfd_' = NextDeadline(timers_')
  /\ UNCHANGED <<now, timerfdActive, numCreated_, cancelingTimers_, toRun,
                 pendingFunctors_, adding, ids, ranSeq, cancelVars>>

\* doPendingFunctors() runs the next queued addTimerInLoop() or cancelInLoop();
\* active channels, the timerfd's too, are handled before that.
RunFunctor ==
  /\ ~callingExpiredTimers_ /\ ~timerfdActive /\ pendingFunctors_ # <<>>
  /\ pendingFunctors_' = Tail(pendingFunctors_)
  /\ LET f == Head(pendingFunctors_) IN
     \/ /\ f[1] = "add"
        /\ AddTimerInLoop(f[2], heap[f[2]])
        /\ UNCHANGED <<heap, cancelVars>>
     \/ /\ f[1] = "cancel"
        /\ CancelInLoop(f[2])
        /\ UNCHANGED timerfd_
  /\ UNCHANGED <<now, timerfdActive, numCreated_, readVars, adding, ids, ranSeq>>

Tick ==
  /\ now < MaxTime
  /\ now' = now + 1
  /\ UNCHANGED <<timerfd_, timerfdActive, heap, numCreated_, setVars, readVars,
                 pendingFunctors_, adding, ids, ranSeq, cancelVars>>

-----------------------------------------------------------------------------
LoopStep == PollTimerfd \/ HandleRead \/ RunTimer \/ Reset \/ RunFunctor

LoopThreadCall ==
  \/ \E a \in Addr, when \in 1..MaxTime, i \in Interval : AddTimerHere(a, when, i)
  \/ \E id \in ids : CancelHere(id)

ThreadCall(t) ==
  \/ \E a \in Addr, when \in 1..MaxTime, i \in Interval : AddTimer(t, a, when, i)
  \/ AddTimerReturn(t)
  \/ \E id \in ids : Cancel(t, id)

Next == LoopStep \/ LoopThreadCall \/ (\E t \in Thread : ThreadCall(t)) \/ Tick

\* Time passes; every iteration of loop() polls, so a readable timerfd is seen
\* even if functors keep coming, and callbacks return.
Fairness ==
  /\ WF_vars(Tick)
  /\ WF_vars(PollTimerfd)
  /\ WF_vars(HandleRead \/ RunTimer \/ Reset)

Spec == Init /\ [][Next]_vars /\ Fairness
-----------------------------------------------------------------------------
(* Properties *)

Timers == [sequence_ : Nat, expiration_ : Nat, interval_ : Nat]
Entry == Nat \X Addr

\* The types of TimerQueue's members (TimerQueue.h:57-81) and of the calls.
TypeOK ==
  /\ now \in Nat /\ readNow \in Nat
  /\ timerfd_ \in Nat /\ timerfdActive \in BOOLEAN
  /\ heap \in [Addr -> Timers \cup {Free}] /\ numCreated_ \in Seqs
  /\ timers_ \subseteq Entry /\ expired \subseteq Entry /\ toRun \subseteq expired
  /\ activeTimers_ \subseteq TimerId /\ cancelingTimers_ \subseteq TimerId
  /\ callingExpiredTimers_ \in BOOLEAN
  /\ pendingFunctors_ \in Seq({"add"} \X Addr \cup {"cancel"} \X TimerId)
  /\ adding \in [Thread -> TimerId \cup {Free}]
  /\ ids \subseteq TimerId /\ revoked \subseteq cancelled /\ cancelled \subseteq TimerId
  /\ ranSeq \subseteq Seqs

\* timers_ and activeTimers_ hold the same live timers, each filed under its
\* own expiration and sequence, and none of them is also in the batch being
\* called: what the assertions at TimerQueue.cc:146, 152, 160, 189, 197, 249
\* and 254 rely on.
SetsAgree ==
  /\ \A e \in timers_ \cup expired : Live(e[2]) /\ heap[e[2]].expiration_ = e[1]
  /\ activeTimers_ = {ActiveTimer(e[2]) : e \in timers_}
  /\ timers_ \cap expired = {}

PendingAdd(a) == {i \in 1..Len(pendingFunctors_) : pendingFunctors_[i] = <<"add", a>>}

\* Every Timer object has exactly one owner: a queued addTimerInLoop(),
\* timers_, or the batch of handleRead().  None leaks and none is deleted by
\* two of them (TimerQueue.cc:153, 220).
OneOwner ==
  \A a \in Addr :
    Cardinality(PendingAdd(a)) + Cardinality({e \in timers_ : e[2] = a})
      + Cardinality({e \in expired : e[2] = a}) = IF Live(a) THEN 1 ELSE 0

\* The books of the queue: the types of its members, the two sets, and the owners
\* of the timers.
BooksAgree == TypeOK /\ SetsAgree /\ OneOwner

\* While timers wait and handleRead() is not at work, the timerfd is due, or
\* set for no later than the earliest of them, whichever of add, cancel and
\* expiry came last (TimerQueue.cc:137-140, 224-232).
ArmedForEarliest ==
  timers_ # {} /\ ~callingExpiredTimers_ =>
    \/ timerfdActive
    \/ /\ timerfd_ # Disarmed
       /\ timerfd_ <= Earliest(timers_) \/ timerfd_ <= now + 1

\* Once cancelInLoop() met a timer that was in, the timer is never active
\* again and is deleted at the latest when the batch being called ends, also
\* when a repeating timer is cancelled by its own callback
\* (TimerQueue.cc:156-159, 211-221).
CancelIsFinal ==
  \A id \in revoked :
    /\ id \notin activeTimers_
    /\ ~callingExpiredTimers_ => ~(Live(id[1]) /\ ActiveTimer(id[1]) = id)

\* A timer that is in the queue runs, or is cancelled.
TimersFire ==
  \A s \in 1..MaxSeq :
    (\E a \in Addr : <<a, s>> \in activeTimers_)
      ~> (s \in ranSeq \/ \E id \in cancelled : id[2] = s)

\* addTimer() is "Must be thread safe. Usually be called from other threads."
\* (TimerQueue.h:45): the Timer it reads the sequence of is still its own.
AddTimerReadsOwnTimer ==
  \A t \in Thread : adding[t] # Free =>
    Live(adding[t][1]) /\ ActiveTimer(adding[t][1]) = adding[t]
=============================================================================
