------------------------------- MODULE Thread -------------------------------
(***************************************************************************)
(* muduo/base/Thread.cc: an owner creates Threads, starts them, and joins  *)
(* or abandons them.  start() waits on a CountDownLatch inside the Thread, *)
(* which the new thread counts down; both then go their own ways, and the  *)
(* Thread may be destroyed while the other is still on its way out of the  *)
(* latch.  The MutexLock of the latch is modelled with its holder_.        *)
(***************************************************************************)
EXTENDS Integers, Sequences

CONSTANT MaxThreads   \* bound of the model: Threads of the owner, one after the other

Objects == 1..MaxThreads

VARIABLES
  owner,      \* what the owner does next
  current,    \* to which Thread
  child,      \* the step of runInThread() the thread of each Thread is at; 0 before it is created
  alive,      \* the Threads that are: constructed and not destroyed
  thread,     \* the members started_, joined_, tid_ of each
  latch,      \* its latch_: count_, and the mutex, who locks it and holder_
  pthread     \* what became of the pthread: joined, detached

vars == <<owner, current, child, alive, thread, latch, pthread>>

-----------------------------------------------------------------------------
(* ThreadData::runInThread(), as steps. *)

\* Slip: the condition is notified when the mutex is unlocked already.
runInThreadNotifyLate ==
  <<"tid", "lock", "assign", "decrement", "unassign", "unlock", "notify", "func">>

runInThread ==
  <<"tid", "lock", "assign", "decrement", "notify", "unassign", "unlock", "func">>

At(o, step) == child[o] > 0 /\ child[o] <= Len(runInThread) /\ runInThread[child[o]] = step
Steps(o) == child' = [child EXCEPT ![o] = @ + 1]

\* *tid_ = CurrentThread::tid()
publishTid(o) ==
  /\ At(o, "tid") /\ Steps(o)
  /\ thread' = [thread EXCEPT ![o].tid_ = 1]
  /\ UNCHANGED <<owner, current, alive, latch, pthread>>

\* CountDownLatch::countDown(), from lock() to unlock().
childLatch(o, step, new) ==
  /\ At(o, step) /\ Steps(o)
  /\ latch' = [latch EXCEPT ![o] = new]
  /\ UNCHANGED <<owner, current, alive, thread, pthread>>

childLock(o) == latch[o].locked = "no" /\ childLatch(o, "lock", [latch[o] EXCEPT !.locked = "child"])
childAssign(o) == childLatch(o, "assign", [latch[o] EXCEPT !.holder_ = "child"])

childDecrement(o) == childLatch(o, "decrement", [latch[o] EXCEPT !.count_ = @ - 1])
childUnassign(o) == childLatch(o, "unassign", [latch[o] EXCEPT !.holder_ = "no"])
childUnlock(o) == childLatch(o, "unlock", [latch[o] EXCEPT !.locked = "no"])

last(o) == latch[o].count_ = 0

\* notifyAll(): the owner is the only one to wait.
childNotify(o) ==
  /\ At(o, "notify") /\ Steps(o)
  /\ owner' = IF last(o) /\ owner = "asleep" /\ current = o THEN "woken" ELSE owner
  /\ UNCHANGED <<current, alive, thread, latch, pthread>>

\* func_() returns.
childFunc(o) == At(o, "func") /\ Steps(o) /\ UNCHANGED <<owner, current, alive, thread, latch, pthread>>

Child(o) ==
  \/ publishTid(o) \/ childLock(o) \/ childAssign(o) \/ childDecrement(o)
  \/ childNotify(o) \/ childUnassign(o) \/ childUnlock(o) \/ childFunc(o)

Finished(o) == child[o] > Len(runInThread)

-----------------------------------------------------------------------------
(* The owner. *)

\* Thread(), with latch_(1).
construct ==
  /\ owner = "construct"
  /\ alive' = alive \cup {current}
  /\ owner' = "start"
  /\ UNCHANGED <<current, child, thread, latch, pthread>>

\* start(), up to pthread_create(); when that fails LOG_SYSFATAL ends the program.
start ==
  /\ owner = "start" /\ ~thread[current].started_
  /\ thread' = [thread EXCEPT ![current].started_ = TRUE]
  /\ child' = [child EXCEPT ![current] = 1]
  /\ owner' = "lock"
  /\ UNCHANGED <<current, alive, latch, pthread>>

\* CountDownLatch::wait() and Condition::wait().
ownerLatch(from, to, new) ==
  /\ owner = from /\ owner' = to
  /\ latch' = [latch EXCEPT ![current] = new]
  /\ UNCHANGED <<current, child, alive, thread, pthread>>

lock == latch[current].locked = "no" /\ ownerLatch("lock", "assign", [latch[current] EXCEPT !.locked = "owner"])
assign == ownerLatch("assign", "test", [latch[current] EXCEPT !.holder_ = "owner"])

\* UnassignGuard, or the end of wait(): holder_ is reset either way.
test ==
  ownerLatch("test", IF latch[current].count_ > 0 THEN "wait" ELSE "unlock",
             [latch[current] EXCEPT !.holder_ = "no"])

\* pthread_cond_wait() unlocks and sleeps in one step; it may wake for no reason.
wait == ownerLatch("wait", "asleep", [latch[current] EXCEPT !.locked = "no"])
spurious == ownerLatch("asleep", "woken", latch[current])
relock == latch[current].locked = "no" /\ ownerLatch("woken", "assign", [latch[current] EXCEPT !.locked = "owner"])
unlock == ownerLatch("unlock", "started", [latch[current] EXCEPT !.locked = "no"])

\* join() is called, and pthread_join() returns.
join ==
  /\ owner = "started" /\ ~thread[current].joined_
  /\ thread' = [thread EXCEPT ![current].joined_ = TRUE]
  /\ owner' = "joining"
  /\ UNCHANGED <<current, child, alive, latch, pthread>>

joined ==
  /\ owner = "joining" /\ Finished(current)
  /\ pthread' = [pthread EXCEPT ![current] = @ \cup {"joined"}]
  /\ owner' = "started"
  /\ UNCHANGED <<current, child, alive, thread, latch>>

detaches(t) == t.started_ /\ ~t.joined_

\* ~Thread(), and with it ~CountDownLatch(); then the next Thread.
destroy ==
  /\ owner = "started"
  /\ alive' = alive \ {current}
  /\ pthread' = [pthread EXCEPT ![current] = @ \cup IF detaches(thread[current]) THEN {"detached"} ELSE {}]
  /\ IF current < MaxThreads THEN owner' = "construct" /\ current' = current + 1
     ELSE owner' = "done" /\ UNCHANGED current
  /\ UNCHANGED <<child, thread, latch>>

Owner ==
  \/ construct \/ start \/ lock \/ assign \/ test \/ wait \/ relock \/ unlock \/ joined \/ destroy

\* The members of a new Thread, and of the MutexLock in its latch_.
NewThread == [started_ |-> FALSE, joined_ |-> FALSE, tid_ |-> 0]
NewLatch == [count_ |-> 1, locked |-> "no", holder_ |-> "no"]

Init ==
  /\ owner = "construct" /\ current = 1 /\ alive = {}
  /\ child = [o \in Objects |-> 0]
  /\ thread = [o \in Objects |-> NewThread]
  /\ latch = [o \in Objects |-> NewLatch]
  /\ pthread = [o \in Objects |-> {}]

Next == Owner \/ join \/ spurious \/ \E o \in Objects : Child(o)

\* Threads run on, func_() returns, and a mutex that is free again and again, as
\* it is between spurious wakeups, is locked at last.
Spec ==
  /\ Init /\ [][Next]_vars /\ WF_vars(Owner)
  /\ \A o \in Objects : WF_vars(Child(o)) /\ SF_vars(childLock(o))
-----------------------------------------------------------------------------
(* Properties *)

TypeOK ==
  /\ owner \in {"construct", "start", "lock", "assign", "test", "wait", "asleep", "woken", "unlock",
                "started", "joining", "done"}
  /\ current \in Objects /\ alive \subseteq {current}
  /\ child \in [Objects -> 0..Len(runInThread) + 1]
  /\ latch \in [Objects -> [count_ : 0..1, locked : {"no", "owner", "child"}, holder_ : {"no", "owner", "child"}]]
  /\ pthread \in [Objects -> SUBSET {"joined", "detached"}]

\* When start() has returned tid() is that of the thread (the assert at
\* Thread.cc:188).
TidKnown == owner \in {"started", "joining"} => thread[current].tid_ > 0

\* The new thread is done with tid_ and latch_ when the owner can destroy them: it
\* never has a step ahead that touches a Thread that is gone (Thread.cc:72-75,
\* CountDownLatch.cc:26-34: the condition is notified before the mutex is unlocked).
ThreadOutlivesStart == \A o \in Objects : child[o] \in 1..Len(runInThread) - 1 => o \in alive

\* holder_ names the thread between assignHolder() and unassignHolder(), which
\* isLockedByThisThread() is for, and nobody when the mutex is destroyed (the
\* assert at Mutex.h:132).
HolderRight ==
  \A o \in Objects :
    /\ At(o, "decrement") => latch[o].holder_ = "child"
    /\ owner = "test" /\ current = o => latch[o].holder_ = "owner"
    /\ owner = "started" /\ current = o => latch[o].holder_ = "no" /\ latch[o].locked = "no"

\* A pthread is joined or detached, and not both (Thread.cc:154-160, 192-198).
PthreadReleased ==
  \A o \in Objects :
    /\ pthread[o] # {"joined", "detached"}
    /\ child[o] > 0 /\ o \notin alive => pthread[o] # {}

\* start() returns, without the help of spurious wakeups, however the two threads
\* race through the latch (CountDownLatch.cc:17-34).
StartReturns == (owner = "lock") ~> (owner = "started")
=============================================================================
