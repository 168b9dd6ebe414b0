--------------------------- MODULE BlockingQueues ---------------------------
(***************************************************************************)
(* muduo/base/BoundedBlockingQueue.h and BlockingQueue.h: producers and    *)
(* consumers around a queue guarded by a mutex, with one condition per     *)
(* direction and one notify() per put() or take().  Capacity is Unbounded  *)
(* for BlockingQueue, whose put() never waits.                             *)
(*                                                                         *)
(* A critical section is one step.  A thread inside put() or take() is     *)
(* awake (about to lock mutex_ and test the condition of its while loop)   *)
(* or asleep in wait(); notify() wakes any one sleeper, and a sleeper may  *)
(* also wake up spuriously (pthread_cond_wait).                            *)
(***************************************************************************)
EXTENDS Integers, Sequences, FiniteSets

CONSTANTS Producer, Consumer, Capacity, Unbounded, Item

ASSUME QueueAssumption ==
  /\ Capacity = Unbounded \/ Capacity \in Nat \ {0}
  /\ Unbounded \notin Nat
  /\ IsFiniteSet(Producer) /\ IsFiniteSet(Consumer)
  /\ Producer \cap Consumer = {}

VARIABLES queue_,
          awake,       \* threads inside put() or take(), not asleep
          notFull_,    \* producers asleep in notFull_.wait()
          notEmpty_    \* consumers asleep in notEmpty_.wait()

vars == <<queue_, awake, notFull_, notEmpty_>>

Init == queue_ = <<>> /\ awake = {} /\ notFull_ = {} /\ notEmpty_ = {}

full == Capacity # Unbounded /\ Len(queue_) >= Capacity

\* Condition::notify(): one of the sleepers, if there is any.
Notify(waiters) == IF waiters = {} THEN {{}} ELSE {{w} : w \in waiters}

\* A thread calls put() or take().
Enter(t) ==
  /\ t \notin awake \cup notFull_ \cup notEmpty_
  /\ awake' = awake \cup {t}
  /\ UNCHANGED <<queue_, notFull_, notEmpty_>>

\* put(): while (queue_.full()) notFull_.wait().
PutWait(p) ==
  /\ p \in awake /\ full
  /\ awake' = awake \ {p}
  /\ notFull_' = notFull_ \cup {p}
  /\ UNCHANGED <<queue_, notEmpty_>>

\* Slip: only the put() that makes an empty queue non-empty notifies.
PutNotifyIfWasEmpty(p, x) ==
  /\ p \in awake /\ ~full
  /\ queue_' = Append(queue_, x)
  /\ \E w \in IF queue_ = <<>> THEN Notify(notEmpty_) ELSE {{}} :
       /\ notEmpty_' = notEmpty_ \ w
       /\ awake' = (awake \ {p}) \cup w
  /\ UNCHANGED notFull_

\* put(): push_back() and notEmpty_.notify().
Put(p, x) ==
  /\ p \in awake /\ ~full
  /\ queue_' = Append(queue_, x)
  /\ \E w \in Notify(notEmpty_) :
       /\ notEmpty_' = notEmpty_ \ w
       /\ awake' = (awake \ {p}) \cup w
  /\ UNCHANGED notFull_

\* take(): while (queue_.empty()) notEmpty_.wait().
TakeWait(c) ==
  /\ c \in awake /\ queue_ = <<>>
  /\ awake' = awake \ {c}
  /\ notEmpty_' = notEmpty_ \cup {c}
  /\ UNCHANGED <<queue_, notFull_>>

\* Slip: only the take() that leaves room in a full queue notifies.
TakeNotifyIfWasFull(c) ==
  /\ c \in awake /\ queue_ # <<>>
  /\ queue_' = Tail(queue_)
  /\ \E w \in IF full THEN Notify(notFull_) ELSE {{}} :
       /\ notFull_' = notFull_ \ w
       /\ awake' = (awake \ {c}) \cup w
  /\ UNCHANGED notEmpty_

\* take(): pop_front() and notFull_.notify().
Take(c) ==
  /\ c \in awake /\ queue_ # <<>>
  /\ queue_' = Tail(queue_)
  /\ \E w \in Notify(notFull_) :
       /\ notFull_' = notFull_ \ w
       /\ awake' = (awake \ {c}) \cup w
  /\ UNCHANGED notEmpty_

\* pthread_cond_wait() returns with nobody having notified.
SpuriousWakeup(t) ==
  /\ t \in notFull_ \cup notEmpty_
  /\ notFull_' = notFull_ \ {t} /\ notEmpty_' = notEmpty_ \ {t}
  /\ awake' = awake \cup {t}
  /\ UNCHANGED queue_

PutStep(p) == PutWait(p) \/ \E x \in Item : Put(p, x)
TakeStep(c) == TakeWait(c) \/ Take(c)

Next ==
  \/ \E p \in Producer : PutStep(p)
  \/ \E c \in Consumer : TakeStep(c)
  \/ \E t \in Producer \cup Consumer : Enter(t) \/ SpuriousWakeup(t)

Spec == Init /\ [][Next]_vars
-----------------------------------------------------------------------------
(* Properties *)

\* The queue holds items, within its capacity, and a thread is in one place.
TypeOK ==
  /\ queue_ \in Seq(Item)
  /\ Capacity # Unbounded => Len(queue_) <= Capacity
  /\ awake \subseteq Producer \cup Consumer
  /\ notFull_ \subseteq Producer \ awake
  /\ notEmpty_ \subseteq Consumer \ awake

\* While consumers sleep, every item in the queue has a consumer that is
\* awake to take it: notify() on each put() loses no wakeup, whoever takes
\* the items first (BoundedBlockingQueue.h:39, "not only when it was empty").
NoStuckConsumer ==
  notEmpty_ # {} => Len(queue_) <= Cardinality(awake \cap Consumer)

\* While producers sleep, every free slot has a producer that is awake to fill
\* it (BoundedBlockingQueue.h:65).
NoStuckProducer ==
  notFull_ # {} => Capacity - Len(queue_) <= Cardinality(awake \cap Producer)

\* Producers do not all sleep on a queue that consumers sleep on: the two
\* conditions never hold everyone at the same time.
NotAllAsleep == notFull_ = {} \/ notEmpty_ = {} \/ awake # {}
=============================================================================
