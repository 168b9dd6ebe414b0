------------------------------ MODULE MCThreads ------------------------------
(* The users of the threads of base/, each on its own: `part' says which one   *)
(* moves, the others stay as they are created.  The names of BlockingQueues    *)
(* are as in its module.                                                       *)
EXTENDS BlockingQueues

CONSTANTS w1, w2, c1, c2, MaxTasks, maxQueueSize_,
          MaxLines, BufferSize, MaxBuffers, NULL,
          MaxThreads,
          p1, p2, p3, q1, q2, q3, x,
          MaxObjects

ASSUME SizesAssumption ==
  /\ maxQueueSize_ \in Nat /\ MaxThreads \in Nat \ {0}
  /\ BufferSize \in Nat /\ BufferSize > 1 /\ MaxBuffers > 1

VARIABLES
  part,
  running_, tasks, threads_, owner, worker, client, arg, submitted, begun,
  logging, currentBuffer_, nextBuffer_, buffers_, newBuffer1, newBuffer2, buffersToWrite,
  output, opc, tpc, latch_, appended, dropped,
  creator, current, child, alive, thread, latch, pthread,
  ponce_, value_, runner, pkey_, t_value_, deleter_, stage, objects, deleted, process

MCProducer == {p1, p2, p3}
MCConsumer == {q1, q2, q3}
MCItem == {x}

poolVars == <<running_, tasks, threads_, owner, worker, client, arg, submitted, begun>>
loggingVars ==
  <<logging, currentBuffer_, nextBuffer_, buffers_, newBuffer1, newBuffer2, buffersToWrite,
    output, opc, tpc, latch_, appended, dropped>>
threadVars == <<creator, current, child, alive, thread, latch, pthread>>
localVars ==
  <<ponce_, value_, runner, pkey_, t_value_, deleter_, stage, objects, deleted, process>>
MCVars == <<part, vars, poolVars, loggingVars, threadVars, localVars>>

Pool == INSTANCE ThreadPool WITH Worker <- {w1, w2}, Client <- {c1, c2}, queue_ <- tasks
Logging == INSTANCE AsyncLogging WITH running_ <- logging
Thread_ == INSTANCE Thread WITH owner <- creator
Locals == INSTANCE ThreadLocals WITH Threads <- {w1, w2}, alive <- objects

MCInit ==
  /\ part \in {"BlockingQueues", "ThreadPool", "AsyncLogging", "Thread", "ThreadLocals"}
  /\ Init /\ Pool!Init /\ Logging!Init /\ Thread_!Init /\ Locals!Init

ForQueue(A) ==
  part = "BlockingQueues" /\ A /\ UNCHANGED <<part, poolVars, loggingVars, threadVars, localVars>>
ForPool(A) ==
  part = "ThreadPool" /\ A /\ UNCHANGED <<part, vars, loggingVars, threadVars, localVars>>
ForLogging(A) ==
  part = "AsyncLogging" /\ A /\ UNCHANGED <<part, vars, poolVars, threadVars, localVars>>
ForThread(A) ==
  part = "Thread" /\ A /\ UNCHANGED <<part, vars, poolVars, loggingVars, localVars>>
ForLocals(A) ==
  part = "ThreadLocals" /\ A /\ UNCHANGED <<part, vars, poolVars, loggingVars, threadVars>>

MCNext ==
  \/ ForQueue(Next)
  \/ ForPool(Pool!Next)
  \/ ForLogging(Logging!Next)
  \/ ForThread(Thread_!Next)
  \/ ForLocals(Locals!Next)

\* The fairness of each part, as in its module.
MCFairness ==
  /\ \A w \in {w1, w2} : WF_MCVars(ForPool(Pool!WorkerStep(w)))
  /\ \A c \in {c1, c2} : WF_MCVars(ForPool(Pool!ClientStep(c)))
  /\ WF_MCVars(ForPool(Pool!Join))
  /\ WF_MCVars(ForLogging(Logging!ThreadStep))
  /\ WF_MCVars(ForLogging(Logging!StartReturn \/ Logging!StopNotify \/ Logging!StopJoin))
  /\ WF_MCVars(ForThread(Thread_!Owner))
  /\ \A o \in 1..MaxThreads :
       WF_MCVars(ForThread(Thread_!Child(o))) /\ SF_MCVars(ForThread(Thread_!childLock(o)))

MCSpec == MCInit /\ [][MCNext]_MCVars /\ MCFairness
-----------------------------------------------------------------------------
(* Properties *)

\* The types of the members, and the bound of the queue of the pool.
TypesOK == TypeOK /\ Pool!TypeOK /\ Logging!TypeOK /\ Thread_!TypeOK /\ Locals!TypeOK

\* No assert fails: the logging thread finds its two spare buffers empty and a round
\* has enough buffers to replace them (AsyncLogging.cc:86-88, 109, 136, 144), a
\* started Thread knows its tid (Thread.cc:188), its mutex is free when it is
\* destroyed (Mutex.h:132), and its pthread is joined or detached once
\* (Thread.cc:154-160).
AssertsHold ==
  /\ TypesOK
  /\ Logging!SparesReady /\ Logging!EnoughToRecycle
  /\ Thread_!TidKnown /\ Thread_!HolderRight /\ Thread_!PthreadReleased

\* While workers sleep in take(), every queued task has a worker awake to take it,
\* and none sleeps once running_ is false; while clients sleep in run(), every free
\* slot has a client awake to fill it: no notify() of the pool is lost
\* (ThreadPool.cc:60-62, 90-96, 106, 116-119).
NoStuckThread == Pool!NoStuckWorker /\ Pool!NoStuckClient

\* What goes in comes out once and in order.  Tasks begin as run() accepted them;
\* lines are written as append() took them, or dropped, whatever the interleaving
\* of append() and the rounds of the thread (ThreadPool.cc:85, 95, 114;
\* AsyncLogging.cc:46, 99-106, 119-126).
OnceInOrder == Pool!BegunInOrder /\ Logging!LinesInOrder

\* Nothing is used after its end.  The new thread is done with tid_ and latch_ when the
\* owner can destroy them: it never has a step ahead that touches a Thread that is gone
\* (Thread.cc:72-75, CountDownLatch.cc:26-34: the condition is notified before the mutex
\* is unlocked).  A Singleton and the objects of a thread are made and deleted once, also
\* when the destructor of one of them asks for the other at the thread's end, and no
\* pointer to a deleted one can be had (Singleton.h:33-63, ThreadLocal.h:36-58,
\* ThreadLocalSingleton.h:25-48).
NoDangling == Thread_!ThreadOutlivesStart /\ Locals!OneObjectEach

\* Calls that wait for another thread return.  ThreadPool::stop(), wherever it found
\* the workers; run(), unless stop() is called meanwhile (ThreadPool.cc:54-69,
\* 90-93); AsyncLogging::stop(), although its notification may be lost
\* (AsyncLogging.h:49-51); Thread::start(), however the two threads race through the
\* latch (CountDownLatch.cc:17-34).  And while the logging runs, every line is written
\* or dropped, full buffer or not (AsyncLogging.cc:95, flushInterval_).
WaitsEnd ==
  /\ Pool!StopReturns /\ Pool!RunReturns /\ Thread_!StartReturns
  /\ Logging!StopReturns /\ Logging!LinesWritten
=============================================================================
