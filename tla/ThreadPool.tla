----------------------------- MODULE ThreadPool -----------------------------
(***************************************************************************)
(* muduo/base/ThreadPool.cc: an owner starts the pool, uses it with other  *)
(* clients, and stops it.  A critical section of mutex_ is one step; a     *)
(* thread asleep in a wait() wakes up by a notification or spuriously.     *)
(* running_ is read without the mutex by runInThread().                    *)
(***************************************************************************)
EXTENDS Integers, Sequences, FiniteSets

CONSTANTS Worker, Client,
          MaxTasks,       \* bound of the model: calls of run()
          maxQueueSize_   \* 0: no bound

VARIABLES
  running_, queue_,
  threads_,    \* the workers created by start()
  owner,       \* where the owner is: "new", "starting", "started",
               \* "joining", "stopped"
  worker,      \* where each worker is
  client,      \* where each client is
  arg,         \* the task each client passed to run()
  submitted, begun   \* history: tasks in the order queued, and begun

vars == <<running_, queue_, threads_, owner, worker, client, arg, submitted, begun>>

\* A task is known by the number of its run().
Task == 1..MaxTasks

WorkerPc == {"none", "while", "take", "notEmpty", "task", "exited"}
ClientPc == {"idle", "run", "notFull"}

Init ==
  /\ running_ = FALSE /\ queue_ = <<>> /\ threads_ = {} /\ owner = "new"
  /\ worker = [w \in Worker |-> "none"]
  /\ client = [c \in Client |-> "idle"]
  /\ arg = [c \in Client |-> 1]
  /\ submitted = <<>> /\ begun = <<>>

isFull == maxQueueSize_ > 0 /\ Len(queue_) >= maxQueueSize_

Used(t) == \/ \E i \in 1..Len(submitted) : submitted[i] = t
           \/ \E c \in Client : client[c] # "idle" /\ arg[c] = t

NewTask(t) == ~Used(t) /\ \A k \in 1..(t - 1) : Used(k)

Asleep(f, cond) == {x \in DOMAIN f : f[x] = cond}

\* Condition::notify() on the sleepers of f: one of them, if any, goes back to
\* the test of its loop.
Notify(f, cond, test) ==
  IF Asleep(f, cond) = {} THEN {f}
  ELSE {[f EXCEPT ![x] = test] : x \in Asleep(f, cond)}

NotifyAll(f, cond, test) ==
  [x \in DOMAIN f |-> IF f[x] = cond THEN test ELSE f[x]]

-----------------------------------------------------------------------------
(* The owner. *)

\* start(): running_ = true, with no thread yet.
Start ==
  /\ owner = "new"
  /\ owner' = "starting"
  /\ running_' = TRUE
  /\ UNCHANGED <<queue_, threads_, worker, client, arg, submitted, begun>>

\* start(): one more thread, which runs from now on.
StartThread(w) ==
  /\ owner = "starting" /\ w \notin threads_
  /\ threads_' = threads_ \cup {w}
  /\ worker' = [worker EXCEPT ![w] = "while"]
  /\ UNCHANGED <<running_, queue_, owner, client, arg, submitted, begun>>

\* start() returns.
StartReturn ==
  /\ owner = "starting" /\ threads_ = Worker
  /\ owner' = "started"
  /\ UNCHANGED <<running_, queue_, threads_, worker, client, arg, submitted, begun>>

\* stop(): under mutex_, notEmpty_.notifyAll() and running_ = false.
Stop ==
  /\ owner = "started"
  /\ owner' = "joining"
  /\ running_' = FALSE
  /\ worker' = NotifyAll(worker, "notEmpty", "take")
  /\ UNCHANGED <<queue_, threads_, client, arg, submitted, begun>>

\* stop(): every thread is joined.
Join ==
  /\ owner = "joining" /\ \A w \in threads_ : worker[w] = "exited"
  /\ owner' = "stopped"
  /\ UNCHANGED <<running_, queue_, threads_, worker, client, arg, submitted, begun>>

-----------------------------------------------------------------------------
(* run(), called by the clients. *)

\* run() of a pool without threads: the task runs in the caller.  No client
\* calls run() while start() is changing threads_, which has no lock.
RunInline(c, t) ==
  /\ client[c] = "idle" /\ threads_ = {} /\ owner # "starting" /\ NewTask(t)
  /\ submitted' = Append(submitted, t) /\ begun' = Append(begun, t)
  /\ UNCHANGED <<running_, queue_, threads_, owner, worker, client, arg>>

\* run() of a started pool; a client does not call it once stop() was called.
Run(c, t) ==
  /\ client[c] = "idle" /\ owner = "started" /\ threads_ # {} /\ NewTask(t)
  /\ client' = [client EXCEPT ![c] = "run"]
  /\ arg' = [arg EXCEPT ![c] = t]
  /\ UNCHANGED <<running_, queue_, threads_, owner, worker, submitted, begun>>

\* run(): while (isFull()) notFull_.wait().
RunWait(c) ==
  /\ client[c] = "run" /\ isFull
  /\ client' = [client EXCEPT ![c] = "notFull"]
  /\ UNCHANGED <<running_, queue_, threads_, owner, worker, arg, submitted, begun>>

\* run(): push_back() and notEmpty_.notify().
RunPush(c) ==
  /\ client[c] = "run" /\ ~isFull
  /\ queue_' = Append(queue_, arg[c]) /\ submitted' = Append(submitted, arg[c])
  /\ client' = [client EXCEPT ![c] = "idle"]
  /\ worker' \in Notify(worker, "notEmpty", "take")
  /\ UNCHANGED <<running_, threads_, owner, arg, begun>>

-----------------------------------------------------------------------------
(* runInThread() and take(), in the workers. *)

\* while (running_)
While(w) ==
  /\ worker[w] = "while"
  /\ worker' = [worker EXCEPT ![w] = IF running_ THEN "take" ELSE "exited"]
  /\ UNCHANGED <<running_, queue_, threads_, owner, client, arg, submitted, begun>>

\* take(): while (queue_.empty() && running_) notEmpty_.wait().
TakeWait(w) ==
  /\ worker[w] = "take" /\ queue_ = <<>> /\ running_
  /\ worker' = [worker EXCEPT ![w] = "notEmpty"]
  /\ UNCHANGED <<running_, queue_, threads_, owner, client, arg, submitted, begun>>

\* take() returns no task: the pool is stopping.
TakeNothing(w) ==
  /\ worker[w] = "take" /\ queue_ = <<>> /\ ~running_
  /\ worker' = [worker EXCEPT ![w] = "while"]
  /\ UNCHANGED <<running_, queue_, threads_, owner, client, arg, submitted, begun>>

\* Slip: no notFull_.notify().
TakeUnannounced(w) ==
  /\ worker[w] = "take" /\ queue_ # <<>>
  /\ queue_' = Tail(queue_) /\ begun' = Append(begun, Head(queue_))
  /\ worker' = [worker EXCEPT ![w] = "task"]
  /\ UNCHANGED <<running_, threads_, owner, client, arg, submitted>>

\* take() returns the front task, which begins to run.
Take(w) ==
  /\ worker[w] = "take" /\ queue_ # <<>>
  /\ queue_' = Tail(queue_) /\ begun' = Append(begun, Head(queue_))
  /\ worker' = [worker EXCEPT ![w] = "task"]
  /\ client' \in IF maxQueueSize_ > 0 THEN Notify(client, "notFull", "run") ELSE {client}
  /\ UNCHANGED <<running_, threads_, owner, arg, submitted>>

\* The task returns.
TaskDone(w) ==
  /\ worker[w] = "task"
  /\ worker' = [worker EXCEPT ![w] = "while"]
  /\ UNCHANGED <<running_, queue_, threads_, owner, client, arg, submitted, begun>>

\* pthread_cond_wait() returns with nobody having notified.
SpuriousWakeup ==
  \/ /\ \E w \in Asleep(worker, "notEmpty") : worker' = [worker EXCEPT ![w] = "take"]
     /\ UNCHANGED client
  \/ /\ \E c \in Asleep(client, "notFull") : client' = [client EXCEPT ![c] = "run"]
     /\ UNCHANGED worker
SpuriousStep ==
  SpuriousWakeup /\ UNCHANGED <<running_, queue_, threads_, owner, arg, submitted, begun>>

-----------------------------------------------------------------------------
WorkerStep(w) == While(w) \/ TakeWait(w) \/ TakeNothing(w) \/ Take(w) \/ TaskDone(w)
ClientStep(c) == RunWait(c) \/ RunPush(c)
OwnerStep == Start \/ StartReturn \/ (\E w \in Worker : StartThread(w)) \/ Stop \/ Join

Next ==
  \/ OwnerStep
  \/ \E w \in Worker : WorkerStep(w)
  \/ \E c \in Client : ClientStep(c) \/ \E t \in Task : Run(c, t) \/ RunInline(c, t)
  \/ SpuriousStep

\* Threads are scheduled and tasks return; nobody has to call run() or stop().
Fairness ==
  /\ \A w \in Worker : WF_vars(WorkerStep(w))
  /\ \A c \in Client : WF_vars(ClientStep(c))
  /\ WF_vars(Join)

Spec == Init /\ [][Next]_vars /\ Fairness
-----------------------------------------------------------------------------
(* Properties *)

\* The types of the members, and the bound of queue_.
TypeOK ==
  /\ running_ \in BOOLEAN /\ threads_ \subseteq Worker
  /\ queue_ \in Seq(Task) /\ submitted \in Seq(Task) /\ begun \in Seq(Task)
  /\ maxQueueSize_ > 0 => Len(queue_) <= maxQueueSize_
  /\ owner \in {"new", "starting", "started", "joining", "stopped"}
  /\ worker \in [Worker -> WorkerPc] /\ client \in [Client -> ClientPc]
  /\ arg \in [Client -> Task]

\* Tasks begin at most once and in the order in which run() accepted them,
\* those run inline before start() included (ThreadPool.cc:85, 95, 114).
BegunInOrder == submitted = begun \o queue_

\* While workers sleep in take(), every queued task has a worker awake to
\* take it, and none sleeps once running_ is false: neither run() nor stop()
\* loses a wakeup (ThreadPool.cc:60-62, 96, 106).
NoStuckWorker ==
  Asleep(worker, "notEmpty") # {} =>
    running_ /\ Len(queue_) <= Cardinality(Asleep(worker, "take"))

\* While clients sleep in run(), every free slot has a client awake to fill it
\* (ThreadPool.cc:90-93, 116-119).
NoStuckClient ==
  Asleep(client, "notFull") # {} =>
    maxQueueSize_ - Len(queue_) <= Cardinality(Asleep(client, "run"))

\* stop() returns: every worker leaves its loop, wherever stop() found it.
StopReturns == (owner = "joining") ~> (owner = "stopped")

\* run() returns, unless stop() is called while it waits.
RunReturns ==
  \A c \in Client : (client[c] # "idle") ~> (client[c] = "idle" \/ owner # "started")
=============================================================================
