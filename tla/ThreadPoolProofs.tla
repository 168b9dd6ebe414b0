-------------------------- MODULE ThreadPoolProofs --------------------------
(***************************************************************************)
(* Proofs about ThreadPool for any finite sets of workers and clients, any *)
(* number of tasks and any bound of the queue, none included.  As for the  *)
(* queues, the invariants count who is awake; besides, stop() leaves       *)
(* nobody asleep, and threads_ is empty as long as run() has queued        *)
(* nothing.                                                                *)
(***************************************************************************)
EXTENDS ThreadPool, FiniteSetTheorems, TLAPS

PoolRight == IsFiniteSet(Worker) /\ IsFiniteSet(Client) /\ maxQueueSize_ \in Nat

\* What the tasks, which are numbers, are drawn from.
Number == Int

Types ==
  /\ running_ \in BOOLEAN
  /\ queue_ \in Seq(Number) /\ submitted \in Seq(Number) /\ begun \in Seq(Number)
  /\ worker \in [Worker -> WorkerPc] /\ client \in [Client -> ClientPc]
  /\ arg \in [Client -> Number]

\* A worker that start() has not made yet does nothing, and a client that is in
\* run() beyond the test of threads_, or a queued task, found that not empty.
Started ==
  /\ \A w \in Worker : w \notin threads_ => worker[w] = "none"
  /\ (\E c \in Client : client[c] # "idle") \/ queue_ # <<>> => threads_ # {}

Inv == Types /\ Started /\ BegunInOrder /\ NoStuckWorker /\ NoStuckClient

-----------------------------------------------------------------------------
(* How many are at one place. *)

\* The finite set S is where x comes to, leaves, or neither.
LEMMA CountAdd ==
  ASSUME NEW S, NEW T, NEW x, IsFiniteSet(S), x \notin S, T = S \cup {x}
  PROVE  Cardinality(T) = Cardinality(S) + 1
  BY FS_AddElement

LEMMA CountRemove ==
  ASSUME NEW S, NEW T, NEW x, IsFiniteSet(S), x \in S, T = S \ {x}
  PROVE  Cardinality(T) = Cardinality(S) - 1
  BY FS_RemoveElement

\* The workers at any place are finitely many.
LEMMA WorkersFinite ==
  ASSUME PoolRight, Types
  PROVE  /\ DOMAIN worker = Worker
         /\ \A v : IsFiniteSet(Asleep(worker, v)) /\ Cardinality(Asleep(worker, v)) \in Nat
<1>1. DOMAIN worker = Worker /\ IsFiniteSet(Worker)
  BY DEF Types, PoolRight
<1>2. ASSUME NEW v PROVE IsFiniteSet(Asleep(worker, v))
  <2>1. Asleep(worker, v) \subseteq Worker
    BY <1>1 DEF Asleep
  <2> QED BY <1>1, <2>1, FS_Subset
<1> QED BY <1>1, <1>2, FS_CardinalityType

\* A worker comes to a place.
LEMMA WorkerComes ==
  ASSUME PoolRight, Types, NEW x \in Worker, NEW v, worker[x] # v, worker' = [worker EXCEPT ![x] = v]
  PROVE  Cardinality(Asleep(worker', v)) = Cardinality(Asleep(worker, v)) + 1
<1>1. Asleep(worker', v) = Asleep(worker, v) \cup {x} /\ x \notin Asleep(worker, v)
  BY WorkersFinite DEF Asleep
<1> QED BY <1>1, WorkersFinite, CountAdd, Zenon

\* A worker leaves a place.
LEMMA WorkerLeaves ==
  ASSUME PoolRight, Types, NEW x \in Worker, NEW v, NEW u, worker[x] = v, u # v,
         worker' = [worker EXCEPT ![x] = u]
  PROVE  Cardinality(Asleep(worker', v)) = Cardinality(Asleep(worker, v)) - 1
<1>1. Asleep(worker', v) = Asleep(worker, v) \ {x} /\ x \in Asleep(worker, v)
  BY WorkersFinite DEF Asleep
<1> QED BY <1>1, WorkersFinite, CountRemove, Zenon

\* The clients at any place are finitely many.
LEMMA ClientsFinite ==
  ASSUME PoolRight, Types
  PROVE  /\ DOMAIN client = Client
         /\ \A v : IsFiniteSet(Asleep(client, v)) /\ Cardinality(Asleep(client, v)) \in Nat
<1>1. DOMAIN client = Client /\ IsFiniteSet(Client)
  BY SMTT(30) DEF Types, PoolRight
<1>2. ASSUME NEW v PROVE IsFiniteSet(Asleep(client, v))
  <2>1. Asleep(client, v) \subseteq Client
    BY <1>1 DEF Asleep
  <2> QED BY <1>1, <2>1, FS_Subset
<1> QED BY <1>1, <1>2, FS_CardinalityType

\* A client comes to a place.
LEMMA ClientComes ==
  ASSUME PoolRight, Types, NEW x \in Client, NEW v, client[x] # v, client' = [client EXCEPT ![x] = v]
  PROVE  Cardinality(Asleep(client', v)) = Cardinality(Asleep(client, v)) + 1
<1>1. Asleep(client', v) = Asleep(client, v) \cup {x} /\ x \notin Asleep(client, v)
  BY ClientsFinite DEF Asleep
<1> QED BY <1>1, ClientsFinite, CountAdd, Zenon

\* A client leaves a place.
LEMMA ClientLeaves ==
  ASSUME PoolRight, Types, NEW x \in Client, NEW v, NEW u, client[x] = v, u # v,
         client' = [client EXCEPT ![x] = u]
  PROVE  Cardinality(Asleep(client', v)) = Cardinality(Asleep(client, v)) - 1
<1>1. Asleep(client', v) = Asleep(client, v) \ {x} /\ x \in Asleep(client, v)
  BY ClientsFinite DEF Asleep
<1> QED BY <1>1, ClientsFinite, CountRemove, Zenon

\* A notification wakes one sleeper, if there is one.
LEMMA NotifyWakes ==
  ASSUME NEW f, NEW g, NEW cond, NEW test, g \in Notify(f, cond, test)
  PROVE  \/ Asleep(f, cond) = {} /\ g = f
         \/ \E x \in DOMAIN f : f[x] = cond /\ g = [f EXCEPT ![x] = test]
  BY DEF Notify, Asleep

LEMMA TakeNotifies ==
  ASSUME NEW w, Take(w)
  PROVE  \/ client' = client /\ (maxQueueSize_ > 0 => Asleep(client, "notFull") = {})
         \/ \E x \in DOMAIN client : client[x] = "notFull" /\ client' = [client EXCEPT ![x] = "run"]
<1>1. CASE maxQueueSize_ > 0
  <2>1. client' \in Notify(client, "notFull", "run")
    BY <1>1 DEF Take
  <2> QED BY <2>1, NotifyWakes
<1>2. CASE ~(maxQueueSize_ > 0)
  BY <1>2 DEF Take
<1> QED BY <1>1, <1>2

LEMMA PushNotifies ==
  ASSUME NEW c, RunPush(c)
  PROVE  \/ worker' = worker /\ Asleep(worker, "notEmpty") = {}
         \/ \E x \in DOMAIN worker : worker[x] = "notEmpty" /\ worker' = [worker EXCEPT ![x] = "take"]
<1>1. worker' \in Notify(worker, "notEmpty", "take")
  BY DEF RunPush
<1> QED BY <1>1, NotifyWakes

-----------------------------------------------------------------------------
(* Types, and what was started *)

LEMMA TypesStep ==
  ASSUME Types, [Next]_vars
  PROVE  Types'
<1> USE DEF Types, WorkerPc, ClientPc
<1>1. CASE OwnerStep
  <2>1. CASE Stop
    BY <2>1, Zenon DEF Stop, NotifyAll
  <2>2. CASE Start \/ StartReturn \/ (\E w \in Worker : StartThread(w)) \/ Join
    BY <2>2, Zenon DEF Start, StartReturn, StartThread, Join
  <2> QED BY <1>1, <2>1, <2>2 DEF OwnerStep
<1>2. ASSUME NEW w \in Worker, WorkerStep(w) PROVE Types'
  <2>1. CASE Take(w)
    <3>1. Head(queue_) \in Number /\ Tail(queue_) \in Seq(Number)
      BY <2>1 DEF Take
    <3>2. client' \in [Client -> ClientPc]
      BY <2>1, TakeNotifies
    <3> QED BY <2>1, <3>1, <3>2 DEF Take
  <2>2. CASE While(w) \/ TakeWait(w) \/ TakeNothing(w) \/ TaskDone(w)
    BY <2>2 DEF While, TakeWait, TakeNothing, TaskDone
  <2> QED BY <1>2, <2>1, <2>2 DEF WorkerStep
<1>3. ASSUME NEW c \in Client, ClientStep(c) \/ \E t \in Task : Run(c, t) \/ RunInline(c, t)
      PROVE  Types'
  <2>1. CASE RunPush(c)
    <3>1. worker' \in [Worker -> WorkerPc]
      BY <2>1, PushNotifies, SMTT(30)
    <3> QED BY <2>1, <3>1 DEF RunPush
  <2>2. CASE RunWait(c)
    BY <2>2 DEF RunWait
  <2>3. ASSUME NEW t \in Task, Run(c, t) \/ RunInline(c, t) PROVE Types'
    <3>1. t \in Number
      BY DEF Task, Number
    <3>2. CASE Run(c, t)
      BY <3>1, <3>2 DEF Run
    <3>3. CASE RunInline(c, t)
      BY <3>1, <3>3 DEF RunInline
    <3> QED BY <2>3, <3>2, <3>3
  <2> QED BY <1>3, <2>1, <2>2, <2>3 DEF ClientStep
<1>4. CASE SpuriousStep
  BY <1>4, Zenon DEF SpuriousStep, SpuriousWakeup, Asleep
<1>5. CASE UNCHANGED vars
  BY <1>5 DEF vars
<1> QED BY <1>1, <1>2, <1>3, <1>4, <1>5 DEF Next

LEMMA StartedStep ==
  ASSUME Types, Started, [Next]_vars
  PROVE  Started'
<1> USE DEF Types, Started
<1>1. CASE OwnerStep
  <2>1. CASE Stop
    BY <2>1 DEF Stop, NotifyAll
  <2>2. CASE Start \/ StartReturn \/ (\E w \in Worker : StartThread(w)) \/ Join
    BY <2>2 DEF Start, StartReturn, StartThread, Join
  <2> QED BY <1>1, <2>1, <2>2 DEF OwnerStep
<1>2. ASSUME NEW w \in Worker, WorkerStep(w) PROVE Started'
  <2>1. CASE Take(w)
    <3>1. threads_ # {} /\ threads_' = threads_
      BY <2>1 DEF Take
    <3> QED BY <2>1, <3>1 DEF Take
  <2>2. CASE While(w) \/ TakeWait(w) \/ TakeNothing(w) \/ TaskDone(w)
    BY <2>2 DEF While, TakeWait, TakeNothing, TaskDone
  <2> QED BY <1>2, <2>1, <2>2 DEF WorkerStep
<1>3. ASSUME NEW c \in Client, ClientStep(c) \/ \E t \in Task : Run(c, t) \/ RunInline(c, t)
      PROVE  Started'
  <2>1. CASE RunPush(c)
    <3>1. threads_ # {} /\ threads_' = threads_
      BY <2>1 DEF RunPush
    <3>2. \A w \in Worker : worker[w] = "none" => worker'[w] = "none"
      BY <2>1, PushNotifies
    <3> QED BY <3>1, <3>2
  <2>2. CASE RunWait(c)
    BY <2>2 DEF RunWait
  <2>3. ASSUME NEW t \in Task, Run(c, t) \/ RunInline(c, t) PROVE Started'
    BY <2>3 DEF Run, RunInline
  <2> QED BY <1>3, <2>1, <2>2, <2>3 DEF ClientStep
<1>4. CASE SpuriousStep
  BY <1>4 DEF SpuriousStep, SpuriousWakeup, Asleep
<1>5. CASE UNCHANGED vars
  BY <1>5 DEF vars
<1> QED BY <1>1, <1>2, <1>3, <1>4, <1>5, SMTT(30) DEF Next

-----------------------------------------------------------------------------
(* The order of the tasks *)

\* A push at the end of the queue is a push at the end of the whole.
LEMMA AppendLast ==
  ASSUME NEW b \in Seq(Number), NEW q \in Seq(Number), NEW a \in Number
  PROVE  b \o Append(q, a) = Append(b \o q, a)
  BY SMTT(60)

LEMMA OrderStep ==
  ASSUME Types, Started, BegunInOrder, [Next]_vars
  PROVE  BegunInOrder'
<1> USE DEF Types, BegunInOrder
<1>1. ASSUME NEW w \in Worker, Take(w) PROVE BegunInOrder'
  <2>1. queue_ = <<Head(queue_)>> \o Tail(queue_) /\ Head(queue_) \in Number /\ Tail(queue_) \in Seq(Number)
    BY <1>1 DEF Take
  <2> QED BY <1>1, <2>1, SMTT(30) DEF Take
<1>2. ASSUME NEW c \in Client, RunPush(c) PROVE BegunInOrder'
  <2>1. arg[c] \in Number
    OBVIOUS
  <2>2. /\ queue_' = Append(queue_, arg[c]) /\ begun' = begun
        /\ submitted' = Append(begun \o queue_, arg[c])
    BY <1>2 DEF RunPush
  <2>3. begun \o Append(queue_, arg[c]) = Append(begun \o queue_, arg[c])
    <3>1. begun \in Seq(Number) /\ queue_ \in Seq(Number)
      OBVIOUS
    <3> QED BY ONLY <2>1, <3>1, AppendLast, ZenonT(60)
  <2> QED BY ONLY <2>2, <2>3, Zenon DEF BegunInOrder
<1>3. ASSUME NEW c \in Client, NEW t \in Task, RunInline(c, t) PROVE BegunInOrder'
  <2>1. queue_ = <<>> /\ t \in Number
    BY <1>3 DEF RunInline, Started, Task, Number
  <2> QED BY <1>3, <2>1 DEF RunInline
<1>4. CASE UNCHANGED <<submitted, begun, queue_>>
  BY <1>4, SMTT(30)
<1> QED
  BY <1>1, <1>2, <1>3, <1>4, SMTT(30)
  DEF Next, OwnerStep, WorkerStep, ClientStep, SpuriousStep, Start, StartReturn, StartThread, Stop,
      Join, While, TakeWait, TakeNothing, TaskDone, Run, RunWait, vars

-----------------------------------------------------------------------------
(* Nobody is stuck *)

LEMMA WorkerNotStuck ==
  ASSUME PoolRight, Types, Started, NoStuckWorker, [Next]_vars
  PROVE  NoStuckWorker'
<1> DEFINE sleeping == Asleep(worker, "notEmpty")
           awake == Cardinality(Asleep(worker, "take"))
<1>1. /\ worker \in [Worker -> WorkerPc] /\ IsFiniteSet(Worker) /\ DOMAIN worker = Worker
      /\ Len(queue_) \in Nat /\ awake \in Nat /\ queue_ \in Seq(Number)
  BY WorkersFinite DEF Types, PoolRight
<1>2. CASE worker' = worker /\ queue_' = queue_ /\ running_' \in {running_, TRUE}
  BY <1>2, Zenon DEF NoStuckWorker
<1>3. ASSUME NEW w \in Worker, StartThread(w) PROVE NoStuckWorker'
  <2>1. worker[w] = "none" /\ worker' = [worker EXCEPT ![w] = "while"]
    BY <1>3 DEF StartThread, Started
  <2>2. Asleep(worker', "notEmpty") = sleeping /\ Asleep(worker', "take") = Asleep(worker, "take")
    BY <1>1, <2>1 DEF Asleep
  <2> QED BY <1>3, <2>2, Zenon DEF StartThread, NoStuckWorker
<1>4. CASE Stop
  BY <1>4 DEF Stop, NotifyAll, Asleep, NoStuckWorker
<1>5. ASSUME NEW w \in Worker, While(w) PROVE NoStuckWorker'
  <2>1. CASE running_
    <3>1. worker[w] = "while" /\ worker' = [worker EXCEPT ![w] = "take"]
      BY <1>5, <2>1 DEF While
    <3>2. Asleep(worker', "notEmpty") = sleeping
      BY <1>1, <3>1 DEF Asleep
    <3>3. Cardinality(Asleep(worker', "take")) = awake + 1
      BY <1>1, <3>1, WorkerComes, Zenon
    <3>4. sleeping # {} => Len(queue_) <= Cardinality(Asleep(worker', "take"))
      BY <1>1, <3>3 DEF NoStuckWorker
    <3>5. running_' /\ queue_' = queue_
      BY <1>5, <2>1 DEF While
    <3> QED BY <3>2, <3>4, <3>5, Zenon DEF NoStuckWorker
  <2>2. CASE ~running_
    <3>1. worker[w] = "while" /\ worker' = [worker EXCEPT ![w] = "exited"] /\ sleeping = {}
      BY <1>5, <2>2 DEF While, NoStuckWorker
    <3>2. Asleep(worker', "notEmpty") = sleeping
      BY <1>1, <3>1 DEF Asleep
    <3> QED BY <3>1, <3>2, Zenon DEF NoStuckWorker
  <2> QED BY <2>1, <2>2
<1>6. ASSUME NEW w \in Worker, TakeWait(w) PROVE NoStuckWorker'
  <2>1. worker' \in [Worker -> WorkerPc] /\ running_' /\ queue_' = <<>>
    BY <1>1, <1>6 DEF TakeWait, WorkerPc
  <2>2. Cardinality(Asleep(worker', "take")) \in Nat
    BY <1>1, <2>1, FS_Subset, FS_CardinalityType DEF Asleep
  <2> QED BY <2>1, <2>2 DEF NoStuckWorker
<1>7. ASSUME NEW w \in Worker, TakeNothing(w) PROVE NoStuckWorker'
  <2>1. worker[w] = "take" /\ worker' = [worker EXCEPT ![w] = "while"] /\ sleeping = {}
    BY <1>7 DEF TakeNothing, NoStuckWorker
  <2>2. Asleep(worker', "notEmpty") = sleeping
    BY <1>1, <2>1 DEF Asleep
  <2> QED BY <2>1, <2>2, Zenon DEF NoStuckWorker
<1>8. ASSUME NEW w \in Worker, Take(w) PROVE NoStuckWorker'
  <2>1. worker[w] = "take" /\ worker' = [worker EXCEPT ![w] = "task"] /\ running_' = running_
    BY <1>8 DEF Take
  <2>2. Len(queue_') = Len(queue_) - 1
    BY <1>1, <1>8 DEF Take
  <2>3. Asleep(worker', "notEmpty") = sleeping
    BY <1>1, <2>1 DEF Asleep
  <2>4. Cardinality(Asleep(worker', "take")) = awake - 1
    BY <2>1, WorkerLeaves, Zenon
  <2>5. sleeping # {} => running_ /\ Len(queue_') <= Cardinality(Asleep(worker', "take"))
    BY <1>1, <2>2, <2>4 DEF NoStuckWorker
  <2> QED BY <2>1, <2>3, <2>5, Zenon DEF NoStuckWorker
<1>9. ASSUME NEW w \in Worker, TaskDone(w) PROVE NoStuckWorker'
  <2>1. worker[w] = "task" /\ worker' = [worker EXCEPT ![w] = "while"]
    BY <1>9 DEF TaskDone
  <2>2. Asleep(worker', "notEmpty") = sleeping /\ Asleep(worker', "take") = Asleep(worker, "take")
    BY <1>1, <2>1 DEF Asleep
  <2> QED BY <1>9, <2>2, Zenon DEF TaskDone, NoStuckWorker
<1>10. ASSUME NEW x \in Worker, worker[x] = "notEmpty", worker' = [worker EXCEPT ![x] = "take"],
              running_' = running_, Len(queue_') <= Len(queue_) + 1, Len(queue_') \in Nat
       PROVE  NoStuckWorker'
  <2>1. Cardinality(Asleep(worker', "take")) = awake + 1
    BY <1>1, <1>10, WorkerComes, Zenon
  <2>2. sleeping # {}
    BY <1>1, <1>10 DEF Asleep
  <2> QED BY <1>1, <1>10, <2>1, <2>2 DEF NoStuckWorker
<1>11. ASSUME NEW c \in Client, RunPush(c) PROVE NoStuckWorker'
  <2>1. Len(queue_') = Len(queue_) + 1 /\ running_' = running_
    BY <1>1, <1>11 DEF RunPush
  <2>2. CASE worker' = worker /\ sleeping = {}
    BY <2>2 DEF NoStuckWorker
  <2> QED BY <1>1, <1>10, <1>11, <2>1, <2>2, PushNotifies
<1>12. CASE SpuriousStep
  <2>1. running_' = running_ /\ queue_' = queue_
    BY <1>12 DEF SpuriousStep
  <2>2. \/ worker' = worker
        \/ \E x \in Worker : worker[x] = "notEmpty" /\ worker' = [worker EXCEPT ![x] = "take"]
    BY <1>1, <1>12, SMTT(30) DEF SpuriousStep, SpuriousWakeup, Asleep
  <2> QED BY <1>1, <1>2, <1>10, <2>1, <2>2, SMTT(30)
<1> QED
  BY <1>2, <1>3, <1>4, <1>5, <1>6, <1>7, <1>8, <1>9, <1>11, <1>12, Zenon
  DEF Next, OwnerStep, WorkerStep, ClientStep, Start, StartReturn, Join, Run, RunInline, RunWait, vars

LEMMA ClientNotStuck ==
  ASSUME PoolRight, Types, NoStuckClient, [Next]_vars
  PROVE  NoStuckClient'
<1> DEFINE sleeping == Asleep(client, "notFull")
           awake == Cardinality(Asleep(client, "run"))
<1>1. /\ client \in [Client -> ClientPc] /\ IsFiniteSet(Client) /\ DOMAIN client = Client
      /\ Len(queue_) \in Nat /\ awake \in Nat /\ queue_ \in Seq(Number) /\ maxQueueSize_ \in Nat
  BY ClientsFinite DEF Types, PoolRight
<1>2. CASE client' = client /\ queue_' = queue_
  BY <1>2 DEF NoStuckClient
<1>3. ASSUME NEW c \in Client, NEW t \in Task, Run(c, t) PROVE NoStuckClient'
  <2>1. client[c] = "idle" /\ client' = [client EXCEPT ![c] = "run"] /\ queue_' = queue_
    BY <1>3 DEF Run
  <2>2. Asleep(client', "notFull") = sleeping
    BY <1>1, <2>1 DEF Asleep
  <2>3. Cardinality(Asleep(client', "run")) = awake + 1
    BY <2>1, ClientComes, Zenon
  <2>4. sleeping # {} => maxQueueSize_ - Len(queue_) <= Cardinality(Asleep(client', "run"))
    BY <1>1, <2>3 DEF NoStuckClient
  <2> QED BY <2>1, <2>2, <2>4, Zenon DEF NoStuckClient
<1>4. ASSUME NEW c \in Client, RunWait(c) PROVE NoStuckClient'
  <2>1. client' \in [Client -> ClientPc] /\ queue_' = queue_ /\ maxQueueSize_ - Len(queue_) <= 0
    BY <1>1, <1>4 DEF RunWait, isFull, ClientPc
  <2>2. Cardinality(Asleep(client', "run")) \in Nat
    BY <1>1, <2>1, FS_Subset, FS_CardinalityType DEF Asleep
  <2> QED BY <1>1, <2>1, <2>2 DEF NoStuckClient
<1>5. ASSUME NEW c \in Client, RunPush(c) PROVE NoStuckClient'
  <2>1. client[c] = "run" /\ client' = [client EXCEPT ![c] = "idle"]
    BY <1>5 DEF RunPush
  <2>2. Len(queue_') = Len(queue_) + 1
    BY <1>1, <1>5 DEF RunPush
  <2>3. Asleep(client', "notFull") = sleeping
    BY <1>1, <2>1 DEF Asleep
  <2>4. Cardinality(Asleep(client', "run")) = awake - 1
    BY <2>1, ClientLeaves, Zenon
  <2>5. sleeping # {} => maxQueueSize_ - Len(queue_') <= Cardinality(Asleep(client', "run"))
    BY <1>1, <2>2, <2>4 DEF NoStuckClient
  <2> QED BY <2>3, <2>5, Zenon DEF NoStuckClient
<1>6. ASSUME NEW x \in Client, client[x] = "notFull", client' = [client EXCEPT ![x] = "run"],
             Len(queue_) <= Len(queue_') + 1, Len(queue_') \in Nat
      PROVE  NoStuckClient'
  <2>1. Cardinality(Asleep(client', "run")) = awake + 1
    BY <1>6, ClientComes, Zenon
  <2>2. sleeping # {}
    BY <1>1, <1>6 DEF Asleep
  <2>3. maxQueueSize_ - Len(queue_') <= Cardinality(Asleep(client', "run"))
    BY <1>1, <1>6, <2>1, <2>2 DEF NoStuckClient
  <2> QED BY <2>3, Zenon DEF NoStuckClient
<1>7. ASSUME NEW w \in Worker, Take(w) PROVE NoStuckClient'
  <2>1. Len(queue_') = Len(queue_) - 1 /\ Len(queue_') \in Nat
    BY <1>1, <1>7 DEF Take
  <2>2. CASE client' = client /\ sleeping = {}
    BY <2>2 DEF NoStuckClient
  <2>3. CASE client' = client /\ ~(maxQueueSize_ > 0)
    <3>1. maxQueueSize_ - Len(queue_') <= Cardinality(Asleep(client', "run"))
      BY <1>1, <2>1, <2>3
    <3> QED BY <3>1, Zenon DEF NoStuckClient
  <2> QED BY <1>1, <1>6, <1>7, <2>1, <2>2, <2>3, TakeNotifies
<1>8. CASE SpuriousStep
  <2>1. queue_' = queue_
    BY <1>8 DEF SpuriousStep
  <2>2. \/ client' = client
        \/ \E x \in Client : client[x] = "notFull" /\ client' = [client EXCEPT ![x] = "run"]
    BY <1>1, <1>8 DEF SpuriousStep, SpuriousWakeup, Asleep
  <2> QED BY <1>1, <1>2, <1>6, <2>1, <2>2, SMTT(30)
<1> QED
  BY <1>2, <1>3, <1>4, <1>5, <1>7, <1>8, SMTT(30)
  DEF Next, OwnerStep, WorkerStep, ClientStep, Start, StartReturn, StartThread, Stop, Join, While,
      TakeWait, TakeNothing, TaskDone, RunInline, vars

-----------------------------------------------------------------------------
(* The theorems *)

LEMMA InitInv ==
  ASSUME PoolRight, Init
  PROVE  Inv
<1>1. Types
  <2>1. queue_ \in Seq(Number) /\ submitted \in Seq(Number) /\ begun \in Seq(Number)
    BY DEF Init
  <2>2. worker \in [Worker -> WorkerPc] /\ client \in [Client -> ClientPc]
    BY DEF Init, WorkerPc, ClientPc
  <2>3. 1 \in Number /\ arg = [c \in Client |-> 1] /\ running_ = FALSE
    BY DEF Init, Number
  <2> QED BY <2>1, <2>2, <2>3, Zenon DEF Types
<1>2. Started
  BY DEF Init, Started
<1>3. BegunInOrder
  BY DEF Init, BegunInOrder
<1>4. Asleep(worker, "notEmpty") = {} /\ Asleep(client, "notFull") = {}
  BY DEF Init, Asleep
<1> QED BY <1>1, <1>2, <1>3, <1>4 DEF Inv, NoStuckWorker, NoStuckClient

LEMMA NextInv ==
  ASSUME PoolRight, Inv, [Next]_vars
  PROVE  Inv'
  BY TypesStep, StartedStep, OrderStep, WorkerNotStuck, ClientNotStuck DEF Inv

\* The invariant holds as long as the pool is used.
LEMMA AlwaysInv ==
  ASSUME PoolRight
  PROVE  Spec => []Inv
<1>1. Init => Inv
  BY InitInv
<1>2. Inv /\ [Next]_vars => Inv'
  BY NextInv
<1> QED BY <1>1, <1>2, PTL DEF Spec

\* However many threads and callers there are and whatever setMaxQueueSize()
\* said, no queued task is left behind while workers sleep in take(), and none
\* sleeps after stop() (ThreadPool.cc:60-62, 96, 106).
THEOREM WorkersNeverStuck ==
  ASSUME PoolRight
  PROVE  Spec => []NoStuckWorker
<1>1. Inv => NoStuckWorker
  BY DEF Inv
<1> QED BY <1>1, AlwaysInv, PTL

\* No caller of run() is left asleep with free slots in queue_ that nobody is
\* awake to fill (ThreadPool.cc:90-93, 116-119).
THEOREM ClientsNeverStuck ==
  ASSUME PoolRight
  PROVE  Spec => []NoStuckClient
<1>1. Inv => NoStuckClient
  BY DEF Inv
<1> QED BY <1>1, AlwaysInv, PTL

\* Tasks begin at most once, in the order in which run() accepted them, for
\* any number of workers (ThreadPool.cc:85, 95, 114).
THEOREM TasksInOrder ==
  ASSUME PoolRight
  PROVE  Spec => []BegunInOrder
<1>1. Inv => BegunInOrder
  BY DEF Inv
<1> QED BY <1>1, AlwaysInv, PTL
=============================================================================
