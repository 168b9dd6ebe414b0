------------------------ MODULE BlockingQueuesProofs ------------------------
(***************************************************************************)
(* Proofs about BlockingQueues for any finite sets of producers and        *)
(* consumers and any capacity.  The invariant counts: as long as someone   *)
(* sleeps on a condition, there are at least as many threads awake on that *)
(* side as there are items to take, or slots to fill.  Every notify() adds *)
(* one to the side it wakes, and every item or slot is used up by a thread *)
(* that was counted.                                                       *)
(***************************************************************************)
EXTENDS BlockingQueues, FiniteSetTheorems, TLAPS

NeverFull == Capacity = Unbounded => notFull_ = {}

IndInv == TypeOK /\ NoStuckConsumer /\ NoStuckProducer /\ NeverFull

-----------------------------------------------------------------------------
(* How many of the threads of one side are awake. *)

\* A count of awake threads is a natural number.
LEMMA CountType ==
  ASSUME NEW S, NEW T, IsFiniteSet(T)
  PROVE  IsFiniteSet(S \cap T) /\ Cardinality(S \cap T) \in Nat
BY FS_Intersection, FS_CardinalityType, Zenon

\* A thread of the side wakes up.
LEMMA CountAdd ==
  ASSUME NEW S, NEW T, IsFiniteSet(T), NEW x \in T, x \notin S
  PROVE  Cardinality((S \cup {x}) \cap T) = Cardinality(S \cap T) + 1
<1>1. (S \cup {x}) \cap T = (S \cap T) \cup {x}
  OBVIOUS
<1>2. x \notin S \cap T
  OBVIOUS
<1> QED
  BY <1>1, <1>2, CountType, FS_AddElement, Zenon

\* A thread of the side leaves or falls asleep.
LEMMA CountRemove ==
  ASSUME NEW S, NEW T, IsFiniteSet(T), NEW x \in T, x \in S
  PROVE  Cardinality((S \ {x}) \cap T) = Cardinality(S \cap T) - 1
<1>1. (S \ {x}) \cap T = (S \cap T) \ {x}
  OBVIOUS
<1>2. x \in S \cap T
  OBVIOUS
<1> QED
  BY <1>1, <1>2, CountType, FS_RemoveElement, ZenonT(60)

-----------------------------------------------------------------------------
(* The steps. *)

\* The counts of the two sides, before and after a step.
LEMMA Counts ==
  /\ Cardinality(awake \cap Producer) \in Nat
  /\ Cardinality(awake \cap Consumer) \in Nat
  /\ Cardinality(awake' \cap Producer) \in Nat
  /\ Cardinality(awake' \cap Consumer) \in Nat
<1> USE QueueAssumption
<1>1. Cardinality(awake \cap Producer) \in Nat
  BY CountType
<1>2. Cardinality(awake \cap Consumer) \in Nat
  BY CountType, Zenon
<1>3. Cardinality(awake' \cap Producer) \in Nat
  BY CountType
<1>4. Cardinality(awake' \cap Consumer) \in Nat
  BY CountType
<1> QED
  BY <1>1, <1>2, <1>3, <1>4

\* One more thread awake never lowers the count of a side.
LEMMA CountGrows ==
  ASSUME NEW S, NEW T, IsFiniteSet(T), NEW x, x \notin S
  PROVE  Cardinality((S \cup {x}) \cap T) >= Cardinality(S \cap T)
<1>1. Cardinality(S \cap T) \in Nat
  BY CountType
<1>2. CASE x \in T
  <2>1. Cardinality((S \cup {x}) \cap T) = Cardinality(S \cap T) + 1
    BY <1>2, CountAdd
  <2> QED
    BY <1>1, <2>1
<1>3. CASE x \notin T
  <2>1. (S \cup {x}) \cap T = S \cap T
    BY <1>3
  <2> QED
    BY <1>1, <2>1
<1> QED
  BY <1>2, <1>3

\* A thread that calls put() or take(), or wakes up spuriously, only adds to
\* those awake.
LEMMA WakeStep ==
  ASSUME IndInv, NEW t \in Producer \cup Consumer, Enter(t) \/ SpuriousWakeup(t)
  PROVE  IndInv'
<1> USE QueueAssumption DEF IndInv, TypeOK
<1>1. /\ awake' = awake \cup {t} /\ queue_' = queue_ /\ t \notin awake
      /\ notFull_' \subseteq notFull_ /\ notEmpty_' \subseteq notEmpty_
      /\ t \notin notFull_' /\ t \notin notEmpty_'
  BY DEF Enter, SpuriousWakeup
<1>2. TypeOK' /\ NeverFull'
  BY <1>1 DEF NeverFull
<1>3. Cardinality(awake' \cap Consumer) >= Cardinality(awake \cap Consumer)
  BY <1>1, CountGrows
<1>4. Cardinality(awake' \cap Producer) >= Cardinality(awake \cap Producer)
  BY <1>1, CountGrows
<1>5. NoStuckConsumer'
  BY <1>1, <1>3, Counts DEF NoStuckConsumer
<1>6. NoStuckProducer'
  BY <1>1, <1>4, Counts DEF NoStuckProducer, NeverFull
<1> QED
  BY <1>2, <1>5, <1>6

\* A producer that finds the queue full leaves no slot unattended.
LEMMA PutWaitStep ==
  ASSUME IndInv, NEW p \in Producer, PutWait(p)
  PROVE  IndInv'
<1> USE QueueAssumption DEF IndInv, TypeOK, PutWait, full
<1>1. TypeOK' /\ NeverFull'
  BY DEF NeverFull
<1>2. awake' \cap Consumer = awake \cap Consumer
  OBVIOUS
<1>3. NoStuckConsumer'
  BY <1>2, Zenon DEF NoStuckConsumer
<1>4. NoStuckProducer'
  <2>1. Capacity - Len(queue_) <= 0
    OBVIOUS
  <2>2. Cardinality(awake' \cap Producer) \in Nat
    BY CountType, Zenon
  <2> QED
    BY <2>1, <2>2 DEF NoStuckProducer
<1> QED
  BY <1>1, <1>3, <1>4

\* A consumer that finds the queue empty leaves no item unattended.
LEMMA TakeWaitStep ==
  ASSUME IndInv, NEW c \in Consumer, TakeWait(c)
  PROVE  IndInv'
<1> USE QueueAssumption DEF IndInv, TypeOK, TakeWait
<1>1. TypeOK' /\ NeverFull'
  BY DEF NeverFull
<1>2. awake' \cap Producer = awake \cap Producer
  OBVIOUS
<1>3. NoStuckProducer'
  BY <1>2, Zenon DEF NoStuckProducer
<1>4. NoStuckConsumer'
  <2>1. Len(queue_') = 0
    OBVIOUS
  <2>2. Cardinality(awake' \cap Consumer) \in Nat
    BY CountType, Zenon
  <2> QED
    BY <2>1, <2>2 DEF NoStuckConsumer
<1> QED
  BY <1>1, <1>3, <1>4

\* put() uses up one slot and the count of the producer that fills it; the
\* item is covered by the consumer notify() wakes.
LEMMA PutStepInv ==
  ASSUME IndInv, NEW p \in Producer, NEW x \in Item, Put(p, x)
  PROVE  IndInv'
<1> USE QueueAssumption DEF IndInv, TypeOK
<1>1. PICK w \in Notify(notEmpty_) :
        notEmpty_' = notEmpty_ \ w /\ awake' = (awake \ {p}) \cup w
  BY DEF Put
<1>2. /\ p \in awake /\ ~full /\ notFull_' = notFull_
      /\ queue_' = Append(queue_, x) /\ Len(queue_') = Len(queue_) + 1
  BY DEF Put
<1>3. w \subseteq notEmpty_ /\ (notEmpty_ # {} => \E c \in notEmpty_ : w = {c})
  BY <1>1 DEF Notify
<1>4. TypeOK' /\ NeverFull'
  BY <1>1, <1>2, <1>3, SMTT(60) DEF NeverFull, full
<1>5. NoStuckProducer'
  <2>1. awake' \cap Producer = (awake \ {p}) \cap Producer
    BY <1>1, <1>3
  <2>2. Cardinality(awake' \cap Producer) = Cardinality(awake \cap Producer) - 1
    <3>1. Cardinality((awake \ {p}) \cap Producer) = Cardinality(awake \cap Producer) - 1
      BY <1>2, CountRemove, SMTT(30)
    <3> QED
      BY ONLY <2>1, <3>1
  <2>3. Len(queue_) \in Nat
    OBVIOUS
  <2> QED
    BY <1>2, <2>2, <2>3, Counts, SMTT(60) DEF NoStuckProducer, NeverFull
<1>6. NoStuckConsumer'
  <2>1. SUFFICES ASSUME notEmpty_' # {}
                 PROVE  Len(queue_') <= Cardinality(awake' \cap Consumer)
    BY DEF NoStuckConsumer
  <2>2. PICK c \in notEmpty_ : w = {c}
    BY <1>1, <1>3, <2>1
  <2>3. awake' \cap Consumer = (awake \cup {c}) \cap Consumer
    BY <1>1, <2>2
  <2>4. Cardinality(awake' \cap Consumer) = Cardinality(awake \cap Consumer) + 1
    <3>1. c \in Consumer /\ c \notin awake
      BY <2>2
    <3>2. Cardinality((awake \cup {c}) \cap Consumer) = Cardinality(awake \cap Consumer) + 1
      BY <3>1, CountAdd
    <3> QED
      BY ONLY <2>3, <3>2
  <2>6. Len(queue_) \in Nat
    OBVIOUS
  <2>5. Len(queue_) <= Cardinality(awake \cap Consumer)
    BY <2>2 DEF NoStuckConsumer
  <2> QED
    BY ONLY <1>2, <2>4, <2>5, <2>6, Counts, SMTT(30)
<1> QED
  BY <1>4, <1>5, <1>6

\* take() uses up one item and the count of the consumer that takes it; the
\* slot is covered by the producer notify() wakes.
LEMMA TakeStepInv ==
  ASSUME IndInv, NEW c \in Consumer, Take(c)
  PROVE  IndInv'
<1> USE QueueAssumption DEF IndInv, TypeOK
<1>1. PICK w \in Notify(notFull_) :
        notFull_' = notFull_ \ w /\ awake' = (awake \ {c}) \cup w
  BY DEF Take
<1>2. /\ c \in awake /\ queue_ # <<>> /\ notEmpty_' = notEmpty_
      /\ queue_' = Tail(queue_) /\ queue_' \in Seq(Item)
      /\ Len(queue_') = Len(queue_) - 1
  BY DEF Take
<1>3. w \subseteq notFull_ /\ (notFull_ # {} => \E p \in notFull_ : w = {p})
  BY <1>1, SMTT(30) DEF Notify
<1>4. TypeOK' /\ NeverFull'
  BY <1>1, <1>2, <1>3, SMTT(30) DEF NeverFull
<1>5. NoStuckConsumer'
  <2>1. awake' \cap Consumer = (awake \ {c}) \cap Consumer
    BY <1>1, <1>3
  <2>2. Cardinality(awake' \cap Consumer) = Cardinality(awake \cap Consumer) - 1
    <3>1. Cardinality((awake \ {c}) \cap Consumer) = Cardinality(awake \cap Consumer) - 1
      BY <1>2, CountRemove
    <3> QED
      BY ONLY <2>1, <3>1
  <2>3. Len(queue_) \in Nat
    OBVIOUS
  <2> QED
    BY <1>2, <2>2, <2>3, Counts, SMTT(30) DEF NoStuckConsumer
<1>6. NoStuckProducer'
  <2>1. SUFFICES ASSUME notFull_' # {}
                 PROVE  Capacity - Len(queue_') <= Cardinality(awake' \cap Producer)
    BY DEF NoStuckProducer
  <2>2. PICK p \in notFull_ : w = {p}
    BY <1>1, <1>3, <2>1
  <2>3. awake' \cap Producer = (awake \cup {p}) \cap Producer
    BY <1>1, <2>2
  <2>4. Cardinality(awake' \cap Producer) = Cardinality(awake \cap Producer) + 1
    <3>1. p \in Producer /\ p \notin awake
      BY <2>2
    <3>2. Cardinality((awake \cup {p}) \cap Producer) = Cardinality(awake \cap Producer) + 1
      BY <3>1, CountAdd
    <3> QED
      BY ONLY <2>3, <3>2
  <2>6. Len(queue_) \in Nat
    OBVIOUS
  <2>5. Capacity \in Nat /\ Capacity - Len(queue_) <= Cardinality(awake \cap Producer)
    BY <2>2 DEF NoStuckProducer, NeverFull
  <2> QED
    BY ONLY <1>2, <2>4, <2>5, <2>6, Counts, SMTT(30)
<1> QED
  BY <1>4, <1>5, <1>6, SMTT(30)

-----------------------------------------------------------------------------
\* The inductive invariant holds throughout.
LEMMA Inductive == Spec => []IndInv
<1>1. Init => IndInv
  BY QueueAssumption DEF Init, IndInv, TypeOK, NoStuckConsumer, NoStuckProducer,
     NeverFull
<1>2. IndInv /\ [Next]_vars => IndInv'
  <2>1. SUFFICES ASSUME IndInv, [Next]_vars PROVE IndInv'
    OBVIOUS
  <2>2. CASE \E p \in Producer : PutStep(p)
    BY <2>1, <2>2, PutWaitStep, PutStepInv DEF PutStep
  <2>3. CASE \E c \in Consumer : TakeStep(c)
    BY <2>1, <2>3, TakeWaitStep, TakeStepInv, SMTT(60) DEF TakeStep
  <2>4. CASE \E t \in Producer \cup Consumer : Enter(t) \/ SpuriousWakeup(t)
    BY <2>1, <2>4, WakeStep
  <2>5. CASE UNCHANGED vars
    BY <2>1, <2>5 DEF vars, IndInv, TypeOK, NoStuckConsumer, NoStuckProducer,
       NeverFull
  <2> QED
    BY <2>1, <2>2, <2>3, <2>4, <2>5 DEF Next
<1> QED
  BY <1>1, <1>2, PTL DEF Spec

\* The queue never exceeds its capacity, for any threads and capacity.
THEOREM TypeCorrect == Spec => []TypeOK
<1>1. IndInv => TypeOK
  BY DEF IndInv
<1> QED
  BY <1>1, Inductive, PTL

\* put() loses no wakeup: one notify() per item is enough
\* (BoundedBlockingQueue.h:39, BlockingQueue.h:28).
THEOREM ConsumersNeverStuck == Spec => []NoStuckConsumer
<1>1. IndInv => NoStuckConsumer
  BY DEF IndInv
<1> QED
  BY <1>1, Inductive, PTL

\* take() loses no wakeup: one notify() per slot is enough
\* (BoundedBlockingQueue.h:65).
THEOREM ProducersNeverStuck == Spec => []NoStuckProducer
<1>1. IndInv => NoStuckProducer
  BY DEF IndInv
<1> QED
  BY <1>1, Inductive, PTL

\* Producers and consumers never all sleep at the same time.
THEOREM SomeoneAwake == Spec => []NotAllAsleep
<1>1. IndInv => NotAllAsleep
  <2>1. SUFFICES ASSUME IndInv, notFull_ # {}, notEmpty_ # {}, awake = {}
                 PROVE  FALSE
    BY DEF NotAllAsleep
  <2>2. awake \cap Producer = {} /\ awake \cap Consumer = {}
    BY <2>1
  <2>3. Cardinality({}) = 0
    BY FS_EmptySet
  <2>4. Len(queue_) \in Nat /\ Len(queue_) <= 0
    BY <2>1, <2>2, <2>3 DEF IndInv, TypeOK, NoStuckConsumer
  <2>5. Capacity \in Nat \ {0} /\ Capacity - Len(queue_) <= 0
    BY <2>1, <2>2, <2>3, QueueAssumption DEF IndInv, NoStuckProducer, NeverFull
  <2> QED
    BY <2>4, <2>5
<1> QED
  BY <1>1, Inductive, PTL
=============================================================================
