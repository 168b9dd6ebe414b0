---------------------------- MODULE AsyncLogging ----------------------------
(***************************************************************************)
(* muduo/base/AsyncLogging.cc: front-end threads append log lines to       *)
(* buffers, a back-end thread swaps the buffers out and writes them.       *)
(*                                                                         *)
(* Lines are numbered in the order in which append() locks mutex_; a line  *)
(* has length 1, and a buffer is the sequence of the lines in it.  A       *)
(* critical section of mutex_ is one step, and so is the part of a round   *)
(* of threadFunc() that only touches the thread's own variables.  The two  *)
(* front-end buffers and the two spares of the thread circulate: NULL is   *)
(* a unique_ptr that was moved from.                                       *)
(***************************************************************************)
EXTENDS Integers, Sequences, SequencesExt

CONSTANTS MaxLines,     \* bound of the model: lines appended
          BufferSize,   \* kLargeBuffer
          MaxBuffers,   \* a round with more buffers than this drops some (25)
          NULL

VARIABLES
  running_,
  currentBuffer_, nextBuffer_, buffers_,     \* shared, under mutex_
  newBuffer1, newBuffer2, buffersToWrite,    \* of threadFunc()
  output,      \* the lines written to the LogFile
  opc,         \* the owner: "new", "latch", "started", "notify", "join", "stopped"
  tpc,         \* the thread: "none", "begin", "while", "lock", "wait", "swap",
               \* "write", "exited"
  latch_,
  appended, dropped   \* history: number of lines appended; lines of dropped buffers

shared == <<currentBuffer_, nextBuffer_, buffers_>>
local == <<newBuffer1, newBuffer2, buffersToWrite, output, dropped>>
vars == <<running_, shared, local, opc, tpc, latch_, appended>>

Init ==
  /\ running_ = FALSE
  /\ currentBuffer_ = <<>> /\ nextBuffer_ = <<>> /\ buffers_ = <<>>
  /\ newBuffer1 = NULL /\ newBuffer2 = NULL /\ buffersToWrite = <<>>
  /\ output = <<>> /\ opc = "new" /\ tpc = "none" /\ latch_ = 1
  /\ appended = 0 /\ dropped = {}

-----------------------------------------------------------------------------
(* The owner. *)

\* start(): running_ = true; thread_.start().
Start ==
  /\ opc = "new"
  /\ opc' = "latch" /\ running_' = TRUE /\ tpc' = "begin"
  /\ UNCHANGED <<shared, local, latch_, appended>>

\* start(): latch_.wait().
StartReturn ==
  /\ opc = "latch" /\ latch_ = 0
  /\ opc' = "started"
  /\ UNCHANGED <<running_, shared, local, tpc, latch_, appended>>

\* stop(): running_ = false, with no lock held.
Stop ==
  /\ opc = "started"
  /\ opc' = "notify" /\ running_' = FALSE
  /\ UNCHANGED <<shared, local, tpc, latch_, appended>>

\* Condition::notify(): only a thread that is already waiting hears it.
Notified == IF tpc = "wait" THEN "swap" ELSE tpc

\* stop(): cond_.notify(), with no lock held.
StopNotify ==
  /\ opc = "notify"
  /\ opc' = "join" /\ tpc' = Notified
  /\ UNCHANGED <<running_, shared, local, latch_, appended>>

\* stop(): thread_.join().
StopJoin ==
  /\ opc = "join" /\ tpc = "exited"
  /\ opc' = "stopped"
  /\ UNCHANGED <<running_, shared, local, tpc, latch_, appended>>

-----------------------------------------------------------------------------
(* append(), in any thread, at any time. *)

Fits(buffer) == BufferSize - Len(buffer) > 1

\* The line does not fit: the full buffer goes to buffers_, the spare (or, if
\* that is gone, a new one) takes its place, cond_.notify().
AppendFull(l) ==
  /\ ~Fits(currentBuffer_)
  /\ buffers_' = Append(buffers_, currentBuffer_)
  /\ currentBuffer_' = (IF nextBuffer_ # NULL THEN nextBuffer_ ELSE <<>>) \o <<l>>
  /\ nextBuffer_' = NULL
  /\ tpc' = Notified

AppendFits(l) ==
  /\ Fits(currentBuffer_)
  /\ currentBuffer_' = Append(currentBuffer_, l)
  /\ UNCHANGED <<nextBuffer_, buffers_, tpc>>

append(l) ==
  /\ AppendFits(l) \/ AppendFull(l)
  /\ appended' = l
  /\ UNCHANGED <<running_, local, opc, latch_>>

-----------------------------------------------------------------------------
(* threadFunc() *)

\* latch_.countDown() and the two spare buffers.
Begin ==
  /\ tpc = "begin"
  /\ tpc' = "while" /\ latch_' = latch_ - 1
  /\ newBuffer1' = <<>> /\ newBuffer2' = <<>>
  /\ UNCHANGED <<running_, shared, buffersToWrite, output, dropped, opc, appended>>

\* while (running_), and output.flush() at the end.
While ==
  /\ tpc = "while"
  /\ tpc' = IF running_ THEN "lock" ELSE "exited"
  /\ UNCHANGED <<running_, shared, local, opc, latch_, appended>>

\* The lock is taken, buffers_.empty(): cond_.waitForSeconds().
Wait ==
  /\ tpc = "lock" /\ buffers_ = <<>>
  /\ tpc' = "wait"
  /\ UNCHANGED <<running_, shared, local, opc, latch_, appended>>

\* Slip: wait() in place of waitForSeconds(), ended by a notification only.
WaitReturnsNever == FALSE

\* The wait ends after flushInterval_, or spuriously.
WaitReturns ==
  /\ tpc = "wait"
  /\ tpc' = "swap"
  /\ UNCHANGED <<running_, shared, local, opc, latch_, appended>>

\* Slip: the full buffers come after the current one.
TakenCurrentFirst == <<currentBuffer_>> \o buffers_

\* What buffersToWrite gets.
Taken == Append(buffers_, currentBuffer_)

\* The critical section, or what is left of it after the wait.
Swap ==
  /\ tpc = "swap" \/ (tpc = "lock" /\ buffers_ # <<>>)
  /\ tpc' = "write"
  /\ buffersToWrite' = Taken /\ buffers_' = <<>>
  /\ currentBuffer_' = newBuffer1 /\ newBuffer1' = NULL
  /\ nextBuffer_' = IF nextBuffer_ = NULL THEN newBuffer2 ELSE nextBuffer_
  /\ newBuffer2' = IF nextBuffer_ = NULL THEN NULL ELSE newBuffer2
  /\ UNCHANGED <<running_, output, dropped, opc, latch_, appended>>

\* Slip: one buffer kept of too many.
KeptOne ==
  IF Len(buffersToWrite) > MaxBuffers THEN SubSeq(buffersToWrite, 1, 1) ELSE buffersToWrite

\* buffersToWrite after the drop: the first two, if there are too many.
Kept ==
  IF Len(buffersToWrite) > MaxBuffers THEN SubSeq(buffersToWrite, 1, 2) ELSE buffersToWrite

\* buffersToWrite.resize(2): the buffers that may serve as spares again.
Recyclable == IF Len(Kept) > 2 THEN SubSeq(Kept, 1, 2) ELSE Kept

\* A missing spare is the kth buffer from the back, reset.
Recycled(spare, k) == IF spare = NULL /\ k < Len(Recyclable) THEN <<>> ELSE spare

\* The rest of the round: drop, write, recycle, flush.
Write ==
  /\ tpc = "write"
  /\ tpc' = "while"
  /\ output' = output \o FlattenSeq(Kept)
  /\ dropped' = dropped \cup (ToSet(FlattenSeq(buffersToWrite)) \ ToSet(FlattenSeq(Kept)))
  /\ newBuffer1' = Recycled(newBuffer1, 0)
  /\ newBuffer2' = Recycled(newBuffer2, 1)
  /\ buffersToWrite' = <<>>
  /\ UNCHANGED <<running_, shared, opc, latch_, appended>>

-----------------------------------------------------------------------------
ThreadStep == Begin \/ While \/ Wait \/ WaitReturns \/ Swap \/ Write
OwnerStep == Start \/ StartReturn \/ Stop \/ StopNotify \/ StopJoin
Next == OwnerStep \/ ThreadStep \/ (appended < MaxLines /\ append(appended + 1))

\* The thread is scheduled and its timed wait ends; the owner goes on with a
\* start() or stop() that it began, and need not call either.
Fairness == WF_vars(ThreadStep) /\ WF_vars(StartReturn \/ StopNotify \/ StopJoin)

Spec == Init /\ [][Next]_vars /\ Fairness
-----------------------------------------------------------------------------
(* Properties *)

Buffer == Seq(1..MaxLines)

\* The types of the members.
TypeOK ==
  /\ running_ \in BOOLEAN /\ latch_ \in {0, 1} /\ appended \in 0..MaxLines
  /\ currentBuffer_ \in Buffer /\ {nextBuffer_, newBuffer1, newBuffer2} \subseteq {NULL, <<>>}
  /\ buffers_ \in Seq(Buffer) /\ buffersToWrite \in Seq(Buffer)
  /\ output \in Buffer /\ dropped \subseteq 1..MaxLines
  /\ opc \in {"new", "latch", "started", "notify", "join", "stopped"}
  /\ tpc \in {"none", "begin", "while", "lock", "wait", "swap", "write", "exited"}

\* Whatever the interleaving of append() and of the rounds of the thread, the
\* lines written, those still in a buffer and those dropped are the lines
\* appended, once each and in order (AsyncLogging.cc:46, 99-106, 119-126).
LinesInOrder ==
  output \o FlattenSeq(buffersToWrite) \o FlattenSeq(buffers_) \o currentBuffer_
    = SelectSeq([i \in 1..appended |-> i], LAMBDA i : i \notin dropped)

\* The thread always finds its two spare buffers, empty: the asserts at the
\* top of its loop (AsyncLogging.cc:86-88).
SparesReady ==
  tpc \in {"while", "lock", "wait", "swap"} =>
    newBuffer1 = <<>> /\ newBuffer2 = <<>> /\ buffersToWrite = <<>>

\* A round writes at least as many buffers as it gave away: the asserts before
\* the spares are taken back (AsyncLogging.cc:109, 136, 144).
EnoughToRecycle ==
  tpc = "write" =>
    Len(Recyclable) >= IF newBuffer2 = NULL THEN 2 ELSE 1

\* stop() returns, although its notification may be lost: the thread may have
\* tested running_ already and not wait yet (AsyncLogging.h:49-51).
StopReturns == (opc = "notify") ~> (opc = "stopped")

\* While the logging runs, every line is written or dropped, full buffer or not
\* (AsyncLogging.cc:95, flushInterval_).
LinesWritten ==
  \A l \in 1..MaxLines :
    (appended >= l) ~> (l \in ToSet(output) \cup dropped \/ opc # "started")
=============================================================================
