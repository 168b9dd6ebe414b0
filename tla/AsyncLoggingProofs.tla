------------------------- MODULE AsyncLoggingProofs -------------------------
(***************************************************************************)
(* Proofs about the buffers that circulate in AsyncLogging, for lines and  *)
(* buffers of any number and size: the asserts of threadFunc() hold.  What *)
(* makes it so is that nextBuffer_ is moved from only together with a push *)
(* to buffers_, and comes back with the swap that empties buffers_: a      *)
(* round that gave away both its spares has two buffers to take back.      *)
(***************************************************************************)
EXTENDS AsyncLogging, SequenceTheorems, TLAPS

\* A unique_ptr that was moved from owns no buffer, and a round that drops
\* buffers had at least the two that it keeps.
LoggingRight == NULL # <<>> /\ MaxBuffers \in Nat \ {0}

Line == Nat

Types ==
  /\ appended \in Line
  /\ currentBuffer_ \in Seq(Line) /\ nextBuffer_ \in {NULL, <<>>}
  /\ buffers_ \in Seq(Seq(Line)) /\ buffersToWrite \in Seq(Seq(Line))

\* Where the buffers are, by where the thread is.
Circulating ==
  /\ opc = "new" => tpc = "none"
  /\ tpc \in {"none", "begin"} => buffersToWrite = <<>>
  /\ nextBuffer_ = NULL => buffers_ # <<>>
  /\ tpc \in {"while", "lock", "wait", "swap"} =>
       newBuffer1 = <<>> /\ newBuffer2 = <<>> /\ buffersToWrite = <<>>
  /\ tpc = "write" =>
       /\ newBuffer1 = NULL /\ newBuffer2 \in {NULL, <<>>}
       /\ Len(buffersToWrite) >= IF newBuffer2 = NULL THEN 2 ELSE 1

Inv == Types /\ Circulating

-----------------------------------------------------------------------------
\* A round keeps two buffers when it drops some, and otherwise all up to two.
LEMMA KeepsEnough ==
  ASSUME LoggingRight, Types
  PROVE  /\ Len(buffersToWrite) >= 2 => Len(Recyclable) = 2
         /\ Len(buffersToWrite) = 1 => Len(Recyclable) = 1
<1>1. Len(buffersToWrite) \in Nat /\ MaxBuffers \in Nat \ {0} /\ buffersToWrite \in Seq(Seq(Line))
  BY DEF Types, LoggingRight
<1>2. ASSUME NEW s \in Seq(Seq(Line)), Len(s) >= 2
      PROVE  SubSeq(s, 1, 2) \in Seq(Seq(Line)) /\ Len(SubSeq(s, 1, 2)) = 2
  BY <1>2
<1>3. CASE Len(buffersToWrite) > MaxBuffers
  <2>1. Kept = SubSeq(buffersToWrite, 1, 2) /\ Len(buffersToWrite) >= 2
    BY <1>1, <1>3 DEF Kept
  <2>2. Len(Kept) = 2
    BY <1>1, <1>2, <2>1
  <2> QED BY <2>1, <2>2 DEF Recyclable
<1>4. CASE ~(Len(buffersToWrite) > MaxBuffers)
  <2>1. Kept = buffersToWrite
    BY <1>4 DEF Kept
  <2>2. CASE Len(buffersToWrite) > 2
    <3>1. Recyclable = SubSeq(buffersToWrite, 1, 2) /\ Len(buffersToWrite) >= 2
      BY <1>1, <2>1, <2>2, SMTT(30) DEF Recyclable
    <3>2. Len(Recyclable) = 2
      BY <1>1, <1>2, <3>1
    <3> QED BY <2>2, <3>2
  <2>3. CASE ~(Len(buffersToWrite) > 2)
    <3>1. Recyclable = buffersToWrite
      BY <2>1, <2>3 DEF Recyclable
    <3>2. Len(Recyclable) = Len(buffersToWrite)
      BY <3>1
    <3>3. Len(buffersToWrite) >= 2 => Len(buffersToWrite) = 2
      <4>1. \A n \in Nat : ~(n > 2) => (n >= 2 => n = 2)
        OBVIOUS
      <4> QED BY ONLY <1>1, <2>3, <4>1, Zenon
    <3> QED BY <3>2, <3>3
  <2> QED BY <2>2, <2>3
<1> QED BY <1>3, <1>4

\* What a round takes back is enough for the spares it gave away.
LEMMA TakesBack ==
  ASSUME LoggingRight, Inv, tpc = "write"
  PROVE  Len(Recyclable) \in {1, 2} /\ (newBuffer2 = NULL => Len(Recyclable) = 2)
<1>1. Types /\ Len(buffersToWrite) \in Nat
  BY DEF Inv, Types
<1>2. CASE newBuffer2 = NULL
  <2>1. Len(buffersToWrite) >= 2
    BY <1>2 DEF Inv, Circulating
  <2> QED BY <1>1, <2>1, KeepsEnough, SMTT(30)
<1>3. CASE newBuffer2 # NULL
  <2>1. Len(buffersToWrite) >= 1
    BY <1>3 DEF Inv, Circulating
  <2>2. Len(buffersToWrite) = 1 \/ Len(buffersToWrite) >= 2
    BY <1>1, <2>1, SMTT(30)
  <2> QED BY <1>1, <1>3, <2>2, KeepsEnough, SMTT(30)
<1> QED BY <1>2, <1>3

LEMMA AppendStep ==
  ASSUME LoggingRight, Inv, append(appended + 1)
  PROVE  Inv'
<1> DEFINE l == appended + 1
<1>1. l \in Line
  BY DEF Inv, Types, Line
<1> HIDE DEF l
<1>2. append(l)
  BY DEF l
<1>3. CASE AppendFits(l)
  <2>1. Types'
    BY <1>1, <1>2, <1>3, SMTT(30) DEF append, AppendFits, Inv, Types, local
  <2>2. Circulating'
    BY <1>2, <1>3, SMTT(30) DEF append, AppendFits, Inv, Circulating, local
  <2> QED BY <2>1, <2>2, SMTT(30) DEF Inv
<1>4. CASE AppendFull(l)
  <2>1. Append(buffers_, currentBuffer_) \in Seq(Seq(Line)) /\ Append(buffers_, currentBuffer_) # <<>>
    <3>1. buffers_ \in Seq(Seq(Line)) /\ currentBuffer_ \in Seq(Line)
      BY DEF Inv, Types
    <3>2. Append(buffers_, currentBuffer_) \in Seq(Seq(Line))
      BY <3>1
    <3>3. Append(buffers_, currentBuffer_) # <<>>
      BY <3>1, AppendProperties
    <3> QED BY <3>2, <3>3
  <2>2. <<>> \o <<l>> \in Seq(Line)
    BY <1>1, SMTT(30)
  <2>3. Types'
    BY <1>1, <1>2, <1>4, <2>1, <2>2, ZenonT(60) DEF append, AppendFull, Inv, Types, local
  <2>4. Circulating'
    BY <1>2, <1>4, <2>1 DEF append, AppendFull, Notified, Inv, Circulating, local
  <2> QED BY <2>3, <2>4, Zenon DEF Inv
<1> QED BY <1>2, <1>3, <1>4, SMTT(30) DEF append

LEMMA SwapStep ==
  ASSUME LoggingRight, Inv, Swap
  PROVE  Inv'
<1>1. /\ buffersToWrite' = Append(buffers_, currentBuffer_) /\ buffers_' = <<>>
      /\ currentBuffer_' = newBuffer1 /\ newBuffer1' = NULL /\ tpc' = "write"
      /\ opc' = opc /\ appended' = appended
      /\ tpc \in {"lock", "swap"}
  BY DEF Swap, Taken
<1>2. newBuffer1 = <<>> /\ newBuffer2 = <<>> /\ opc # "new"
  BY <1>1 DEF Inv, Circulating
<1>3. buffers_ \in Seq(Seq(Line)) /\ currentBuffer_ \in Seq(Line)
  BY DEF Inv, Types
<1>4. /\ buffersToWrite' \in Seq(Seq(Line)) /\ Len(buffersToWrite') >= 1
      /\ buffers_ # <<>> => Len(buffersToWrite') >= 2
  BY <1>1, <1>3
<1>5. Types'
  BY <1>1, <1>2, <1>4, SMTT(30) DEF Swap, Inv, Types
<1>6. nextBuffer_' # NULL /\ newBuffer2' = (IF nextBuffer_ = NULL THEN NULL ELSE <<>>)
  BY <1>2 DEF Swap, LoggingRight
<1>7. nextBuffer_ = NULL => buffers_ # <<>>
  BY DEF Inv, Circulating
<1>8. Circulating'
  BY <1>1, <1>2, <1>4, <1>6, <1>7, SMTT(30) DEF LoggingRight, Circulating
<1> QED BY <1>5, <1>8 DEF Inv

LEMMA WriteStep ==
  ASSUME LoggingRight, Inv, Write
  PROVE  Inv'
<1>1. /\ newBuffer1' = Recycled(newBuffer1, 0) /\ newBuffer2' = Recycled(newBuffer2, 1)
      /\ buffersToWrite' = <<>> /\ tpc = "write" /\ tpc' = "while"
      /\ UNCHANGED <<currentBuffer_, nextBuffer_, buffers_, opc, appended>>
  BY DEF Write, shared
<1>2. 0 < Len(Recyclable) /\ (newBuffer2 = NULL => 1 < Len(Recyclable))
  BY <1>1, TakesBack
<1>3. newBuffer1' = <<>> /\ newBuffer2' = <<>>
  BY <1>1, <1>2, SMTT(30) DEF Inv, Circulating, Recycled
<1> QED BY <1>1, <1>3 DEF Inv, Types, Circulating

LEMMA NextInv ==
  ASSUME LoggingRight, Inv, [Next]_vars
  PROVE  Inv'
<1>1. CASE OwnerStep
  BY <1>1, SMTT(30) DEF OwnerStep, Start, StartReturn, Stop, StopNotify, StopJoin, Notified, Inv, Types,
              Circulating, shared, local
<1>2. CASE Begin \/ While \/ Wait \/ WaitReturns
  BY <1>2, SMTT(30) DEF Begin, While, Wait, WaitReturns, Inv, Types, Circulating, shared, local
<1>3. CASE UNCHANGED vars
  BY <1>3 DEF vars, Inv, Types, Circulating, shared, local
<1> QED BY <1>1, <1>2, <1>3, AppendStep, SwapStep, WriteStep, SMTT(30) DEF Next, ThreadStep

LEMMA InitInv ==
  ASSUME LoggingRight, Init
  PROVE  Inv
<1>1. Types
  BY DEF Init, Types, Line
<1> QED BY <1>1 DEF Init, Inv, Circulating, LoggingRight

LEMMA AlwaysInv ==
  ASSUME LoggingRight
  PROVE  Spec => []Inv
<1>1. Init => Inv
  BY InitInv
<1>2. Inv /\ [Next]_vars => Inv'
  BY NextInv
<1> QED BY <1>1, <1>2, PTL DEF Spec

-----------------------------------------------------------------------------
\* However many lines are appended meanwhile and however long the thread does
\* not run, it finds both its spare buffers, empty, at the top of every round
\* (the asserts of AsyncLogging.cc:86-88).
THEOREM AlwaysSpares ==
  ASSUME LoggingRight
  PROVE  Spec => []SparesReady
<1>1. Inv => SparesReady
  BY SMTT(30) DEF Inv, Circulating, SparesReady
<1> QED BY <1>1, AlwaysInv, PTL

\* A round has a buffer to take back for each spare that it gave away, also
\* when it dropped all buffers but two (the asserts of AsyncLogging.cc:109,
\* 136 and 144).
THEOREM AlwaysEnough ==
  ASSUME LoggingRight
  PROVE  Spec => []EnoughToRecycle
<1>1. Inv => EnoughToRecycle
  <2> SUFFICES ASSUME Inv, tpc = "write"
               PROVE  Len(Recyclable) >= IF newBuffer2 = NULL THEN 2 ELSE 1
    BY DEF EnoughToRecycle
  <2> QED BY TakesBack
<1> QED BY <1>1, AlwaysInv, PTL
=============================================================================
