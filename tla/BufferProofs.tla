---------------------------- MODULE BufferProofs ----------------------------
(***************************************************************************)
(* For a Buffer of any sizes and any calls: the indexes stay in order and  *)
(* within the vector, makeSpace() always makes the room it is asked for,   *)
(* and the readable bytes are a queue.                                     *)
(***************************************************************************)
EXTENDS Buffer, SequenceTheorems, TLAPS

\* A well-formed Buffer: WellFormed(buf) is the inductive invariant. TypeOK alone
\* is not: retrieveAll() puts both indexes at kCheapPrepend, wherever they were,
\* and needs a vector that long.
WellFormed(b) ==
  /\ b.size \in Nat /\ kCheapPrepend <= b.size /\ b.buffer_ \in [0..b.size - 1 -> Byte]
  /\ b.readerIndex_ \in Nat /\ b.writerIndex_ \in Nat
  /\ b.readerIndex_ <= b.writerIndex_ /\ b.writerIndex_ <= b.size

\* The sizes the constants stand for.
LEMMA Sizes ==
  /\ kCheapPrepend \in Nat /\ kInitialSize \in Nat
  /\ MaxData \in Nat /\ ExtraSize \in Nat /\ IntSizes \subseteq Nat /\ Zero \in Byte
BY BufferAssumption DEF BufferAssumption

\* A fresh buffer is well formed.
LEMMA EmptyWellFormed == ASSUME NEW n \in Nat PROVE WellFormed(EmptyBuffer(n))
BY Sizes DEF WellFormed, EmptyBuffer, Members

\* std::copy() into a vector keeps its size and its type.
LEMMA CopiedType ==
  ASSUME NEW n \in Nat, NEW v \in [0..n - 1 -> Byte], NEW s \in Seq(Byte), NEW at \in Nat
  PROVE  Copied(v, s, at) \in [0..n - 1 -> Byte]
<1> SUFFICES ASSUME NEW i \in 0..n - 1
             PROVE  (IF at <= i /\ i < at + Len(s) THEN s[i - at + 1] ELSE v[i]) \in Byte
    BY DEF Copied
<1>1. CASE at <= i /\ i < at + Len(s)
  <2>1. i - at + 1 \in 1..Len(s) BY <1>1, SMT
  <2> QED BY <1>1, <2>1
<1>2. CASE ~(at <= i /\ i < at + Len(s)) BY <1>2
<1> QED BY <1>1, <1>2

\* The readable bytes are a sequence of as many bytes.
LEMMA ReadableType ==
  ASSUME NEW b, WellFormed(b)
  PROVE  /\ toStringPiece(b) \in Seq(Byte)
         /\ Len(toStringPiece(b)) = readableBytes(b) /\ readableBytes(b) \in Nat
<1>1. readableBytes(b) \in Nat BY DEF WellFormed, readableBytes
<1>2. ASSUME NEW i \in 1..readableBytes(b) PROVE b.buffer_[b.readerIndex_ + i - 1] \in Byte
  <2>1. b.readerIndex_ + i - 1 \in 0..b.size - 1 BY SMTT(60) DEF WellFormed, readableBytes
  <2> QED BY <2>1 DEF WellFormed
<1>3. toStringPiece(b) \in [1..readableBytes(b) -> Byte] BY <1>2 DEF toStringPiece
<1> QED BY <1>1, <1>3, SMT

\* The two ways of making room.
LEMMA ResizedWellFormed ==
  ASSUME NEW b, WellFormed(b), NEW len \in Nat, writableBytes(b) < len
  PROVE  /\ WellFormed(Resized(b, b.writerIndex_ + len))
         /\ writableBytes(Resized(b, b.writerIndex_ + len)) = len
<1> DEFINE n == b.writerIndex_ + len
           v == [i \in 0..n - 1 |-> IF i < b.size THEN b.buffer_[i] ELSE Zero]
<1>1. n \in Nat BY DEF WellFormed
<1>2. v \in [0..n - 1 -> Byte] BY Sizes, <1>1, SMTT(60) DEF WellFormed
<1>3. Resized(b, n) = Members(v, n, b.readerIndex_, b.writerIndex_) BY DEF Resized
<1> HIDE DEF v
<1>4. b.size < n BY DEF WellFormed, writableBytes
<1>5. kCheapPrepend <= n BY <1>1, <1>4, Sizes DEF WellFormed
<1>6. n - b.writerIndex_ = len /\ b.writerIndex_ <= n BY DEF WellFormed
<1> HIDE DEF n
<1> QED BY <1>1, <1>2, <1>3, <1>5, <1>6, SMTT(60) DEF WellFormed, writableBytes, Members, n

LEMMA MovedWellFormed ==
  ASSUME NEW b, WellFormed(b), NEW len \in Nat, writableBytes(b) < len, ~Grows(b, len)
  PROVE  /\ kCheapPrepend < b.readerIndex_
         /\ WellFormed(Moved(b)) /\ writableBytes(Moved(b)) >= len
<1>1. kCheapPrepend < b.readerIndex_
  BY Sizes, SMT DEF WellFormed, Grows, writableBytes, prependableBytes
<1>2. Copied(b.buffer_, toStringPiece(b), kCheapPrepend) \in [0..b.size - 1 -> Byte]
  BY ReadableType, CopiedType, Sizes, Zenon DEF WellFormed
<1> DEFINE v == Copied(b.buffer_, toStringPiece(b), kCheapPrepend)
           w == kCheapPrepend + readableBytes(b)
<1>3. Moved(b) = Members(v, b.size, kCheapPrepend, w) BY Zenon DEF Moved
<1>4. /\ b.size \in Nat /\ kCheapPrepend \in Nat /\ kCheapPrepend <= b.size
      /\ b.readerIndex_ \in Nat /\ b.writerIndex_ \in Nat
      /\ b.readerIndex_ <= b.writerIndex_ /\ b.writerIndex_ <= b.size
  BY Sizes, Zenon DEF WellFormed
<1>5. len + kCheapPrepend <= (b.size - b.writerIndex_) + b.readerIndex_
  BY <1>4, SMTT(60) DEF Grows, writableBytes, prependableBytes
<1>6. w \in Nat /\ kCheapPrepend <= w /\ w <= b.size /\ b.size - w >= len
  BY ONLY <1>1, <1>4, <1>5, len \in Nat, SMTT(60) DEF w, readableBytes
<1>7. v \in [0..b.size - 1 -> Byte] BY <1>2
<1> HIDE DEF v, w
<1> QED BY ONLY <1>1, <1>3, <1>4, <1>6, <1>7, SMTT(60) DEF WellFormed, Members, writableBytes

\* ensureWritableBytes() does what its name says.
LEMMA EnsuresWritable ==
  ASSUME NEW b, WellFormed(b), NEW len \in Nat
  PROVE  /\ WellFormed(ensureWritableBytes(b, len))
         /\ writableBytes(ensureWritableBytes(b, len)) >= len
         /\ writableBytes(b) < len /\ ~Grows(b, len) => kCheapPrepend < b.readerIndex_
<1>1. CASE writableBytes(b) < len /\ Grows(b, len)
  <2>1. ensureWritableBytes(b, len) = Resized(b, b.writerIndex_ + len)
    BY <1>1 DEF ensureWritableBytes, makeSpace
  <2> QED BY <1>1, <2>1, ResizedWellFormed, SMT
<1>2. CASE writableBytes(b) < len /\ ~Grows(b, len)
  <2>1. ensureWritableBytes(b, len) = Moved(b) BY <1>2 DEF ensureWritableBytes, makeSpace
  <2> QED BY <1>2, <2>1, MovedWellFormed
<1>3. CASE ~(writableBytes(b) < len)
  <2>1. ensureWritableBytes(b, len) = b BY <1>3 DEF ensureWritableBytes
  <2> QED BY <1>3, <2>1, SMT DEF WellFormed, writableBytes
<1> QED BY <1>1, <1>2, <1>3

\* Bytes are written where there is room for them.
LEMMA WrittenWellFormed ==
  ASSUME NEW b, WellFormed(b), NEW s \in Seq(Byte), Len(s) <= writableBytes(b)
  PROVE  WellFormed(Written(b, s))
<1>1. Copied(b.buffer_, s, b.writerIndex_) \in [0..b.size - 1 -> Byte]
  BY CopiedType, Zenon DEF WellFormed
<1> QED BY <1>1, SMTT(60) DEF WellFormed, Written, Members, writableBytes

LEMMA AppendedWellFormed ==
  ASSUME NEW b, WellFormed(b), NEW s \in Seq(Byte)
  PROVE  WellFormed(Appended(b, s))
<1>1. Len(s) \in Nat OBVIOUS
<1>2. /\ WellFormed(ensureWritableBytes(b, Len(s)))
      /\ writableBytes(ensureWritableBytes(b, Len(s))) >= Len(s)
  BY <1>1, EnsuresWritable
<1>3. Len(s) <= writableBytes(ensureWritableBytes(b, Len(s)))
  BY <1>1, <1>2, SMT DEF WellFormed, writableBytes
<1> QED BY <1>2, <1>3, WrittenWellFormed DEF Appended

-----------------------------------------------------------------------------
(* The readable bytes. *)

\* Sequences are equal that have the same elements.
LEMMA SameReadable ==
  ASSUME NEW b, WellFormed(b), NEW t \in Seq(Byte), Len(t) = readableBytes(b),
         \A i \in 1..Len(t) : b.buffer_[b.readerIndex_ + i - 1] = t[i]
  PROVE  toStringPiece(b) = t
<1>1. toStringPiece(b) \in Seq(Byte) /\ Len(toStringPiece(b)) = Len(t) BY ReadableType
<1>2. \A i \in 1..Len(t) : toStringPiece(b)[i] = t[i] BY DEF toStringPiece
<1> QED BY <1>1, <1>2, SeqEqual

\* The arithmetic of the indexes.
LEMMA Indexes ==
  ASSUME NEW b, WellFormed(b)
  PROVE  /\ b.size \in Nat /\ b.readerIndex_ \in Nat /\ b.writerIndex_ \in Nat
         /\ b.readerIndex_ <= b.writerIndex_ /\ b.writerIndex_ <= b.size
         /\ b.writerIndex_ = b.readerIndex_ + readableBytes(b)
         /\ b.size = b.writerIndex_ + writableBytes(b)
         /\ readableBytes(b) \in Nat /\ writableBytes(b) \in Nat
         /\ DOMAIN b.buffer_ = 0..b.size - 1
BY SMTT(60) DEF WellFormed, readableBytes, writableBytes

\* Growing and moving keep them.
LEMMA ResizedBytes ==
  ASSUME NEW b, NEW n, NEW k, k \in 0..n - 1, k < b.size
  PROVE  Resized(b, n).buffer_[k] = b.buffer_[k]
BY Zenon DEF Resized, Members

LEMMA ResizedReadable ==
  ASSUME NEW b, WellFormed(b), NEW len \in Nat, writableBytes(b) < len
  PROVE  toStringPiece(Resized(b, b.writerIndex_ + len)) = toStringPiece(b)
<1> DEFINE r == Resized(b, b.writerIndex_ + len)
           t == toStringPiece(b)
<1>1. WellFormed(r) BY ResizedWellFormed
<1>2. t \in Seq(Byte) /\ Len(t) = readableBytes(b) BY ReadableType
<1>3. r.readerIndex_ = b.readerIndex_ /\ readableBytes(r) = readableBytes(b)
  BY SMTT(60) DEF Resized, Members, readableBytes
<1>4. ASSUME NEW i \in 1..Len(t) PROVE r.buffer_[r.readerIndex_ + i - 1] = t[i]
  <2>1. b.readerIndex_ + i - 1 \in 0..b.size - 1 BY <1>2, SMTT(60) DEF WellFormed, readableBytes
  <2>2. b.readerIndex_ + i - 1 \in 0..(b.writerIndex_ + len) - 1
    BY <2>1, SMTT(60) DEF WellFormed, writableBytes
  <2>3. b.readerIndex_ + i - 1 < b.size BY <2>1, SMTT(60) DEF WellFormed
  <2>5. r.buffer_[b.readerIndex_ + i - 1] = b.buffer_[b.readerIndex_ + i - 1]
    <3> DEFINE k == b.readerIndex_ + i - 1
               n == b.writerIndex_ + len
    <3>0. k \in 0..n - 1 BY ONLY <2>2, Zenon DEF k, n
    <3>1. k < b.size BY ONLY <2>3, Zenon DEF k
    <3> HIDE DEF k, n
    <3>2. Resized(b, n).buffer_[k] = b.buffer_[k] BY <3>0, <3>1, ResizedBytes
    <3> QED BY <3>2 DEF k, n
  <2>6. t[i] = b.buffer_[b.readerIndex_ + i - 1] BY <1>2, Zenon DEF toStringPiece
  <2> QED BY <1>3, <2>5, <2>6
<1> HIDE DEF r, t
<1>5. Len(t) = readableBytes(r) BY <1>2, <1>3
<1> QED BY <1>1, <1>2, <1>4, <1>5, SameReadable, SMTT(60) DEF r, t

LEMMA MovedReadable ==
  ASSUME NEW b, WellFormed(b), NEW len \in Nat, writableBytes(b) < len, ~Grows(b, len)
  PROVE  toStringPiece(Moved(b)) = toStringPiece(b)
<1> DEFINE m == Moved(b)
           t == toStringPiece(b)
<1>1. WellFormed(m) /\ kCheapPrepend < b.readerIndex_ BY MovedWellFormed
<1>2. t \in Seq(Byte) /\ Len(t) = readableBytes(b) /\ readableBytes(b) \in Nat BY ReadableType
<1>3. m.readerIndex_ = kCheapPrepend /\ m.size = b.size
      /\ m.buffer_ = Copied(b.buffer_, t, kCheapPrepend)
  BY DEF Moved, Members
<1>4. readableBytes(m) = readableBytes(b)
  BY <1>2, Sizes, SMT DEF Moved, Members, readableBytes
<1>5. ASSUME NEW i \in 1..Len(t) PROVE m.buffer_[m.readerIndex_ + i - 1] = t[i]
  <2> DEFINE at == kCheapPrepend + i - 1
  <2>0. /\ b.size \in Nat /\ b.readerIndex_ \in Nat /\ readableBytes(b) \in Nat
        /\ b.readerIndex_ + readableBytes(b) <= b.size
    BY Indexes
  <2>1. at \in 0..b.size - 1 /\ kCheapPrepend <= at /\ at < kCheapPrepend + Len(t)
        /\ at - kCheapPrepend + 1 = i
    BY ONLY <1>1, <1>2, <2>0, i \in 1..Len(t), Sizes, SMTT(30)
  <2>2. DOMAIN b.buffer_ = 0..b.size - 1 BY DEF WellFormed
  <2> HIDE DEF at
  <2>3. Copied(b.buffer_, t, kCheapPrepend)[at] = t[at - kCheapPrepend + 1]
    BY <2>1, <2>2 DEF Copied
  <2> QED BY <1>3, <2>1, <2>3 DEF at
<1> HIDE DEF m, t
<1>6. Len(t) = readableBytes(m) BY <1>2, <1>4
<1> QED BY <1>1, <1>2, <1>5, <1>6, SameReadable, SMTT(60) DEF m, t

LEMMA EnsuredReadable ==
  ASSUME NEW b, WellFormed(b), NEW len \in Nat
  PROVE  toStringPiece(ensureWritableBytes(b, len)) = toStringPiece(b)
BY ResizedReadable, MovedReadable DEF ensureWritableBytes, makeSpace

\* Where the bytes of the readable part and of what is written behind it lie.
LEMMA Behind ==
  ASSUME NEW reader \in Nat, NEW writer \in Nat, NEW size \in Nat, NEW rd \in Nat, NEW m \in Nat,
         writer = reader + rd, writer + m <= size, NEW j \in 1..rd + m
  PROVE  /\ reader + j - 1 \in 0..size - 1
         /\ j <= rd => ~(writer <= reader + j - 1) /\ j \in 1..rd
         /\ ~(j <= rd) => /\ writer <= reader + j - 1 /\ reader + j - 1 < writer + m
                          /\ reader + j - 1 - writer + 1 = j - rd
OBVIOUS

\* Written bytes come behind them.
LEMMA WrittenReadable ==
  ASSUME NEW b, WellFormed(b), NEW s \in Seq(Byte), Len(s) <= writableBytes(b)
  PROVE  toStringPiece(Written(b, s)) = toStringPiece(b) \o s
<1> DEFINE w == Written(b, s)
           t == toStringPiece(b)
           u == t \o s
<1>1. WellFormed(w) BY WrittenWellFormed
<1>2. t \in Seq(Byte) /\ Len(t) = readableBytes(b) BY ReadableType
<1>3. PICK reader \in Nat, writer \in Nat, size \in Nat, rd \in Nat :
        /\ b.readerIndex_ = reader /\ b.writerIndex_ = writer /\ b.size = size
        /\ readableBytes(b) = rd /\ writer = reader + rd /\ DOMAIN b.buffer_ = 0..size - 1
  BY Indexes, Zenon
<1>4. PICK n \in Nat : n = Len(s) /\ writer + n <= size
  BY <1>3, Indexes, SMTT(60)
<1>5. \A i \in 1..rd : t[i] = b.buffer_[reader + i - 1] BY <1>3 DEF toStringPiece
<1> HIDE DEF t
<1>6. /\ u \in Seq(Byte) /\ Len(u) = rd + n
      /\ \A i \in 1..rd + n : u[i] = IF i <= rd THEN t[i] ELSE s[i - rd]
  <2>1. t \in Seq(Byte) /\ Len(t) = rd /\ s \in Seq(Byte) /\ Len(s) = n BY <1>2, <1>3, <1>4
  <2>2. /\ t \o s \in Seq(Byte) /\ Len(t \o s) = Len(t) + Len(s)
        /\ \A i \in 1..Len(t) + Len(s) :
             (t \o s)[i] = IF i <= Len(t) THEN t[i] ELSE s[i - Len(t)]
    BY ONLY <2>1, ConcatProperties, Zenon
  <2> QED BY ONLY <2>1, <2>2, Zenon DEF u
<1> HIDE DEF u
<1>7. w.readerIndex_ = reader /\ w.buffer_ = Copied(b.buffer_, s, writer) /\ readableBytes(w) = rd + n
  BY <1>3, <1>4 DEF Written, Members, readableBytes
<1> HIDE DEF w
<1>8. ASSUME NEW i \in 1..rd + n PROVE w.buffer_[w.readerIndex_ + i - 1] = u[i]
  <2> DEFINE at == reader + i - 1
  <2>1. /\ at \in 0..size - 1
        /\ i <= rd => ~(writer <= at) /\ i \in 1..rd
        /\ ~(i <= rd) => writer <= at /\ at < writer + n /\ at - writer + 1 = i - rd
    <3>1. writer = reader + rd /\ writer + n <= size BY <1>3, <1>4
    <3> QED BY ONLY <3>1, reader \in Nat, writer \in Nat, size \in Nat, rd \in Nat, n \in Nat,
                    i \in 1..rd + n, Behind, SMT
  <2>2. Copied(b.buffer_, s, writer)[at]
        = IF writer <= at /\ at < writer + n THEN s[at - writer + 1] ELSE b.buffer_[at]
    BY ONLY <1>3, <1>4, <2>1 DEF Copied
  <2>3. CASE i <= rd BY ONLY <1>5, <1>6, <1>7, <2>1, <2>2, <2>3, i \in 1..rd + n, Zenon
  <2>4. CASE ~(i <= rd) BY ONLY <1>6, <1>7, <2>1, <2>2, <2>4, i \in 1..rd + n, Zenon
  <2> QED BY <2>3, <2>4
<1>9. Len(u) = readableBytes(w) /\ \A i \in 1..Len(u) : w.buffer_[w.readerIndex_ + i - 1] = u[i]
  BY <1>6, <1>7, <1>8
<1> QED BY <1>1, <1>6, <1>9, SameReadable, Zenon DEF w, t, u

LEMMA AppendedReadable ==
  ASSUME NEW b, WellFormed(b), NEW s \in Seq(Byte)
  PROVE  toStringPiece(Appended(b, s)) = toStringPiece(b) \o s
<1>1. Len(s) \in Nat OBVIOUS
<1> DEFINE e == ensureWritableBytes(b, Len(s))
<1>2. WellFormed(e) /\ writableBytes(e) >= Len(s) BY <1>1, EnsuresWritable
<1>3. Len(s) <= writableBytes(e) BY <1>1, <1>2, SMT DEF WellFormed, writableBytes
<1>4. toStringPiece(e) = toStringPiece(b) BY <1>1, EnsuredReadable
<1> HIDE DEF e
<1>5. toStringPiece(Written(e, s)) = toStringPiece(e) \o s BY <1>2, <1>3, WrittenReadable
<1> QED BY <1>4, <1>5 DEF Appended, e

-----------------------------------------------------------------------------
(* The operations keep a Buffer well formed. *)

\* What a call brings is a sequence of bytes, and so is an integer.
LEMMA DataType == ASSUME NEW s \in Data(MaxData) PROVE s \in Seq(Byte)
BY DEF Data

LEMMA SwappedType ==
  ASSUME NEW w \in IntSizes, NEW x \in IntOf(w)
  PROVE  Swapped(x) \in Seq(Byte) /\ Len(Swapped(x)) = w /\ x \in Seq(Byte) /\ Len(x) = w
<1>1. w \in Nat BY Sizes
<1>2. x \in Seq(Byte) /\ Len(x) = w BY <1>1 DEF IntOf
<1>3. \A i \in 1..w : w + 1 - i \in 1..w BY <1>1
<1>4. Swapped(x) \in [1..w -> Byte] BY <1>2, <1>3, SMTT(60) DEF Swapped, IntOf
<1> QED BY <1>1, <1>2, <1>4

LEMMA AppendType ==
  ASSUME WellFormed(buf), NEW s \in Seq(Byte), append(s) PROVE WellFormed(buf')
BY AppendedWellFormed DEF append

LEMMA PrependType ==
  ASSUME WellFormed(buf), NEW s \in Seq(Byte), prepend(s) PROVE WellFormed(buf')
<1> DEFINE at == buf.readerIndex_ - Len(s)
<1>1. at \in Nat /\ at <= buf.readerIndex_ BY DEF prepend, prependableBytes, WellFormed
<1>2. Copied(buf.buffer_, s, at) \in [0..buf.size - 1 -> Byte] BY <1>1, CopiedType, Zenon DEF WellFormed
<1>3. buf' = Members(Copied(buf.buffer_, s, at), buf.size, at, buf.writerIndex_) BY DEF prepend
<1> HIDE DEF at
<1> QED BY <1>1, <1>2, <1>3 DEF WellFormed, Members

LEMMA ReadFdType ==
  ASSUME WellFormed(buf), NEW s \in Seq(Byte), readFd(s) PROVE WellFormed(buf')
<1> DEFINE m == writableBytes(buf)
           w == Written(buf, SubSeq(s, 1, m))
<1>0. WellFormed(buf) /\ m \in Nat /\ Len(s) \in Nat BY DEF WellFormed, writableBytes
<1>1. CASE Len(s) <= m
  BY <1>0, <1>1, WrittenWellFormed DEF readFd
<1>2. CASE ~(Len(s) <= m)
  <2>1. /\ SubSeq(s, 1, m) \in Seq(Byte) /\ Len(SubSeq(s, 1, m)) = m
        /\ SubSeq(s, m + 1, Len(s)) \in Seq(Byte)
    BY <1>0, <1>2, SubSeqProperties
  <2>2. WellFormed(w)
    <3>1. Len(SubSeq(s, 1, m)) <= writableBytes(buf) BY <1>0, <2>1
    <3> QED BY <1>0, <2>1, <3>1, WrittenWellFormed, Zenon
  <2>3. WellFormed(Appended(w, SubSeq(s, m + 1, Len(s)))) BY <2>1, <2>2, AppendedWellFormed, Zenon
  <2>4. buf' = Appended(w, SubSeq(s, m + 1, Len(s))) BY <1>2 DEF readFd
  <2> QED BY <2>3, <2>4
<1> QED BY <1>1, <1>2

LEMMA ShrinkType ==
  ASSUME WellFormed(buf), NEW reserve \in Nat, shrink(reserve) PROVE WellFormed(buf')
<1> DEFINE other == ensureWritableBytes(EmptyBuffer(kInitialSize), readableBytes(buf) + reserve)
<1>1. WellFormed(EmptyBuffer(kInitialSize)) BY Sizes, EmptyWellFormed
<1>2. /\ toStringPiece(buf) \in Seq(Byte) /\ readableBytes(buf) + reserve \in Nat
  BY ReadableType
<1>3. WellFormed(other) BY <1>1, <1>2, EnsuresWritable
<1>4. WellFormed(Appended(other, toStringPiece(buf))) BY <1>2, <1>3, AppendedWellFormed
<1> QED BY <1>4 DEF shrink

LEMMA IndexedType ==
  ASSUME WellFormed(buf), NEW reader \in Nat, NEW writer \in Nat, reader <= writer, writer <= buf.size,
         buf' = Indexed(reader, writer)
  PROVE  WellFormed(buf')
BY DEF WellFormed, Indexed, Members

LEMMA RetrieveType ==
  ASSUME WellFormed(buf), NEW len \in Nat, retrieve(len) PROVE WellFormed(buf')
<1>1. CASE LeavesReadable(len)
  <2>1. /\ buf.readerIndex_ + len \in Nat /\ buf.writerIndex_ \in Nat
        /\ buf.readerIndex_ + len <= buf.writerIndex_ /\ buf.writerIndex_ <= buf.size
    BY <1>1, SMTT(30) DEF LeavesReadable, readableBytes, WellFormed
  <2>2. buf' = Indexed(buf.readerIndex_ + len, buf.writerIndex_) BY <1>1 DEF retrieve
  <2> QED BY <2>1, <2>2, IndexedType
<1>2. CASE ~LeavesReadable(len)
  BY <1>2, Sizes, IndexedType, SMTT(30) DEF retrieve, retrieveAll, WellFormed
<1> QED BY <1>1, <1>2

LEMMA UnwriteType ==
  ASSUME WellFormed(buf), NEW len \in Nat, unwrite(len) PROVE WellFormed(buf')
<1>1. /\ buf.writerIndex_ - len \in Nat /\ buf.readerIndex_ \in Nat
      /\ buf.readerIndex_ <= buf.writerIndex_ - len /\ buf.writerIndex_ - len <= buf.size
  BY SMTT(60) DEF unwrite, readableBytes, WellFormed
<1> QED BY <1>1, IndexedType DEF unwrite

LEMMA InvariantStep == WellFormed(buf) /\ [Next]_buf => WellFormed(buf')
<1> SUFFICES ASSUME WellFormed(buf), [Next]_buf PROVE WellFormed(buf')
    OBVIOUS
<1>1. CASE \E s \in Data(MaxData) : append(s) \/ prepend(s) \/ readFd(s)
  BY <1>1, DataType, AppendType, PrependType, ReadFdType
<1>2. CASE \E w \in IntSizes : \E x \in IntOf(w) : appendInt(x) \/ prependInt(x)
  BY <1>2, SwappedType, AppendType, PrependType DEF appendInt, prependInt
<1>3. CASE \E len \in 0..MaxData : retrieve(len) \/ unwrite(len) \/ shrink(len)
  <2>1. 0..MaxData \subseteq Nat BY Sizes
  <2> QED BY <1>3, <2>1, RetrieveType, UnwriteType, ShrinkType
<1>4. CASE \E w \in IntSizes : readInt(w)
  BY <1>4, Sizes, RetrieveType DEF readInt
<1>5. CASE retrieveAll
  BY <1>5, Sizes, IndexedType, SMTT(30) DEF retrieveAll, WellFormed
<1>6. CASE UNCHANGED buf BY <1>6
<1> QED BY <1>1, <1>2, <1>3, <1>4, <1>5, <1>6 DEF Next

Inv == WellFormed(buf)

LEMMA Invariant == Spec => []Inv
<1>1. Init => Inv BY Sizes, EmptyWellFormed DEF Init, Inv
<1>2. Inv /\ [Next]_buf => Inv' BY InvariantStep DEF Inv
<1> QED BY <1>1, <1>2, PTL DEF Spec

-----------------------------------------------------------------------------
(* What the operations do to the readable bytes. *)

\* Part of the readable bytes, between other indexes.
LEMMA IndexedReadable ==
  ASSUME WellFormed(buf), NEW f \in Nat, NEW g \in Nat, f <= g, g <= readableBytes(buf),
         WellFormed(buf'),
         buf' = Indexed(buf.readerIndex_ + f, buf.readerIndex_ + g)
  PROVE  toStringPiece(buf') = SubSeq(toStringPiece(buf), f + 1, g)
<1> DEFINE t == toStringPiece(buf)
           u == SubSeq(t, f + 1, g)
<1>1. t \in Seq(Byte) /\ Len(t) = readableBytes(buf) /\ readableBytes(buf) \in Nat
      /\ \A i \in 1..readableBytes(buf) : t[i] = buf.buffer_[buf.readerIndex_ + i - 1]
  BY ReadableType DEF toStringPiece
<1> HIDE DEF t
<1>2. \A i \in f + 1..g : t[i] \in Byte
  <2>1. \A i \in f + 1..g : i \in 1..readableBytes(buf) BY <1>1
  <2> QED BY <1>1, <2>1
<1>3. u \in Seq(Byte) /\ Len(u) = g - f /\ \A i \in 1..g - f : u[i] = t[f + i]
  <2>1. \A i \in 1..g - (f + 1) + 1 : u[i] = t[(f + 1) + i - 1] BY <1>2, SubSeqProperties
  <2>2. g - (f + 1) + 1 = g - f /\ \A i \in 1..g - f : (f + 1) + i - 1 = f + i OBVIOUS
  <2> QED BY <1>2, <2>1, <2>2, SubSeqProperties
<1> HIDE DEF u
<1>4. /\ buf'.buffer_ = buf.buffer_ /\ buf'.readerIndex_ = buf.readerIndex_ + f
      /\ readableBytes(buf') = g - f
  BY DEF Indexed, Members, readableBytes, WellFormed
<1>5. ASSUME NEW i \in 1..g - f PROVE buf'.buffer_[buf'.readerIndex_ + i - 1] = u[i]
  <2>1. f + i \in 1..readableBytes(buf) BY <1>1
  <2>2. (buf.readerIndex_ + f) + i - 1 = buf.readerIndex_ + (f + i) - 1 BY SMTT(60) DEF WellFormed
  <2> QED BY <1>1, <1>3, <1>4, <2>1, <2>2, SMTT(60)
<1> QED BY <1>3, <1>4, <1>5, SameReadable, ZenonT(60) DEF t, u

LEMMA InFront ==
  ASSUME NEW a \in Nat, NEW reader \in Nat, NEW writer \in Nat, NEW size \in Nat, NEW rd \in Nat,
         NEW m \in Nat, NEW j \in Nat, a = reader - m, m <= reader, writer = reader + rd,
         writer <= size, 1 <= j, j <= m + rd
  PROVE  a + j - 1 \in 0..size - 1
  OBVIOUS

\* What is put in front comes first.
LEMMA PrependReadable ==
  ASSUME WellFormed(buf), NEW s \in Seq(Byte), prepend(s), WellFormed(buf')
  PROVE  toStringPiece(buf') = s \o toStringPiece(buf)
<1> DEFINE t == toStringPiece(buf)
           u == s \o t
<1>1. t \in Seq(Byte) /\ Len(t) = readableBytes(buf) /\ readableBytes(buf) \in Nat
      /\ \A i \in 1..readableBytes(buf) : t[i] = buf.buffer_[buf.readerIndex_ + i - 1]
  BY ReadableType DEF toStringPiece
<1> HIDE DEF t
<1>2. PICK n \in Nat : n = Len(s) /\ n <= buf.readerIndex_ BY DEF prepend, prependableBytes
<1>3. /\ u \in Seq(Byte) /\ Len(u) = n + readableBytes(buf)
      /\ \A i \in 1..n + readableBytes(buf) : u[i] = IF i <= n THEN s[i] ELSE t[i - n]
  BY <1>1, <1>2, ConcatProperties
<1> HIDE DEF u
<1>4. /\ buf.readerIndex_ \in Nat /\ buf.writerIndex_ \in Nat /\ buf.size \in Nat
      /\ buf.writerIndex_ = buf.readerIndex_ + readableBytes(buf) /\ buf.writerIndex_ <= buf.size
      /\ DOMAIN buf.buffer_ = 0..buf.size - 1
  BY Indexes
<1>5. PICK at \in Nat : at = buf.readerIndex_ - n BY <1>2, <1>4
<1>9. buf.readerIndex_ = at + n BY <1>2, <1>4, <1>5, SMTT(30)
<1>6. /\ buf'.buffer_ = Copied(buf.buffer_, s, at) /\ buf'.readerIndex_ = at
      /\ buf'.writerIndex_ = buf.writerIndex_
  BY <1>2, <1>5 DEF prepend, Members
<1>7. readableBytes(buf') = n + readableBytes(buf) BY <1>2, <1>4, <1>5, <1>6 DEF readableBytes
<1>8. ASSUME NEW i \in 1..n + readableBytes(buf) PROVE buf'.buffer_[at + i - 1] = u[i]
  <2>0. i \in Nat /\ 1 <= i /\ i <= n + readableBytes(buf) BY ONLY <1>1, <1>2, i \in 1..n + readableBytes(buf)
  <2>1. at + i - 1 \in 0..buf.size - 1 BY ONLY <1>1, <1>2, <1>4, <1>5, <2>0, InFront, SMTT(60)
  <2>9. at + i - 1 = (at + n) + (i - n) - 1 BY ONLY n \in Nat, at \in Nat, <2>0
  <2>2. Copied(buf.buffer_, s, at)[at + i - 1]
        = IF at <= at + i - 1 /\ at + i - 1 < at + n
          THEN s[(at + i - 1) - at + 1] ELSE buf.buffer_[at + i - 1]
    BY <1>2, <1>4, <2>1 DEF Copied
  <2>3. at <= at + i - 1 /\ (at + i - 1 < at + n <=> i <= n) /\ (at + i - 1) - at + 1 = i
    BY <1>1
  <2>4. CASE i <= n BY <1>3, <1>6, <2>2, <2>3, <2>4
  <2>5. CASE ~(i <= n)
    <3>1. i - n \in 1..readableBytes(buf) BY <1>1, <2>5
    <3> QED BY <1>1, <1>3, <1>6, <1>9, <2>2, <2>3, <2>5, <2>9, <3>1, SMTT(30)
  <2> QED BY <2>4, <2>5
<1> QED BY <1>3, <1>6, <1>7, <1>8, SameReadable, Zenon DEF t, u

LEMMA RetrieveReadable ==
  ASSUME WellFormed(buf), NEW len \in Nat, retrieve(len), WellFormed(buf')
  PROVE  toStringPiece(buf') = SubSeq(toStringPiece(buf), len + 1, Len(toStringPiece(buf)))
<1> DEFINE t == toStringPiece(buf)
<1>1. t \in Seq(Byte) /\ Len(t) = readableBytes(buf) /\ readableBytes(buf) \in Nat BY ReadableType
<1>2. len <= readableBytes(buf) BY DEF retrieve
<1>3. CASE LeavesReadable(len)
  <2>1. buf.writerIndex_ = buf.readerIndex_ + readableBytes(buf) BY DEF WellFormed, readableBytes
  <2>2. buf' = Indexed(buf.readerIndex_ + len, buf.readerIndex_ + readableBytes(buf))
    BY <1>3, <2>1 DEF retrieve
  <2> QED BY <1>1, <1>2, <2>2, IndexedReadable
<1>4. CASE ~LeavesReadable(len)
  <2>1. readableBytes(buf) < len + 1 BY <1>1, <1>2, <1>4 DEF LeavesReadable
  <2>2. SubSeq(t, len + 1, readableBytes(buf)) = <<>>
    <3> HIDE DEF t
    <3> QED BY <1>1, <2>1, SubSeqEmpty
  <2>3. readableBytes(buf') = 0
    BY <1>4, Sizes DEF retrieve, retrieveAll, Indexed, Members, readableBytes
  <2>4. toStringPiece(buf') \in Seq(Byte) /\ Len(toStringPiece(buf')) = 0
    BY <2>3, ReadableType
  <2>5. toStringPiece(buf') = <<>> BY <2>4, EmptySeq
  <2> QED BY <1>1, <2>2, <2>5, Zenon
<1> QED BY <1>3, <1>4

LEMMA UnwriteReadable ==
  ASSUME WellFormed(buf), NEW len \in Nat, unwrite(len), WellFormed(buf')
  PROVE  toStringPiece(buf') = SubSeq(toStringPiece(buf), 1, Len(toStringPiece(buf)) - len)
<1>1. Len(toStringPiece(buf)) = readableBytes(buf) /\ readableBytes(buf) \in Nat BY ReadableType
<1>2. PICK g \in Nat : g = readableBytes(buf) - len /\ g <= readableBytes(buf) BY <1>1 DEF unwrite
<1>3. buf.writerIndex_ - len = buf.readerIndex_ + g /\ buf.readerIndex_ = buf.readerIndex_ + 0
  BY <1>2, SMTT(60) DEF WellFormed, readableBytes
<1>4. buf' = Indexed(buf.readerIndex_ + 0, buf.readerIndex_ + g) BY <1>3 DEF unwrite
<1>5. toStringPiece(buf') = SubSeq(toStringPiece(buf), 0 + 1, g) BY <1>2, <1>4, IndexedReadable
<1> QED BY <1>1, <1>2, <1>5

LEMMA ShrinkReadable ==
  ASSUME WellFormed(buf), NEW reserve \in Nat, shrink(reserve)
  PROVE  toStringPiece(buf') = toStringPiece(buf)
<1> DEFINE fresh == EmptyBuffer(kInitialSize)
           t == toStringPiece(buf)
           other == ensureWritableBytes(fresh, readableBytes(buf) + reserve)
<1>1. t \in Seq(Byte) /\ readableBytes(buf) + reserve \in Nat BY ReadableType
<1>2. WellFormed(fresh) BY Sizes, EmptyWellFormed
<1>3. readableBytes(fresh) = 0 BY Sizes DEF EmptyBuffer, Members, readableBytes
<1>4. buf' = Appended(other, t) BY DEF shrink
<1> HIDE DEF fresh, t
<1>5. toStringPiece(fresh) = <<>>
  <2>1. toStringPiece(fresh) \in Seq(Byte) /\ Len(toStringPiece(fresh)) = 0
    BY <1>2, <1>3, ReadableType
  <2> QED BY <2>1, EmptySeq
<1>6. WellFormed(other) /\ toStringPiece(other) = <<>>
  BY <1>1, <1>2, <1>5, EnsuresWritable, EnsuredReadable
<1> HIDE DEF other
<1>7. toStringPiece(buf') = <<>> \o t BY <1>1, <1>4, <1>6, AppendedReadable, Zenon
<1> QED BY <1>1, <1>7, ConcatEmptySeq DEF t

LEMMA BytesAssociative ==
  ASSUME NEW x \in Seq(Byte), NEW y \in Seq(Byte), NEW z \in Seq(Byte)
  PROVE  (x \o y) \o z = x \o (y \o z)
<1> DEFINE a == (x \o y) \o z
           c == x \o (y \o z)
<1>1. /\ a \in Seq(Byte) /\ c \in Seq(Byte)
      /\ Len(a) = (Len(x) + Len(y)) + Len(z) /\ Len(c) = Len(x) + (Len(y) + Len(z))
  BY ConcatProperties
<1>2. Len(a) = Len(c) BY <1>1
<1>3. ASSUME NEW i \in 1..Len(a) PROVE a[i] = c[i] BY <1>1
<1> QED BY <1>1, <1>2, <1>3, SeqEqual, SMTT(30)

LEMMA ReadFdReadable ==
  ASSUME WellFormed(buf), NEW s \in Seq(Byte), readFd(s)
  PROVE  toStringPiece(buf') = toStringPiece(buf) \o s
<1> DEFINE m == writableBytes(buf)
           first == SubSeq(s, 1, m)
           second == SubSeq(s, m + 1, Len(s))
           w == Written(buf, first)
           t == toStringPiece(buf)
<1>0. m \in Nat /\ Len(s) \in Nat BY DEF WellFormed, writableBytes
<1>1. CASE Len(s) <= m
  BY <1>0, <1>1, WrittenReadable DEF readFd
<1>2. CASE ~(Len(s) <= m)
  <2>1. first \in Seq(Byte) /\ Len(first) = m /\ second \in Seq(Byte)
    BY <1>0, <1>2, SubSeqProperties
  <2>2. Len(first) <= m BY <1>0, <2>1
  <2>3. buf' = Appended(w, second) BY <1>2 DEF readFd
  <2>4. first \o second = s
    <3>1. SubSeq(s, 1, m) \o SubSeq(s, m + 1, Len(s)) = SubSeq(s, 1, Len(s))
      BY <1>0, <1>2, ConcatAdjacentSubSeq, SMTT(60)
    <3> QED BY <3>1, SubSeqFull, Zenon
  <2> HIDE DEF first, second
  <2>5. WellFormed(w) /\ toStringPiece(w) = t \o first
    BY <2>1, <2>2, WrittenWellFormed, WrittenReadable
  <2>6. t \in Seq(Byte) BY ReadableType
  <2> HIDE DEF w, t
  <2>7. toStringPiece(buf') = (t \o first) \o second BY <2>1, <2>3, <2>5, AppendedReadable, ZenonT(60)
  <2>8. (t \o first) \o second = t \o (first \o second) BY <2>1, <2>6, BytesAssociative, ZenonT(60)
  <2> QED BY <2>4, <2>7, <2>8 DEF t
<1> QED BY <1>1, <1>2

\* An integer put in front is the one that is peeked.
LEMMA SwappedTwice ==
  ASSUME NEW w \in IntSizes, NEW x \in IntOf(w) PROVE Swapped(Swapped(x)) = x
<1> DEFINE y == Swapped(x)
<1>1. w \in Nat /\ x \in Seq(Byte) /\ Len(x) = w /\ y \in Seq(Byte) /\ Len(y) = w
  BY Sizes, SwappedType
<1>2. \A i \in 1..w : y[i] = x[w + 1 - i] BY <1>1 DEF Swapped
<1> HIDE DEF y
<1>3. ASSUME NEW i \in 1..w PROVE y[w + 1 - i] = x[i]
  <2>1. w + 1 - i \in 1..w /\ w + 1 - (w + 1 - i) = i BY <1>1
  <2> QED BY <1>2, <2>1
<1>4. Swapped(y) = [i \in 1..w |-> y[w + 1 - i]] BY <1>1 DEF Swapped
<1>5. Swapped(y) = [i \in 1..w |-> x[i]] BY <1>3, <1>4
<1>6. x = [i \in 1..w |-> x[i]] BY <1>1
<1> QED BY <1>5, <1>6 DEF y

LEMMA PrefixOfConcat ==
  ASSUME NEW y \in Seq(Byte), NEW t \in Seq(Byte)
  PROVE  SubSeq(y \o t, 1, Len(y)) = y
<1> DEFINE u == SubSeq(y \o t, 1, Len(y))
<1>1. /\ \A i \in 1..Len(y) : (y \o t)[i] = y[i] /\ (y \o t)[i] \in Byte
  BY ConcatProperties
<1>2. u \in Seq(Byte) /\ Len(u) = Len(y) /\ \A i \in 1..Len(y) : u[i] = (y \o t)[i]
  BY <1>1, SubSeqProperties
<1> HIDE DEF u
<1> QED BY <1>1, <1>2, SeqEqual DEF u

LEMMA PeekedInt ==
  ASSUME WellFormed(buf), NEW w \in IntSizes, NEW x \in IntOf(w), prependInt(x), WellFormed(buf')
  PROVE  peekInt(w)' = x
<1>1. Swapped(x) \in Seq(Byte) /\ Len(Swapped(x)) = w BY SwappedType
<1>2. toStringPiece(buf') = Swapped(x) \o toStringPiece(buf)
  BY <1>1, PrependReadable DEF prependInt
<1>3. SubSeq(toStringPiece(buf'), 1, w) = Swapped(x)
  BY <1>1, <1>2, ReadableType, PrefixOfConcat
<1>4. peekInt(w)' = Swapped(SubSeq(toStringPiece(buf'), 1, w)) BY DEF peekInt
<1> QED BY <1>3, <1>4, SwappedTwice, Zenon

-----------------------------------------------------------------------------
(* Theorems *)

\* Whatever the calls, 0 <= readerIndex_ <= writerIndex_ <= size (the picture in
\* the comment of the class, Buffer.h:40), and the vector holds bytes.
THEOREM TypeCorrect == Spec => []TypeOK
<1>1. Inv => TypeOK BY DEF Inv, WellFormed, TypeOK
<1> QED BY <1>1, Invariant, PTL

\* Whatever the calls before, ensureWritableBytes() makes the room it is asked
\* for and the asserts at Buffer.h:200 and 400 hold.
THEOREM SpaceAlwaysMade == Spec => []SpaceCanBeMade
<1>1. Inv => SpaceCanBeMade
  <2> SUFFICES ASSUME WellFormed(buf) PROVE SpaceCanBeMade BY DEF Inv
  <2>1. MaxReadable + buf.size \in Nat BY BufferAssumption, SMTT(30) DEF BufferAssumption, WellFormed
  <2>2. 0..MaxReadable + buf.size \subseteq Nat BY <2>1
  <2> QED BY <2>2, EnsuresWritable DEF SpaceCanBeMade
<1> QED BY <1>1, Invariant, PTL

\* The buffer is a queue of bytes that can be pushed back: append() and readFd()
\* add at the end what they are given, prepend() in front, retrieve() and
\* unwrite() take from the front and from the end, and neither growing nor moving
\* nor shrink() loses, changes or reorders a byte (Buffer.h:113-219, 354-409).
THEOREM BytesInOrder == Spec => QueueOfBytes
<1> DEFINE old == toStringPiece(buf)
           new == toStringPiece(buf')
           Step == /\ \A s \in Data(MaxData) :
                        /\ append(s) \/ readFd(s) => new = old \o s
                        /\ prepend(s) => new = s \o old
                   /\ \A w \in IntSizes : \A x \in IntOf(w) : prependInt(x) => peekInt(w)' = x
                   /\ \A n \in 0..MaxData :
                        /\ shrink(n) => new = old
                        /\ retrieve(n) => new = SubSeq(old, n + 1, Len(old))
                        /\ unwrite(n) => new = SubSeq(old, 1, Len(old) - n)
<1>1. Inv /\ [Next]_buf => [Step]_buf
  <2> SUFFICES ASSUME WellFormed(buf), WellFormed(buf') PROVE Step
      BY InvariantStep DEF Inv
  <2>1. ASSUME NEW s \in Data(MaxData)
        PROVE  /\ append(s) \/ readFd(s) => new = old \o s
               /\ prepend(s) => new = s \o old
    <3>1. s \in Seq(Byte) BY DataType
    <3>2. append(s) => new = old \o s BY <3>1, AppendedReadable DEF append
    <3>3. readFd(s) => new = old \o s BY <3>1, ReadFdReadable
    <3>4. prepend(s) => new = s \o old BY <3>1, PrependReadable
    <3> QED BY <3>2, <3>3, <3>4
  <2>2. \A w \in IntSizes : \A x \in IntOf(w) : prependInt(x) => peekInt(w)' = x BY PeekedInt
  <2>3. ASSUME NEW n \in 0..MaxData
        PROVE  /\ shrink(n) => new = old
               /\ retrieve(n) => new = SubSeq(old, n + 1, Len(old))
               /\ unwrite(n) => new = SubSeq(old, 1, Len(old) - n)
    <3>1. n \in Nat BY Sizes
    <3> QED BY <3>1, ShrinkReadable, RetrieveReadable, UnwriteReadable
  <2> QED BY <2>1, <2>2, <2>3
<1> QED BY <1>1, Invariant, PTL DEF Spec, QueueOfBytes
=============================================================================
