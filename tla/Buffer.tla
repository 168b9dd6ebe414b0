------------------------------- MODULE Buffer -------------------------------
(***************************************************************************)
(* muduo/net/Buffer.h and Buffer.cc: a vector of bytes with room in front, *)
(* readable bytes between readerIndex_ and writerIndex_, and room behind.  *)
(* Bytes outside the readable ones are stale.                              *)
(***************************************************************************)
EXTENDS Integers, Sequences, FiniteSets, FiniteSetsExt

CONSTANTS
  Byte, Zero, CR, LF,           \* bytes, and three of them
  kCheapPrepend, kInitialSize,
  ExtraSize,                    \* of extrabuf in readFd()
  IntSizes,                     \* sizeof(int8_t), ...
  MaxReadable, MaxData          \* bounds of the model: readable bytes, bytes of a call

ASSUME BufferAssumption ==
  /\ {kCheapPrepend, kInitialSize, ExtraSize, MaxReadable, MaxData} \subseteq Nat \ {0}
  /\ {Zero, CR, LF} \subseteq Byte /\ CR # LF /\ IntSizes \subseteq Nat \ {0}

\* What a call brings: up to n bytes.
Data(n) == UNION {[1..k -> Byte] : k \in 0..n}

\* A Buffer: buffer_ is a function on 0..size - 1.
VARIABLE buf

-----------------------------------------------------------------------------
(* Operators on a Buffer b. *)

\* The members.
Members(v, n, reader, writer) ==
  [buffer_ |-> v, size |-> n, readerIndex_ |-> reader, writerIndex_ |-> writer]

EmptyBuffer(initialSize) ==
  LET n == kCheapPrepend + initialSize
  IN  Members([i \in 0..n - 1 |-> Zero], n, kCheapPrepend, kCheapPrepend)

readableBytes(b) == b.writerIndex_ - b.readerIndex_
writableBytes(b) == b.size - b.writerIndex_
prependableBytes(b) == b.readerIndex_

\* toStringPiece(): the readable bytes.
toStringPiece(b) == [i \in 1..readableBytes(b) |-> b.buffer_[b.readerIndex_ + i - 1]]

\* std::copy() of s to index at of the vector v.
Copied(v, s, at) == [i \in DOMAIN v |-> IF at <= i /\ i < at + Len(s) THEN s[i - at + 1] ELSE v[i]]

\* vector::resize(): zeros behind what is there.
Resized(b, n) ==
  Members([i \in 0..n - 1 |-> IF i < b.size THEN b.buffer_[i] ELSE Zero], n,
          b.readerIndex_, b.writerIndex_)

\* Slip: the room to keep in front is forgotten.
GrowsWhole(b, len) == writableBytes(b) + prependableBytes(b) < len

\* makeSpace() must grow the vector: moving the bytes would not be enough.
Grows(b, len) == writableBytes(b) + prependableBytes(b) < len + kCheapPrepend

\* The readable bytes are moved to the front.
Moved(b) ==
  Members(Copied(b.buffer_, toStringPiece(b), kCheapPrepend), b.size,
          kCheapPrepend, kCheapPrepend + readableBytes(b))

makeSpace(b, len) == IF Grows(b, len) THEN Resized(b, b.writerIndex_ + len) ELSE Moved(b)

ensureWritableBytes(b, len) == IF writableBytes(b) < len THEN makeSpace(b, len) ELSE b

\* std::copy() to beginWrite(), and hasWritten().
Written(b, s) ==
  Members(Copied(b.buffer_, s, b.writerIndex_), b.size, b.readerIndex_, b.writerIndex_ + Len(s))

Appended(b, s) == Written(ensureWritableBytes(b, Len(s)), s)

-----------------------------------------------------------------------------
(* Operations. *)

append(s) == buf' = Appended(buf, s)

\* The same bytes between other indexes.
Indexed(reader, writer) == Members(buf.buffer_, buf.size, reader, writer)

retrieveAll == buf' = Indexed(kCheapPrepend, kCheapPrepend)

\* Slip: the last byte goes with the others.
LeavesReadableMore(len) == len + 1 < readableBytes(buf)

LeavesReadable(len) == len < readableBytes(buf)

retrieve(len) ==
  /\ len <= readableBytes(buf)
  /\ IF LeavesReadable(len) THEN buf' = Indexed(buf.readerIndex_ + len, buf.writerIndex_)
     ELSE retrieveAll

unwrite(len) ==
  /\ len <= readableBytes(buf)
  /\ buf' = Indexed(buf.readerIndex_, buf.writerIndex_ - len)

prepend(s) ==
  /\ Len(s) <= prependableBytes(buf)
  /\ LET at == buf.readerIndex_ - Len(s) IN
     buf' = Members(Copied(buf.buffer_, s, at), buf.size, at, buf.writerIndex_)

\* A new buffer with room for reserve more bytes, swapped in.
shrink(reserve) ==
  LET other == ensureWritableBytes(EmptyBuffer(kInitialSize), readableBytes(buf) + reserve)
  IN  buf' = Appended(other, toStringPiece(buf))

\* readFd() when readv(2) reads s: into the buffer, and what does not fit into
\* extrabuf, from where it is appended.
readFd(s) ==
  LET writable == writableBytes(buf) IN
  /\ Len(s) <= writable + (IF writable < ExtraSize THEN ExtraSize ELSE 0)
  /\ buf' = IF Len(s) <= writable THEN Written(buf, s)
            ELSE Appended(Written(buf, SubSeq(s, 1, writable)), SubSeq(s, writable + 1, Len(s)))

-----------------------------------------------------------------------------
(* Integers of w bytes, as the host holds them: the lowest byte first. *)

IntOf(w) == [1..w -> Byte]

\* hostToNetwork() and networkToHost(): the highest byte first, and back.
Swapped(x) == [i \in 1..Len(x) |-> x[Len(x) + 1 - i]]

appendInt(x) == append(Swapped(x))
prependInt(x) == prepend(Swapped(x))

\* peekInt8() to peekInt64(), and readInt8() to readInt64(); w bytes are there.
peekInt(w) == Swapped(SubSeq(toStringPiece(buf), 1, w))
readInt(w) == w <= readableBytes(buf) /\ retrieve(w)

-----------------------------------------------------------------------------
(* Searching from an index on; -1 is NULL. *)

\* Slip: the last byte is compared with what lies behind it.
findCRLFPast(start) ==
  LET from[i \in 0..buf.size] ==
        IF i >= buf.writerIndex_ \/ i + 1 >= buf.size THEN -1
        ELSE IF buf.buffer_[i] = CR /\ buf.buffer_[i + 1] = LF THEN i ELSE from[i + 1]
  IN  from[start]

\* std::search() for CR LF.
findCRLF(start) ==
  LET from[i \in 0..buf.size] ==
        IF i + 1 >= buf.writerIndex_ THEN -1
        ELSE IF buf.buffer_[i] = CR /\ buf.buffer_[i + 1] = LF THEN i ELSE from[i + 1]
  IN  from[start]

\* memchr() for LF.
findEOL(start) ==
  LET from[i \in 0..buf.size] ==
        IF i >= buf.writerIndex_ THEN -1 ELSE IF buf.buffer_[i] = LF THEN i ELSE from[i + 1]
  IN  from[start]

-----------------------------------------------------------------------------

Init == buf = EmptyBuffer(kInitialSize)

Room(n) == readableBytes(buf) + n <= MaxReadable

Next ==
  \/ \E s \in Data(MaxData) : Room(Len(s)) /\ (append(s) \/ prepend(s) \/ readFd(s))
  \/ \E w \in IntSizes : Room(w) /\ \E x \in IntOf(w) : appendInt(x) \/ prependInt(x)
  \/ \E len \in 0..MaxData : retrieve(len) \/ unwrite(len) \/ shrink(len)
  \/ \E w \in IntSizes : readInt(w)
  \/ retrieveAll

Spec == Init /\ [][Next]_buf
-----------------------------------------------------------------------------
(* Properties *)

\* The picture in the comment of the class (Buffer.h:40):
\* 0 <= readerIndex <= writerIndex <= size.
TypeOK ==
  /\ buf.size \in Nat /\ buf.buffer_ \in [0..buf.size - 1 -> Byte]
  /\ buf.readerIndex_ \in 0..buf.writerIndex_ /\ buf.writerIndex_ \in 0..buf.size

\* In whatever state a mix of calls left it, the buffer can make room for any
\* length: the bytes are moved only when there is something to gain (the assert
\* of makeSpace(), Buffer.h:400), and there is as much room as was asked for
\* (the assert of ensureWritableBytes(), Buffer.h:200).
SpaceCanBeMade ==
  \A len \in 0..MaxReadable + buf.size :
    /\ writableBytes(buf) < len /\ ~Grows(buf, len) => kCheapPrepend < buf.readerIndex_
    /\ writableBytes(ensureWritableBytes(buf, len)) >= len

\* The buffer is a queue of bytes: growing, moving, shrinking and reading in two
\* parts never lose, change or reorder a readable byte.
QueueOfBytes ==
  [][LET old == toStringPiece(buf)
         new == toStringPiece(buf')
     IN  /\ \A s \in Data(MaxData) :
              /\ append(s) \/ readFd(s) => new = old \o s
              /\ prepend(s) => new = s \o old
         /\ \A w \in IntSizes : \A x \in IntOf(w) : prependInt(x) => peekInt(w)' = x
         /\ \A n \in 0..MaxData :
              /\ shrink(n) => new = old
              /\ retrieve(n) => new = SubSeq(old, n + 1, Len(old))
              /\ unwrite(n) => new = SubSeq(old, 1, Len(old) - n)]_buf

\* findCRLF() and findEOL() find the first line end among the readable bytes,
\* and never one that a stale byte completes (Buffer.h:80-108).
FindsFirstLine ==
  LET from == buf.readerIndex_
      to == buf.writerIndex_
      crlf == {i \in from..to - 2 : buf.buffer_[i] = CR /\ buf.buffer_[i + 1] = LF}
      eol == {i \in from..to - 1 : buf.buffer_[i] = LF}
  IN  /\ findCRLF(from) = IF crlf = {} THEN -1 ELSE Min(crlf)
      /\ findEOL(from) = IF eol = {} THEN -1 ELSE Min(eol)
=============================================================================
