----------------------------- MODULE ZlibStream -----------------------------
(***************************************************************************)
(* ZlibOutputStream of muduo/net/ZlibStream.h: a stream compresses what is *)
(* written to it, from memory of the caller or from a Buffer, into an      *)
(* output Buffer.                                                          *)
(*                                                                         *)
(* Bytes are numbered as the caller has them to write.  Compression is the *)
(* identity with delay: deflate() goes on until it has no input or no room *)
(* for output, and may keep what it took to itself until Z_FINISH.         *)
(***************************************************************************)
EXTENDS Integers, Sequences, SequencesExt, FiniteSetsExt

CONSTANTS FirstSize, LastSize,   \* the first bufferSize_ (1024), and where it stops (65536)
          MaxBytes               \* bound of the model: bytes that are written

VARIABLES
  zerror_, bufferSize_,
  next_in, avail_in,   \* of zstream_: whether it is NULL, and how much is there
  kept,                \* what deflate() has taken and not put out
  output_, writable,   \* the bytes in the output, and its writableBytes()
  input,               \* what the caller's Buffer holds
  given,               \* how many bytes the caller has written or put into its Buffer
  from,                \* what the caller has written from so far
  at,                  \* where it is: "idle", "write" or "finish"
  aborted              \* an assert failed

vars == <<zerror_, bufferSize_, next_in, avail_in, kept, output_, writable, input, given, from,
          at, aborted>>
zVars == <<zerror_, bufferSize_, next_in, avail_in, kept, output_, writable>>

Init ==
  /\ zerror_ = "Z_OK" /\ bufferSize_ = FirstSize
  /\ next_in = "NULL" /\ avail_in = 0 /\ kept = <<>>
  /\ output_ = <<>> /\ writable \in 0..(FirstSize + 1)
  /\ input = <<>> /\ given = 0 /\ from = {} /\ at = "idle" /\ aborted = FALSE

\* The bytes deflate() is shown: the last avail_in of those it has not taken.
Taken == Len(output_) + Len(kept)

Idle == at = "idle" /\ ~aborted

-----------------------------------------------------------------------------
\* output_->ensureWritableBytes(bufferSize_)
room == Max({writable, bufferSize_})

\* bufferSize_ is doubled when the room was used up, up to 65536.
sizeAfter(left) == IF left = 0 /\ bufferSize_ < LastSize THEN 2 * bufferSize_ ELSE bufferSize_

\* compress() with Z_NO_FLUSH or Z_FINISH, shown in bytes: deflate() takes n of them and
\* puts m bytes out; at the end it may say so at once, or when it is called again, if the
\* room is just used up.
compress(in, finish) ==
  \E n \in 0..in, m \in 0..room :
    LET taken == kept \o [i \in 1..n |-> Taken + i]
        whole == finish /\ n = in /\ m = Len(taken)
    IN
    /\ m <= Len(taken) /\ (n = in \/ m = room)
    /\ finish => m = Min({Len(taken), room})
    /\ output_' = output_ \o SubSeq(taken, 1, m)
    /\ kept' = SubSeq(taken, m + 1, Len(taken))
    /\ avail_in' = in - n
    /\ writable' = room - m
    /\ bufferSize_' = sizeAfter(room - m)
    /\ zerror_' \in {e \in {"Z_OK", "Z_STREAM_END"} : (e = "Z_STREAM_END" => whole)
                                                     /\ (whole /\ m < room => e # "Z_OK")}

-----------------------------------------------------------------------------
\* write(StringPiece), by a caller whose Buffer, if it has one, is empty

write(len) ==
  /\ Idle /\ zerror_ = "Z_OK" /\ input = <<>> /\ given + len <= MaxBytes
  /\ from' = from \cup {"memory"}
  /\ IF next_in # "NULL" \/ avail_in # 0
     THEN aborted' = TRUE /\ UNCHANGED <<zVars, input, given, at>>
     ELSE /\ next_in' = "memory" /\ avail_in' = len /\ given' = given + len /\ at' = "write"
          /\ UNCHANGED <<zerror_, bufferSize_, kept, output_, writable, input, aborted>>

writeStep ==
  /\ at = "write" /\ avail_in > 0
  /\ compress(avail_in, FALSE)
  /\ UNCHANGED <<next_in, input, given, from, at, aborted>>

writeEnd ==
  /\ at = "write" /\ avail_in = 0
  /\ next_in' = "NULL" /\ at' = "idle"
  /\ UNCHANGED <<zerror_, bufferSize_, avail_in, kept, output_, writable, input, given, from, aborted>>

-----------------------------------------------------------------------------
\* write(Buffer*)

\* The caller puts bytes into its Buffer.
fill ==
  /\ Idle /\ given < MaxBytes
  /\ given' = given + 1 /\ input' = Append(input, given + 1)
  /\ UNCHANGED <<zVars, from, at, aborted>>

\* Slip: the Buffer is emptied, whatever was taken of it.
retrievedAll == <<>>

\* input->retrieve(input->readableBytes() - zstream_.avail_in)
retrieved == SubSeq(input, Len(input) - avail_in' + 1, Len(input))

writeBuffer ==
  /\ Idle /\ zerror_ = "Z_OK"
  /\ from' = from \cup {"Buffer"} /\ next_in' = "Buffer"
  /\ IF input # <<>>
     THEN compress(Len(input), FALSE)
     ELSE avail_in' = 0 /\ UNCHANGED <<zerror_, bufferSize_, kept, output_, writable>>
  /\ input' = retrieved
  /\ UNCHANGED <<given, at, aborted>>

-----------------------------------------------------------------------------
(* finish(), which the destructor calls too. *)

finish ==
  /\ Idle /\ zerror_ = "Z_OK"
  /\ at' = "finish"
  /\ UNCHANGED <<zVars, input, given, from, aborted>>

finishStep ==
  /\ at = "finish" /\ zerror_ = "Z_OK"
  /\ compress(avail_in, TRUE)
  /\ UNCHANGED <<next_in, input, given, from, at, aborted>>

\* deflateEnd(), and zerror_ = Z_STREAM_END
finishEnd ==
  /\ at = "finish" /\ zerror_ # "Z_OK"
  /\ zerror_' = "Z_STREAM_END" /\ at' = "idle"
  /\ UNCHANGED <<bufferSize_, next_in, avail_in, kept, output_, writable, input, given, from, aborted>>

Next ==
  \/ \E len \in 1..MaxBytes : write(len)
  \/ writeStep \/ writeEnd \/ fill \/ writeBuffer
  \/ finish \/ finishStep \/ finishEnd

Spec == Init /\ [][Next]_vars /\ WF_vars(writeStep \/ writeEnd \/ finishStep \/ finishEnd)
-----------------------------------------------------------------------------
(* Properties *)

\* The types of the members, and the bound of bufferSize_ (ZlibStream.h:131-134).
TypeOK ==
  /\ zerror_ \in {"Z_OK", "Z_STREAM_END"} /\ next_in \in {"NULL", "memory", "Buffer"}
  /\ avail_in \in 0..MaxBytes /\ writable \in Nat /\ bufferSize_ \in FirstSize..LastSize
  /\ given \in 0..MaxBytes /\ at \in {"idle", "write", "finish"}

\* "assert(zstream_.next_in == NULL && zstream_.avail_in == 0);" (ZlibStream.h:75): a
\* write from memory finds no input of an earlier write, unless that was one from a Buffer,
\* which leaves next_in set (line 98): then the assert fails.
NextInClear == aborted => "Buffer" \in from

\* Bytes are compressed once and in order, however little room deflate() finds and
\* however much of the Buffer a write leaves for the next one; between two writes the
\* Buffer holds what was not compressed yet, and a finished stream has put out all
\* that was taken (ZlibStream.h:70-136).
CompressedInOrder ==
  /\ output_ \o kept = [i \in 1..Taken |-> i] /\ Taken <= given
  /\ at = "idle" /\ zerror_ = "Z_OK" => input = [i \in 1..(given - Taken) |-> Taken + i]
  /\ zerror_ = "Z_STREAM_END" => kept = <<>> /\ avail_in = 0

\* write() and finish() return: every turn of their loops finds room (ZlibStream.h:79,
\* 113, 126).
LoopsEnd == (at # "idle") ~> (at = "idle")
=============================================================================
