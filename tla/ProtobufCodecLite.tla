-------------------------- MODULE ProtobufCodecLite --------------------------
(***************************************************************************)
(* muduo/net/protobuf/ProtobufCodecLite: messages in frames of a size, a   *)
(* tag, a payload and a checksum.  The bytes of the frames arrive any      *)
(* number at a time; onMessage() takes the whole ones out of the Buffer.   *)
(***************************************************************************)
EXTENDS Integers, Sequences, FiniteSets, SequencesExt

CONSTANTS
  kHeaderLen, kChecksumLen, kMaxMessageLen, tag_, TagLen,
  Payloads,      \* payloads of messages, with their byte_size
  Foreign,       \* frames that were not made by fillEmptyBuffer()
  Skipped,       \* payloads for which rawCb_ returns false
  MaxFrames      \* bound of the model: frames of a stream, and reports of errors

VARIABLES
  stream,      \* the frames the peer sends
  arrived,     \* how many of their bytes have
  buffer,      \* how many bytes, and frames, were retrieved from the Buffer
  delivered,   \* the payloads messageCallback_ was called with
  errors,      \* the error codes errorCallback_ was called with
  connected    \* kConnected; kDisconnecting after shutdown()

vars == <<stream, arrived, buffer, delivered, errors, connected>>

-----------------------------------------------------------------------------
(* Encoding *)

kMinMessageLen == TagLen + kChecksumLen

\* adler32 of tag and payload: other contents have another checksum.
checksum(tag, payload) == <<tag, payload>>

Frame(len, tag, payload, sum) == [len |-> len, tag |-> tag, payload |-> payload, checksum |-> sum]

\* The byte_size of what is written.
serializeToBuffer(payload) == Payloads[payload]

fillEmptyBuffer(payload) ==
  Frame(TagLen + serializeToBuffer(payload) + kChecksumLen, tag_, payload, checksum(tag_, payload))

Sent == {fillEmptyBuffer(p) : p \in DOMAIN Payloads}

-----------------------------------------------------------------------------
(* Decoding *)

validateChecksum(frame) == frame.checksum = checksum(frame.tag, frame.payload)

\* Fails on what is not the payload of a message.
parseFromBuffer(payload) == payload \in DOMAIN Payloads

parse(frame) ==
  IF ~validateChecksum(frame) THEN "kCheckSumError"
  ELSE IF frame.tag # tag_ THEN "kUnknownMessageType"
  ELSE IF parseFromBuffer(frame.payload) THEN "kNoError" ELSE "kParseError"

InvalidLength(len) == len > kMaxMessageLen \/ len < kMinMessageLen

\* What onMessage() carries through its loop; more is FALSE after a break.
Reading(retrieved, frames, got, errs, more) ==
  [retrieved |-> retrieved, frames |-> frames, delivered |-> got, errors |-> errs, more |-> more]

HeaderThere(readable) == readable >= kMinMessageLen + kHeaderLen

FrameThere(readable, len) == readable >= kHeaderLen + len

\* Slip: the bad frame is dropped and the next one read.
RejectDropped(r, frame, error) ==
  Reading(r.retrieved + kHeaderLen + frame.len, r.frames + 1, r.delivered, Append(r.errors, error), TRUE)

\* errorCallback_ and break: the frame stays in the Buffer.
Reject(r, frame, error) == [r EXCEPT !.errors = Append(@, error), !.more = FALSE]

\* One round of the loop, with frame next among the total bytes that have arrived.
readFrame(r, frame, total) ==
  LET readable == total - r.retrieved
      error == parse(frame)
      retrieved == [r EXCEPT !.retrieved = @ + kHeaderLen + frame.len, !.frames = @ + 1]
  IN  IF ~r.more THEN r
      ELSE IF ~HeaderThere(readable) THEN [r EXCEPT !.more = FALSE]
      ELSE IF InvalidLength(frame.len) THEN Reject(r, frame, "kInvalidLength")
      ELSE IF ~FrameThere(readable, frame.len) THEN [r EXCEPT !.more = FALSE]
      ELSE IF frame.payload \in Skipped THEN retrieved
      ELSE IF error = "kNoError" THEN [retrieved EXCEPT !.delivered = Append(@, frame.payload)]
      ELSE Reject(r, frame, error)

\* The connection is shut down at the first error.
defaultErrorCallback(errs) == connected' = (connected /\ errs = <<>>)

onMessage(total) ==
  LET start == Reading(buffer.retrieved, buffer.frames, delivered, <<>>, TRUE)
      read(r, frame) == readFrame(r, frame, total)
      end == FoldLeft(read, start, SubSeq(stream, buffer.frames + 1, Len(stream)))
  IN  /\ buffer' = [retrieved |-> end.retrieved, frames |-> end.frames]
      /\ delivered' = end.delivered
      /\ errors' = errors \o end.errors
      /\ defaultErrorCallback(end.errors)

-----------------------------------------------------------------------------
(* The bytes of a frame that says it is invalid are taken to be as many as
   another one has. *)

BytesOf(frame) == kHeaderLen + (IF InvalidLength(frame.len) THEN kMaxMessageLen ELSE frame.len)
Total(n) == FoldLeft(LAMBDA sum, frame : sum + BytesOf(frame), 0, SubSeq(stream, 1, n))

Streams == UNION {[1..n -> Sent \cup Foreign] : n \in 1..MaxFrames}

\* A new codec, and an empty Buffer.
Fresh ==
  /\ arrived = 0 /\ buffer = [retrieved |-> 0, frames |-> 0]
  /\ delivered = <<>> /\ errors = <<>> /\ connected = TRUE

Init == stream \in Streams /\ Fresh

\* TcpConnection::handleRead() has read n bytes.
receive(n) ==
  /\ arrived + n <= Total(Len(stream)) /\ Len(errors) < MaxFrames
  /\ arrived' = arrived + n
  /\ onMessage(arrived + n)
  /\ UNCHANGED stream

Next == \E n \in 1..MaxFrames * (kHeaderLen + kMaxMessageLen) : receive(n)

Spec == Init /\ [][Next]_vars
-----------------------------------------------------------------------------
(* Properties *)

TypeOK ==
  /\ buffer.frames \in 0..Len(stream) /\ buffer.retrieved \in 0..arrived
  /\ delivered \in Seq(DOMAIN Payloads) /\ Len(delivered) <= buffer.frames
  /\ errors \in Seq({"kInvalidLength", "kCheckSumError", "kUnknownMessageType", "kParseError"})
  /\ connected \in BOOLEAN

\* A frame that a codec with this tag could have sent.
Good(frame) ==
  /\ kMinMessageLen <= frame.len /\ frame.len <= kMaxMessageLen
  /\ frame.tag = tag_ /\ frame.payload \in DOMAIN Payloads
  /\ frame.checksum = checksum(tag_, frame.payload)

\* The first frame that is neither good nor skipped; behind the last when there is none.
FirstBad ==
  LET passed(frame) == /\ kMinMessageLen <= frame.len /\ frame.len <= kMaxMessageLen
                       /\ Good(frame) \/ frame.payload \in Skipped
  IN  Min({k \in 1..Len(stream) : ~passed(stream[k])} \cup {Len(stream) + 1})

\* However the bytes are cut: as soon as a message is whole it has been delivered,
\* once and in order; nothing behind the first bad frame ever is
\* (ProtobufCodecLite.cc:58-97).
DeliveredWhenWhole ==
  LET whole == Max({k \in 0..FirstBad - 1 : Total(k) <= arrived})
      good == SelectSeq(SubSeq(stream, 1, whole), LAMBDA frame : frame.payload \notin Skipped)
  IN  delivered = [k \in 1..Len(good) |-> good[k].payload]

\* The bad frame is reported with the first check it fails, by each message from
\* then on, and the connection is shut down at the first report
\* (ProtobufCodecLite.cc:65-68, 86-90, 192-225).
BadFrameReported ==
  /\ connected <=> errors = <<>>
  /\ errors # <<>> => FirstBad <= Len(stream) /\ buffer.frames = FirstBad - 1
  /\ \A k \in 1..Len(errors) :
       LET frame == stream[FirstBad]
       IN  /\ (errors[k] = "kInvalidLength") <=> frame.len \notin kMinMessageLen..kMaxMessageLen
           /\ errors[k] = "kUnknownMessageType" => frame.tag # tag_
           /\ errors[k] = "kParseError" => frame.tag = tag_
  /\ FirstBad <= Len(stream) /\ arrived >= Total(FirstBad) => errors # <<>>
=============================================================================
