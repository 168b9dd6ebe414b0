---------------------------- MODULE ReadSmallFile ---------------------------
(***************************************************************************)
(* ReadSmallFile and readFile of muduo/base/FileUtil: the first maxSize    *)
(* bytes of a file are read into a string, a buffer at a time, or the      *)
(* buffer is filled once, while other processes may append to the file or  *)
(* truncate it.  A file is its length, and its bytes are their places.     *)
(***************************************************************************)
EXTENDS Integers, FiniteSetsExt

CONSTANTS kBufferSize,           \* sizeof(buf_)
          MaxSizes,              \* what maxSize may be
          MaxLength, MaxWrites   \* bounds of the model: of the file, and of its changes

VARIABLES
  kind, length,   \* "file", "dir" or "absent"; the file's length now
  writes, least,  \* how often it has changed, and its least length since the open
  at,             \* "open", "stat", "read", "buffer" or "done"
  how,            \* readToString() without or with a fileSize to be set, or readToBuffer()
  maxSize,
  fd, err,        \* whether it is open; the errno to be returned
  content, fileSize   \* how many bytes have been read; -1 before it is known

vars == <<kind, length, writes, least, at, how, maxSize, fd, err, content, fileSize>>
file == <<kind, length, writes, least>>

Init ==
  /\ kind \in {"file", "dir", "absent"} /\ length \in 0..MaxLength /\ writes = 0 /\ least = length
  /\ at = "open" /\ maxSize \in MaxSizes /\ how \in {"string", "sized", "buffer"}
  /\ fd = FALSE /\ err = "0" /\ content = 0 /\ fileSize = -1

\* The constructor; a file that cannot be opened is not read.
open ==
  /\ at = "open"
  /\ fd' = (kind # "absent")
  /\ err' = IF kind = "absent" THEN "ENOENT" ELSE "0"
  /\ at' = IF kind = "absent" THEN "done"
           ELSE [string |-> "read", sized |-> "stat", buffer |-> "buffer"][how]
  /\ least' = length
  /\ UNCHANGED <<kind, length, writes, how, maxSize, content, fileSize>>

\* fstat(); when it fails the file is read all the same.
fstat(ok) ==
  /\ at = "stat"
  /\ fileSize' = IF ok /\ kind = "file" THEN length ELSE fileSize
  /\ err' = IF ~ok THEN "EIO" ELSE IF kind = "dir" THEN "EISDIR" ELSE err
  /\ at' = "read"
  /\ UNCHANGED <<file, how, maxSize, fd, content>>

\* std::min(maxSize - content->size(), sizeof(buf_))
toRead == Min({maxSize - content, kBufferSize})

\* Slip: an error of an earlier step is forgotten.
errKeptNot(n) == IF n < 0 THEN "EIO" ELSE "0"

\* What err is after a read that returned n.
errKept(n) == IF n < 0 THEN "EIO" ELSE err

\* One turn of the loop; a directory cannot be read.
read ==
  /\ at = "read" /\ content < maxSize
  /\ \E n \in -1..toRead :
       /\ n > 0 => kind = "file" /\ content + n <= length
       /\ n = 0 => kind = "file" /\ content >= length
       /\ content' = IF n > 0 THEN content + n ELSE content
       /\ err' = errKept(n)
       /\ at' = IF n > 0 THEN "read" ELSE "done"
  /\ UNCHANGED <<file, how, maxSize, fd, fileSize>>

\* The string is full.
readEnd ==
  /\ at = "read" /\ content >= maxSize
  /\ at' = "done"
  /\ UNCHANGED <<file, how, maxSize, fd, err, content, fileSize>>

\* readToBuffer(): one pread() that leaves room for the terminating '\0'.
readToBuffer ==
  /\ at = "buffer"
  /\ \E n \in -1..(kBufferSize - 1) :
       /\ n >= 0 => kind = "file" /\ n <= length
       /\ content' = IF n >= 0 THEN n ELSE content
       /\ err' = errKept(n)
  /\ at' = "done"
  /\ UNCHANGED <<file, how, maxSize, fd, fileSize>>

\* The file changes.
change(l) ==
  /\ kind = "file" /\ writes < MaxWrites /\ l # length
  /\ length' = l /\ writes' = writes + 1 /\ least' = Min({least, l})
  /\ UNCHANGED <<kind, at, how, maxSize, fd, err, content, fileSize>>

Next ==
  \/ open \/ read \/ readEnd \/ readToBuffer
  \/ \E ok \in BOOLEAN : fstat(ok)
  \/ \E l \in 0..MaxLength : change(l)

Spec == Init /\ [][Next]_vars
-----------------------------------------------------------------------------
(* Properties *)

\* The types of the members.
TypeOK ==
  /\ at \in {"open", "stat", "read", "buffer", "done"} /\ fd \in BOOLEAN /\ content \in Nat
  /\ fileSize \in -1..MaxLength /\ err \in {"0", "ENOENT", "EIO", "EISDIR"}

\* No more is read than was asked for, and behind the buffer there is room for its '\0';
\* a call of readToString() that returns 0 has read the beginning of a file, at least as
\* much of it as was there all the time, up to maxSize, and it has learnt fileSize if it
\* wanted to: no error of an earlier step gets lost (FileUtil.cc:95-169).
ReadWhole ==
  /\ IF how = "buffer" THEN content < kBufferSize ELSE content <= maxSize
  /\ at = "done" /\ err = "0" =>
       /\ kind = "file" \/ (maxSize = 0 /\ how # "buffer")
       /\ kind = "file" /\ how # "buffer" => content >= Min({maxSize, least})
       /\ how = "sized" /\ kind = "file" => fileSize >= 0
=============================================================================
