------------------------------ MODULE LogFile ------------------------------
(***************************************************************************)
(* muduo/base/LogFile.cc over AppendFile of FileUtil.cc: a log that is     *)
(* continued in a new file when the present one is too big or of another   *)
(* day.  A file is named by the second it was opened in; stdio keeps what  *)
(* is appended in a buffer of the process, which a crash destroys.         *)
(*                                                                         *)
(* Lines are numbered as append() gets them, under mutex_ or from a single *)
(* thread, and have length 1.  The wall clock may be set back.  fflush()   *)
(* and fclose() do not fail; AppendFile does not look at their results.    *)
(***************************************************************************)
EXTENDS Integers, Sequences, FiniteSets, SequencesExt

CONSTANTS rollSize_, flushInterval_, checkEveryN_,
          kRollPerSeconds_,
          StdioSize,           \* sizeof buffer_, in lines
          MaxLines, MaxTime,   \* bounds of the model
          MaxFaults            \* bound of the model: how often a write fails or the clock
                               \* is set back

VARIABLES
  clock,                       \* time(NULL)
  setBacks,                    \* how often the clock was set back
  count_, startOfPeriod_, lastRoll_, lastFlush_,
  file_,                       \* the AppendFile: name, writtenBytes_ and its lines, in the
                               \* file (disk) and in the buffer of stdio (pending)
  closed,                      \* the files before it
  time,                        \* history: when each line was appended
  failed,                      \* history: the lines that could not be written
  crashed

rollVars == <<startOfPeriod_, lastRoll_, lastFlush_, file_, closed>>
vars == <<clock, setBacks, count_, rollVars, time, failed, crashed>>

\* AppendFile::AppendFile()
NewFile(name) == [name |-> name, writtenBytes_ |-> 0, disk |-> <<>>, pending |-> <<>>]

\* fflush(), and what fclose() does first.
Flushed(f) == [f EXCEPT !.disk = @ \o f.pending, !.pending = <<>>]

\* Slip: a full buffer is begun again and not written.
WrittenOver(f, l) ==
  [f EXCEPT !.pending = IF Len(f.pending) = StdioSize THEN <<l>> ELSE Append(@, l)]

\* fwrite_unlocked() of a line: a full buffer is written first.
Written(f, l) ==
  LET g == IF Len(f.pending) = StdioSize THEN Flushed(f) ELSE f
  IN [g EXCEPT !.pending = Append(@, l)]

\* AppendFile::append(): when write() gives up the line is lost, and counted.
Appended(f, l, ok) ==
  [(IF ok THEN Written(f, l) ELSE f) EXCEPT !.writtenBytes_ = @ + 1]

Period(t) == (t \div kRollPerSeconds_) * kRollPerSeconds_

\* Slip: a second file may be opened in the same second.
MayRollAgain(t) == t >= lastRoll_

\* if (now > lastRoll_)
MayRoll(t) == t > lastRoll_

\* rollFile() with time(NULL) = t; f is the file that it may close.
rollFile(f, t) ==
  IF MayRoll(t)
  THEN /\ lastRoll_' = t /\ lastFlush_' = t /\ startOfPeriod_' = Period(t)
       /\ file_' = NewFile(t) /\ closed' = Append(closed, Flushed(f))
  ELSE file_' = f /\ UNCHANGED <<lastRoll_, lastFlush_, startOfPeriod_, closed>>

\* The constructor, which rolls to the first file.
Init ==
  /\ clock = 1 /\ setBacks = 0
  /\ count_ = 0 /\ startOfPeriod_ = Period(clock) /\ lastRoll_ = clock /\ lastFlush_ = clock
  /\ file_ = NewFile(clock) /\ closed = <<>>
  /\ time = <<>> /\ failed = {} /\ crashed = FALSE

MoreFaults == setBacks + Cardinality(failed) < MaxFaults

-----------------------------------------------------------------------------
\* ++count_; if (count_ >= checkEveryN_)
TimeToCheck == count_ + 1 >= checkEveryN_

\* Slip: the time of the last flush is not looked at.
FlushNeverDue(t) == t < lastFlush_

\* else if (now - lastFlush_ > flushInterval_)
FlushDue(t) == t - lastFlush_ > flushInterval_

\* The part of append_unlocked() behind file_->append(); rollFile() reads the clock
\* again, at t.
AfterAppend(f, t) ==
  IF f.writtenBytes_ > rollSize_
  THEN rollFile(f, t) /\ UNCHANGED count_
  ELSE IF ~TimeToCheck
  THEN file_' = f /\ count_' = count_ + 1
       /\ UNCHANGED <<startOfPeriod_, lastRoll_, lastFlush_, closed>>
  ELSE /\ count_' = 0
       /\ IF Period(clock) # startOfPeriod_
          THEN rollFile(f, t)
          ELSE IF FlushDue(clock)
          THEN lastFlush_' = clock /\ file_' = Flushed(f)
               /\ UNCHANGED <<startOfPeriod_, lastRoll_, closed>>
          ELSE file_' = f /\ UNCHANGED <<startOfPeriod_, lastRoll_, lastFlush_, closed>>

\* append(); the clock may tick before rollFile() reads it, and the write may fail.
append(ok, t) ==
  LET l == Len(time) + 1 IN
  /\ ~crashed /\ l <= MaxLines /\ t \in clock..(clock + 1)
  /\ ok \/ MoreFaults
  /\ time' = Append(time, clock) /\ clock' = t
  /\ failed' = IF ok THEN failed ELSE failed \cup {l}
  /\ AfterAppend(Appended(file_, l, ok), t)
  /\ UNCHANGED <<setBacks, crashed>>

\* flush(); what ~LogFile() does to the file is the same.
flush ==
  /\ ~crashed /\ file_.pending # <<>>
  /\ file_' = Flushed(file_)
  /\ UNCHANGED <<clock, setBacks, count_, startOfPeriod_, lastRoll_, lastFlush_, closed, time,
                 failed, crashed>>

\* rollFile(), which is public.
Roll ==
  /\ ~crashed /\ rollFile(file_, clock)
  /\ UNCHANGED <<clock, setBacks, count_, time, failed, crashed>>

Tick ==
  /\ ~crashed /\ clock < MaxTime /\ clock' = clock + 1
  /\ UNCHANGED <<setBacks, count_, rollVars, time, failed, crashed>>

SetBack ==
  /\ ~crashed /\ MoreFaults /\ setBacks' = setBacks + 1
  /\ clock' \in 1..(clock - 1)
  /\ UNCHANGED <<count_, rollVars, time, failed, crashed>>

\* The process ends without running destructors: abort(), or a signal.
Crash ==
  /\ ~crashed /\ crashed' = TRUE
  /\ file_' = [file_ EXCEPT !.pending = <<>>]
  /\ UNCHANGED <<clock, setBacks, count_, startOfPeriod_, lastRoll_, lastFlush_, closed, time,
                 failed>>

Next ==
  \/ \E ok \in BOOLEAN, t \in 1..MaxTime : append(ok, t)
  \/ flush \/ Roll \/ Tick \/ SetBack \/ Crash

Spec == Init /\ [][Next]_vars
-----------------------------------------------------------------------------
(* Properties *)

Files == Append(closed, file_)
LinesOf(f) == f.disk \o f.pending
AllLines == FlattenSeq([i \in DOMAIN Files |-> LinesOf(Files[i])])

\* The types of the members.
TypeOK ==
  /\ clock \in 1..MaxTime /\ setBacks \in 0..MaxFaults /\ count_ \in 0..checkEveryN_
  /\ {startOfPeriod_, lastRoll_, lastFlush_} \subseteq 0..MaxTime
  /\ \A f \in ToSet(Files) : LinesOf(f) \in Seq(1..MaxLines) /\ Len(f.pending) <= StdioSize
  /\ time \in Seq(1..MaxTime) /\ failed \subseteq 1..MaxLines /\ crashed \in BOOLEAN

\* Every line whose write did not fail is in one file, and the files hold them in
\* order, however append() rolls and flushes (LogFile.cc:64-108); a crash takes the
\* last ones away and leaves no gap.
LinesInOrder ==
  LET written == SelectSeq([i \in DOMAIN time |-> i], LAMBDA i : i \notin failed) IN
  IF crashed THEN IsPrefix(AllLines, written) ELSE AllLines = written

\* No file is opened twice, so that none is appended to by name: fopen() with "a"
\* would go on behind lines of another time.  This holds when the clock is set back
\* too (LogFile.cc:99).
NamesDiffer == \A i, j \in DOMAIN Files : i < j => Files[i].name < Files[j].name

\* A file grows beyond rollSize_ only in the second in which it was opened, or while
\* the clock has been set back: every line but the last of a file that is too big
\* was written when rollFile() would not open another (LogFile.cc:68-71, 99).
GrowsForASecond ==
  \A i \in DOMAIN Files :
    LET f == Files[i]
        lines == LinesOf(f)
    IN \A k \in DOMAIN lines : k > rollSize_ /\ k < Len(lines) => time[lines[k]] <= f.name

\* A file holds at most checkEveryN_ lines of another day (LogFile.cc:74-83).
OfOneDay ==
  setBacks = 0 =>
    \A f \in ToSet(Files) :
      Cardinality({l \in ToSet(LinesOf(f)) : Period(time[l]) # Period(f.name)}) <= checkEveryN_

\* While the clock is not set back, no line that waits in the buffer of stdio is older than
\* lastFlush_, and fewer than checkEveryN_ are more than flushInterval_ seconds younger: the
\* next look at the clock flushes them all.  A file that is too big is not looked at, and
\* rolls instead when its second is over (LogFile.cc:68-90).
FlushedInTime ==
  LET waiting == ToSet(file_.pending) IN
  setBacks = 0 =>
    /\ \A l \in waiting : time[l] >= lastFlush_
    /\ Cardinality({l \in waiting : time[l] > lastFlush_ + flushInterval_}) < checkEveryN_
=============================================================================
