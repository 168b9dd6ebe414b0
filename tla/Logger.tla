------------------------------- MODULE Logger -------------------------------
(***************************************************************************)
(* muduo/base/Logging.cc over LogStream.h: threads log lines.  A Logger    *)
(* lives on the stack of its thread: its constructor stamps the line, the  *)
(* user streams into it, its destructor ends the line and gives it to      *)
(* g_output.  The text of the present second is cached in each thread; the *)
(* settings g_... are shared and not protected.                            *)
(*                                                                         *)
(* A line is what was streamed: pieces of some length, kept or left out.   *)
(* What a thread streams between constructor and destructor concerns it    *)
(* alone and is part of the step of the destructor.  setTimeZone() is      *)
(* called while no thread is in formatTime().                              *)
(***************************************************************************)
EXTENDS Integers, Sequences, FiniteSets, SequencesExt

CONSTANTS Threads,
          Zones,             \* time zones; UTC is the invalid TimeZone
          UTC,
          Levels,            \* the levels that are logged with, of 0..FATAL
          FATAL,
          kSmallBuffer, kMaxNumericSize,
          Bodies,            \* what is streamed: sequences of lengths, 0 for a number
          NumberLen,         \* the length of a number, below kMaxNumericSize
          Sinks,             \* what g_output writes to and g_flush flushes
          Stdout,            \* the one of defaultOutput() and defaultFlush()
          MaxSecond, MaxLines, MaxSets    \* bounds of the model

VARIABLES
  clock,                     \* the second of Timestamp::now()
  g_logLevel, g_logTimeZone, g_output, g_flush,
  sets,                      \* how often these were set
  zoneSet,                   \* history: the seconds that a thread had cached, with the
                             \* thread, when setTimeZone() was called
  t_lastSecond, t_time,      \* the cached second and its text, of each thread
  logger,                    \* the Logger of each thread, and where it is
  sink,                      \* the lines each sink got, and those that are flushed
  begun,                     \* how many lines were begun
  aborted                    \* the thread that called abort(), if any

settings == <<g_logLevel, g_logTimeZone, g_output, g_flush, sets, zoneSet>>
vars == <<clock, settings, t_lastSecond, t_time, logger, sink, begun, aborted>>

None == [at |-> "none"]

\* initLogLevel() without the variables of the environment: INFO, which is 2.
Init ==
  /\ clock = 1 /\ g_logLevel = 2 /\ g_logTimeZone = UTC
  /\ g_output = Stdout /\ g_flush = Stdout
  /\ sets = 0 /\ zoneSet = {}
  /\ t_lastSecond = [t \in Threads |-> 0]
  /\ t_time = [t \in Threads |-> <<0, UTC>>]
  /\ logger = [t \in Threads |-> None]
  /\ sink = [s \in Sinks |-> [got |-> <<>>, flushed |-> 0]]
  /\ begun = 0 /\ aborted = {}

Running == aborted = {}

-----------------------------------------------------------------------------
(* FixedBuffer and LogStream: the length of what is in it, and its pieces. *)

avail(b) == kSmallBuffer - b.cur

\* FixedBuffer::append() takes a piece whole or leaves it out.
Fits(b, len) == avail(b) > len
Appended(b, piece, len) ==
  IF Fits(b, len) THEN [cur |-> b.cur + len, pieces |-> Append(b.pieces, piece)] ELSE b

NumberFits(b) == avail(b) >= kMaxNumericSize

\* LogStream::formatInteger() writes into the buffer, if it has kMaxNumericSize left.
Number(b, piece) ==
  IF NumberFits(b) THEN [cur |-> b.cur + NumberLen, pieces |-> Append(b.pieces, piece)] ELSE b

\* stream() << a string, or a number
Streamed(b, len) == IF len = 0 THEN Number(b, "number") ELSE Appended(b, "text", len)

-----------------------------------------------------------------------------
(* Logger *)

\* Slip: the second that is cached is not compared.
CacheGood_(t) == t_lastSecond[t] # 0

\* seconds != t_lastSecond
CacheGood(t) == t_lastSecond[t] = clock

\* Impl::formatTime(): the text of the second, from the cache or new.
TimeText(t) == IF CacheGood(t) THEN t_time[t] ELSE <<clock, g_logTimeZone>>

\* Impl::Impl(): the time, the microseconds with or without Z, the thread, the level.
\* The function or the errno that some constructors add are part of the body.
Stamped ==
  LET time == Appended([cur |-> 0, pieces |-> <<>>], "time", 1)
      micros == Appended(time, "micros", 1)
  IN Appended(Appended(micros, "tid", 1), "level", 1)

\* The macros LOG_TRACE, LOG_DEBUG and LOG_INFO test the level first; LOG_WARN (3)
\* and above do not.  Then the constructor.
Log(t, level) ==
  /\ Running /\ logger[t] = None /\ begun < MaxLines
  /\ level >= 3 \/ g_logLevel <= level
  /\ begun' = begun + 1
  /\ t_lastSecond' = [t_lastSecond EXCEPT ![t] = clock]
  /\ t_time' = [t_time EXCEPT ![t] = TimeText(t)]
  /\ logger' = [logger EXCEPT ![t] =
       [at |-> "stream", thread |-> t, level |-> level, second |-> clock, text |-> TimeText(t),
        zone |-> g_logTimeZone, stream |-> Stamped, room |-> avail(Stamped)]]
  /\ UNCHANGED <<clock, settings, sink, aborted>>

\* Impl::finish(): " - ", the file, ':', the line number, '\n'.
Finished(b) ==
  LET file == Appended(Appended(b, "dash", 1), "file", 2)
      line == Number(Appended(file, "colon", 1), "line")
  IN Appended(line, "newline", 1)

\* ~Logger(): finish(), and g_output with the buffer; LOG_FATAL goes on.
Output(t, body) ==
  /\ Running /\ logger[t].at = "stream"
  /\ LET text == FoldLeft(Streamed, logger[t].stream, body)
         line == [logger[t] EXCEPT !.stream = Finished(text), !.room = avail(text), !.at = "put"] IN
     /\ sink' = [sink EXCEPT ![g_output].got = Append(@, line)]
     /\ logger' = [logger EXCEPT ![t] =
          IF line.level = FATAL THEN [at |-> "put", line |-> line, to |-> g_output] ELSE None]
  /\ UNCHANGED <<clock, settings, t_lastSecond, t_time, begun, aborted>>

\* What a sink has written after g_flush(): all it got.
FlushedOf(s) == Len(sink[s].got)

\* ~Logger() of LOG_FATAL: g_flush(), and then abort().
Flush(t) ==
  /\ Running /\ logger[t].at = "put"
  /\ sink' = [sink EXCEPT ![g_flush].flushed = FlushedOf(g_flush)]
  /\ logger' = [logger EXCEPT ![t] = [at |-> "flushed", line |-> @.line, to |-> @.to, flushed |-> g_flush]]
  /\ UNCHANGED <<clock, settings, t_lastSecond, t_time, begun, aborted>>

\* abort(): what is not flushed is lost.
Abort(t) ==
  /\ Running /\ logger[t].at = "flushed"
  /\ aborted' = {t}
  /\ sink' = [s \in Sinks |-> [sink[s] EXCEPT !.got = SubSeq(@, 1, sink[s].flushed)]]
  /\ UNCHANGED <<clock, settings, t_lastSecond, t_time, logger, begun>>

-----------------------------------------------------------------------------
(* The settings, by any thread, and the clock. *)

Set == Running /\ sets < MaxSets /\ sets' = sets + 1
others == <<clock, t_lastSecond, t_time, logger, sink, begun, aborted>>

setLogLevel(l) ==
  Set /\ g_logLevel' = l /\ UNCHANGED <<others, g_logTimeZone, g_output, g_flush, zoneSet>>
setTimeZone(z) ==
  Set /\ g_logTimeZone' = z /\ zoneSet' = zoneSet \cup {<<t, t_lastSecond[t]>> : t \in Threads}
      /\ UNCHANGED <<others, g_logLevel, g_output, g_flush>>
setOutput(s) ==
  Set /\ g_output' = s /\ UNCHANGED <<others, g_logLevel, g_logTimeZone, g_flush, zoneSet>>
setFlush(s) ==
  Set /\ g_flush' = s /\ UNCHANGED <<others, g_logLevel, g_logTimeZone, g_output, zoneSet>>

Tick ==
  /\ Running /\ clock < MaxSecond /\ clock' = clock + 1
  /\ UNCHANGED <<settings, t_lastSecond, t_time, logger, sink, begun, aborted>>

\* The clock is set back.
SetBack ==
  /\ Running /\ clock' \in 1..(clock - 1)
  /\ UNCHANGED <<settings, t_lastSecond, t_time, logger, sink, begun, aborted>>

Next ==
  \/ \E t \in Threads :
       \/ \E l \in Levels : Log(t, l)
       \/ \E body \in Bodies : Output(t, body)
       \/ Flush(t) \/ Abort(t)
  \/ \E l \in Levels : setLogLevel(l)
  \/ \E z \in Zones : setTimeZone(z)
  \/ \E s \in Sinks : setOutput(s) \/ setFlush(s)
  \/ Tick \/ SetBack

Spec == Init /\ [][Next]_vars
-----------------------------------------------------------------------------
(* Properties *)

Lines == UNION {ToSet(sink[s].got) : s \in Sinks}

\* The types of the settings, and the bounds of a buffer.
TypeOK ==
  /\ clock \in 1..MaxSecond /\ g_logTimeZone \in Zones /\ g_output \in Sinks /\ g_flush \in Sinks
  /\ \A t \in Threads : t_lastSecond[t] \in 0..MaxSecond /\ t_time[t] \in (0..MaxSecond) \X Zones

\* Impl::finish(), whole.
Source == <<"dash", "file", "colon", "line", "newline">>
SourceLen == 4   \* of what comes before the line number

\* A line never passes the end of its buffer, whatever was streamed before its last
\* number.  It ends with its source and a newline if what was streamed leaves room for
\* the source and kMaxNumericSize.  With less room pieces of the source are left out, the
\* line number before others, and the newline too when the buffer is full to the last byte
\* but one: only then can two lines run together (LogStream.h:42, LogStream.cc:252,
\* Logging.cc:179).
LinesEnd ==
  \A l \in Lines :
    /\ l.stream.cur < kSmallBuffer
    /\ l.room >= SourceLen + kMaxNumericSize => IsSuffix(Source, l.stream.pieces)
    /\ Last(l.stream.pieces) = "newline" \/ l.stream.cur = kSmallBuffer - 1

\* The cached text is that of the second of the line, in every thread, also when the clock
\* went back; and it is in the zone that the suffix stands for, unless the thread had cached
\* that second when the zone was set: then the old text is used (Logging.cc:144-174).
StampRight ==
  \A l \in Lines :
    l.text[1] = l.second /\ (l.text[2] = l.zone \/ <<l.thread, l.second>> \in zoneSet)

\* The line of LOG_FATAL has been written when the process aborts, and with it the
\* lines before it, unless g_flush was set to flush another sink than the one that
\* got the line (Logging.cc:209-214).
FatalWritten ==
  \A t \in aborted :
    LET l == logger[t] IN l.to = l.flushed => Contains(sink[l.to].got, l.line)
=============================================================================
