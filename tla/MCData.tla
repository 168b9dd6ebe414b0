------------------------------- MODULE MCData -------------------------------
(* The components that hold, parse, convert and write data, each on its own:      *)
(* `part' says which one moves, the others stay as they are created or have       *)
(* received nothing.  The names of Buffer are as in its module.                   *)
EXTENDS Buffer, TLC

CONSTANTS Parts,
          rollSize_, flushInterval_, checkEveryN_, kRollPerSeconds_, StdioSize, MaxFileLines,
          MaxTime, MaxFaults,
          Threads, LogZones, UTC, Levels, FATAL, kSmallBuffer, kMaxNumericSize, NumberLen, Sinks,
          Stdout, MaxSecond, MaxLogLines, MaxSets,
          Units,
          kBufferSize, MaxSizes, MaxLength, MaxWrites,
          MaxLines,
          kHeaderLen, kChecksumLen, kMaxMessageLen, tag_, TagLen, MaxFrames,
          Letters, Tids, MaxPath, MaxAdds, MaxMoves

ASSUME SizesAssumption ==
  /\ {rollSize_, flushInterval_, checkEveryN_, kRollPerSeconds_, StdioSize} \subseteq Nat \ {0}
  /\ NumberLen < kMaxNumericSize /\ kMaxNumericSize < kSmallBuffer /\ UTC \in LogZones

VARIABLES
  part,
  clock, setBacks, count_, startOfPeriod_, lastRoll_, lastFlush_, file_, closed, appended, failed,
  crashed,
  now, g_logLevel, g_logTimeZone, g_output, g_flush, sets, zoneSet, t_lastSecond, t_time, logger,
  sink, begun, aborted,
  call, text,
  walk, day, ymd, wday, yday, zone, time,
  kind, length, writes, least, at, how, maxSize, fd, err, content, fileSize,
  patient, stream, arrived, retrieved, context, connected, handled, responses, asserted,
  frames, bytes, buffer, delivered, errors, framesConnected,
  built, started, modules_, helps_, mutex_, adds, req, resp, running, living, moves, pids, stat,
  listed, threw

fileVars ==
  <<clock, setBacks, count_, startOfPeriod_, lastRoll_, lastFlush_, file_, closed, appended, failed,
    crashed>>
loggerVars ==
  <<now, g_logLevel, g_logTimeZone, g_output, g_flush, sets, zoneSet, t_lastSecond, t_time, logger,
    sink, begun, aborted>>
streamVars == <<call, text>>
calendarVars == <<walk, day, ymd, wday, yday, zone, time>>
readVars == <<kind, length, writes, least, at, how, maxSize, fd, err, content, fileSize>>
httpVars == <<patient, stream, arrived, retrieved, context, connected, handled, responses, asserted>>
codecVars == <<frames, bytes, buffer, delivered, errors, framesConnected>>
inspectorVars ==
  <<built, started, modules_, helps_, mutex_, adds, req, resp, running, living, moves, pids, stat,
    listed, threw>>
textVars == <<streamVars, calendarVars>>
parserVars == <<httpVars, codecVars, inspectorVars>>
mcVars == <<part, buf, fileVars, loggerVars, textVars, readVars, parserVars>>

File == INSTANCE LogFile WITH MaxLines <- MaxFileLines, time <- appended

\* Numbers fit or not, and pieces end just before, at and behind the end of the buffer: the
\* line number just fits, or is left out before a newline that fits.
Bodies == {<<>>, <<0>>, <<4>>, <<7, 0>>}
Log_ == INSTANCE Logger WITH clock <- now, Zones <- LogZones, MaxLines <- MaxLogLines

\* Where digits are added, where the text changes its unit or its number of decimals,
\* and the ends of int.
Near(x, d) == (x - d)..(x + d)
Numbers ==
  (-1100..1100) \cup Near(65536, 2) \cup Near(1000000, 1)
    \cup {2147483647, -2147483647, -2147483647 - 1}
Addresses == (0..300) \cup Near(65536, 2) \cup {2147483647}
Thousandths ==
  {0, 9, 99, 999, 123456} \cup (1000..1010) \cup (9980..10010) \cup Near(99950, 60) \cup Near(999500, 30)
    \cup Near(1023500, 5)
Rests == {-200, -17, -16, -9, -8, -7, -2, -1, 0, 1, 2, 9, 64, 65}
Stream == INSTANCE LogStream

\* Zones west and east of Greenwich, whose clocks are set one hour on or back up to
\* three times, and years of every kind.
LocalTime(hours, dst) == [gmtOffset |-> hours, isDst |-> dst]
CalendarZones ==
  {[localtimes |-> <<LocalTime(o, dst), LocalTime(IF dst THEN o - 1 ELSE o + 1, ~dst)>>,
    trans |-> SubSeq(<<[at |-> 4, idx |-> 2], [at |-> 4 + gap, idx |-> 1],
                       [at |-> 4 + 2 * gap, idx |-> 2]>>, 1, n)] :
      o \in {-5, 0, 8}, dst \in BOOLEAN, gap \in {3, 5}, n \in 0..3}
Years == {1900, 1901, 1904, 1969, 1970, 1972, 1999, 2000, 2001, 2037, 2038, 2100, 2400, 2500}
Calendar_ == INSTANCE Calendar
               WITH part <- walk, Zones <- CalendarZones, Hours <- -10..30, kHoursPerDay <- 24

Reader == INSTANCE ReadSmallFile

\* A line as both parsers of HttpContext read it.
Line(method, uri, version, field, value) ==
  [method |-> method, uri |-> uri, version |-> version, field |-> field, value |-> value]

\* Requests of both versions and of one that is not known, headers that close and keep the
\* connection, and the end.
Lines ==
  {Line("kGet", "/", "kHttp11", "none", ""), Line("kPost", "/form", "kHttp10", "none", ""),
   Line("kGet", "/", "none", "none", ""),
   Line("other", "none", "none", "Connection", "close"),
   Line("other", "none", "none", "Connection", "Keep-Alive"),
   Line("none", "none", "none", "none", "")}

Http_ == INSTANCE Http
           WITH aborted <- asserted, Methods <- {"kGet", "kPost"}, Fields <- {"Connection"}

\* A frame, and what adler32 tells apart.
Frame(len, tag, payload, checkedTag, checkedPayload) ==
  [len |-> len, tag |-> tag, payload |-> payload, checksum |-> <<checkedTag, checkedPayload>>]

\* A bad size either way, a bad checksum, another tag, and an unknown payload;
\* and a frame that is not parsed, whatever it holds.
Foreign ==
  LET min == TagLen + kChecksumLen IN
  {Frame(min - 1, tag_, "empty", tag_, "empty"), Frame(kMaxMessageLen + 1, tag_, "max", tag_, "max"),
   Frame(min + 1, tag_, "one", tag_, "max"), Frame(min + 1, "other", "one", "other", "one"),
   Frame(min + 1, tag_, "junk", tag_, "junk"), Frame(min + 1, "other", "raw", tag_, "raw")}

\* Payloads of no byte, of one, and of as many as fit.
Codec == INSTANCE ProtobufCodecLite
           WITH stream <- frames, arrived <- bytes, connected <- framesConnected,
                Payloads <- [empty |-> 0, one |-> 1, max |-> 2], Skipped <- {"raw"}

\* Commands of the constructor, one of them also replaced by main, and a path that asks
\* for the icon.
Inspector_ == INSTANCE Inspector
                WITH lines <- listed, Favicon <- <<"t">>, ThreadsCmd <- <<"p", "t">>,
                     Registered <- {<<"p", "t">>, <<"p", "p">>}, User <- {<<"t", "p">>, <<"p", "p">>}

\* A part that does not move has one initial state.  An HTTP client begins with a line that
\* has a method, and may send anything in the place of the next request line; what comes
\* behind a bad first line is never parsed.
MCInit ==
  /\ part \in Parts
  /\ Calendar_!Init /\ (part # "Calendar" => walk = "days" /\ ymd.year = Min(Years))
  /\ Reader!Init
  /\ part # "ReadSmallFile" => kind = "absent" /\ length = 0 /\ maxSize = 0 /\ how = "string"
  /\ Log_!Init /\ Init /\ File!Init
  /\ Inspector_!Init /\ (part # "Inspector" => living = {1})
  /\ Http_!Fresh /\ Codec!Fresh
  /\ IF part = "Http"
     THEN /\ Http_!Init /\ stream[1].method \in {"kGet", "kPost"}
          /\ ~Http_!IsRequestLine(stream[1]) => \A i \in DOMAIN stream : stream[i] = stream[1]
     ELSE patient = FALSE /\ stream = <<>>
  /\ IF part = "ProtobufCodecLite" THEN frames \in Codec!Streams ELSE frames = <<>>
  /\ IF part = "LogStream" THEN Stream!Init ELSE call = Stream!None /\ text = Stream!None

ForBuffer(A) ==
  part = "Buffer" /\ A /\ UNCHANGED <<part, fileVars, loggerVars, textVars, readVars, parserVars>>
ForFile(A) ==
  part = "LogFile" /\ A /\ UNCHANGED <<part, buf, loggerVars, textVars, readVars, parserVars>>
ForLogger(A) ==
  part = "Logger" /\ A /\ UNCHANGED <<part, buf, fileVars, textVars, readVars, parserVars>>
ForStream(A) ==
  /\ part = "LogStream" /\ A
  /\ UNCHANGED <<part, buf, fileVars, loggerVars, calendarVars, readVars, parserVars>>
ForCalendar(A) ==
  /\ part = "Calendar" /\ A
  /\ UNCHANGED <<part, buf, fileVars, loggerVars, streamVars, readVars, parserVars>>
ForReader(A) ==
  part = "ReadSmallFile" /\ A /\ UNCHANGED <<part, buf, fileVars, loggerVars, textVars, parserVars>>
ForHttp(A) ==
  /\ part = "Http" /\ A
  /\ UNCHANGED <<part, buf, fileVars, loggerVars, textVars, readVars, codecVars, inspectorVars>>
ForCodec(A) ==
  /\ part = "ProtobufCodecLite" /\ A
  /\ UNCHANGED <<part, buf, fileVars, loggerVars, textVars, readVars, httpVars, inspectorVars>>
ForInspector(A) ==
  /\ part = "Inspector" /\ A
  /\ UNCHANGED <<part, buf, fileVars, loggerVars, textVars, readVars, httpVars, codecVars>>

MCNext ==
  \/ ForBuffer(Next)
  \/ ForFile(File!Next)
  \/ ForLogger(Log_!Next)
  \/ ForStream(Stream!Next)
  \/ ForCalendar(Calendar_!Next)
  \/ ForReader(Reader!Next)
  \/ ForHttp(Http_!Next)
  \/ ForCodec(Codec!Next)
  \/ ForInspector(Inspector_!Next)

MCSpec == MCInit /\ [][MCNext]_mcVars
-----------------------------------------------------------------------------
(* Properties *)

\* A LogFile of AppendFiles: what is read back from the files, closed and open, is in
\* the order of the calls and lacks only what write() refused and, after a crash, the
\* end of the last one (LogFile.cc:64-108, FileUtil.cc:32).
LinesInOrder == part = "LogFile" => File!TypeOK /\ File!LinesInOrder

\* rollFile() never opens a file twice; a file that is full grows for the rest of its second
\* only, or while the clock has been set back; it holds at most checkEveryN_ lines of another
\* day, unless the clock was set back; and a line that is to be flushed after flushInterval_
\* waits for fewer than checkEveryN_ others (LogFile.cc:64-108).
RollsInTime ==
  part = "LogFile" =>
    File!NamesDiffer /\ File!GrowsForASecond /\ File!OfOneDay /\ File!FlushedInTime

\* Each line handed to g_output ends with its source and a newline if there is room for
\* them, and else with a newline or at the end of its buffer (LogStream.h:39,
\* LogStream.cc:252, Logging.cc:179).  It begins with the second in which its Logger was
\* created, in the zone that is set unless the thread had that second in its cache when the
\* zone was set (Logging.cc:139-174).  When abort() is called the sink has the FATAL line,
\* if it is the one that g_flush flushed (Logging.cc:209-213).
LogLines ==
  part = "Logger" => Log_!TypeOK /\ Log_!LinesEnd /\ Log_!StampRight /\ Log_!FatalWritten

\* A number reads back as itself, and a quantity is shown in at most five characters,
\* the nearest that its digits can show (LogStream.cc:54-212).
NumbersRight ==
  part = "LogStream" => Stream!ReadsBack /\ Stream!AtMost5 /\ Stream!ShowsNearest

\* "The returned string is atmost 5 characters long." (LogStream.h:193)
AtMost5 == part = "LogStream" => Stream!AtMost5

\* A day has the date, weekday and day of the year of the Gregorian calendar, a struct
\* tm of it converts back to the same seconds, and a local time shows the offset that is
\* in force and converts back to its instant (Date.cc:20-42, TimeZone.cc:223-363).
CalendarRight ==
  part = "Calendar" => Calendar_!DateRight /\ Calendar_!UtcRight /\ Calendar_!LocalRight

\* readToString() returns no error only with all of a file that did not shrink, up to
\* maxSize, and neither it nor readToBuffer() reads more (FileUtil.cc:86-170).
ReadWhole == part = "ReadSmallFile" => Reader!TypeOK /\ Reader!ReadWhole

\* However the bytes are cut, and whatever the connection has carried before.  The
\* callback of HttpServer gets the requests of the stream, one after the other and whole,
\* none with a header of another; for a client that waits for its answers, as soon as
\* they are whole (HttpContext.cc:60-118, HttpServer.cc:66-83).  A request is parsed into
\* a fresh HttpRequest, unless its line has a method and no good version and bytes come
\* behind it: then the assert of setMethod() fails (HttpRequest.h:55).  It is parsed by a
\* context that is not in kGotAll: the loop of parseRequest() has no branch for it and would
\* not end (HttpContext.cc:64-116).
\* As soon as a message of the codec is whole it has been delivered, once and in order;
\* nothing behind the first bad frame ever is (ProtobufCodecLite.cc:58-97).
DeliveredWhole ==
  /\ part = "Http" =>
       Http_!TypeOK /\ Http_!ParsedWhole /\ Http_!MethodUnset /\ Http_!NeverSpins
  /\ part = "ProtobufCodecLite" => Codec!TypeOK /\ Codec!DeliveredWhenWhole

\* A connection is shut down when it should be and not before.  By the response that
\* says so, which is the last one (HttpServer.cc:72-76, 88-98); and by the first bad
\* frame, which is reported with the check it fails (ProtobufCodecLite.cc:65-68,
\* 86-90, 192-225).
ClosedInTime ==
  /\ part = "Http" => Http_!AnsweredUntilClose
  /\ part = "ProtobufCodecLite" => Codec!BadFrameReported

\* A command of the Inspector runs only while it is in the map, and help lists what is
\* there, however main adds and removes commands (Inspector.cc:88-107, 173-189); the names
\* in a path are found (Inspector.cc:34-56); and every line of the list of threads shows
\* its own thread (ProcessInspector.cc:218-235).
CommandsRight ==
  part = "Inspector" =>
    /\ Inspector_!TypeOK /\ Inspector_!RunsWhatIsThere /\ Inspector_!HelpsMatch
    /\ Inspector_!SplitRight /\ Inspector_!OwnStat
=============================================================================
