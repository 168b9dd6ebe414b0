------------------------------- MODULE Http -------------------------------
(***************************************************************************)
(* muduo/net/http: the HttpContext of one connection of an HttpServer, and *)
(* what onMessage() makes of the bytes that arrive.  The client's bytes    *)
(* are a stream of lines, each cut in two halves, the second of which ends *)
(* with CR LF; they arrive any number of halves at a time.                 *)
(***************************************************************************)
EXTENDS Integers, Sequences, FiniteSets, SequencesExt

CONSTANTS
  Lines,           \* what a client may send, see Line
  Methods, Fields, \* of requests
  MaxLines         \* bound of the model: lines of a client

\* A line, as either parser reads it: method is "none" without a space, uri is
\* "none" without a second one, field is "none" without a colon.
Line(method, uri, version, field, value) ==
  [method |-> method, uri |-> uri, version |-> version, field |-> field, value |-> value]

VARIABLES
  patient,     \* the client waits for its answers; does not change
  stream,      \* the lines the client sends
  arrived,     \* the halves of lines that have
  retrieved,   \* the lines that were retrieved from the Buffer
  context,     \* the HttpContext: state_ and request_
  connected,   \* the connection: kConnected, and kDisconnecting after shutdown()
  handled,     \* the requests httpCallback_ was called with
  responses,   \* what was sent
  aborted      \* the assert of setMethod() has failed

vars == <<patient, stream, arrived, retrieved, context, connected, handled, responses, aborted>>

-----------------------------------------------------------------------------
(* HttpRequest, HttpContext *)

HttpRequest ==
  [method_ |-> "kInvalid", version_ |-> "kUnknown", uri_ |-> "", headers_ |-> [f \in Fields |-> ""]]
HttpContext == [state_ |-> "kExpectRequestLine", request_ |-> HttpRequest]

\* Slip: the headers of the last request stay.
resetHeadersKept(ctx) == [HttpContext EXCEPT !.request_.headers_ = ctx.request_.headers_]

\* Of an HttpContext ctx, whose request_ is swapped with a new one.
reset(ctx) == HttpContext

setMethod(request, m) == [request EXCEPT !.method_ = IF m \in Methods THEN m ELSE "kInvalid"]

\* processRequestLine() gets as far as setPath() and setVersion() only when what
\* comes before was there.
MethodSet(line) == line.method # "none"
UriSet(line) == line.method \in Methods /\ line.uri # "none"
VersionSet(line) == UriSet(line) /\ line.version \in {"kHttp10", "kHttp11"}

processRequestLine(request, line) ==
  LET named == IF MethodSet(line) THEN setMethod(request, line.method) ELSE request
      located == IF UriSet(line) THEN [named EXCEPT !.uri_ = line.uri] ELSE named
  IN  IF VersionSet(line) THEN [located EXCEPT !.version_ = line.version] ELSE located

addHeader(request, line) == [request EXCEPT !.headers_[line.field] = line.value]

\* What parseRequest() carries through its loop.
Parsing(ctx, n, ok, hasMore, failed) ==
  [ctx |-> ctx, retrieved |-> n, ok |-> ok, hasMore |-> hasMore, failed |-> failed]

\* The loop of parseRequest() with a line in the Buffer, in kExpectRequestLine.
parseRequestLine(p, line) ==
  LET request == processRequestLine(p.ctx.request_, line)
      failed == MethodSet(line) /\ p.ctx.request_.method_ # "kInvalid"
  IN  IF VersionSet(line)
      THEN Parsing([state_ |-> "kExpectHeaders", request_ |-> request], p.retrieved + 1, TRUE, TRUE, failed)
      ELSE Parsing([p.ctx EXCEPT !.request_ = request], p.retrieved, FALSE, FALSE, failed)

\* And in kExpectHeaders.
parseHeader(p, line) ==
  IF line.field # "none"
  THEN Parsing([p.ctx EXCEPT !.request_ = addHeader(@, line)], p.retrieved + 1, p.ok, TRUE, p.failed)
  ELSE Parsing([p.ctx EXCEPT !.state_ = "kGotAll"], p.retrieved + 1, p.ok, FALSE, p.failed)

parseLine(p, line) ==
  IF ~p.hasMore THEN p
  ELSE IF p.ctx.state_ = "kExpectRequestLine" THEN parseRequestLine(p, line) ELSE parseHeader(p, line)

\* parseRequest() with these lines in the Buffer.
parseRequest(lines) == FoldLeft(parseLine, Parsing(context, retrieved, TRUE, TRUE, FALSE), lines)

-----------------------------------------------------------------------------
(* HttpServer *)

\* What is sent: the status, and whether it says that the connection closes.
HttpResponse(status, close) == [status |-> status, close |-> close]
BadRequest == HttpResponse("400", TRUE)

\* TcpConnection::send() and shutdown() do nothing once the state is kDisconnecting.
send(sent, open, response) == IF open THEN Append(sent, response) ELSE sent

CloseAsked(request) ==
  \/ request.headers_["Connection"] = "close"
  \/ request.version_ = "kHttp10" /\ request.headers_["Connection"] # "Keep-Alive"

\* The callback leaves closeConnection_ as it is, or sets it, as the default one does.
onRequest(request, sent, open) ==
  \E close \in {CloseAsked(request), TRUE} :
    /\ handled' = Append(handled, request)
    /\ responses' = send(sent, open, HttpResponse("200", close))
    /\ connected' = (open /\ ~close)

onMessage(lines) ==
  LET p == parseRequest(lines)
      sent == IF p.ok THEN responses ELSE send(responses, connected, BadRequest)
      open == connected /\ p.ok
  IN  /\ aborted' = p.failed
      /\ retrieved' = p.retrieved
      /\ IF p.ctx.state_ = "kGotAll"
         THEN onRequest(p.ctx.request_, sent, open) /\ context' = reset(p.ctx)
         ELSE context' = p.ctx /\ responses' = sent /\ connected' = open /\ UNCHANGED handled

-----------------------------------------------------------------------------
(* The client, and what its stream means whatever way it is cut. *)

IsRequestLine(line) == line.method \in Methods /\ line.uri # "none" /\ line.version \in {"kHttp10", "kHttp11"}

\* The request whose line is i and whose headers end at e.
RequestAt(i, e) ==
  [method_ |-> stream[i].method, version_ |-> stream[i].version, uri_ |-> stream[i].uri,
   headers_ |-> [f \in Fields |->
     LET named == {j \in i + 1..e - 1 : stream[j].field = f}
     IN  IF named = {} THEN "" ELSE stream[Max(named)].value]]

\* The requests of the first n lines, each with the line at which it ends.
Requests(n) ==
  LET from[i \in 1..n + 1] ==
        LET ends == {j \in i + 1..n : stream[j].field = "none"}
        IN  IF i > n \/ ~IsRequestLine(stream[i]) \/ ends = {} THEN <<>>
            ELSE <<[request |-> RequestAt(i, Min(ends)), end |-> Min(ends)]>> \o from[Min(ends) + 1]
  IN  from[1]

Whole == arrived \div 2

\* A client that waits is answered before its next request arrives, and sends
\* nothing once the server has shut down.
Allowed(n) ==
  /\ arrived + n <= 2 * Len(stream)
  /\ patient => connected
  /\ patient =>
       LET asked == Requests(Len(stream))
       IN  \A k \in DOMAIN asked :
             arrived + n > 2 * asked[k].end => Len(responses) >= k /\ arrived >= 2 * asked[k].end

\* Of n halves: the lines whose CR LF findCRLF() can find.
LinesArrived(n) == n \div 2

\* TcpConnection::handleRead() has read n halves of lines.
receive(n) ==
  /\ ~aborted /\ Allowed(n)
  /\ arrived' = arrived + n
  /\ onMessage(SubSeq(stream, retrieved + 1, LinesArrived(arrived + n)))
  /\ UNCHANGED <<patient, stream>>

\* onConnection(): a new HttpContext.
Fresh ==
  /\ arrived = 0 /\ retrieved = 0 /\ context = HttpContext /\ connected = TRUE
  /\ handled = <<>> /\ responses = <<>> /\ aborted = FALSE

\* A client may stop anywhere in its stream.
Init ==
  /\ patient \in BOOLEAN /\ stream \in [1..MaxLines -> Lines]
  /\ Fresh

Next == \E n \in 1..2 * MaxLines : receive(n)

Spec == Init /\ [][Next]_vars
-----------------------------------------------------------------------------
(* Properties *)

TypeOK ==
  /\ arrived \in 0..2 * Len(stream) /\ retrieved \in 0..arrived \div 2
  /\ context.state_ \in {"kExpectRequestLine", "kExpectHeaders", "kGotAll"}
  /\ context.request_.method_ \in Methods \cup {"kInvalid"}
  /\ \A f \in Fields : context.request_.headers_[f] \in {l.value : l \in Lines} \cup {""}
  /\ {connected, aborted} \subseteq BOOLEAN
  /\ Len(handled) <= MaxLines /\ Len(responses) <= MaxLines + 1

\* parseRequest() has no branch for kGotAll (HttpContext.cc:64-116): were it
\* called in that state, its loop would never end.
NeverSpins == context.state_ # "kGotAll"

\* However the bytes are cut, and whatever the connection has carried before, the
\* callback gets the requests of the stream, one after the other and whole, none
\* with a header of another; for a client that waits for its answers, as soon as
\* they are whole (HttpContext.cc:60-118, HttpServer.cc:66-83; the test
\* testParseRequestInTwoPieces tries the cuts of one request).  A request ends at the first
\* line without a colon, empty or not ("FIXME:", HttpContext.cc:101).
ParsedWhole ==
  LET all == Requests(Whole)
  IN  /\ Len(handled) <= Len(all)
      /\ \A k \in 1..Len(handled) : handled[k] = all[k].request
      /\ patient /\ connected => Len(handled) = Len(all)

\* Each request is answered in its turn until a response closes the connection,
\* and that response is the last: it is shut down then and not before
\* (HttpServer.cc:72-76, 88-98).
AnsweredUntilClose ==
  LET n == Len(responses)
      bad == Cardinality({k \in 1..n : responses[k].status = "400"})
  IN  /\ \A k \in 1..n : responses[k].close => k = n
      /\ connected <=> ~\E k \in 1..n : responses[k].close
      /\ connected => n = Len(handled)
      /\ n - bad <= Len(handled)
      /\ \A k \in 1..n - bad : CloseAsked(handled[k]) => responses[k].close

\* A request line is parsed into a fresh HttpRequest: the assert of setMethod()
\* (HttpRequest.h:55) holds, except where it does not: a line with a method and without a
\* good version stays in the Buffer with its method set, and is parsed again into the same
\* HttpRequest when more bytes come.
MethodUnset ==
  aborted =>
    /\ retrieved < Whole
    /\ LET line == stream[retrieved + 1] IN line.method \in Methods /\ ~VersionSet(line)
=============================================================================
