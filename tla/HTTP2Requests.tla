--------------------------- MODULE HTTP2Requests ---------------------------
(***************************************************************************)
(* Requests and responses as HTTP/2 header blocks (http/h2_bundle.go): how *)
(* the client turns a Request into the fields of a block and the block     *)
(* into frames, how the server turns the block it reads into the Request   *)
(* its handler gets, and the same for the response on its way back.        *)
(*                                                                         *)
(* Header names are one whether written in canonical or in lower case.     *)
(***************************************************************************)
EXTENDS HTTP2Framer, HTTPHeader

CONSTANTS Requests,        \* what the client's callers ask for
          Responses,       \* what the server's handlers answer
          BadPaths,        \* paths that url.ParseRequestURI refuses
          Informational,   \* the 1xx statuses
          PeerMaxHeaderList \* what the client knows of the server's limit
ASSUME RequestsAssumption == PeerMaxHeaderList \in Nat

VARIABLE asked             \* for every message written, the request or response it is

NoAsk == [kind |-> "frame"]
Field(name, value) == [name |-> name, value |-> value]
IndexOf(f) == CHOOSE i \in DOMAIN Table : Table[i] = f
ValuesOf(name, vs) == [i \in DOMAIN vs |-> Field(name, vs[i])]

-----------------------------------------------------------------------------
(* The client's side of a request.                                          *)

Method(r) == IF r.method = "" THEN "GET" ELSE r.method
ValidPseudoPath(p) == p = "*" \/ (p # "" /\ p \notin BadPaths)

CheckConnHeaders(r) ==
  /\ HeaderGet(r.header, "upgrade") = ""
  /\ Values(r.header, "transfer-encoding") \in {<<>>, <<"">>, <<"chunked">>}
  /\ Values(r.header, "connection") \in {<<>>, <<"">>, <<"close">>, <<"keep-alive">>}

ActualContentLength(r) ==
  IF ~r.body THEN 0 ELSE IF r.length # 0 THEN r.length ELSE -1
ShouldSendReqContentLength(method, length) ==
  length > 0 \/ (length = 0 /\ method \in {"POST", "PUT", "PATCH"})
RequestedGzip(r) ==
  /\ HeaderGet(r.header, "accept-encoding") = "" /\ HeaderGet(r.header, "range") = ""
  /\ r.method # "HEAD"

\* Names that are not sent as they are.
Automatic == {"host", "content-length"}
ConnectionSpecific == {"connection", "proxy-connection", "transfer-encoding", "upgrade", "keep-alive"}

\* Mutant: the connection's own headers are sent too.
SentValues_Connection(r, k) ==
  IF k \in Automatic THEN <<>>
  ELSE IF k = "user-agent"
       THEN IF HeaderGet(r.header, k) = "" THEN <<>> ELSE <<r.header[k][1]>>
  ELSE r.header[k]

\* The values of header k that enumerateHeaders sends.
SentValues(r, k) ==
  IF k \in Automatic \cup ConnectionSpecific THEN <<>>
  ELSE IF k = "user-agent"
       THEN IF HeaderGet(r.header, k) = "" THEN <<>> ELSE <<r.header[k][1]>>
  ELSE r.header[k]

\* enumerateHeaders, the map's keys in some order.
EnumerateHeaders(r, keys) ==
  <<Field(":authority", r.host), Field(":method", Method(r))>>
  \o If(r.method # "CONNECT", <<Field(":path", r.path), Field(":scheme", r.scheme)>>)
  \o If(r.trailer # "", <<Field("trailer", r.trailer)>>)
  \o FlattenSeq([i \in DOMAIN keys |-> ValuesOf(keys[i], SentValues(r, keys[i]))])
  \o If(ShouldSendReqContentLength(r.method, ActualContentLength(r)),
        <<Field("content-length", ToString(ActualContentLength(r)))>>)
  \o If(RequestedGzip(r), <<Field("accept-encoding", "gzip")>>)
  \o If("user-agent" \notin DOMAIN r.header, <<Field("user-agent", "Go-http-client/2.0")>>)

\* encodeHeaders' own checks; the size of a list is the number of its fields.
Encodable(r, fields) ==
  /\ r.method = "CONNECT" \/ ValidPseudoPath(r.path)
  /\ \A k \in DOMAIN r.header : k \notin InvalidNames
  /\ \A k \in DOMAIN r.header : ToSet(r.header[k]) \cap InvalidValues = {}
  /\ Len(fields) <= PeerMaxHeaderList

\* writeHeaders and splitHeaderBlock: a block in pieces of at most n octets,
\* the first in a HEADERS frame, the others in CONTINUATIONs.
RECURSIVE Chunks(_, _)
Chunks(b, n) ==
  IF b = <<>> THEN <<>>
  ELSE IF Len(b) <= n THEN <<b>>
  ELSE <<SubSeq(b, 1, n)>> \o Chunks(From(b, n + 1), n)
BlockFrames(sid, end, fields, n) ==
  LET parts == Chunks(BlockOf([i \in DOMAIN fields |-> IndexOf(fields[i])]), n)
      last(i) == i = Len(parts)
      call(i) == IF i = 1
                 THEN WriteHeaders([sid |-> sid, end |-> end, endHeaders |-> last(i),
                                    block |-> parts[i], padLength |-> 0, prio |-> NoPriority])
                 ELSE WriteContinuation([sid |-> sid, endHeaders |-> last(i), block |-> parts[i]])
  IN [i \in DOMAIN parts |-> call(i).frame]

-----------------------------------------------------------------------------
(* The server's side.                                                       *)

ParseInt(v) == IF \E n \in 0..99 : ToString(n) = v THEN CHOOSE n \in 0..99 : ToString(n) = v ELSE 0

\* The map of header fields, each name with its values in order.
HeaderOf(fields) ==
  [k \in {fields[i].name : i \in DOMAIN fields} |->
     LET vs == SelectSeq(fields, LAMBDA f : f.name = k) IN [i \in DOMAIN vs |-> vs[i].value]]
RECURSIVE Join(_)
Join(vs) == IF Len(vs) = 1 THEN vs[1] ELSE vs[1] \o "; " \o Join(Tail(vs))
Bogus == {"transfer-encoding", "trailer", "content-length"}

\* newWriterAndRequest and newWriterAndRequestNoBody, and processHeaders'
\* choice of handler: m is a block that opens a stream.
RequestOf(m) ==
  LET P(name) == PseudoValue(m, name)
      connect == P(":method") = "CONNECT"
      header == HeaderOf(RegularFields(m.fields))
      malformed ==
        IF connect THEN P(":path") # "" \/ P(":scheme") # "" \/ P(":authority") = ""
        ELSE P(":method") = "" \/ P(":path") = "" \/ P(":scheme") \notin {"http", "https"}
      host == IF P(":authority") = "" THEN HeaderGet(header, "host") ELSE P(":authority")
      continue == HeaderGet(header, "expect") = "100-continue"
      seen0 == Without(header, {"trailer"} \cup (IF continue THEN {"expect"} ELSE {}))
      seen == IF "cookie" \in DOMAIN seen0 THEN [seen0 EXCEPT !["cookie"] = <<Join(@)>>] ELSE seen0
      te == Values(seen, "te")
  IN IF \/ malformed
        \/ P(":method") = "HEAD" /\ ~m.end
        \/ ~connect /\ P(":path") \in BadPaths
     THEN Fails("stream")
     ELSE [err |-> "", method |-> P(":method"), host |-> host,
           path |-> IF connect THEN host ELSE P(":path"), header |-> seen,
           length |-> IF m.end THEN 0
                      ELSE IF "content-length" \in DOMAIN seen
                      THEN ParseInt(seen["content-length"][1]) ELSE -1,
           trailer |-> ToSet(Values(header, "trailer")) \ Bogus,
           needsContinue |-> continue,
           handler |-> IF m.truncated THEN "431"
                       ELSE IF DOMAIN seen \cap ConnectionSpecific # {}
                               \/ Len(te) > 1 \/ (te # <<>> /\ te[1] \notin {"trailers", ""})
                       THEN "400" ELSE "own"]

-----------------------------------------------------------------------------
(* A response and the client's reading of it.                               *)

\* encodeHeaders: the values that may be sent of h's keys.
EncodeHeaders(h, keys) ==
  FlattenSeq([i \in DOMAIN keys |->
    IF keys[i] \in InvalidNames THEN <<>>
    ELSE ValuesOf(keys[i], SelectSeq(Values(h, keys[i]),
           LAMBDA v : v \notin InvalidValues /\ (keys[i] = "transfer-encoding" => v = "trailers")))])

\* writeResHeaders.writeFrame.  The keys are sorted, and only the named ones
\* are sent if it is a trailer.
ResponseFields(w, keys) ==
  If(w.status # "", <<Field(":status", w.status)>>)
  \o EncodeHeaders(w.header, keys)
  \o If(w.contentType # "", <<Field("content-type", w.contentType)>>)
  \o If(w.contentLength # "", <<Field("content-length", w.contentLength)>>)
  \o If(w.date # "", <<Field("date", w.date)>>)

\* handleResponse for a block that answers w.request: head says that it was a
\* HEAD, gzip that the client asked for gzip without being told to.
ResponseOf(m, head, gzip) ==
  LET status == PseudoValue(m, ":status")
      header == HeaderOf(RegularFields(m.fields))
      clens == Values(header, "content-length")
      decodes == /\ gzip /\ ~m.end /\ ~head
                 /\ HeaderGet(header, "content-encoding") = "gzip"
  IN IF m.truncated \/ status = "" THEN Fails("stream")
     ELSE IF status \in Informational THEN [err |-> "", status |-> "1xx"]
     ELSE [err |-> "", status |-> status,
           header |-> Without(header, {"trailer"} \cup
                        (IF decodes THEN {"content-encoding", "content-length"} ELSE {})),
           trailer |-> ToSet(Values(header, "trailer")),
           length |-> IF m.end /\ ~head THEN 0
                      ELSE IF Len(clens) = 1 /\ ~decodes THEN ParseInt(clens[1]) ELSE -1]

-----------------------------------------------------------------------------

RequestsInit == FramerInit /\ asked = <<>>

\* m is read as what its fields say, as many of them as the reader takes.
Block(sid, end, fields) ==
  [typ |-> HEADERS, sid |-> sid, end |-> end, prio |-> NoPriority,
   fields |-> SubSeq(fields, 1, Min({Len(fields), MaxHeaderList})),
   truncated |-> Len(fields) > MaxHeaderList]

\* Bound: a request or a response is the only thing written on its connection.
SendBlock(what, sid, end, fields, n) ==
  LET frames == BlockFrames(sid, end, fields, n)
  IN /\ fr.sent = 0
     /\ wire2' = wire2 \o frames
     /\ meant' = Append(meant, Block(sid, end, fields))
     /\ asked' = Append(asked, what)
     /\ fr' = [fr EXCEPT !.sent = MaxFrames]
     /\ UNCHANGED read

SendRequest ==
  \E r \in Requests : \E keys \in SetToSeqs(DOMAIN r.header), n \in r.maxFrame :
    LET fields == EnumerateHeaders(r, keys)
    IN /\ CheckConnHeaders(r) /\ Encodable(r, fields)
       /\ SendBlock([kind |-> "request", req |-> r], Word(2 * Len(meant) + 1),
                    ActualContentLength(r) = 0 /\ r.trailer = "", fields, n)

SendResponse ==
  \E w \in Responses, n \in {2, 3, 100} :
    SendBlock([kind |-> "response", res |-> w], Word(1), w.end,
              ResponseFields(w, w.keys), n)

SendFrame == WriteFrame /\ asked' = Append(asked, NoAsk)
SendForeign == WriteForeign /\ UNCHANGED asked
ReceiveFrame == ReadFrame /\ UNCHANGED asked

-----------------------------------------------------------------------------
(* Properties.                                                              *)

\* The request a handler is to see for the caller's request r, stated from
\* what the caller asked for alone.
Arrives(r) ==
  LET kept == Without(r.header, Automatic \cup ConnectionSpecific \cup {"expect", "user-agent"})
      agent == IF "user-agent" \notin DOMAIN r.header THEN "Go-http-client/2.0"
               ELSE HeaderGet(r.header, "user-agent")
      length == IF ~r.body THEN 0 ELSE IF r.length = 0 THEN -1 ELSE r.length
      one(k, v, present) == [j \in IF present THEN {k} ELSE {} |-> <<v>>]
      all == one("user-agent", agent, agent # "")
             @@ one("content-length", ToString(length),
                    length > 0 \/ (length = 0 /\ r.method \in {"POST", "PUT", "PATCH"}))
             @@ one("accept-encoding", "gzip", RequestedGzip(r))
             @@ [k \in {j \in DOMAIN kept : kept[j] # <<>>} |->
                   IF k = "cookie" THEN <<Join(kept[k])>> ELSE kept[k]]
  IN IF r.method = "HEAD" /\ r.trailer # "" THEN Fails("stream")
     ELSE
     [err |-> "", method |-> Method(r), host |-> r.host,
      path |-> IF r.method = "CONNECT" THEN r.host ELSE r.path,
      header |-> all, length |-> IF length = 0 /\ r.trailer # "" /\ "content-length" \notin DOMAIN all
                                 THEN -1 ELSE length,
      trailer |-> IF r.trailer = "" THEN {} ELSE {r.trailer},
      needsContinue |-> HeaderGet(r.header, "expect") = "100-continue",
      handler |-> IF Values(kept, "te") \in {<<>>, <<"trailers">>, <<"">>} THEN "own" ELSE "400"]

\* The response r that the caller is to see for what the handler wrote, w.
Answers(w, r) ==
  LET has(k) == k \in DOMAIN w.header
      decoded == /\ w.gzip /\ ~w.head /\ ~w.end
                 /\ has("content-encoding") /\ w.header["content-encoding"] = <<"gzip">>
      one(k, v, present) == [j \in IF present THEN {k} ELSE {} |-> <<v>>]
      sent == [k \in DOMAIN w.header |-> SelectSeq(w.header[k], LAMBDA v : v \notin InvalidValues)]
  IN IF w.status \in Informational THEN r.status = "1xx"
     ELSE /\ r.err = "" /\ r.status = w.status
          /\ r.header = one("content-length", w.contentLength, w.contentLength # "" /\ ~decoded)
                        @@ one("content-type", w.contentType, w.contentType # "")
                        @@ one("date", w.date, TRUE)
                        @@ Without(sent, {k \in DOMAIN sent : sent[k] = <<>>} \cup {"trailer"}
                                         \cup (IF decoded THEN {"content-encoding"} ELSE {}))
          /\ r.trailer = ToSet(Values(w.header, "trailer"))
          /\ r.length = IF w.end /\ ~w.head THEN 0
                        ELSE IF w.contentLength = "" \/ decoded THEN -1 ELSE ParseInt(w.contentLength)

\* RequestsArrive: the handler gets the method, host, path, header, body length
\* and trailer names its caller gave, without the fields that belong to the
\* connection, or its answer is the one for a list that is too long
\* (encodeHeaders against newWriterAndRequest); the caller gets the handler's
\* status and header fields (writeResHeaders against handleResponse).  And as
\* the blocks travel in frames, all that is written of one frame after another
\* is read, and nothing that breaks the rules is (FramesAgree).
RequestsArrive ==
  /\ FramesAgree
  /\ ~fr.foreign =>
       \A i \in DOMAIN read :
         LET what == asked[i]
             m == read[i].frame
         IN /\ what.kind = "request" =>
                 IF m.truncated THEN RequestOf(m).err # "" \/ RequestOf(m).handler = "431"
                 ELSE RequestOf(m) = Arrives(what.req)
            /\ what.kind = "response" /\ what.res.status # "" /\ ~m.truncated =>
                 Answers(what.res, ResponseOf(m, what.res.head, what.res.gzip))

=============================================================================
