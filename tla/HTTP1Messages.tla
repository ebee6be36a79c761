--------------------------- MODULE HTTP1Messages ---------------------------
(***************************************************************************)
(* HTTP/1 messages on one connection (http/transfer.go, request.go,        *)
(* response.go, internal/chunked.go): Request.write and Response.Write at  *)
(* one end, readRequest, ReadResponse and the body they return at the      *)
(* other.  What matters is where each message ends: the reader must find   *)
(* the next one there.                                                     *)
(*                                                                         *)
(* The wire is a sequence of tokens, each a line or an octet of a body;    *)
(* lengths count tokens.  Octets may look like lines, so a body may hold   *)
(* what its framing is made of.  A header value is the sequence of its     *)
(* comma-separated elements.                                               *)
(***************************************************************************)
EXTENDS Integers, Sequences, SequencesExt, HTTPHeader

CONSTANTS FirstMessages,   \* the first message written, a request or a response
          NextMessages,    \* the message that may follow it
          ForeignHeads,    \* heads that an implementation that breaks the rules sends
          NewlineValues,   \* values written with spaces for their newlines, as Cleaned
          Cleaned,
          TrailerRoom      \* tokens that the reader's buffer holds
ASSUME HTTP1Assumption == TrailerRoom \in Nat

VARIABLES line,            \* the tokens not yet read
          ended,           \* the sender has closed the connection
          said,            \* the messages written, each with the writer's error
          rd,              \* the reader
          heard            \* the messages read, the last one perhaps unfinished

http1Vars == <<line, ended, said, rd, heard>>

-----------------------------------------------------------------------------
(* Tokens and headers.                                                      *)

Start(m) == [t |-> "start", m |-> m]
Line(name, v) == [t |-> "line", name |-> name, v |-> v]
Crlf == [t |-> "crlf"]
Size(n) == [t |-> "size", n |-> n]
\* The decimal digits of n; no length that occurs is larger.
Lengths == 0..9
Number(n) == <<ToString(n)>>
Octet(c) == [t |-> "octet", c |-> c]

Clean(v) == [i \in DOMAIN v |-> IF v[i] \in NewlineValues THEN Cleaned[v[i]] ELSE v[i]]
HeaderLines(h) ==
  FlattenSeq([i \in 1..Cardinality(DOMAIN h) |->
    LET k == SetToSeq(DOMAIN h)[i] IN [j \in DOMAIN h[k] |-> Line(k, Clean(h[k][j]))]])
\* hasToken looks at the first value of a name, HeaderValuesContainsToken at all.
FirstHasToken(h, k, token) == Values(h, k) # <<>> /\ token \in ToSet(h[k][1])
HasToken(h, k, token) == \E i \in DOMAIN Values(h, k) : token \in ToSet(h[k][i])

NoValue == <<"">>
First(h, k) == IF Values(h, k) = <<>> THEN NoValue ELSE h[k][1]

Chunked(te) == te # <<>> /\ te[1] = "chunked"
IsIdentity(te) == te = <<"identity">>
BodyAllowedForStatus(s) == s \notin 100..199 \cup {204, 304}
NoTrailer == <<>>

-----------------------------------------------------------------------------
(* The sender.  A message's body is "nil", "NoBody" or a "reader" of data,  *)
(* which fails in the end instead of saying EOF if m.fails; m.slow: it has  *)
(* nothing for the 200 ms that a probe waits.                               *)

UsuallyLacksBody == {"GET", "HEAD", "DELETE", "OPTIONS", "PROPFIND", "SEARCH"}
NoResponseBodyExpected(method) == method = "HEAD"
BadTrailers == {"Transfer-Encoding", "Trailer", "Content-Length"}

OutgoingLength(m) ==
  IF m.body \in {"nil", "NoBody"} THEN 0 ELSE IF m.length # 0 THEN m.length ELSE -1

\* probeRequestBody finds that there is nothing.
ProbedEmpty(m) == m.data = <<>> /\ ~m.fails /\ ~m.slow
ShouldSendChunkedRequestBody(m) ==
  /\ m.method # "CONNECT"
  /\ m.method \in UsuallyLacksBody => ~ProbedEmpty(m)
FoundEmpty(m) ==
  /\ OutgoingLength(m) < 0 /\ m.te = <<>>
  /\ m.method \in UsuallyLacksBody /\ ProbedEmpty(m)

\* The last part of newTransferWriter, on the fields its first part found.
Sanitize(t) ==
  LET te == IF ~t.toHEAD /\ (~t.atLeast11 \/ ~t.hasBody) THEN <<>> ELSE t.te
      length == IF Chunked(te) THEN -1 ELSE IF ~t.toHEAD /\ ~t.hasBody THEN 0 ELSE t.length
  IN [t EXCEPT !.hasBody = @ /\ ~t.toHEAD, !.te = te, !.length = length,
               !.trailer = IF Chunked(te) THEN @ ELSE NoTrailer]

RequestWriter(m) ==
  Sanitize([method |-> m.method, hasBody |-> m.body # "nil" /\ ~FoundEmpty(m),
            data |-> m.data, fails |-> m.fails, toHEAD |-> FALSE, atLeast11 |-> TRUE,
            length |-> IF FoundEmpty(m) THEN 0 ELSE OutgoingLength(m),
            te |-> IF OutgoingLength(m) < 0 /\ m.te = <<>> /\ ShouldSendChunkedRequestBody(m)
                   THEN <<"chunked">> ELSE m.te,
            close |-> m.close, header |-> m.header, trailer |-> m.trailer])

\* What Response.Write makes of its message before it calls newTransferWriter.
KnownLength(m) ==
  LET probes == m.length = 0 /\ m.body # "nil"
      length == IF probes /\ m.data # <<>> THEN -1 ELSE m.length
  IN [m EXCEPT !.length = length,
               !.close = \/ m.close
                         \/ length = -1 /\ m.minor = 1 /\ ~Chunked(m.te) /\ ~m.uncompressed]
ResponseWriter(m) ==
  Sanitize([method |-> m.method, hasBody |-> m.body # "nil", data |-> m.data, fails |-> m.fails,
            toHEAD |-> NoResponseBodyExpected(m.method), atLeast11 |-> m.minor = 1,
            length |-> m.length, te |-> m.te, close |-> m.close, header |-> m.header,
            trailer |-> m.trailer])

ShouldSendContentLength(t) ==
  /\ ~Chunked(t.te)
  /\ \/ t.length > 0
     \/ t.length = 0 /\ t.method \in {"POST", "PUT"}
     \/ t.length = 0 /\ IsIdentity(t.te) /\ t.method \notin {"GET", "HEAD"}

If1(present, tok) == IF present THEN <<tok>> ELSE <<>>
\* transferWriter.writeHeader; it fails at the end if Trailer holds a name it
\* may not.
BadTrailer(t) == DOMAIN t.trailer \cap BadTrailers # {}
WithoutTrailer(t) == [t EXCEPT !.trailer = NoTrailer]
FramingLines(t) ==
  If1(t.close /\ ~FirstHasToken(t.header, "Connection", "close"), Line("Connection", <<"close">>))
  \o If1(ShouldSendContentLength(t), Line("Content-Length", Number(t.length)))
  \o If1(~ShouldSendContentLength(t) /\ Chunked(t.te), Line("Transfer-Encoding", <<"chunked">>))
  \o If1(DOMAIN t.trailer # {}, Line("Trailer", SetToSeq(DOMAIN t.trailer)))

\* io.Copy through a chunkedWriter, n octets a piece.
RECURSIVE ChunksOf(_, _)
ChunksOf(d, n) ==
  IF d = <<>> THEN <<>>
  ELSE LET k == Min({n, Len(d)})
       IN <<Size(k)>> \o SubSeq(d, 1, k) \o <<Crlf>> \o ChunksOf(SubSeq(d, k + 1, Len(d)), n)

\* transferWriter.writeBody: what it writes, and whether it returns an error.
WriteBody(t, n) ==
  LET copied == IF Chunked(t.te) THEN ChunksOf(t.data, n) \o If1(~t.fails, Size(0))
                ELSE IF t.length = -1 THEN t.data
                ELSE SubSeq(t.data, 1, Min({t.length, Len(t.data)}))
      ncopy == IF Chunked(t.te) \/ ~t.hasBody THEN 0 ELSE Len(t.data)
      out == IF t.hasBody THEN copied ELSE <<>>
  IN IF (t.hasBody /\ t.fails) \/ (~t.toHEAD /\ t.length # -1 /\ t.length # ncopy)
     THEN [err |-> TRUE, tokens |-> out]
     ELSE [err |-> FALSE,
           tokens |-> out \o (IF Chunked(t.te) THEN HeaderLines(t.trailer) \o <<Crlf>> ELSE <<>>)]

Excluded == {"Content-Length", "Transfer-Encoding", "Trailer"}

\* Request.write; host is the one that cleanHost and removeZone leave.
WriteRequest(m, n) ==
  LET t == RequestWriter(m)
      agent == IF "User-Agent" \in DOMAIN m.header THEN First(m.header, "User-Agent")
               ELSE <<"Go-http-client/1.1">>
      top == <<Start([method |-> m.method, uri |-> m.uri, minor |-> 1]), Line("Host", <<m.host>>)>>
             \o If1(agent # NoValue, Line("User-Agent", agent))
      head == top \o FramingLines(t)
              \o HeaderLines(Without(m.header, Excluded \cup {"Host", "User-Agent"})) \o <<Crlf>>
      b == WriteBody(t, n)
  IN IF m.length # 0 /\ m.body = "nil" THEN [err |-> TRUE, tokens |-> top]
     ELSE IF BadTrailer(t) THEN [err |-> TRUE, tokens |-> top \o FramingLines(WithoutTrailer(t))]
     ELSE [err |-> b.err, tokens |-> head \o b.tokens]

WriteResponse(m0, n) ==
  LET m == KnownLength(m0)
      t == ResponseWriter(m)
      top == <<Start([status |-> m.status, minor |-> m.minor])>>
      head == top \o FramingLines(t) \o HeaderLines(Without(m.header, Excluded))
              \o If1(/\ m.length = 0 /\ ~Chunked(m.te) /\ ~ShouldSendContentLength(t)
                     /\ BodyAllowedForStatus(m.status), Line("Content-Length", Number(0)))
              \o <<Crlf>>
      b == WriteBody(t, n)
  IN IF m0.length = 0 /\ m0.body # "nil" /\ m0.data = <<>> /\ m0.fails
     THEN [err |-> TRUE, tokens |-> top]
     ELSE IF BadTrailer(t) THEN [err |-> TRUE, tokens |-> top \o FramingLines(WithoutTrailer(t))]
     ELSE [err |-> b.err, tokens |-> head \o b.tokens]

WriteOf(m, n) == IF m.kind = "request" THEN WriteRequest(m, n) ELSE WriteResponse(m, n)

-----------------------------------------------------------------------------
(* The reader's view of a head.                                             *)

Refusal(e) == [err |-> e]
HeaderOfLines(ls) ==
  [k \in {ls[i].name : i \in DOMAIN ls} |->
     LET vs == SelectSeq(ls, LAMBDA l : l.name = k) IN [i \in DOMAIN vs |-> vs[i].v]]

FixPragmaCacheControl(h) ==
  IF /\ "Pragma" \in DOMAIN h /\ h["Pragma"] # <<>> /\ h["Pragma"][1] = <<"no-cache">>
     /\ "Cache-Control" \notin DOMAIN h
  THEN [k \in DOMAIN h \cup {"Cache-Control"} |->
          IF k = "Cache-Control" THEN <<<<"no-cache">>>> ELSE h[k]]
  ELSE h

\* fixTransferEncoding: the encodings before "identity", at most one.
FixTransferEncoding(h, minor) ==
  LET raw == Values(h, "Transfer-Encoding")
      upTo == SelectInSeq(raw[1], LAMBDA e : e = "identity")
      te == IF upTo = 0 THEN raw[1] ELSE SubSeq(raw[1], 1, upTo - 1)
      h1 == Without(h, {"Transfer-Encoding"})
  IN IF raw = <<>> \/ minor = 0 THEN [err |-> "", te |-> <<>>, header |-> h1]
     ELSE IF ToSet(te) \ {"chunked"} # {} THEN Refusal("unsupported transfer encoding")
     ELSE IF Len(te) > 1 THEN Refusal("too many transfer encodings")
     ELSE [err |-> "", te |-> te,
           header |-> IF te = <<>> THEN h1 ELSE Without(h1, {"Content-Length"})]

\* parseContentLength: -1 if there is nothing, no number refused.
ParseContentLength(v) ==
  IF v = NoValue THEN [err |-> "", n |-> -1]
  ELSE IF \E n \in Lengths : v = Number(n)
       THEN [err |-> "", n |-> CHOOSE n \in Lengths : v = Number(n)]
  ELSE Refusal("bad Content-Length")

\* fixLength, with the header it leaves.
FixLength(isResponse, status, method, h, te) ==
  LET lens == Values(h, "Content-Length")
      one == First(h, "Content-Length")
      h1 == IF Len(lens) > 1 THEN [h EXCEPT !["Content-Length"] = <<one>>] ELSE h
      cl == ParseContentLength(one)
      Length(n) == [err |-> "", n |-> n, header |-> h1]
  IN IF \E i \in DOMAIN lens : lens[i] # one THEN Refusal("multiple Content-Length")
     ELSE IF NoResponseBodyExpected(method)
     THEN IF ~isResponse /\ lens # <<>> /\ one # Number(0)
          THEN Refusal("method cannot contain a Content-Length") ELSE Length(0)
     ELSE IF ~BodyAllowedForStatus(status) THEN Length(0)
     ELSE IF Chunked(te) THEN Length(-1)
     ELSE IF cl.err # "" THEN cl
     ELSE IF one # NoValue THEN Length(cl.n)
     ELSE [Length(IF isResponse THEN -1 ELSE 0) EXCEPT !.header = Without(@, {"Content-Length"})]

ShouldClose(minor, h) ==
  HasToken(h, "Connection", "close") \/ (minor = 0 /\ ~HasToken(h, "Connection", "keep-alive"))

FixTrailer(h, te) ==
  LET names == UNION {ToSet(Values(h, "Trailer")[i]) : i \in DOMAIN Values(h, "Trailer")}
  IN IF ~Chunked(te) \/ "Trailer" \notin DOMAIN h THEN [err |-> "", names |-> {}, header |-> h]
     ELSE IF names \cap BadTrailers # {} THEN Refusal("bad trailer key")
     ELSE [err |-> "", names |-> names, header |-> Without(h, {"Trailer"})]

\* readTransfer on the head of a message, and the callers' parts that concern
\* it: the message without its body, how that body is framed and its octets.
ReadTransfer(isResponse, start, h0, method) ==
  LET h == FixPragmaCacheControl(h0)
      status == IF isResponse THEN start.status ELSE 200
      close == ShouldClose(start.minor, h)
      h1 == IF isResponse /\ close /\ start.minor = 1 THEN Without(h, {"Connection"}) ELSE h
      e == FixTransferEncoding(h1, start.minor)
      l == FixLength(isResponse, status, method, e.header, e.te)
      own == ParseContentLength(First(l.header, "Content-Length"))
      tr == FixTrailer(l.header, e.te)
      toHEAD == isResponse /\ method = "HEAD"
      unbounded == /\ isResponse /\ l.n = -1 /\ ~Chunked(e.te) /\ BodyAllowedForStatus(status)
      closing == close \/ unbounded
      framing == IF Chunked(e.te)
                 THEN IF NoResponseBodyExpected(method) \/ ~BodyAllowedForStatus(status)
                      THEN "none" ELSE "chunked"
                 ELSE IF l.n = 0 THEN "none"
                 ELSE IF l.n > 0 THEN "limited"
                 ELSE IF closing THEN "unbounded" ELSE "none"
  IN IF e.err # "" THEN e ELSE IF l.err # "" THEN l
     ELSE IF toHEAD /\ own.err # "" THEN own ELSE IF tr.err # "" THEN tr
     ELSE [err |-> "", start |-> start, header |-> tr.header, te |-> e.te, close |-> closing,
           length |-> IF toHEAD THEN own.n ELSE l.n, names |-> tr.names, trailer |-> NoTrailer,
           framing |-> framing, body |-> <<>>, whole |-> framing = "none",
           host |-> First(h, "Host")[1]]

-----------------------------------------------------------------------------
(* The connection.                                                          *)

\* rd.at is where the reader stands: before a "head", in a "body", or "gone"
\* after an error or a message that ends the connection; n, checkEnd and
\* began are chunkedReader's and the LimitedReader's.
HTTP1Init ==
  /\ line = <<>> /\ ended = FALSE /\ said = <<>> /\ heard = <<>>
  /\ rd = [at |-> "head", n |-> 0, checkEnd |-> FALSE]

\* The sender goes on after message m: it has not said that it will close.
\* Bound: it closes after an HTTP/1.0 response.
Keeps(m) ==
  LET close == IF m.kind = "request" THEN m.close ELSE KnownLength(m).close
  IN ~close /\ ~HasToken(m.header, "Connection", "close") /\ (m.kind = "response" => m.minor = 1)

Speak(m, n) ==
  LET w == WriteOf(m, n)
  IN /\ line' = line \o w.tokens
     /\ said' = Append(said, [m |-> m, err |-> w.err])
     /\ ended' = (w.err \/ ~Keeps(m))
     /\ UNCHANGED <<rd, heard>>

\* Bound: two messages, written before they are read.
SayFirst == /\ said = <<>> /\ \E m \in FirstMessages, n \in {1, 2} : Speak(m, n)
SayNext == /\ Len(said) = 1 /\ ~ended /\ heard = <<>>
           /\ \E m \in {x \in NextMessages : x.kind = said[1].m.kind} : Speak(m, 1)

\* What an implementation that breaks the rules sends: method is the one of
\* the request that a response answers.
NotOurs == [kind |-> "foreign"]
SayForeign ==
  /\ said = <<>>
  /\ \E f \in ForeignHeads :
       /\ line' = f.tokens
       /\ said' = <<[m |-> NotOurs, err |-> FALSE, isResponse |-> f.isResponse, method |-> f.method]>>
  /\ ended' = TRUE
  /\ UNCHANGED <<rd, heard>>

\* The connection breaks: what was not delivered yet is lost.
Break ==
  /\ said # <<>> /\ heard = <<>> /\ rd.at = "head" /\ line # <<>>
  /\ \E k \in 0..(Len(line) - 1) : line' = SubSeq(line, 1, k)
  /\ ended' = TRUE
  /\ said' = [i \in DOMAIN said |-> [said[i] EXCEPT !.err = TRUE]]
  /\ UNCHANGED <<rd, heard>>

Stop(h) == /\ rd' = [rd EXCEPT !.at = "gone"] /\ heard' = h
\* The message ends here.
Whole(h) ==
  /\ heard' = [h EXCEPT ![Len(h)].whole = TRUE]
  /\ rd' = [at |-> IF h[Len(h)].close THEN "gone" ELSE "head", n |-> 0, checkEnd |-> FALSE]

\* Where the lines at the beginning of the wire end, 0 if they do not.
HeadEnd(toks) == SelectInSeq(toks, LAMBDA x : x = Crlf)
AreLines(toks) == \A i \in DOMAIN toks : toks[i].t = "line"

\* readRequest or ReadResponse for the next message.
ReadHead ==
  LET end == HeadEnd(line)
      s == said[Len(heard) + 1]
      isResponse == IF s.m.kind = "foreign" THEN s.isResponse ELSE s.m.kind = "response"
      method == IF s.m.kind = "foreign" THEN s.method ELSE s.m.method
      m == ReadTransfer(isResponse, line[1].m,
                        HeaderOfLines(SubSeq(line, 2, end - 1)),
                        IF isResponse THEN method ELSE line[1].m.method)
  IN /\ rd.at = "head"
     /\ IF end = 0
        THEN /\ ended
             /\ Stop(IF line = <<>> THEN heard ELSE Append(heard, Refusal("unexpected EOF")))
             /\ line' = <<>>
        ELSE /\ line' = SubSeq(line, end + 1, Len(line))
             /\ IF \/ Len(heard) = Len(said) \/ line[1].t # "start"
                   \/ ~AreLines(SubSeq(line, 2, end - 1))
                THEN Stop(Append(heard, Refusal("malformed")))
                ELSE IF m.err # "" THEN Stop(Append(heard, m))
                ELSE IF m.whole THEN Whole(Append(heard, m))
                ELSE /\ heard' = Append(heard, m)
                     /\ rd' = [at |-> "body", n |-> m.length, checkEnd |-> FALSE]
     /\ UNCHANGED <<ended, said>>

Current == heard[Len(heard)]
Taken(toks) == [heard EXCEPT ![Len(heard)].body = @ \o toks]
\* body.Read returns an error that is not EOF.
Spoilt(e) == Stop([heard EXCEPT ![Len(heard)].err = e])

\* body.readTrailer on what is left of the wire.
ReadTrailer(rest) ==
  LET end == HeadEnd(rest)
  IN IF end = 0 \/ end > TrailerRoom \/ ~AreLines(SubSeq(rest, 1, end - 1))
     THEN /\ Spoilt("trailer") /\ line' = <<>>
     ELSE /\ Whole([heard EXCEPT ![Len(heard)].trailer = HeaderOfLines(SubSeq(rest, 1, end - 1))])
          /\ line' = SubSeq(rest, end + 1, Len(rest))

\* One turn of chunkedReader.Read's loop, with a buffer for k tokens.
ReadChunked(k) ==
  IF rd.checkEnd
  THEN IF line # <<>> /\ line[1] = Crlf
       THEN /\ line' = Tail(line) /\ rd' = [rd EXCEPT !.checkEnd = FALSE] /\ UNCHANGED heard
       ELSE /\ Spoilt("malformed chunked encoding") /\ line' = <<>>
  ELSE IF rd.n <= 0
  THEN IF line = <<>> \/ line[1].t # "size"
       THEN /\ Spoilt("chunk length") /\ line' = <<>>
       ELSE IF line[1].n = 0 THEN ReadTrailer(Tail(line))
       ELSE /\ line' = Tail(line) /\ rd' = [rd EXCEPT !.n = line[1].n] /\ UNCHANGED heard
  ELSE LET taken == Min({k, rd.n, Len(line)})
       IN IF line = <<>> THEN /\ Spoilt("trailer") /\ UNCHANGED line
          ELSE /\ line' = SubSeq(line, taken + 1, Len(line))
               /\ heard' = Taken(SubSeq(line, 1, taken))
               /\ rd' = [rd EXCEPT !.n = @ - taken, !.checkEnd = rd.n = taken]

\* Mutant: the end of the connection is the end of the body.
ReadLimited_ShortIsEnd(k) ==
  LET taken == Min({k, rd.n, Len(line)})
  IN IF taken = 0 THEN /\ Whole(heard) /\ UNCHANGED line
     ELSE /\ line' = SubSeq(line, taken + 1, Len(line))
          /\ IF taken = rd.n THEN Whole(Taken(SubSeq(line, 1, taken)))
             ELSE /\ heard' = Taken(SubSeq(line, 1, taken))
                  /\ rd' = [rd EXCEPT !.n = @ - taken]

\* A LimitedReader: EOF is right only when nothing is left of the limit.
ReadLimited(k) ==
  LET taken == Min({k, rd.n, Len(line)})
  IN IF taken = 0 THEN /\ Spoilt("unexpected EOF") /\ UNCHANGED line
     ELSE /\ line' = SubSeq(line, taken + 1, Len(line))
          /\ IF taken = rd.n THEN Whole(Taken(SubSeq(line, 1, taken)))
             ELSE /\ heard' = Taken(SubSeq(line, 1, taken))
                  /\ rd' = [rd EXCEPT !.n = @ - taken]

ReadUnbounded ==
  IF line = <<>> THEN Whole(heard) /\ UNCHANGED line
  ELSE /\ heard' = Taken(line) /\ line' = <<>> /\ UNCHANGED rd

\* body.Read.  On a connection that is still open it waits for more.
ReadBody ==
  /\ rd.at = "body" /\ (line # <<>> \/ ended)
  /\ \E k \in 1..2 :
       CASE Current.framing = "chunked" -> ReadChunked(k)
         [] Current.framing = "limited" -> ReadLimited(k)
         [] Current.framing = "unbounded" -> ReadUnbounded
  /\ UNCHANGED <<ended, said>>

-----------------------------------------------------------------------------
(* Properties.                                                              *)

\* Messages whose body has no end that the wire could show, because their
\* sender asked for that.
Tunnel(m) ==
  /\ m.kind = "request" /\ m.body = "reader" /\ m.length <= 0
  /\ \/ m.te = <<"identity">> \/ (m.method = "CONNECT" /\ m.te = <<>>)
Endless(m) == m.kind = "response" /\ m.uncompressed
\* A body where there can be none; a length or a coding without a body.
Inconsistent(m) ==
  IF m.kind = "request" THEN m.method = "HEAD" /\ (m.body = "reader" \/ m.te = <<"chunked">>)
  ELSE \/ m.method = "HEAD" /\ m.te = <<"chunked">>
       \/ ~BodyAllowedForStatus(m.status) /\ m.body # "nil"
       \/ /\ m.method # "HEAD" /\ m.body = "nil" /\ BodyAllowedForStatus(m.status)
          /\ m.length # 0 \/ m.te = <<"chunked">>
Framed(m) == m.kind # "foreign" /\ ~Tunnel(m) /\ ~Endless(m) /\ ~Inconsistent(m)

Content(m) == IF m.body = "nil" \/ (m.kind = "response" /\ m.method = "HEAD") THEN <<>> ELSE m.data
\* The header fields that are not about the framing or the connection, as sent.
OwnFields(h) ==
  LET own == Without(h, Excluded \cup {"Host", "User-Agent", "Connection", "Cache-Control"})
  IN [k \in {j \in DOMAIN own : own[j] # <<>>} |-> [i \in DOMAIN own[k] |-> Clean(own[k][i])]]

\* r is what the reader should have of message m.
HeardAs(r, m) ==
  /\ r.whole
  /\ r.body = Content(m)
  /\ OwnFields(r.header) = OwnFields(m.header)
  /\ r.trailer = IF r.framing = "chunked"
                 THEN [k \in DOMAIN m.trailer |-> [i \in DOMAIN m.trailer[k] |-> Clean(m.trailer[k][i])]]
                 ELSE NoTrailer
  /\ r.framing = "chunked" => DOMAIN r.trailer = r.names
  /\ m.method = "HEAD" \/ r.length \in {-1, Len(Content(m))}
  /\ IF m.kind = "request"
     THEN r.start.method = m.method /\ r.start.uri = m.uri /\ r.host = m.host
     ELSE r.start.status = m.status

\* FramingAgrees: each message, however long its body, however it is chunked
\* and whatever it looks like, is read as what its sender asked for, and the
\* next one after it; one that was not written to its end, because its body
\* failed or does not have the length that was promised or the connection
\* broke, is never taken for a whole one; and no one's message is taken for
\* one with two lengths (transfer.go, chunked.go: transferWriter against
\* readTransfer and body).
FramingAgrees ==
  /\ (\A i \in DOMAIN said : Framed(said[i].m) /\ ~said[i].err) =>
       /\ \A i \in DOMAIN heard :
            /\ heard[i].err = ""
            /\ (i < Len(heard) \/ rd.at # "body") => HeardAs(heard[i], said[i].m)
       /\ line = <<>> /\ rd.at # "body" => Len(heard) = Len(said)
       /\ line = <<>> /\ ~ended => rd.at = "head"
  /\ \A i \in DOMAIN heard :
       /\ heard[i].err = "" /\ heard[i].whole /\ Framed(said[i].m) /\ heard[i].framing # "unbounded" =>
            /\ IsPrefix(heard[i].body, Content(said[i].m))
            /\ said[i].m.method = "HEAD" \/ heard[i].length \in {-1, Len(heard[i].body)}
       /\ heard[i].err = "" => /\ Len(Values(heard[i].header, "Content-Length")) <= 1
                               /\ Chunked(heard[i].te) => "Content-Length" \notin DOMAIN heard[i].header

=============================================================================
