----------------------------- MODULE HTTPServer -----------------------------
(***************************************************************************)
(* One HTTP/1 connection of http.Server (http/server.go, with the request   *)
(* bodies of http/transfer.go): the serve goroutine, the handler, the       *)
(* background read that watches for a hang-up while the handler runs, and    *)
(* Shutdown, Close and SetKeepAlivesEnabled called at any time.  Connections *)
(* meet only in Server.activeConn, so one is enough.                         *)
(*                                                                         *)
(* The client's byte stream is a sequence of units: the first byte of a      *)
(* request head, the rest of it, body bytes, and the end of a chunked body.  *)
(* The handler is the application: it reads, writes, flushes, hijacks,       *)
(* panics and returns as it likes, in the serve goroutine, or in one of its  *)
(* own below a TimeoutHandler.                                               *)
(***************************************************************************)
EXTENDS Integers, Sequences, FiniteSets

CONSTANTS
  Settings,   \* timeouts, a TimeoutHandler, and what the operator does at some time
  Shapes,     \* the requests the client may make, one set for the first, one for the second, ...
  Headers,    \* what WriteHeader is called with
  Calls,      \* bound, for each request: calls of its handler on the request and the response
  BufSize,    \* bufferBeforeChunkingSize, in writes
  MaxDiscard  \* maxPostHandlerReadBytes, in body units

ASSUME HTTPServerAssumption ==
  /\ Calls \in Seq(Nat) /\ Len(Calls) = Len(Shapes) /\ MaxDiscard \in Nat /\ BufSize \in Nat \ {0}
  /\ Settings \subseteq [timeouts : BOOLEAN, wrapped : BOOLEAN, operator : {"none", "shutdown", "close", "nokeep"}]
  /\ \A i \in 1..Len(Shapes) : \A s \in Shapes[i] : /\ s.framing \in {"length", "chunked", "broken"} /\ s.body \in Nat
                       /\ s.bad \in {"no", "bad", "toolarge", "coding", "expectation"}
                       /\ {s.expect, s.close, s.v11, s.head, s.keep10} \subseteq BOOLEAN
  /\ Headers \subseteq [body : BOOLEAN, length : Nat \cup {-1}, conn : {"", "close", "keep-alive"}, identity : BOOLEAN]

VARIABLES
  cfg,   \* the settings
  net,   \* the client: units sent, how many of them the server's socket has taken, hung up
  srv,   \* Server: inShutdown, disableKeepAlives, and how far Shutdown is
  conn,  \* conn: the serve goroutine, activeConn, curState, the socket and bufr
  cr,    \* connReader and its background read
  req,   \* the request being served
  bdy,   \* its body (transfer.go)
  w,     \* its response and chunkWriter
  hnd    \* the handler, and the timeoutWriter

vars == <<cfg, net, srv, conn, cr, req, bdy, w, hnd>>

NoUnit  == [k |-> "none", id |-> 0]
NoShape == [body |-> 0, framing |-> "length", bad |-> "no", expect |-> FALSE, close |-> FALSE,
            v11 |-> TRUE, head |-> FALSE, keep10 |-> FALSE]
OK      == [body |-> TRUE, length |-> -1, conn |-> "", identity |-> FALSE]

\* The units of a request: a head, then a body of known length or a chunked one, whose end
\* carries a trailer that may be malformed.
UnitsOf(s, i) ==
  <<[k |-> "first", id |-> i], [k |-> "rest", id |-> i]>>
    \o [n \in 1..s.body |-> [k |-> "body", id |-> i]]
    \o (IF s.framing = "length" THEN <<>> ELSE <<[k |-> IF s.framing = "chunked" THEN "end" ELSE "bad", id |-> i]>>)

NoResponse == [wroteHeader |-> FALSE, given |-> OK, length |-> -1, written |-> 0, buf |-> 0, closeAfter |-> FALSE,
               limitHit |-> FALSE, wroteContinue |-> FALSE, sawEOF |-> FALSE, handlerDone |-> FALSE,
               header |-> "no", sent |-> 0, ended |-> FALSE, raw |-> FALSE, todo |-> "none", discarded |-> -1]
NoBody     == [left |-> 0, chunked |-> FALSE, sawEOF |-> TRUE, closed |-> FALSE, early |-> FALSE, hook |-> FALSE,
               present |-> FALSE, failed |-> FALSE, drained |-> 0]
NoHandler  == [at |-> "off", calls |-> 0, timedOut |-> FALSE, buf |-> 0]

Init ==
  /\ cfg \in Settings
  /\ net = [sent |-> <<>>, todo |-> <<>>, reqs |-> <<>>, taken |-> 0, gone |-> FALSE]
  /\ srv = [down |-> FALSE, noKeepAlives |-> FALSE, shutdown |-> "no"]
  /\ conn = [at |-> "accept", tracked |-> FALSE, state |-> "none", old |-> FALSE, late |-> FALSE, hijacked |-> FALSE,
             cancelled |-> FALSE, closed |-> FALSE, werr |-> FALSE, deadline |-> "none", bufr |-> <<>>,
             rerr |-> "none", part |-> 0, served |-> 0, readAny |-> FALSE, err |-> "none", parsed |-> 0]
  /\ cr = [inRead |-> FALSE, aborted |-> FALSE, byte |-> NoUnit, bg |-> "off", got |-> NoUnit, by |-> "none", panic |-> FALSE]
  /\ req = NoShape /\ bdy = NoBody /\ w = NoResponse /\ hnd = NoHandler

doKeepAlives == ~srv.noKeepAlives /\ ~srv.down

-----------------------------------------------------------------------------
(* The client.                                                              *)

\* The client sends the head of another request, perhaps before the last one is answered, and
\* the body byte by byte.
ClientRequest(s) ==
  /\ ~net.gone /\ ~conn.closed /\ net.todo = <<>> /\ Len(net.reqs) < Len(Shapes) /\ s \in Shapes[Len(net.reqs) + 1]
  /\ LET u == UnitsOf(s, Len(net.reqs) + 1)
     IN net' = [net EXCEPT !.sent = @ \o SubSeq(u, 1, 2), !.todo = SubSeq(u, 3, Len(u)), !.reqs = Append(@, s)]
  /\ UNCHANGED <<cfg, srv, conn, cr, req, bdy, w, hnd>>

ClientSend ==
  /\ ~net.gone /\ ~conn.closed /\ net.todo # <<>>
  /\ net' = [net EXCEPT !.sent = Append(@, Head(net.todo)), !.todo = Tail(@)]
  /\ UNCHANGED <<cfg, srv, conn, cr, req, bdy, w, hnd>>

ClientClose ==
  /\ ~net.gone /\ ~conn.closed
  /\ net' = [net EXCEPT !.gone = TRUE]
  /\ UNCHANGED <<cfg, srv, conn, cr, req, bdy, w, hnd>>

\* What the socket holds, and what a read of it may return (everything, or one unit).
Socket == SubSeq(net.sent, net.taken + 1, Len(net.sent))

-----------------------------------------------------------------------------
(* connReader.                                                              *)

\* handleReadError cancels the connection's context (and fires CloseNotify).
CancelOn(e, c) == [c EXCEPT !.cancelled = @ \/ e # "none"]

\* startBackgroundRead, on entry to the handler or when a body has been read to its end.
StartBackgroundRead ==
  IF cr.inRead THEN [cr EXCEPT !.panic = TRUE]
  ELSE IF cr.byte # NoUnit THEN cr
  ELSE [cr EXCEPT !.inRead = TRUE, !.bg = "read"]
StartClearsDeadline(c) == IF ~cr.inRead /\ cr.byte = NoUnit THEN [c EXCEPT !.deadline = "none"] ELSE c

\* backgroundRead's rwc.Read returns: one byte, or an error.
BackgroundReadReturns ==
  /\ cr.bg = "read"
  /\ \/ /\ conn.closed /\ cr' = [cr EXCEPT !.bg = "closed"] /\ UNCHANGED net
     \/ /\ ~conn.closed /\ Socket # <<>>
        /\ cr' = [cr EXCEPT !.bg = "byte", !.got = Head(Socket)]
        /\ net' = [net EXCEPT !.taken = @ + 1]
     \/ /\ ~conn.closed /\ Socket = <<>> /\ net.gone
        /\ cr' = [cr EXCEPT !.bg = "eof"] /\ UNCHANGED net
     \/ /\ ~conn.closed /\ conn.deadline = "past"
        /\ cr' = [cr EXCEPT !.bg = "timeout"] /\ UNCHANGED net
  /\ UNCHANGED <<cfg, srv, conn, req, bdy, w, hnd>>

X_BackgroundReadCancels ==
  /\ cr.bg \in {"byte", "eof", "timeout", "closed"}
  /\ cr' = [cr EXCEPT !.byte = IF cr.bg = "byte" THEN cr.got ELSE @, !.got = NoUnit,
                      !.aborted = FALSE, !.inRead = FALSE, !.bg = "off"]
  /\ conn' = CancelOn(IF cr.bg = "byte" THEN "none" ELSE cr.bg, conn)
  /\ UNCHANGED <<cfg, net, srv, req, bdy, w, hnd>>

\* The rest of backgroundRead: the byte is kept for the next Read, an error cancels the
\* request unless it is the timeout that abortPendingRead caused.
BackgroundReadEnds ==
  /\ cr.bg \in {"byte", "eof", "timeout", "closed"}
  /\ cr' = [cr EXCEPT !.byte = IF cr.bg = "byte" THEN cr.got ELSE @, !.got = NoUnit,
                      !.aborted = FALSE, !.inRead = FALSE, !.bg = "off"]
  /\ conn' = CancelOn(IF cr.bg = "byte" \/ (cr.bg = "timeout" /\ cr.aborted) THEN "none" ELSE cr.bg, conn)
  /\ UNCHANGED <<cfg, net, srv, req, bdy, w, hnd>>

\* body.Close: no need to look for the end if it was seen, or if the connection closes next
\* and there is no trailer; a long rest is left; a short one is read.
CloseAtOnce == \/ bdy.closed \/ bdy.sawEOF \/ bdy.failed
               \/ ~bdy.chunked /\ (req.close \/ ~(req.v11 \/ req.keep10))
CloseGivesUp == bdy.drained = MaxDiscard \/ (~CloseAtOnce /\ ~bdy.chunked /\ bdy.left > MaxDiscard)
CloseReads == ~CloseAtOnce /\ ~CloseGivesUp
\* Bytes of the body among what is read next.
BodyBytes == IF conn.bufr # <<>> /\ Head(conn.bufr).k = "body" THEN 1 ELSE 0
\* The discarding in chunkWriter.writeHeader is at an end.
BodyOver == bdy.sawEOF \/ bdy.failed \/ bdy.closed

\* Who needs bytes of the connection that bufr does not hold: the serve goroutine (with the
\* handler it runs), or the handler's own goroutine below a TimeoutHandler.
HandlerReads == hnd.at = "reading" \/ (hnd.at = "closing" /\ CloseReads)
ServeReads   == \/ conn.at \in {"read", "peek"}
                \/ conn.at = "bodyclose" /\ hnd.at \notin {"reading", "closing"} /\ CloseReads
                \/ w.discarded \in 0..MaxDiscard /\ ~BodyOver
Dry          == Len(conn.bufr) < (IF conn.at = "peek" THEN 2 ELSE 1) /\ conn.rerr = "none"

\* connReader.Read up to the socket: a byte of the background read comes first, and two reads
\* at a time are a panic.
ConnRead(who) ==
  /\ Dry /\ cr.by = "none" /\ ~cr.panic
  /\ \/ who = "serve" /\ ServeReads
     \/ who = "handler" /\ HandlerReads
  /\ conn' = IF ~cr.inRead /\ cr.byte # NoUnit THEN [conn EXCEPT !.bufr = Append(@, cr.byte)] ELSE conn
  /\ cr' = IF cr.inRead THEN [cr EXCEPT !.panic = TRUE]
           ELSE IF cr.byte # NoUnit THEN [cr EXCEPT !.byte = NoUnit]
           ELSE [cr EXCEPT !.inRead = TRUE, !.by = who]
  /\ UNCHANGED <<cfg, net, srv, req, bdy, w, hnd>>

\* The socket's Read returns, with what has arrived, or an error that cancels the context.  Once
\* its deadline has passed every read fails, save one that abortPendingRead wakes just then.
ConnReadReturns ==
  /\ cr.by # "none"
  /\ \/ \E n \in {1, Len(Socket)} :
          /\ ~conn.closed /\ Socket # <<>> /\ (conn.deadline # "past" \/ cr.aborted)
          /\ conn' = [conn EXCEPT !.bufr = @ \o SubSeq(Socket, 1, n), !.readAny = TRUE]
          /\ net' = [net EXCEPT !.taken = @ + n]
     \/ \E e \in {"closed", "eof", "timeout"} :
          /\ CASE e = "closed"  -> conn.closed
               [] e = "eof"     -> ~conn.closed /\ Socket = <<>> /\ net.gone
               [] e = "timeout" -> ~conn.closed /\ conn.deadline # "none"
          /\ conn' = CancelOn(e, [conn EXCEPT !.rerr = e, !.deadline = IF e = "timeout" THEN "past" ELSE @]) /\ UNCHANGED net
  /\ cr' = [cr EXCEPT !.inRead = FALSE, !.by = "none"]
  /\ UNCHANGED <<cfg, srv, req, bdy, w, hnd>>

-----------------------------------------------------------------------------
(* The serve goroutine up to the handler.                                   *)

\* setState: the connection enters or leaves activeConn, then its state word is stored.
SetState(c, s) == [c EXCEPT !.state = s, !.old = FALSE,
                               !.tracked = IF s = "new" THEN TRUE ELSE IF s \in {"hijacked", "closed"} THEN FALSE ELSE @]

\* Serve: Accept has returned a connection, if the listener was not closed first.
Accept ==
  /\ conn.at = "accept"
  /\ conn' = [conn EXCEPT !.at = IF srv.down THEN "done" ELSE "accepted"]
  /\ UNCHANGED <<cfg, net, srv, cr, req, bdy, w, hnd>>

\* setState(StateNew), whose two halves closeIdleConns may come between; then go c.serve.
TrackNew ==
  /\ conn.at = "accepted"
  /\ conn' = [conn EXCEPT !.at = "tracked", !.tracked = TRUE, !.late = srv.shutdown = "returned"]
  /\ UNCHANGED <<cfg, net, srv, cr, req, bdy, w, hnd>>
GoServe ==
  /\ conn.at = "tracked"
  /\ conn' = [conn EXCEPT !.at = "start", !.state = "new"]
  /\ UNCHANGED <<cfg, net, srv, cr, req, bdy, w, hnd>>

\* readRequest sets its deadlines and starts to read a head.
ReadRequest ==
  /\ conn.at = "start"
  /\ conn' = [conn EXCEPT !.at = "read", !.part = 0, !.readAny = FALSE, !.err = "none",
                          !.deadline = IF cfg.timeouts THEN "set" ELSE "none"]
  /\ UNCHANGED <<cfg, net, srv, cr, req, bdy, w, hnd>>

\* A new response, and a body as readTransfer makes it.
NewBody(s) ==
  [NoBody EXCEPT !.left = s.body, !.chunked = s.framing # "length",
                 !.present = s.body > 0 \/ s.framing # "length", !.sawEOF = s.body = 0 /\ s.framing = "length"]

\* readRequest reads the head, in two units.  What is not the start of a request does not parse.
ReadHead ==
  /\ conn.at = "read" /\ conn.bufr # <<>>
  /\ LET u == Head(conn.bufr)
         s == net.reqs[u.id]
         c == [conn EXCEPT !.bufr = Tail(@), !.parsed = @ + 1]
     IN \/ /\ conn.part = 0
           /\ conn' = IF u.k = "first" THEN [c EXCEPT !.part = 1] ELSE [c EXCEPT !.at = "parsed", !.err = "bad"]
           /\ UNCHANGED <<req, bdy, w>>
        \/ /\ conn.part = 1
           /\ conn' = [c EXCEPT !.at = "parsed", !.err = IF s.bad \in {"no", "expectation"} THEN "none" ELSE s.bad,
                                !.deadline = IF cfg.timeouts THEN "set" ELSE "none", !.readAny = TRUE]
           /\ req' = s /\ bdy' = NewBody(s) /\ w' = NoResponse
  /\ UNCHANGED <<cfg, net, srv, cr, hnd>>

\* or the connection ends or the deadline passes first.
ReadHeadFails ==
  /\ conn.at = "read" /\ conn.bufr = <<>> /\ conn.rerr # "none"
  /\ conn' = [conn EXCEPT !.at = "parsed", !.err = "net", !.rerr = "none"]
  /\ UNCHANGED <<cfg, net, srv, cr, req, bdy, w, hnd>>

X_SetActiveLate ==
  /\ conn.at = "parsed"
  /\ conn' = [conn EXCEPT !.at = IF conn.err = "none" THEN "dispatch" ELSE "refuse"]
  /\ UNCHANGED <<cfg, net, srv, cr, req, bdy, w, hnd>>

\* serve: the connection is active once anything of the request was read.
SetActive ==
  /\ conn.at = "parsed"
  /\ conn' = [(IF conn.readAny THEN SetState(conn, "active") ELSE conn)
                EXCEPT !.at = IF conn.err = "none" THEN "dispatch" ELSE "refuse"]
  /\ UNCHANGED <<cfg, net, srv, cr, req, bdy, w, hnd>>

\* serve replies to a request it cannot read with 431, 501 or 400 and closes; not to a failed read.
Refuse ==
  /\ conn.at = "refuse"
  /\ conn' = [conn EXCEPT !.at = "closing"]
  /\ w' = [NoResponse EXCEPT !.header = IF conn.err = "net" THEN "no" ELSE "error", !.closeAfter = TRUE]
  /\ UNCHANGED <<cfg, net, srv, cr, req, bdy, hnd>>

\* serve: an unknown expectation is refused with 417 (sendExpectationFailed); otherwise the
\* background read starts, now or when the body has been read, and the handler is called.
Dispatch ==
  /\ conn.at = "dispatch"
  /\ IF req.bad = "expectation"
     THEN /\ conn' = [conn EXCEPT !.at = "finish"]
          /\ w' = [w EXCEPT !.wroteHeader = TRUE, !.given = [OK EXCEPT !.conn = "close"], !.closeAfter = FALSE,
                            !.handlerDone = TRUE]
          /\ UNCHANGED <<cr, bdy, hnd>>
     ELSE /\ bdy' = [bdy EXCEPT !.hook = ~bdy.sawEOF]
          /\ cr' = IF bdy.sawEOF THEN StartBackgroundRead ELSE cr
          /\ conn' = [(IF bdy.sawEOF THEN StartClearsDeadline(conn) ELSE conn) EXCEPT !.at = "handler", !.served = @ + 1]
          /\ hnd' = [NoHandler EXCEPT !.at = "run"]
          /\ UNCHANGED w
  /\ UNCHANGED <<cfg, net, srv, req>>

-----------------------------------------------------------------------------
(* The request body (transfer.go).                                          *)

\* body.readLocked after src has returned a unit: the last byte of a known length, or the
\* last chunk and a good trailer, is the end; a malformed trailer closes the body.
BodyTakes(b, u) ==
  CASE u.k = "body" -> [b EXCEPT !.left = @ - 1, !.sawEOF = ~b.chunked /\ b.left = 1]
    [] u.k = "end"  -> [b EXCEPT !.sawEOF = TRUE]
    [] OTHER        -> [b EXCEPT !.closed = TRUE]
\* or an error: an early end of input counts as seen by a body of known length, and sticks
\* to the chunked reader.
BodyFails(b, e) == [b EXCEPT !.sawEOF = ~b.chunked /\ e = "eof", !.failed = b.chunked]

\* One read of a body by the serve goroutine or the handler; at its end onHitEOF starts the
\* background read.
BodyRead(b) ==
  /\ bdy' = IF b.sawEOF THEN [b EXCEPT !.hook = FALSE] ELSE b
  /\ cr' = IF b.sawEOF /\ b.hook THEN StartBackgroundRead ELSE cr
  /\ LET c == IF conn.bufr # <<>> THEN [conn EXCEPT !.bufr = Tail(@), !.parsed = @ + 1] ELSE [conn EXCEPT !.rerr = "none"]
     IN conn' = IF b.sawEOF /\ b.hook THEN StartClearsDeadline(c) ELSE c

ReadOutcome == IF conn.bufr # <<>> THEN BodyTakes(bdy, Head(conn.bufr)) ELSE BodyFails(bdy, conn.rerr)
ReadPossible == conn.bufr # <<>> \/ conn.rerr # "none"

\* body.Close ends, having seen the end of the body or not.
CloseBody ==
  /\ CloseAtOnce \/ CloseGivesUp
  /\ bdy' = [bdy EXCEPT !.closed = TRUE, !.early = @ \/ CloseGivesUp]
\* One unit of the rest; an error ends the search.
CloseDrains ==
  /\ CloseReads /\ ReadPossible
  /\ BodyRead([ReadOutcome EXCEPT !.drained = @ + BodyBytes, !.closed = @ \/ conn.bufr = <<>>])

-----------------------------------------------------------------------------
(* The response.                                                            *)

BodyAllowed == w.given.body
\* What a flush of bufw meets: checkConnErrorWriter notes the error and cancels the context
\* (a client that does not read until WriteTimeout counts as gone).
WriteOutcomes == IF conn.closed THEN {FALSE} ELSE IF net.gone THEN BOOLEAN ELSE {TRUE}
Flushed(c, ok) == [c EXCEPT !.werr = @ \/ ~ok, !.cancelled = @ \/ ~ok]

\* response.WriteHeader: the header map is taken as it is now.
WriteHeader(r, x) ==
  IF conn.hijacked \/ r.wroteHeader THEN r
  ELSE [r EXCEPT !.wroteHeader = TRUE, !.given = IF r.limitHit THEN [x EXCEPT !.conn = "close"] ELSE x, !.length = x.length]

\* response.requestTooLarge, called by a MaxBytesReader at its limit or for a long rest of a body.
TooLarge(r) == [r EXCEPT !.closeAfter = TRUE, !.limitHit = TRUE]

\* chunkWriter.writeHeader: the length it can tell, and whether the reply is the last one,
\* before the rest of the request body is looked at.
AutoLength == w.handlerDone /\ ~w.given.identity /\ BodyAllowed /\ w.given.length = -1 /\ (~req.head \/ w.buf > 0)
LengthOut  == IF AutoLength THEN w.buf ELSE w.length
CloseBefore ==
  LET kept == IF req.keep10 /\ doKeepAlives /\ w.given.length # -1 /\ w.given.conn = "keep-alive" THEN FALSE ELSE w.closeAfter
  IN \/ kept
     \/ ~(req.keep10 /\ (req.head \/ LengthOut # -1 \/ ~BodyAllowed)) /\ (~req.v11 \/ req.close)
     \/ w.given.conn = "close" \/ ~doKeepAlives
     \/ req.expect /\ ~w.sawEOF

\* writeHeader: how the body is delimited, and what is sent to say so.
Framing == IF req.head \/ ~BodyAllowed THEN "bare"
           ELSE IF LengthOut # -1 THEN "length"
           ELSE IF req.v11 /\ ~w.given.identity THEN "chunked" ELSE "eof"
HeaderOut(r, close) ==
  [r EXCEPT !.header = Framing, !.length = LengthOut, !.closeAfter = close \/ Framing = "eof", !.discarded = -1]

\* writeHeader starts: the rest of the request body is discarded before the reply, unless the
\* connection closes anyway or the rest is known to be long.
HeaderStarts ==
  /\ w.todo # "none" /\ w.header = "no" /\ w.discarded = -1
  /\ \/ /\ CloseBefore \/ ~bdy.present
        /\ w' = HeaderOut(w, CloseBefore)
     \/ /\ ~CloseBefore /\ bdy.present /\ hnd.at \notin {"reading", "closing"}
        /\ w' = IF bdy.closed /\ ~req.expect THEN HeaderOut(w, ~bdy.sawEOF)
                ELSE IF ~req.expect /\ ~bdy.chunked /\ bdy.left >= MaxDiscard THEN HeaderOut(TooLarge(w), TRUE)
                ELSE IF req.expect /\ ~w.wroteContinue THEN HeaderOut(w, FALSE)
                ELSE [w EXCEPT !.discarded = 0]
  /\ UNCHANGED <<cfg, net, srv, conn, cr, req, bdy, hnd>>

\* writeHeader discards the rest of the request body: to its end, which lets the connection be
\* kept; to an error; or until the rest proves to be long.
HeaderDiscards ==
  /\ w.discarded >= 0
  /\ \/ /\ BodyOver /\ w.discarded <= MaxDiscard
        /\ w' = HeaderOut(w, bdy.failed \/ ~bdy.sawEOF)
        /\ bdy' = [bdy EXCEPT !.closed = TRUE] /\ UNCHANGED <<conn, cr>>
     \/ /\ w.discarded = MaxDiscard + 1
        /\ w' = HeaderOut(TooLarge(w), TRUE) /\ UNCHANGED <<conn, cr, bdy>>
     \/ /\ ~BodyOver /\ w.discarded <= MaxDiscard /\ ReadPossible
        /\ BodyRead([ReadOutcome EXCEPT !.failed = @ \/ conn.bufr = <<>>])
        /\ w' = [w EXCEPT !.discarded = @ + BodyBytes]
  /\ UNCHANGED <<cfg, net, srv, req, hnd>>

\* What was to be written after the header: chunkWriter.Write eats the body of a reply to HEAD,
\* and chunkWriter.close ends a chunked body.
Put(r, n) == [r EXCEPT !.sent = IF req.head THEN @ ELSE @ + n, !.todo = "none"]
Continue ==
  /\ w.todo # "none" /\ w.header # "no"
  /\ \/ /\ w.todo = "write"
        /\ w' = [Put(w, w.buf) EXCEPT !.buf = 1] /\ UNCHANGED conn
     \/ /\ w.todo = "flush"
        /\ \E ok \in WriteOutcomes : conn' = Flushed(conn, ok)
        /\ w' = [Put(w, w.buf) EXCEPT !.buf = 0]
     \/ /\ w.todo = "bulk"
        /\ w' = [Put(w, w.written) EXCEPT !.todo = "finish"] /\ UNCHANGED conn
     \/ /\ w.todo = "sendfile"
        /\ \E ok \in WriteOutcomes : conn' = Flushed(conn, ok)
        /\ w' = IF w.header # "chunked" /\ BodyAllowed
                THEN [Put(w, w.buf) EXCEPT !.buf = 0, !.sent = @ + 1, !.written = @ + 1, !.raw = TRUE]
                ELSE [Put(w, w.buf) EXCEPT !.buf = IF BodyAllowed THEN 1 ELSE 0, !.written = IF BodyAllowed THEN @ + 1 ELSE @]
     \/ /\ w.todo = "hijack"
        /\ w' = Put(w, 0)
        /\ \E ok \in WriteOutcomes : conn' = [Flushed(conn, ok) EXCEPT !.at = "hijack"]
     \/ /\ w.todo = "finish"
        /\ w' = [Put(w, w.buf) EXCEPT !.buf = 0, !.ended = w.header = "chunked"]
        /\ \E ok \in WriteOutcomes : conn' = [Flushed(conn, ok) EXCEPT !.at = "abort"]
  /\ UNCHANGED <<cfg, net, srv, cr, req, bdy, hnd>>

-----------------------------------------------------------------------------
(* The handler.                                                             *)

\* The handler acts: in the serve goroutine, or in its own below a TimeoutHandler.
Runs == hnd.at = "run" /\ (cfg.wrapped \/ (conn.at = "handler" /\ w.todo = "none"))
Acts == Runs /\ hnd.calls < Calls[conn.served]
Direct == Acts /\ ~cfg.wrapped
Called(at) == [hnd EXCEPT !.at = at, !.calls = @ + 1]

\* Request.Body.Read: the first one of an expectContinueReader sends 100 Continue.
HandlerRead ==
  /\ Acts /\ ~conn.hijacked /\ ~(bdy.closed \/ bdy.sawEOF \/ bdy.failed)
  /\ w.discarded = -1 /\ conn.at # "bodyclose"
  /\ hnd' = Called("reading")
  /\ w' = [w EXCEPT !.wroteContinue = @ \/ req.expect]
  /\ UNCHANGED <<cfg, net, srv, conn, cr, req, bdy>>
HandlerGets ==
  /\ hnd.at = "reading" /\ ReadPossible
  /\ BodyRead(ReadOutcome)
  /\ w' = [w EXCEPT !.sawEOF = @ \/ (conn.bufr # <<>> /\ ReadOutcome.sawEOF)]
  /\ hnd' = [hnd EXCEPT !.at = "run"]
  /\ UNCHANGED <<cfg, net, srv, req>>
\* Request.Body.Close.
HandlerCloses ==
  /\ Acts /\ ~conn.hijacked /\ bdy.present /\ ~bdy.closed /\ w.discarded = -1 /\ conn.at # "bodyclose"
  /\ hnd' = Called("closing")
  /\ UNCHANGED <<cfg, net, srv, conn, cr, req, bdy, w>>
HandlerClosing ==
  /\ hnd.at = "closing"
  /\ \/ CloseDrains /\ UNCHANGED hnd
     \/ CloseBody /\ hnd' = [hnd EXCEPT !.at = "run"] /\ UNCHANGED <<conn, cr>>
  /\ UNCHANGED <<cfg, net, srv, req, w>>

\* ResponseWriter.WriteHeader and requestTooLarge.
HandlerHeader ==
  /\ Direct /\ ~w.wroteHeader
  /\ \E x \in Headers : w' = WriteHeader(w, x)
  /\ hnd' = Called("run")
  /\ UNCHANGED <<cfg, net, srv, conn, cr, req, bdy>>
HandlerHitsLimit ==
  /\ Direct /\ ~conn.hijacked /\ bdy.present /\ ~w.limitHit
  /\ w' = TooLarge(w) /\ hnd' = Called("run")
  /\ UNCHANGED <<cfg, net, srv, conn, cr, req, bdy>>

\* response.write: refused after a hijack, for a status without body and over the declared
\* length (which still counts as written); else buffered, a full buffer going out first.
HandlerWrite ==
  /\ Direct /\ ~conn.hijacked
  /\ hnd' = Called("run")
  /\ LET r == WriteHeader(w, OK)
         wrote == [r EXCEPT !.written = @ + 1]
     IN w' = IF ~r.given.body THEN r
             ELSE IF r.length # -1 /\ wrote.written > r.length THEN wrote
             ELSE IF r.buf < BufSize THEN [wrote EXCEPT !.buf = @ + 1]
             ELSE [wrote EXCEPT !.todo = "write"]
  /\ UNCHANGED <<cfg, net, srv, conn, cr, req, bdy>>

\* response.Flush, response.ReadFrom of a file, and response.Hijack before its lock.
HandlerAsks(what) ==
  /\ Direct /\ ~conn.hijacked
  /\ hnd' = Called("run")
  /\ IF what = "hijack" /\ ~w.wroteHeader
     THEN conn' = [conn EXCEPT !.at = "hijack"] /\ UNCHANGED w
     ELSE w' = [WriteHeader(w, OK) EXCEPT !.todo = what] /\ UNCHANGED conn
  /\ UNCHANGED <<cfg, net, srv, cr, req, bdy>>

\* The handler returns or panics in the serve goroutine: finishRequest follows, unless the
\* connection was hijacked, or the panic closes it.
HandlerReturns ==
  /\ Runs /\ ~cfg.wrapped
  /\ conn' = [conn EXCEPT !.at = IF conn.hijacked THEN "done" ELSE "finish", !.cancelled = @ \/ conn.hijacked]
  /\ w' = IF conn.hijacked THEN w ELSE [WriteHeader(w, OK) EXCEPT !.handlerDone = TRUE, !.todo = "finish"]
  /\ hnd' = NoHandler
  /\ UNCHANGED <<cfg, net, srv, cr, req, bdy>>
HandlerPanics ==
  /\ Acts
  /\ IF cfg.wrapped
     THEN hnd' = [hnd EXCEPT !.at = "panicked"] /\ UNCHANGED conn
     ELSE hnd' = NoHandler /\ conn' = [conn EXCEPT !.at = IF conn.hijacked THEN "done" ELSE "closing"]
  /\ UNCHANGED <<cfg, net, srv, cr, req, bdy, w>>

-----------------------------------------------------------------------------
(* TimeoutHandler: the handler writes into a timeoutWriter.                 *)

\* timeoutWriter.Write, refused once the request has timed out; and the handler returns.
TimeoutWrite ==
  /\ Acts /\ cfg.wrapped
  /\ hnd' = [Called("run") EXCEPT !.buf = IF hnd.timedOut THEN @ ELSE @ + 1]
  /\ UNCHANGED <<cfg, net, srv, conn, cr, req, bdy, w>>
TimeoutReturn ==
  /\ Runs /\ cfg.wrapped
  /\ hnd' = [hnd EXCEPT !.at = "returned"]
  /\ UNCHANGED <<cfg, net, srv, conn, cr, req, bdy, w>>

\* timeoutHandler.ServeHTTP's select: what the handler wrote is sent when it has returned, 503
\* when the time is over or the request was cancelled, and a panic is passed on.
Answer(r, n) ==
  [WriteHeader(r, OK) EXCEPT !.written = n, !.buf = IF n <= BufSize THEN n ELSE 0, !.handlerDone = n <= BufSize,
                             !.todo = IF n <= BufSize THEN "finish" ELSE "bulk"]
TimeoutDone ==
  /\ conn.at = "handler" /\ hnd.at = "returned"
  /\ w' = Answer(w, hnd.buf) /\ hnd' = [hnd EXCEPT !.at = "off"]
  /\ conn' = [conn EXCEPT !.at = "finish"]
  /\ UNCHANGED <<cfg, net, srv, cr, req, bdy>>
TimeoutFires ==
  /\ conn.at = "handler" /\ cfg.wrapped
  /\ w' = Answer(w, 1) /\ hnd' = [hnd EXCEPT !.timedOut = TRUE]
  /\ conn' = [conn EXCEPT !.at = "finish"]
  /\ UNCHANGED <<cfg, net, srv, cr, req, bdy>>
TimeoutPanic ==
  /\ conn.at = "handler" /\ hnd.at = "panicked"
  /\ conn' = [conn EXCEPT !.at = "closing"] /\ hnd' = NoHandler
  /\ UNCHANGED <<cfg, net, srv, cr, req, bdy, w>>

-----------------------------------------------------------------------------
(* The serve goroutine after the handler.                                   *)

\* sendExpectationFailed goes through finishRequest as well.
RefusalFinishes ==
  /\ conn.at = "finish" /\ w.todo = "none" /\ w.header = "no"
  /\ w' = [w EXCEPT !.todo = "finish"]
  /\ UNCHANGED <<cfg, net, srv, conn, cr, req, bdy, hnd>>

X_AbortWithoutDeadline ==
  /\ conn.at \in {"abort", "hijack"}
  /\ IF cr.inRead
     THEN /\ cr' = [cr EXCEPT !.aborted = TRUE]
          /\ conn' = [conn EXCEPT !.at = IF conn.at = "abort" THEN "aborting" ELSE "hijacking"]
     ELSE conn' = [conn EXCEPT !.at = IF conn.at = "abort" THEN "bodyclose" ELSE "hijacked"] /\ UNCHANGED cr
  /\ UNCHANGED <<cfg, net, srv, req, bdy, w, hnd>>

\* abortPendingRead, for finishRequest and for Hijack: a deadline in the past wakes the read,
\* and the caller waits for it to be over.
AbortPendingRead ==
  /\ conn.at \in {"abort", "hijack"}
  /\ IF cr.inRead
     THEN /\ cr' = [cr EXCEPT !.aborted = TRUE]
          /\ conn' = [conn EXCEPT !.deadline = "past", !.at = IF conn.at = "abort" THEN "aborting" ELSE "hijacking"]
     ELSE conn' = [conn EXCEPT !.at = IF conn.at = "abort" THEN "bodyclose" ELSE "hijacked"] /\ UNCHANGED cr
  /\ UNCHANGED <<cfg, net, srv, req, bdy, w, hnd>>
AbortWaited ==
  /\ conn.at \in {"aborting", "hijacking"} /\ ~cr.inRead
  /\ conn' = [conn EXCEPT !.deadline = "none", !.at = IF conn.at = "aborting" THEN "bodyclose" ELSE "hijacked"]
  /\ UNCHANGED <<cfg, net, srv, cr, req, bdy, w, hnd>>

X_HijackedDropsByte ==
  /\ conn.at = "hijacked"
  /\ conn' = [SetState(conn, "hijacked") EXCEPT !.at = "handler", !.hijacked = TRUE, !.deadline = "none"]
  /\ cr' = [cr EXCEPT !.byte = NoUnit]
  /\ UNCHANGED <<cfg, net, srv, req, bdy, w, hnd>>

\* hijackLocked after the abort: the byte of the background read goes to the buffer the
\* hijacker gets, and the server forgets the connection.
Hijacked ==
  /\ conn.at = "hijacked"
  /\ conn' = [SetState(conn, "hijacked") EXCEPT !.at = "handler", !.hijacked = TRUE, !.deadline = "none",
                 !.bufr = IF cr.byte # NoUnit THEN Append(@, cr.byte) ELSE @]
  /\ cr' = [cr EXCEPT !.byte = NoUnit]
  /\ UNCHANGED <<cfg, net, srv, req, bdy, w, hnd>>

\* finishRequest closes the body.
FinishBody ==
  /\ conn.at = "bodyclose" /\ hnd.at \notin {"reading", "closing"}
  /\ CloseDrains \/ (CloseBody /\ conn' = [conn EXCEPT !.at = "decide"] /\ UNCHANGED cr)
  /\ UNCHANGED <<cfg, net, srv, req, w, hnd>>

X_ShouldReuseAnyLength == ~w.closeAfter /\ ~conn.werr /\ ~(bdy.present /\ bdy.early)

\* shouldReuseConnection.
ShouldReuse ==
  /\ ~w.closeAfter /\ ~conn.werr /\ ~(bdy.present /\ bdy.early)
  /\ ~(~req.head /\ w.length # -1 /\ BodyAllowed /\ w.length # w.written)
Decide ==
  /\ conn.at = "decide"
  /\ conn' = IF ShouldReuse THEN [SetState(conn, "idle") EXCEPT !.at = "idle"] ELSE [conn EXCEPT !.at = "closing"]
  /\ hnd' = NoHandler
  /\ UNCHANGED <<cfg, net, srv, cr, req, bdy, w>>

\* Between requests: a server that does not keep connections closes this one; with an idle
\* timeout it waits for the first bytes of the next request.
Idle ==
  /\ conn.at = "idle"
  /\ conn' = [conn EXCEPT !.at = IF ~doKeepAlives THEN "closing" ELSE IF cfg.timeouts THEN "peek" ELSE "start",
                          !.deadline = IF cfg.timeouts THEN "set" ELSE "none"]
  /\ req' = NoShape /\ bdy' = NoBody /\ w' = NoResponse
  /\ UNCHANGED <<cfg, net, srv, cr, hnd>>
Peeked ==
  /\ conn.at = "peek" /\ ~Dry
  /\ conn' = IF Len(conn.bufr) >= 2 THEN [conn EXCEPT !.at = "start", !.deadline = "none"] ELSE [conn EXCEPT !.at = "closing", !.rerr = "none"]
  /\ UNCHANGED <<cfg, net, srv, cr, req, bdy, w, hnd>>

\* serve's deferred function closes the socket, then setState(StateClosed).
CloseConn ==
  /\ conn.at = "closing"
  /\ conn' = [conn EXCEPT !.closed = TRUE, !.cancelled = TRUE, !.at = "closed"]
  /\ req' = NoShape /\ bdy' = NoBody /\ w' = NoResponse /\ hnd' = NoHandler
  /\ UNCHANGED <<cfg, net, srv, cr>>
StateClosed ==
  /\ conn.at = "closed"
  /\ conn' = [SetState(conn, "closed") EXCEPT !.at = "done"]
  /\ UNCHANGED <<cfg, net, srv, cr, req, bdy, w, hnd>>

-----------------------------------------------------------------------------
(* The server.                                                              *)

\* closeIdleConns: idle connections, and new ones without a request for five seconds, are
\* closed and forgotten; it reports whether no other is left.
Quiescent(c) == ~c.tracked \/ c.state = "idle" \/ (c.state = "new" /\ c.old)
CloseIdle(c) == IF c.tracked /\ Quiescent(c) THEN [c EXCEPT !.closed = TRUE, !.tracked = FALSE] ELSE c

Shutdown ==
  /\ cfg.operator = "shutdown" /\ srv.shutdown = "no"
  /\ srv' = [srv EXCEPT !.down = TRUE, !.shutdown = "polling"]
  /\ UNCHANGED <<cfg, net, conn, cr, req, bdy, w, hnd>>
ShutdownPolls ==
  /\ srv.shutdown = "polling"
  /\ srv' = [srv EXCEPT !.shutdown = IF Quiescent(conn) THEN "returned" ELSE @]
  /\ conn' = CloseIdle(conn)
  /\ UNCHANGED <<cfg, net, cr, req, bdy, w, hnd>>
\* Server.Close closes every tracked connection at once.
ServerClose ==
  /\ cfg.operator = "close" /\ ~srv.down
  /\ srv' = [srv EXCEPT !.down = TRUE]
  /\ conn' = IF conn.tracked THEN [conn EXCEPT !.closed = TRUE, !.tracked = FALSE] ELSE conn
  /\ UNCHANGED <<cfg, net, cr, req, bdy, w, hnd>>
DisableKeepAlives ==
  /\ cfg.operator = "nokeep" /\ ~srv.noKeepAlives
  /\ srv' = [srv EXCEPT !.noKeepAlives = TRUE]
  /\ conn' = CloseIdle(conn)
  /\ UNCHANGED <<cfg, net, cr, req, bdy, w, hnd>>
\* Five seconds pass for a new connection.
GrowOld ==
  /\ conn.state = "new" /\ ~conn.old /\ cfg.operator \in {"shutdown", "nokeep"}
  /\ conn' = [conn EXCEPT !.old = TRUE]
  /\ UNCHANGED <<cfg, net, srv, cr, req, bdy, w, hnd>>

\* The connection, the bytes it reads, and a handler that is done or waits for them.
Reader  == BackgroundReadReturns \/ BackgroundReadEnds \/ ConnReadReturns \/ \E who \in {"serve", "handler"} : ConnRead(who)
Serve   == \/ Accept \/ TrackNew \/ GoServe \/ ReadRequest \/ ReadHead \/ ReadHeadFails \/ SetActive \/ Refuse
           \/ Dispatch \/ HeaderStarts \/ HeaderDiscards \/ Continue \/ TimeoutDone \/ TimeoutPanic \/ RefusalFinishes
           \/ AbortPendingRead \/ AbortWaited \/ Hijacked \/ FinishBody \/ Decide \/ Idle \/ Peeked \/ CloseConn
           \/ StateClosed
Waiting == HandlerGets \/ HandlerClosing
\* What a handler may do and need not.
Handler == \/ HandlerRead \/ HandlerCloses \/ HandlerHeader \/ HandlerHitsLimit \/ HandlerWrite \/ HandlerPanics
           \/ HandlerReturns \/ TimeoutWrite \/ TimeoutReturn \/ (\E what \in {"flush", "sendfile", "hijack"} : HandlerAsks(what))
Client  == (\E s \in UNION {Shapes[i] : i \in 1..Len(Shapes)} : ClientRequest(s)) \/ ClientSend \/ ClientClose
Operator == Shutdown \/ ShutdownPolls \/ ServerClose \/ DisableKeepAlives \/ GrowOld

\* Nothing is left to do.
Done == conn.at = "done" /\ UNCHANGED vars

Next == Client \/ Reader \/ Serve \/ Waiting \/ Handler \/ TimeoutFires \/ Operator \/ Done

\* The goroutines of the server run, its timers fire, and Shutdown goes on polling.  Handlers,
\* the client and the operator do as they like.
Fairness == WF_vars(Reader) /\ WF_vars(Serve) /\ WF_vars(Waiting) /\ WF_vars(TimeoutFires) /\ WF_vars(ShutdownPolls) /\ WF_vars(GrowOld)
Spec == Init /\ [][Next]_vars /\ Fairness

-----------------------------------------------------------------------------
(* Properties.                                                              *)

Unread == SubSeq(net.sent, conn.parsed + 1, Len(net.sent))
Kept   == IF cr.got # NoUnit THEN <<cr.got>> ELSE IF cr.byte # NoUnit THEN <<cr.byte>> ELSE <<>>

\* The byte stream of the client is read once, in order and by one reader: the byte a background
\* read took comes after what bufr holds and before the socket, a hijacker gets it and is alone
\* with the connection, the next request is parsed where the last one ended whatever its handler
\* did with the body, and no two reads meet (connReader would panic).
StreamIntact ==
  /\ conn.bufr \o Kept \o Socket = Unread
  /\ conn.hijacked => Kept = <<>> /\ ~cr.inRead
  /\ conn.at = "read" /\ conn.part = 0 /\ Unread # <<>> => Unread[1].k = "first"
  /\ ~cr.panic

\* A connection is kept only when the client can tell where the reply ended: the declared or
\* computed length was sent exactly, or the last chunk was; replies without a body have none
\* (except that response.ReadFrom sends a file even for HEAD).
ReplyComplete ==
  conn.at = "idle" =>
    /\ w.header \in {"length", "chunked", "bare"} /\ w.buf = 0
    /\ w.header = "length"  => w.sent = w.length
    /\ w.header = "chunked" => w.ended /\ w.sent = w.written
    /\ w.header = "bare"    => w.sent = 0 \/ (req.head /\ w.raw)

\* The context of a request is cancelled before its handler returns only because the connection
\* is lost: never by the deadline that wakes the background read for Hijack.
CancelledByLoss ==
  conn.at \in {"handler", "hijack", "hijacking", "hijacked"} /\ conn.cancelled =>
    net.gone \/ conn.closed \/ conn.werr \/ (cfg.timeouts /\ bdy.present /\ ~bdy.sawEOF)

\* Shutdown and SetKeepAlivesEnabled close no connection from the moment its request is handed
\* over until it is idle again, and Shutdown returns only when none it knew of is left.
Served == conn.at \in {"dispatch", "handler", "hijack", "hijacking", "hijacked", "finish", "abort", "aborting", "bodyclose", "decide"}
ShutdownSparesActive ==
  [][/\ ~conn.closed /\ conn'.closed /\ Served => cfg.operator = "close"
     /\ srv.shutdown # srv'.shutdown /\ srv'.shutdown = "returned" => ~conn'.tracked /\ (Served => conn.closed \/ conn.hijacked)]_vars

\* A client that hangs up is noticed while the handler runs, unless bytes of it are unread; the
\* connection of one that has gone ends and leaves activeConn when its handler returns; and
\* Shutdown returns once handlers do, if reads have timeouts.
Idling == conn.at = "handler" /\ Runs
ConnectionsEnd ==
  /\ (net.gone /\ Idling /\ ~conn.hijacked /\ bdy.sawEOF /\ Unread = <<>>) ~> (conn.cancelled \/ ~Idling)
  /\ (net.gone /\ conn.at # "done") ~> ((conn.at = "done" /\ ~conn.tracked) \/ Idling)
  /\ (srv.shutdown = "polling" /\ cfg.timeouts) ~> (srv.shutdown = "returned" \/ Idling)

=============================================================================
