--------------------------- MODULE HTTPServerProofs ---------------------------
(***************************************************************************)
(* Proofs about HTTPServer for any requests, settings, handlers and        *)
(* buffer sizes: the client's byte stream is read once and in order, a     *)
(* connection that is kept has had its whole reply sent, and the context   *)
(* of a request is cancelled only by the loss of its connection.           *)
(*                                                                         *)
(* The stream has an invariant over positions: every request head starts   *)
(* where the one before it ended (Requests), what bufr and the background  *)
(* read hold are the units before the socket (HeldInv), and the body that  *)
(* is being read is at its place (ParseInv).  MessageInv counts the reply, *)
(* AbortInv and CancelInv follow the deadlines; both rest on the first.    *)
(***************************************************************************)
EXTENDS HTTPServer, SequenceTheorems, TLAPS

-----------------------------------------------------------------------------
(* The inductive invariant.                                                *)

Kinds == {"first", "rest", "body", "end", "bad"}
Units == [k : Kinds, id : Nat]
AnyShape == UNION {Shapes[i] : i \in 1..Len(Shapes)}

NetFields  == {"sent", "todo", "reqs", "taken", "gone"}
ConnFields == {"at", "tracked", "state", "old", "late", "hijacked", "cancelled", "closed", "werr", "deadline",
               "bufr", "rerr", "part", "served", "readAny", "err", "parsed"}
CrFields   == {"inRead", "aborted", "byte", "bg", "got", "by", "panic"}
BdyFields  == {"left", "chunked", "sawEOF", "closed", "early", "hook", "present", "failed", "drained"}
WFields    == {"wroteHeader", "given", "length", "written", "buf", "closeAfter", "limitHit", "wroteContinue", "sawEOF",
               "handlerDone", "header", "sent", "ended", "raw", "todo", "discarded"}
HndFields  == {"at", "calls", "timedOut", "buf"}

\* The shape of the state, with the types of what is counted and read.
Shape ==
  /\ DOMAIN net = NetFields /\ DOMAIN conn = ConnFields /\ DOMAIN cr = CrFields /\ DOMAIN bdy = BdyFields
  /\ DOMAIN w = WFields /\ DOMAIN hnd = HndFields
  /\ net.sent \in Seq(Units) /\ net.todo \in Seq(Units) /\ net.reqs \in Seq(AnyShape) /\ conn.bufr \in Seq(Units)
  /\ net.taken \in 0..Len(net.sent) /\ conn.parsed \in Nat
  /\ bdy.chunked \in BOOLEAN /\ cr.byte \in Units \cup {NoUnit} /\ cr.got \in Units \cup {NoUnit}

\* The units the client has begun to send are whole requests.
All == net.sent \o net.todo
Boundary(q, p) == p = Len(q) + 1 \/ (p \in 1..Len(q) /\ q[p].k = "first")
BodyAt(q, p, n, chunked) ==
  /\ \A m \in 0..(n - 1) : p + m \in 1..Len(q) /\ q[p + m].k = "body"
  /\ IF chunked THEN p + n \in 1..Len(q) /\ q[p + n].k \in {"end", "bad"} /\ Boundary(q, p + n + 1) ELSE Boundary(q, p + n)
Requests(q, reqs) ==
  /\ Boundary(q, 1)
  /\ \A p \in 1..Len(q) :
       /\ q[p].id \in 1..Len(reqs)
       /\ q[p].k = "first" => p + 1 \in 1..Len(q) /\ q[p + 1].k = "rest"
       /\ q[p].k = "rest" => BodyAt(q, p + 1, reqs[q[p].id].body, reqs[q[p].id].framing # "length")
StreamInv == Requests(All, net.reqs)

\* What bufr and the background read hold is what the socket gave last.
HeldInv ==
  /\ conn.parsed + Len(conn.bufr) + Len(Kept) = net.taken
  /\ \A n \in 1..Len(conn.bufr) : conn.bufr[n] = net.sent[conn.parsed + n]
  /\ Kept # <<>> => Kept[1] = net.sent[net.taken]

\* After an end of input nothing is left to read, and nothing will come.
NoMore == net.gone /\ net.taken = Len(net.sent) /\ Kept = <<>>
EofInv == conn.rerr = "eof" => NoMore

\* One read at a time: by the background read, while the body of the request has been read to its end,
\* or by one who needs bytes and has none.
ReadInv ==
  /\ ~cr.panic
  /\ cr.inRead <=> cr.bg # "off" \/ cr.by # "none"
  /\ cr.bg # "off" => cr.by = "none" /\ bdy.sawEOF
  /\ cr.inRead => cr.byte = NoUnit
  /\ cr.got # NoUnit <=> cr.bg = "byte"
  /\ cr.by # "none" => Dry
  /\ cr.by \in {"none", "serve", "handler"}
  /\ cr.by = "serve" => ServeReads
  /\ cr.by = "handler" => HandlerReads
  /\ conn.at \in {"accept", "accepted", "tracked", "start", "read", "parsed", "dispatch", "idle", "peek"} => cr.bg = "off"
  /\ conn.at \in {"bodyclose", "decide"} /\ ~w.closeAfter => cr.bg = "off"
  /\ conn.at = "hijacked" => ~cr.inRead
  /\ conn.hijacked => ~cr.inRead /\ cr.byte = NoUnit

\* The goroutines: where the handler runs, where a reply is under way.
InHandler == {"handler", "hijack", "hijacking", "hijacked"}
Finishing == {"finish", "abort", "aborting", "bodyclose", "decide"}
ControlInv ==
  /\ hnd.at \in {"off", "run", "reading", "closing", "returned", "panicked"}
  /\ hnd.at # "off" => conn.at \in InHandler \cup Finishing
  /\ hnd.at \in {"returned", "panicked"} => cfg.wrapped
  /\ hnd.at \in {"reading", "closing"} => w.discarded = -1 /\ conn.at \in {"handler"} \cup (Finishing \ {"decide"})
  /\ hnd.at = "reading" => ~bdy.sawEOF /\ ~bdy.failed /\ ~bdy.closed
  /\ conn.at = "decide" => bdy.closed
  /\ w.discarded \in Int /\ w.discarded >= -1
  /\ w.discarded # -1 => w.todo # "none" /\ w.header = "no"
  /\ \/ w.todo = "none"
     \/ w.todo \in {"finish", "bulk"} /\ conn.at = "finish"
     \/ w.todo \in {"write", "flush", "sendfile", "hijack"} /\ conn.at = "handler" /\ hnd.at = "run" /\ ~cfg.wrapped
  /\ conn.at \in {"abort", "aborting", "bodyclose", "decide"} => w.header # "no"
  /\ conn.at = "dispatch" \/ (conn.at = "parsed" /\ conn.err = "none") => w.header = "no"
  /\ conn.at \in {"hijack", "hijacking", "hijacked"} => hnd.at = "run" /\ ~cfg.wrapped /\ ~conn.hijacked
  /\ conn.hijacked => conn.at = "done" \/ (conn.at = "handler" /\ hnd.at = "run" /\ w.todo = "none" /\ ~cfg.wrapped)

\* A reply after which the connection may be kept was begun when the request had been read.
ReplyInv ==
  /\ w.header # "no" /\ ~w.closeAfter => bdy.sawEOF
  /\ w.sawEOF => bdy.sawEOF
  /\ ~bdy.present => bdy.sawEOF

\* Where the parser is in the stream: between two requests, behind the first unit of one, or in its body.
Rest(b) ==
  /\ b.sawEOF => Boundary(All, conn.parsed + 1) \/ (NoMore /\ conn.bufr = <<>>)
  /\ ~b.sawEOF /\ ~b.closed =>
       b.left \in Nat /\ BodyAt(All, conn.parsed + 1, b.left, b.chunked) /\ (~b.chunked => b.left # 0)
ParseInv ==
  /\ conn.at \in {"accept", "accepted", "tracked", "start", "idle", "peek"} \/ (conn.at = "read" /\ conn.part = 0) =>
       Boundary(All, conn.parsed + 1) \/ (NoMore /\ conn.bufr = <<>>)
  /\ conn.at = "read" => conn.part \in {0, 1}
  /\ conn.at = "read" /\ conn.part = 1 => conn.parsed + 1 \in 1..Len(All) /\ All[conn.parsed + 1].k = "rest"
  /\ (conn.at = "parsed" /\ conn.err = "none") \/ conn.at \in {"dispatch"} \cup InHandler \cup Finishing => Rest(bdy)

IInv == Shape /\ StreamInv /\ HeldInv /\ EofInv /\ ReadInv /\ ControlInv /\ ReplyInv /\ ParseInv
-----------------------------------------------------------------------------
(* The reply, and what it has sent.                                         *)

\* From the head of a request to the decision about the connection.
InRequest == conn.at \in {"dispatch", "idle"} \cup InHandler \cup Finishing \/ (conn.at = "parsed" /\ conn.err = "none")
Over == {"abort", "aborting", "bodyclose", "decide", "idle"}

\* What a reply has written and not yet sent, and the kinds of replies.
Pending(r) == IF r.todo = "write" THEN r.buf + 1 ELSE IF r.todo = "bulk" THEN r.written ELSE r.buf
Counted(r) ==
  /\ DOMAIN r = WFields /\ r.sent \in Nat /\ r.buf \in Nat /\ r.written \in Nat
  /\ r.length \in Nat \cup {-1} /\ r.given.length \in Nat \cup {-1}
Bare(r) == req.head \/ ~r.given.body
Framed(r) ==
  \/ r.header = "no" /\ r.sent = 0 /\ r.length = r.given.length
  \/ r.header = "bare" /\ Bare(r) /\ (r.sent = 0 \/ (req.head /\ r.raw))
  \/ r.header = "length" /\ ~Bare(r) /\ r.length # -1
  \/ r.header = "chunked" /\ ~Bare(r) /\ r.length = -1
  \/ r.header = "eof" /\ r.closeAfter
Written(r) ==
  /\ ~r.wroteHeader => r.header = "no" /\ r.todo = "none" /\ ~r.handlerDone /\ r.buf = 0 /\ r.written = 0 /\ r.length = -1
  /\ ~r.given.body => r.sent = 0 /\ r.buf = 0 /\ r.written = 0 /\ r.todo # "write"
  /\ ~req.head => r.sent + Pending(r) = r.written \/ (r.length # -1 /\ r.written > r.length)
  /\ r.handlerDone => r.todo \in {"none", "finish"}
  /\ r.todo = "bulk" => r.buf = 0
Placed ==
  /\ conn.at \in {"parsed", "dispatch"} \/ (conn.at = "handler" /\ cfg.wrapped) => ~w.wroteHeader
  /\ conn.at = "finish" => w.wroteHeader
  /\ conn.at \in InHandler => ~w.handlerDone
  /\ conn.at \in Over => w.buf = 0 /\ w.todo = "none" /\ w.header # "no" /\ (w.header = "chunked" => w.ended)
  /\ conn.at = "idle" => ~w.closeAfter /\ (~Bare(w) /\ w.length # -1 => w.length = w.written)
MessageInv == Counted(w) /\ hnd.buf \in Nat /\ (InRequest => Framed(w) /\ Written(w) /\ Placed)

-----------------------------------------------------------------------------
(* How the context of a request is cancelled.                               *)

\* A read that fails because its deadline is past is the one abortPendingRead wakes, or one of a
\* body, under ReadTimeout; the body is then never read to its end.
Lost == net.gone \/ conn.closed \/ conn.werr
TimedOut == cfg.timeouts /\ ~bdy.sawEOF /\ conn.bufr = <<>> /\ cr.byte = NoUnit /\ (conn.deadline = "past" \/ conn.hijacked)
Stopping == {"abort", "aborting", "bodyclose", "decide"}
AbortInv ==
  /\ cr.aborted =>
       \/ conn.at \in {"aborting", "hijacking"} /\ cr.bg # "off"
       \/ conn.at \in {"aborting", "bodyclose", "decide"} /\ w.closeAfter
       \/ conn.at \in {"closing", "closed", "done"}
  /\ conn.deadline # "none" => cfg.timeouts \/ conn.at \in {"aborting", "hijacking"}
  /\ cr.bg # "off" => conn.deadline = "none" \/ cr.aborted
  /\ cr.bg = "timeout" => cr.aborted
  /\ cr.bg = "eof" => net.gone
  /\ cr.bg = "closed" => conn.closed
  /\ conn.at = "hijacking" => bdy.sawEOF
CancelInv ==
  conn.cancelled =>
    \/ Lost
    \/ conn.at \in {"closing", "closed", "done", "refuse"} \/ (conn.at = "parsed" /\ conn.err # "none")
    \/ conn.at = "read" /\ conn.rerr # "none" /\ conn.bufr = <<>>
    \/ conn.at = "peek" /\ conn.rerr # "none" /\ Len(conn.bufr) < 2
    \/ conn.at \in InHandler \cup {"finish"} /\ TimedOut
    \/ conn.at \in Stopping /\ w.closeAfter

-----------------------------------------------------------------------------
(* The stream of units.                                                    *)

\* A unit of a request is none but NoUnit.
LEMMA UnitsAreSome == \A u \in Units : u # NoUnit
BY DEF Units, Kinds, NoUnit

\* Where the elements of a concatenation come from.
LEMMA Concatenated ==
  ASSUME NEW S, NEW a \in Seq(S), NEW b \in Seq(S)
  PROVE  /\ a \o b \in Seq(S) /\ Len(a \o b) = Len(a) + Len(b)
         /\ \A m \in 1..Len(a) : (a \o b)[m] = a[m]
         /\ \A m \in 1..Len(b) : (a \o b)[Len(a) + m] = b[m]
<1>1. Len(a) \in Nat /\ Len(b) \in Nat BY LenProperties
<1>2. \A m \in 1..Len(a) : m \in 1..(Len(a) + Len(b)) /\ m <= Len(a) BY <1>1
<1>3. \A m \in 1..Len(b) : Len(a) + m \in 1..(Len(a) + Len(b)) /\ ~(Len(a) + m <= Len(a)) /\ Len(a) + m - Len(a) = m
  BY <1>1
<1>4. /\ a \o b \in Seq(S) /\ Len(a \o b) = Len(a) + Len(b)
      /\ \A m \in 1..(Len(a) + Len(b)) : (a \o b)[m] = IF m <= Len(a) THEN a[m] ELSE b[m - Len(a)]
  BY ConcatProperties
<1> QED BY <1>2, <1>3, <1>4

\* Concatenation is associative.
LEMMA Associative == \A a, b, c \in Seq(Units) : (a \o b) \o c = a \o (b \o c)
BY ConcatAssociative

\* Bodies have a length.
LEMMA BodyIsCounted == \A s \in AnyShape : s.body \in Nat
BY HTTPServerAssumption DEF HTTPServerAssumption, AnyShape

\* What UnitsOf makes of a request, unit by unit.
LEMMA UnitsOfShape ==
  ASSUME NEW s \in AnyShape, NEW i \in Nat
  PROVE  LET u == UnitsOf(s, i)  n == s.body IN
         /\ u \in Seq(Units) /\ n \in Nat
         /\ Len(u) = n + (IF s.framing = "length" THEN 2 ELSE 3)
         /\ u[1].k = "first" /\ u[2].k = "rest"
         /\ \A m \in 1..n : u[2 + m].k = "body"
         /\ s.framing # "length" => u[3 + n].k \in {"end", "bad"}
         /\ \A m \in 1..Len(u) : u[m].id = i
<1> DEFINE head == <<[k |-> "first", id |-> i], [k |-> "rest", id |-> i]>>
           mid == [n \in 1..s.body |-> [k |-> "body", id |-> i]]
           tail == IF s.framing = "length" THEN <<>> ELSE <<[k |-> IF s.framing = "chunked" THEN "end" ELSE "bad", id |-> i]>>
           hm == head \o mid
<1>1. s.body \in Nat BY HTTPServerAssumption DEF HTTPServerAssumption, AnyShape
<1>2. head \in Seq(Units) /\ Len(head) = 2 /\ head[1].k = "first" /\ head[2].k = "rest" /\ head[1].id = i /\ head[2].id = i
  BY DEF Units, Kinds
<1>3. mid \in Seq(Units) /\ Len(mid) = s.body /\ \A m \in 1..s.body : mid[m].k = "body" /\ mid[m].id = i
  <2>1. [k |-> "body", id |-> i] \in Units BY DEF Units, Kinds
  <2>2. mid \in [1..s.body -> Units] BY <2>1
  <2>3. mid \in Seq(Units) BY <1>1, <2>2
  <2>4. Len(mid) = s.body BY <1>1, <2>2
  <2>5. \A m \in 1..s.body : mid[m] = [k |-> "body", id |-> i] OBVIOUS
  <2> QED BY <2>3, <2>4, <2>5
<1>4. /\ tail \in Seq(Units) /\ Len(tail) = IF s.framing = "length" THEN 0 ELSE 1
      /\ s.framing # "length" => tail[1].k \in {"end", "bad"} /\ tail[1].id = i
  <2>1. CASE s.framing = "length" BY <2>1
  <2>2. CASE s.framing = "chunked"
    <3>1. [k |-> "end", id |-> i] \in Units BY DEF Units, Kinds
    <3> QED BY <2>2, <3>1
  <2>3. CASE s.framing \notin {"length", "chunked"}
    <3>1. [k |-> "bad", id |-> i] \in Units BY DEF Units, Kinds
    <3> QED BY <2>3, <3>1
  <2> QED BY <2>1, <2>2, <2>3
<1>5. UnitsOf(s, i) = hm \o tail BY DEF UnitsOf
<1> HIDE DEF head, mid, tail
<1>6. /\ hm \in Seq(Units) /\ Len(hm) = 2 + s.body
      /\ hm[1] = head[1] /\ hm[2] = head[2] /\ \A m \in 1..s.body : hm[2 + m] = mid[m]
  <2>1. /\ hm \in Seq(Units) /\ Len(hm) = Len(head) + Len(mid)
        /\ \A m \in 1..Len(head) : hm[m] = head[m]
        /\ \A m \in 1..Len(mid) : hm[Len(head) + m] = mid[m]
    <3>1. head \in Seq(Units) /\ mid \in Seq(Units) BY <1>2, <1>3
    <3> QED BY ONLY <3>1, Concatenated
  <2> QED BY <2>1, <1>1, <1>2, <1>3
<1> HIDE DEF hm
<1>7. /\ hm \o tail \in Seq(Units) /\ Len(hm \o tail) = 2 + s.body + Len(tail)
      /\ \A m \in 1..(2 + s.body) : (hm \o tail)[m] = hm[m]
      /\ s.framing # "length" => (hm \o tail)[3 + s.body] = tail[1]
  <2>1. /\ hm \o tail \in Seq(Units) /\ Len(hm \o tail) = Len(hm) + Len(tail)
        /\ \A m \in 1..Len(hm) : (hm \o tail)[m] = hm[m]
        /\ \A m \in 1..Len(tail) : (hm \o tail)[Len(hm) + m] = tail[m]
    <3>1. hm \in Seq(Units) /\ tail \in Seq(Units) BY <1>4, <1>6
    <3> QED BY ONLY <3>1, Concatenated
  <2>2. s.framing # "length" => 1 \in 1..Len(tail) /\ Len(hm) + 1 = 3 + s.body BY <1>1, <1>4, <1>6
  <2> QED BY <2>1, <2>2, <1>6
<1>8. \A m \in 1..(2 + s.body) : hm[m].id = i
  <2> SUFFICES ASSUME NEW m \in 1..(2 + s.body) PROVE hm[m].id = i OBVIOUS
  <2>1. CASE m \in {1, 2} BY <2>1, <1>2, <1>6
  <2>2. CASE m \notin {1, 2}
    <3>1. m - 2 \in 1..s.body /\ m = 2 + (m - 2) BY <2>2, <1>1
    <3> QED BY <3>1, <1>3, <1>6
  <2> QED BY <2>1, <2>2
<1>9. \A m \in 1..Len(hm \o tail) : (hm \o tail)[m].id = i
  <2> SUFFICES ASSUME NEW m \in 1..Len(hm \o tail) PROVE (hm \o tail)[m].id = i OBVIOUS
  <2>1. CASE m \in 1..(2 + s.body) BY <2>1, <1>7, <1>8
  <2>2. CASE m \notin 1..(2 + s.body)
    <3>1. m = 3 + s.body /\ s.framing # "length" BY <2>2, <1>1, <1>4, <1>7
    <3> QED BY <3>1, <1>4, <1>7
  <2> QED BY <2>1, <2>2
<1>10. \A m \in 1..s.body : (hm \o tail)[2 + m].k = "body"
  <2> SUFFICES ASSUME NEW m \in 1..s.body PROVE (hm \o tail)[2 + m].k = "body" OBVIOUS
  <2>1. 2 + m \in 1..(2 + s.body) BY <1>1
  <2>2. (hm \o tail)[2 + m] = hm[2 + m] BY <2>1, <1>7
  <2>3. hm[2 + m] = mid[m] BY <1>6
  <2> QED BY <2>2, <2>3, <1>3
<1>11. (hm \o tail)[1].k = "first" /\ (hm \o tail)[2].k = "rest" BY <1>1, <1>2, <1>6, <1>7
<1>12. Len(hm \o tail) = s.body + (IF s.framing = "length" THEN 2 ELSE 3) BY <1>1, <1>4, <1>7
<1>13. s.framing # "length" => (hm \o tail)[3 + s.body].k \in {"end", "bad"} BY <1>4, <1>7
<1> HIDE DEF hm
<1> QED BY <1>1, <1>5, <1>7, <1>9, <1>10, <1>11, <1>12, <1>13

\* A boundary, and the end of a body, stay when another request follows.
LEMMA BoundaryStays ==
  ASSUME NEW q \in Seq(Units), NEW u \in Seq(Units), u # <<>>, u[1].k = "first", NEW p \in Nat, Boundary(q, p)
  PROVE  Boundary(q \o u, p)
BY DEF Boundary

\* A body that is followed by whole requests is one after more was sent.
LEMMA BodyStays ==
  ASSUME NEW q \in Seq(Units), NEW u \in Seq(Units), u # <<>>, u[1].k = "first", NEW p \in Nat, NEW n \in Nat, NEW ch,
         BodyAt(q, p, n, ch)
  PROVE  BodyAt(q \o u, p, n, ch)
<1>1. \A m \in 1..Len(q) : m \in 1..Len(q \o u) /\ (q \o u)[m] = q[m] OBVIOUS
<1>2. \A m \in Nat : Boundary(q, m) => Boundary(q \o u, m) BY BoundaryStays
<1>3. \A m \in 0..(n - 1) : p + m \in 1..Len(q \o u) /\ (q \o u)[p + m].k = "body" BY <1>1 DEF BodyAt
<1>4. ch => p + n \in 1..Len(q \o u) /\ (q \o u)[p + n].k \in {"end", "bad"} /\ Boundary(q \o u, p + n + 1)
  BY <1>1, <1>2 DEF BodyAt
<1>5. ~ch => Boundary(q \o u, p + n) BY <1>2 DEF BodyAt
<1> QED BY <1>3, <1>4, <1>5 DEF BodyAt

\* The units of another request after those of whole requests are whole requests.
LEMMA RequestAppended ==
  ASSUME NEW q \in Seq(Units), NEW reqs \in Seq(AnyShape), Requests(q, reqs), NEW s \in AnyShape
  PROVE  Requests(q \o UnitsOf(s, Len(reqs) + 1), Append(reqs, s))
<1> DEFINE i == Len(reqs) + 1  u == UnitsOf(s, i)  n == s.body  all == q \o u  rs == Append(reqs, s)
<1>0. i \in Nat OBVIOUS
<1>1. /\ u \in Seq(Units) /\ n \in Nat /\ Len(u) = n + (IF s.framing = "length" THEN 2 ELSE 3)
      /\ u[1].k = "first" /\ u[2].k = "rest" /\ \A m \in 1..n : u[2 + m].k = "body"
      /\ s.framing # "length" => u[3 + n].k \in {"end", "bad"}
      /\ \A m \in 1..Len(u) : u[m].id = i
  BY <1>0, UnitsOfShape
<1> HIDE DEF u
<1>2. /\ all \in Seq(Units) /\ Len(all) = Len(q) + Len(u) /\ u # <<>>
      /\ \A m \in 1..Len(q) : all[m] = q[m]
      /\ \A m \in 1..Len(u) : all[Len(q) + m] = u[m]
  <2>1. u # <<>> BY <1>1
  <2> QED BY <1>1, <2>1, Concatenated
<1>3. rs \in Seq(AnyShape) /\ Len(rs) = i /\ rs[i] = s /\ \A m \in 1..Len(reqs) : rs[m] = reqs[m] OBVIOUS
<1>4. Boundary(all, 1) BY <1>1, BoundaryStays DEF Requests
<1>5. ASSUME NEW p \in 1..Len(q)
      PROVE  /\ all[p].id \in 1..Len(rs)
             /\ all[p].k = "first" => p + 1 \in 1..Len(all) /\ all[p + 1].k = "rest"
             /\ all[p].k = "rest" => BodyAt(all, p + 1, rs[all[p].id].body, rs[all[p].id].framing # "length")
  <2>1. all[p] = q[p] /\ q[p].id \in 1..Len(reqs) /\ rs[q[p].id] = reqs[q[p].id] BY <1>2, <1>3 DEF Requests
  <2>2. q[p].k = "first" => p + 1 \in 1..Len(q) /\ q[p + 1].k = "rest" BY DEF Requests
  <2>3. CASE q[p].k = "rest"
    <3>1. BodyAt(q, p + 1, reqs[q[p].id].body, reqs[q[p].id].framing # "length") BY <2>3 DEF Requests
    <3>2. reqs[q[p].id].body \in Nat
      <4>1. reqs[q[p].id] \in AnyShape BY <2>1
      <4> QED BY <4>1, BodyIsCounted
    <3>3. BodyAt(all, p + 1, reqs[q[p].id].body, reqs[q[p].id].framing # "length")
      <4>1. p + 1 \in Nat OBVIOUS
      <4> QED BY <1>1, <1>2, <3>1, <3>2, <4>1, BodyStays
    <3> QED BY <1>2, <1>3, <2>1, <2>2, <2>3, <3>3
  <2>4. CASE q[p].k # "rest" BY <1>2, <1>3, <2>1, <2>2, <2>4
  <2> QED BY <2>3, <2>4
<1>6. ASSUME NEW m \in 1..Len(u)
      PROVE  /\ u[m].k = "first" => m + 1 \in 1..Len(u) /\ u[m + 1].k = "rest"
             /\ u[m].k = "rest" => m = 2
  <2>1. CASE m = 1 BY <2>1, <1>1
  <2>2. CASE m = 2 BY <2>2, <1>1
  <2>3. CASE m \in 3..(n + 2)
    <3>1. m - 2 \in 1..n /\ 2 + (m - 2) = m BY <2>3, <1>1
    <3> QED BY <3>1, <1>1
  <2>4. CASE m > n + 2
    <3>1. m = 3 + n /\ s.framing # "length" BY <2>4, <1>1
    <3> QED BY <3>1, <1>1
  <2> QED BY <2>1, <2>2, <2>3, <2>4, <1>1
<1>7. BodyAt(all, Len(q) + 3, n, s.framing # "length")
  <2>1. ASSUME NEW m \in 0..(n - 1) PROVE Len(q) + 3 + m \in 1..Len(all) /\ all[Len(q) + 3 + m].k = "body"
    <3>1. m + 1 \in 1..n /\ m + 3 \in 1..Len(u) /\ Len(q) + 3 + m = Len(q) + (m + 3) /\ m + 3 = 2 + (m + 1) BY <1>1
    <3> QED BY <3>1, <1>1, <1>2
  <2>2. CASE s.framing = "length"
    <3>1. Boundary(all, Len(q) + 3 + n) BY <2>2, <1>1, <1>2 DEF Boundary
    <3> QED BY <2>1, <2>2, <3>1 DEF BodyAt
  <2>3. CASE s.framing # "length"
    <3>1. Boundary(all, Len(q) + 3 + n + 1) BY <2>3, <1>1, <1>2 DEF Boundary
    <3>2. 3 + n \in 1..Len(u) BY <2>3, <1>1
    <3>3. Len(q) + 3 + n = Len(q) + (3 + n) /\ Len(q) + 3 + n \in 1..Len(all) BY <3>2, <1>1, <1>2
    <3>4. all[Len(q) + (3 + n)] = u[3 + n] BY <3>2, <1>2
    <3>5. all[Len(q) + 3 + n].k \in {"end", "bad"} BY <2>3, <3>3, <3>4, <1>1
    <3> QED BY <2>1, <2>3, <3>1, <3>3, <3>5 DEF BodyAt
  <2> QED BY <2>2, <2>3
<1>8. ASSUME NEW p \in 1..Len(all), p \notin 1..Len(q)
      PROVE  /\ all[p].id \in 1..Len(rs)
             /\ all[p].k = "first" => p + 1 \in 1..Len(all) /\ all[p + 1].k = "rest"
             /\ all[p].k = "rest" => BodyAt(all, p + 1, rs[all[p].id].body, rs[all[p].id].framing # "length")
  <2>1. PICK m \in 1..Len(u) : p = Len(q) + m
    <3>1. p - Len(q) \in 1..Len(u) /\ p = Len(q) + (p - Len(q)) BY <1>2, <1>8
    <3> QED BY <3>1
  <2>2. all[p] = u[m] /\ u[m].id = i BY <2>1, <1>1, <1>2
  <2>3. all[p].id \in 1..Len(rs) /\ rs[all[p].id] = s BY <2>2, <1>3
  <2>4. u[m].k = "first" => p + 1 \in 1..Len(all) /\ all[p + 1].k = "rest" 
    <3> SUFFICES ASSUME u[m].k = "first" PROVE p + 1 \in 1..Len(all) /\ all[p + 1].k = "rest" OBVIOUS
    <3>1. m + 1 \in 1..Len(u) /\ u[m + 1].k = "rest" /\ p + 1 = Len(q) + (m + 1) BY <1>6, <2>1
    <3> QED BY <3>1, <1>2
  <2>5. u[m].k = "rest" => p + 1 = Len(q) + 3 BY <1>6, <2>1
  <2> QED BY <2>2, <2>3, <2>4, <2>5, <1>7
<1> HIDE DEF all, rs
<1>9. Requests(all, rs) BY <1>4, <1>5, <1>8 DEF Requests
<1> QED BY <1>9 DEF all, rs, u, i

\* A unit of the body read: the body goes on behind it, or has ended.
LEMMA BodyTakesOne ==
  ASSUME NEW q \in Seq(Units), NEW p \in Nat, NEW n \in Nat, NEW ch \in BOOLEAN, BodyAt(q, p, n, ch)
  PROVE  /\ n # 0 => p \in 1..Len(q) /\ q[p].k = "body" /\ BodyAt(q, p + 1, n - 1, ch)
         /\ n = 0 /\ ch => p \in 1..Len(q) /\ q[p].k \in {"end", "bad"} /\ Boundary(q, p + 1)
         /\ n = 0 /\ ~ch => Boundary(q, p)
<1>1. CASE n # 0
  <2>1. 0 \in 0..(n - 1) /\ p + 0 = p BY <1>1
  <2>2. \A m \in 0..((n - 1) - 1) : m + 1 \in 0..(n - 1) /\ p + 1 + m = p + (m + 1) BY <1>1
  <2>3. p + 1 + (n - 1) = p + n BY <1>1
  <2> QED BY <1>1, <2>1, <2>2, <2>3 DEF BodyAt
<1>2. CASE n = 0
  <2>1. p + n = p BY <1>2
  <2> QED BY <1>2, <2>1 DEF BodyAt
<1> QED BY <1>1, <1>2

-----------------------------------------------------------------------------
(* Steps that read nothing of the stream.                                  *)

\* The part of a step that leaves the stream, the reads and the body as they are.
StreamSame ==
  /\ net' = net /\ bdy' = bdy /\ req' = req /\ cfg' = cfg
  /\ DOMAIN conn' = ConnFields /\ DOMAIN cr' = CrFields
  /\ cr'.inRead = cr.inRead /\ cr'.byte = cr.byte /\ cr'.bg = cr.bg /\ cr'.got = cr.got /\ cr'.by = cr.by
  /\ cr'.panic = cr.panic
  /\ conn'.bufr = conn.bufr /\ conn'.parsed = conn.parsed /\ conn'.rerr = conn.rerr /\ conn'.hijacked = conn.hijacked

\* Such a step keeps what is said of the stream.
LEMMA SameStream ==
  ASSUME StreamSame, Shape, StreamInv, HeldInv, EofInv
  PROVE  /\ StreamInv' /\ HeldInv' /\ EofInv'
         /\ All' = All /\ (NoMore' <=> NoMore) /\ (Rest(bdy)' <=> Rest(bdy))
         /\ (CloseReads' <=> CloseReads) /\ (BodyOver' <=> BodyOver)
<1>1. All' = All /\ Kept' = Kept BY DEF StreamSame, All, Kept
<1>2. (NoMore' <=> NoMore) BY <1>1 DEF StreamSame, NoMore
<1>3. (CloseReads' <=> CloseReads) /\ (BodyOver' <=> BodyOver)
  BY DEF StreamSame, CloseReads, CloseAtOnce, CloseGivesUp, BodyOver
<1>4. StreamInv' BY <1>1 DEF StreamSame, StreamInv
<1>5. HeldInv' BY <1>1 DEF StreamSame, HeldInv
<1>6. EofInv' BY <1>2 DEF StreamSame, EofInv
<1>7. (Rest(bdy)' <=> Rest(bdy)) BY <1>1, <1>2 DEF StreamSame, Rest
<1> QED BY <1>1, <1>2, <1>3, <1>4, <1>5, <1>6, <1>7

\* The serve goroutine goes on, or the operator does something.
Moves ==
  /\ StreamSame /\ w' = w /\ hnd' = hnd
  /\ \/ conn'.at = conn.at /\ conn'.part = conn.part /\ conn'.err = conn.err
     \/ conn.at = "accept" /\ conn'.at \in {"accepted", "done"}
     \/ conn.at = "accepted" /\ conn'.at = "tracked"
     \/ conn.at = "tracked" /\ conn'.at = "start"
     \/ conn.at = "start" /\ conn'.at = "read" /\ conn'.part = 0
     \/ conn.at = "parsed" /\ conn'.at = (IF conn.err = "none" THEN "dispatch" ELSE "refuse") /\ conn'.err = conn.err
     \/ conn.at = "closed" /\ conn'.at = "done"
     \/ conn.at = "abort" /\ conn'.at = "aborting"
     \/ conn.at = "hijack" /\ conn'.at = "hijacking"
     \/ conn.at \in {"abort", "aborting"} /\ ~cr.inRead /\ conn'.at = "bodyclose"
     \/ conn.at \in {"hijack", "hijacking"} /\ ~cr.inRead /\ conn'.at = "hijacked"

\* and the invariant.
LEMMA MovesKeep == ASSUME IInv, Moves PROVE IInv'
<1> USE DEF IInv
<1>1. /\ StreamInv' /\ HeldInv' /\ EofInv' /\ All' = All /\ (NoMore' <=> NoMore) /\ (Rest(bdy)' <=> Rest(bdy))
      /\ (CloseReads' <=> CloseReads) /\ (BodyOver' <=> BodyOver)
  BY SameStream DEF Moves
<1>2. Shape' BY DEF Moves, Shape, StreamSame
<1>3. ReadInv' BY <1>1 DEF Moves, ReadInv, StreamSame, Dry, ServeReads, HandlerReads, ControlInv
<1>4. ControlInv' BY DEF Moves, ControlInv, StreamSame, InHandler, Finishing
<1>5. ReplyInv' BY DEF Moves, ReplyInv, StreamSame
<1>6. ParseInv' BY <1>1 DEF Moves, ParseInv, StreamSame, InHandler, Finishing
<1> QED BY <1>1, <1>2, <1>3, <1>4, <1>5, <1>6

\* The actions of the serve goroutine that are such steps.
LEMMA ServeMoves ==
  ASSUME Shape, Accept \/ TrackNew \/ GoServe \/ ReadRequest \/ SetActive \/ StateClosed \/ AbortPendingRead \/ AbortWaited
  PROVE  Moves
<1> USE DEF Shape, ConnFields, CrFields, StreamSame
<1>1. CASE Accept BY <1>1 DEF Accept, Moves
<1>2. CASE TrackNew BY <1>2 DEF TrackNew, Moves
<1>3. CASE GoServe BY <1>3 DEF GoServe, Moves
<1>4. CASE ReadRequest BY <1>4 DEF ReadRequest, Moves
<1>5. CASE SetActive BY <1>5 DEF SetActive, SetState, Moves
<1>6. CASE StateClosed BY <1>6 DEF StateClosed, SetState, Moves
<1>7. CASE AbortPendingRead
  <2>1. CASE cr.inRead
    <3>1. CASE conn.at = "abort"
      <4>1. conn' = [conn EXCEPT !.deadline = "past", !.at = "aborting"] BY <1>7, <2>1, <3>1 DEF AbortPendingRead
      <4>2. /\ DOMAIN conn' = ConnFields /\ conn'.at = "aborting" /\ conn'.bufr = conn.bufr /\ conn'.parsed = conn.parsed
            /\ conn'.rerr = conn.rerr /\ conn'.hijacked = conn.hijacked
        BY <4>1
      <4>3. UNCHANGED <<cfg, net, req, bdy>> /\ cr' = [cr EXCEPT !.aborted = TRUE]
        BY <1>7, <2>1 DEF AbortPendingRead
      <4>4. StreamSame BY <4>2, <4>3
      <4> QED BY <1>7, <3>1, <4>2, <4>4 DEF AbortPendingRead, Moves
    <3>2. CASE conn.at = "hijack"
      <4>1. conn' = [conn EXCEPT !.deadline = "past", !.at = "hijacking"] BY <1>7, <2>1, <3>2 DEF AbortPendingRead
      <4>2. /\ DOMAIN conn' = ConnFields /\ conn'.at = "hijacking" /\ conn'.bufr = conn.bufr /\ conn'.parsed = conn.parsed
            /\ conn'.rerr = conn.rerr /\ conn'.hijacked = conn.hijacked
        BY <4>1
      <4>3. UNCHANGED <<cfg, net, req, bdy>> /\ cr' = [cr EXCEPT !.aborted = TRUE]
        BY <1>7, <2>1 DEF AbortPendingRead
      <4>4. StreamSame BY <4>2, <4>3
      <4> QED BY <1>7, <3>2, <4>2, <4>4 DEF AbortPendingRead, Moves
    <3> QED BY <1>7, <3>1, <3>2 DEF AbortPendingRead
  <2>2. CASE ~cr.inRead BY <1>7, <2>2 DEF AbortPendingRead, Moves
  <2> QED BY <2>1, <2>2
<1>8. CASE AbortWaited BY <1>8 DEF AbortWaited, Moves
<1> QED BY <1>1, <1>2, <1>3, <1>4, <1>5, <1>6, <1>7, <1>8

\* The operator's are.
LEMMA OperatorMoves == ASSUME Shape, Operator PROVE Moves
<1> USE DEF Shape, ConnFields, CrFields, StreamSame
<1>1. CASE Shutdown BY <1>1 DEF Shutdown, Moves
<1>2. CASE ShutdownPolls BY <1>2 DEF ShutdownPolls, CloseIdle, Moves
<1>3. CASE ServerClose BY <1>3 DEF ServerClose, Moves
<1>4. CASE DisableKeepAlives BY <1>4 DEF DisableKeepAlives, CloseIdle, Moves
<1>5. CASE GrowOld BY <1>5 DEF GrowOld, Moves
<1> QED BY <1>1, <1>2, <1>3, <1>4, <1>5 DEF Operator

-----------------------------------------------------------------------------
(* The handler, and the reply while it is written.                          *)

\* Of the reply at most what follows its header changes, and that it is the last one.
ReplySame ==
  /\ DOMAIN w' = WFields /\ DOMAIN hnd' = HndFields
  /\ w'.header = w.header /\ w'.sawEOF = w.sawEOF /\ w'.discarded = w.discarded /\ (~w'.closeAfter => ~w.closeAfter)

\* The handler, in the serve goroutine or below a TimeoutHandler, acts or ends.
HandlerMoves ==
  /\ StreamSame /\ ReplySame /\ conn'.part = conn.part /\ conn'.err = conn.err
  /\ \/ /\ Runs /\ conn'.at = conn.at /\ hnd'.at = "run"
        /\ w'.todo = w.todo \/ (w'.todo \in {"write", "flush", "sendfile", "hijack"} /\ ~cfg.wrapped /\ ~conn.hijacked)
     \/ Runs /\ ~cfg.wrapped /\ ~conn.hijacked /\ conn'.at = "hijack" /\ hnd'.at = "run" /\ w'.todo = w.todo
     \/ Runs /\ cfg.wrapped /\ conn'.at = conn.at /\ hnd'.at \in {"returned", "panicked"} /\ w'.todo = w.todo
     \/ /\ Runs /\ ~conn.hijacked /\ w.discarded = -1 /\ conn.at # "bodyclose" /\ ~bdy.closed
        /\ conn'.at = conn.at /\ w'.todo = w.todo
        /\ hnd'.at = "closing" \/ (hnd'.at = "reading" /\ ~bdy.sawEOF /\ ~bdy.failed)
     \/ Runs /\ ~cfg.wrapped /\ conn.hijacked /\ conn'.at = "done" /\ hnd'.at = "off" /\ w'.todo = w.todo
     \/ Runs /\ ~cfg.wrapped /\ ~conn.hijacked /\ conn'.at = "finish" /\ hnd'.at = "off" /\ w'.todo = "finish"
     \/ Runs /\ ~cfg.wrapped /\ ~conn.hijacked /\ conn'.at = "closing" /\ hnd'.at = "off" /\ w'.todo = w.todo
     \/ /\ conn.at = "handler" /\ cfg.wrapped /\ conn'.at = "finish" /\ w'.todo \in {"finish", "bulk"}
        /\ (hnd'.at = hnd.at \/ (hnd.at = "returned" /\ hnd'.at = "off"))
     \/ conn.at = "handler" /\ cfg.wrapped /\ hnd.at = "panicked" /\ conn'.at = "closing" /\ hnd'.at = "off" /\ w'.todo = w.todo

\* The handler's steps keep the invariant.
LEMMA HandlerMovesKeep == ASSUME IInv, HandlerMoves PROVE IInv'
<1> USE DEF IInv
<1>1. /\ StreamInv' /\ HeldInv' /\ EofInv' /\ All' = All /\ (NoMore' <=> NoMore) /\ (Rest(bdy)' <=> Rest(bdy))
      /\ (CloseReads' <=> CloseReads) /\ (BodyOver' <=> BodyOver)
  BY SameStream DEF HandlerMoves
<1>2. Shape' BY DEF HandlerMoves, Shape, StreamSame, ReplySame
<1>3. ReadInv' BY <1>1 DEF HandlerMoves, Runs, ReadInv, StreamSame, ReplySame, Dry, ServeReads, HandlerReads, ControlInv, InHandler, Finishing
<1>4. ControlInv' BY DEF HandlerMoves, Runs, ControlInv, StreamSame, ReplySame, InHandler, Finishing
<1>5. ReplyInv' BY DEF HandlerMoves, ReplyInv, StreamSame, ReplySame
<1>6. ParseInv' BY <1>1 DEF HandlerMoves, Runs, ParseInv, ControlInv, StreamSame, ReplySame, InHandler, Finishing
<1> QED BY <1>1, <1>2, <1>3, <1>4, <1>5, <1>6

\* What a handler may do is such a step.
LEMMA HandlerActs ==
  ASSUME Shape,
         HandlerRead \/ HandlerCloses \/ HandlerHeader \/ HandlerHitsLimit \/ HandlerWrite \/ HandlerPanics
         \/ HandlerReturns \/ TimeoutWrite \/ TimeoutReturn \/ (\E what \in {"flush", "sendfile", "hijack"} : HandlerAsks(what))
  PROVE  HandlerMoves
<1> USE DEF Shape, ConnFields, CrFields, WFields, HndFields, StreamSame, ReplySame, Acts, Direct, Called, Runs
<1>1. CASE HandlerRead BY <1>1 DEF HandlerRead, HandlerMoves
<1>2. CASE HandlerCloses BY <1>2 DEF HandlerCloses, HandlerMoves
<1>3. CASE HandlerHeader
  <2>1. PICK x \in Headers : w' = WriteHeader(w, x) BY <1>3 DEF HandlerHeader
  <2>2. ReplySame /\ w'.todo = w.todo
    <3>1. w' = w \/ w' = [w EXCEPT !.wroteHeader = TRUE, !.given = IF w.limitHit THEN [x EXCEPT !.conn = "close"] ELSE x,
                                   !.length = x.length]
      BY <2>1 DEF WriteHeader
    <3>2. DOMAIN hnd' = HndFields BY <1>3 DEF HandlerHeader
    <3>3. CASE w' = w BY <3>2, <3>3
    <3>4. CASE w' = [w EXCEPT !.wroteHeader = TRUE, !.given = IF w.limitHit THEN [x EXCEPT !.conn = "close"] ELSE x,
                              !.length = x.length]
      BY <3>2, <3>4
    <3> QED BY <3>1, <3>3, <3>4
  <2> QED BY <1>3, <2>2 DEF HandlerHeader, HandlerMoves
<1>4. CASE HandlerHitsLimit BY <1>4 DEF HandlerHitsLimit, TooLarge, HandlerMoves
<1>5. CASE HandlerWrite BY <1>5 DEF HandlerWrite, WriteHeader, HandlerMoves
<1>6. CASE HandlerPanics BY <1>6 DEF HandlerPanics, NoHandler, HandlerMoves
<1>7. CASE HandlerReturns BY <1>7 DEF HandlerReturns, WriteHeader, NoHandler, HandlerMoves
<1>8. CASE TimeoutWrite BY <1>8 DEF TimeoutWrite, HandlerMoves
<1>9. CASE TimeoutReturn BY <1>9 DEF TimeoutReturn, HandlerMoves
<1>10. ASSUME NEW what \in {"flush", "sendfile", "hijack"}, HandlerAsks(what) PROVE HandlerMoves
  <2>1. CASE what = "hijack" /\ ~w.wroteHeader BY <1>10, <2>1 DEF HandlerAsks, HandlerMoves
  <2>2. CASE ~(what = "hijack" /\ ~w.wroteHeader)
    <3>1. conn' = conn /\ w' = [WriteHeader(w, OK) EXCEPT !.todo = what] BY <1>10, <2>2 DEF HandlerAsks
    <3> QED BY <1>10, <3>1 DEF HandlerAsks, WriteHeader, HandlerMoves
  <2> QED BY <2>1, <2>2
<1> QED BY <1>1, <1>2, <1>3, <1>4, <1>5, <1>6, <1>7, <1>8, <1>9, <1>10

\* and what a TimeoutHandler does with its handler.
LEMMA TimeoutActs == ASSUME Shape, ControlInv, TimeoutDone \/ TimeoutFires \/ TimeoutPanic PROVE HandlerMoves
<1> USE DEF Shape, ConnFields, CrFields, WFields, HndFields, StreamSame, ReplySame
<1>1. CASE TimeoutDone BY <1>1 DEF TimeoutDone, Answer, WriteHeader, ControlInv, HandlerMoves
<1>2. CASE TimeoutFires BY <1>2 DEF TimeoutFires, Answer, WriteHeader, HandlerMoves
<1>3. CASE TimeoutPanic BY <1>3 DEF TimeoutPanic, NoHandler, ControlInv, HandlerMoves
<1> QED BY <1>1, <1>2, <1>3

-----------------------------------------------------------------------------
(* The reply: its header, and what follows.                                *)

\* sendExpectationFailed goes on to finishRequest.
LEMMA RefusalFinishesKeeps == ASSUME IInv, RefusalFinishes PROVE IInv'
<1> USE DEF IInv
<1>1. /\ StreamSame /\ conn' = conn /\ hnd' = hnd /\ DOMAIN w' = WFields /\ conn.at = "finish" /\ w'.header = "no" /\ w.header = "no"
      /\ w'.closeAfter = w.closeAfter /\ w'.sawEOF = w.sawEOF /\ w'.discarded = w.discarded /\ w'.todo = "finish"
  BY DEF RefusalFinishes, Shape, WFields, StreamSame
<1>2. /\ StreamInv' /\ HeldInv' /\ EofInv' /\ All' = All /\ (NoMore' <=> NoMore) /\ (Rest(bdy)' <=> Rest(bdy))
      /\ (CloseReads' <=> CloseReads) /\ (BodyOver' <=> BodyOver)
  BY <1>1, SameStream
<1>3. Shape' BY <1>1 DEF Shape, StreamSame
<1>4. ReadInv' BY <1>1, <1>2 DEF ReadInv, StreamSame, Dry, ServeReads, HandlerReads
<1>5. ControlInv' BY <1>1 DEF ControlInv, StreamSame, InHandler, Finishing
<1>6. ReplyInv' BY <1>1 DEF ReplyInv, StreamSame
<1>7. ParseInv' BY <1>1, <1>2 DEF ParseInv, StreamSame, InHandler, Finishing
<1> QED BY <1>2, <1>3, <1>4, <1>5, <1>6, <1>7

\* serve replies to a request that it cannot read.
LEMMA RefuseKeeps == ASSUME IInv, Refuse PROVE IInv'
<1> USE DEF IInv
<1>1. /\ StreamSame /\ hnd' = hnd /\ DOMAIN w' = WFields /\ conn.at = "refuse" /\ conn'.at = "closing"
      /\ w'.closeAfter /\ ~w'.sawEOF /\ w'.discarded = -1 /\ w'.todo = "none"
  BY DEF Refuse, Shape, ConnFields, CrFields, WFields, StreamSame, NoResponse
<1>2. /\ StreamInv' /\ HeldInv' /\ EofInv' /\ All' = All /\ (NoMore' <=> NoMore) /\ (Rest(bdy)' <=> Rest(bdy))
      /\ (CloseReads' <=> CloseReads) /\ (BodyOver' <=> BodyOver)
  BY <1>1, SameStream
<1>3. Shape' BY <1>1 DEF Shape, StreamSame
<1>4. ReadInv' BY <1>1, <1>2 DEF ReadInv, ControlInv, StreamSame, Dry, ServeReads, HandlerReads, InHandler, Finishing
<1>5. ControlInv' BY <1>1 DEF ControlInv, StreamSame, InHandler, Finishing
<1>6. ReplyInv' BY <1>1 DEF ReplyInv, StreamSame
<1>7. ParseInv' BY <1>1, <1>2 DEF ParseInv, StreamSame, InHandler, Finishing
<1> QED BY <1>2, <1>3, <1>4, <1>5, <1>6, <1>7

\* A header goes out, or the body is looked at first.
LEMMA HeaderStartsKeeps == ASSUME IInv, HeaderStarts PROVE IInv'
<1> USE DEF IInv
<1>1. /\ StreamSame /\ conn' = conn /\ hnd' = hnd /\ w.todo # "none" /\ w.header = "no" /\ w.discarded = -1
      /\ DOMAIN w' = WFields /\ w'.sawEOF = w.sawEOF /\ w'.todo = w.todo
      /\ \/ w'.discarded = -1 /\ (~w'.closeAfter => bdy.sawEOF)
         \/ w'.discarded = 0 /\ w'.header = "no" /\ w'.closeAfter = w.closeAfter /\ hnd.at \notin {"reading", "closing"}
  <2>1. StreamSame /\ conn' = conn /\ hnd' = hnd /\ w.todo # "none" /\ w.header = "no" /\ w.discarded = -1
    BY DEF HeaderStarts, Shape, StreamSame
  <2>2. \A c : LET h == HeaderOut(w, c) IN
          DOMAIN h = WFields /\ h.sawEOF = w.sawEOF /\ h.todo = w.todo /\ h.discarded = -1 /\ (~h.closeAfter => ~c)
    BY DEF Shape, WFields, HeaderOut
  <2>3. LET h == HeaderOut(TooLarge(w), TRUE) IN
          DOMAIN h = WFields /\ h.sawEOF = w.sawEOF /\ h.todo = w.todo /\ h.discarded = -1 /\ h.closeAfter
    BY DEF Shape, WFields, HeaderOut, TooLarge
  <2>4. CASE w' = HeaderOut(w, CloseBefore) /\ (CloseBefore \/ ~bdy.present)
    BY <2>1, <2>2, <2>4 DEF ReplyInv
  <2>5. CASE /\ ~CloseBefore /\ bdy.present /\ hnd.at \notin {"reading", "closing"}
             /\ w' = IF bdy.closed /\ ~req.expect THEN HeaderOut(w, ~bdy.sawEOF)
                     ELSE IF ~req.expect /\ ~bdy.chunked /\ bdy.left >= MaxDiscard THEN HeaderOut(TooLarge(w), TRUE)
                     ELSE IF req.expect /\ ~w.wroteContinue THEN HeaderOut(w, FALSE)
                     ELSE [w EXCEPT !.discarded = 0]
    <3>1. CASE w' = HeaderOut(w, ~bdy.sawEOF) BY <3>1, <2>1, <2>2
    <3>2. CASE w' = HeaderOut(TooLarge(w), TRUE) BY <3>2, <2>1, <2>3
    <3>3. CASE req.expect /\ w' = HeaderOut(w, FALSE)
      <4>1. w.sawEOF BY <3>3, <2>5 DEF CloseBefore
      <4> QED BY <4>1, <3>3, <2>1, <2>2 DEF ReplyInv
    <3>4. CASE w' = [w EXCEPT !.discarded = 0] BY <3>4, <2>1, <2>5 DEF Shape, WFields
    <3> QED BY <2>5, <3>1, <3>2, <3>3, <3>4
  <2> QED BY <2>4, <2>5 DEF HeaderStarts
<1>2. /\ StreamInv' /\ HeldInv' /\ EofInv' /\ All' = All /\ (NoMore' <=> NoMore) /\ (Rest(bdy)' <=> Rest(bdy))
      /\ (CloseReads' <=> CloseReads) /\ (BodyOver' <=> BodyOver)
  BY <1>1, SameStream
<1>3. Shape' BY <1>1 DEF Shape, StreamSame
<1>4. ReadInv' BY <1>1, <1>2 DEF ReadInv, ControlInv, StreamSame, Dry, ServeReads, HandlerReads
<1>5. ControlInv' BY <1>1 DEF ControlInv, StreamSame, InHandler, Finishing
<1>6. ReplyInv' BY <1>1 DEF ReplyInv, StreamSame
<1>7. ParseInv' BY <1>1, <1>2 DEF ParseInv, StreamSame, InHandler, Finishing
<1> QED BY <1>2, <1>3, <1>4, <1>5, <1>6, <1>7

\* What follows the header of a reply is written.
LEMMA ContinueKeeps == ASSUME IInv, Continue PROVE IInv'
<1> USE DEF IInv
<1>1. /\ StreamSame /\ hnd' = hnd /\ w.todo # "none" /\ w.header # "no" /\ w'.header = w.header /\ DOMAIN w' = WFields
      /\ w'.closeAfter = w.closeAfter /\ w'.sawEOF = w.sawEOF /\ w'.discarded = w.discarded
      /\ \/ conn'.at = conn.at /\ w'.todo \in {"none", "finish"} /\ (w'.todo = "finish" => w.todo = "bulk")
         \/ conn'.at = "hijack" /\ w.todo = "hijack" /\ w'.todo = "none"
         \/ conn'.at = "abort" /\ w.todo = "finish" /\ w'.todo = "none"
      /\ conn'.part = conn.part /\ conn'.err = conn.err
  <2> USE DEF Put, Flushed, Shape, ConnFields, CrFields, WFields, StreamSame
  <2>1. CASE w.todo = "write"
    <3>1. conn' = conn /\ w' = [Put(w, w.buf) EXCEPT !.buf = 1] BY <2>1 DEF Continue
    <3> QED BY <2>1, <3>1 DEF Continue
  <2>2. CASE w.todo = "flush"
    <3>1. PICK ok \in WriteOutcomes : conn' = Flushed(conn, ok) BY <2>2 DEF Continue
    <3>2. w' = [Put(w, w.buf) EXCEPT !.buf = 0] BY <2>2 DEF Continue
    <3> QED BY <2>2, <3>1, <3>2 DEF Continue
  <2>3. CASE w.todo = "bulk"
    <3>1. conn' = conn /\ w' = [Put(w, w.written) EXCEPT !.todo = "finish"] BY <2>3 DEF Continue
    <3> QED BY <2>3, <3>1 DEF Continue
  <2>4. CASE w.todo = "sendfile"
    <3>1. PICK ok \in WriteOutcomes : conn' = Flushed(conn, ok) BY <2>4 DEF Continue
    <3>2. CASE w.header # "chunked" /\ BodyAllowed
      <4>1. w' = [Put(w, w.buf) EXCEPT !.buf = 0, !.sent = @ + 1, !.written = @ + 1, !.raw = TRUE]
        BY <2>4, <3>2 DEF Continue
      <4> QED BY <2>4, <3>1, <4>1 DEF Continue
    <3>3. CASE ~(w.header # "chunked" /\ BodyAllowed)
      <4>1. w' = [Put(w, w.buf) EXCEPT !.buf = IF BodyAllowed THEN 1 ELSE 0, !.written = IF BodyAllowed THEN @ + 1 ELSE @]
        BY <2>4, <3>3 DEF Continue
      <4> QED BY <2>4, <3>1, <4>1 DEF Continue
    <3> QED BY <3>2, <3>3
  <2>5. CASE w.todo = "hijack"
    <3>1. PICK ok \in WriteOutcomes : conn' = [Flushed(conn, ok) EXCEPT !.at = "hijack"] BY <2>5 DEF Continue
    <3>2. w' = Put(w, 0) BY <2>5 DEF Continue
    <3> QED BY <2>5, <3>1, <3>2 DEF Continue
  <2>6. CASE w.todo = "finish"
    <3>1. PICK ok \in WriteOutcomes : conn' = [Flushed(conn, ok) EXCEPT !.at = "abort"] BY <2>6 DEF Continue
    <3>2. w' = [Put(w, w.buf) EXCEPT !.buf = 0, !.ended = w.header = "chunked"] BY <2>6 DEF Continue
    <3> QED BY <2>6, <3>1, <3>2 DEF Continue
  <2> QED BY <2>1, <2>2, <2>3, <2>4, <2>5, <2>6 DEF Continue
<1>2. /\ StreamInv' /\ HeldInv' /\ EofInv' /\ All' = All /\ (NoMore' <=> NoMore) /\ (Rest(bdy)' <=> Rest(bdy))
      /\ (CloseReads' <=> CloseReads) /\ (BodyOver' <=> BodyOver)
  BY <1>1, SameStream
<1>3. Shape' BY <1>1 DEF Shape, StreamSame
<1>4. ReadInv' BY <1>1, <1>2 DEF ReadInv, ControlInv, StreamSame, Dry, ServeReads, HandlerReads, InHandler, Finishing
<1>5. ControlInv' BY <1>1 DEF ControlInv, StreamSame, InHandler, Finishing
<1>6. ReplyInv' BY <1>1 DEF ReplyInv, StreamSame
<1>7. ParseInv' BY <1>1, <1>2 DEF ParseInv, StreamSame, InHandler, Finishing, ControlInv
<1> QED BY <1>2, <1>3, <1>4, <1>5, <1>6, <1>7

-----------------------------------------------------------------------------
(* The client sends, and the socket is read.                               *)

\* What the client sends comes behind all it has sent.
LEMMA ClientKeeps ==
  ASSUME IInv, net'.sent \in Seq(Units), net'.taken = net.taken, Len(net.sent) <= Len(net'.sent),
         \A n \in 1..Len(net.sent) : net'.sent[n] = net.sent[n],
         Shape', StreamInv', net.gone => net'.gone /\ net'.sent = net.sent,
         \A p \in Nat : Boundary(All, p) => Boundary(All', p),
         \A p \in Nat, n \in Nat, ch \in BOOLEAN : BodyAt(All, p, n, ch) => BodyAt(All', p, n, ch),
         \A p \in 1..Len(All) : p \in 1..Len(All') /\ All'[p] = All[p],
         UNCHANGED <<cfg, srv, conn, cr, req, bdy, w, hnd>>
  PROVE  IInv'
<1> USE DEF IInv
<1>1. Kept' = Kept /\ (CloseReads' <=> CloseReads) /\ (BodyOver' <=> BodyOver)
  BY DEF Kept, CloseReads, CloseAtOnce, CloseGivesUp, BodyOver
<1>2. NoMore => NoMore' BY <1>1 DEF NoMore
<1>3. conn.parsed \in Nat /\ net.taken \in 0..Len(net.sent) /\ conn.bufr \in Seq(Units) BY DEF Shape
<1>4. Len(Kept) \in {0, 1} BY DEF Kept
<1>5. HeldInv'
  <2>1. Kept # <<>> => net.taken \in 1..Len(net.sent) BY <1>3, <1>4 DEF HeldInv, Kept
  <2>2. \A n \in 1..Len(conn.bufr) : conn.parsed + n \in 1..Len(net.sent)
    <3>1. \A p, l, k, t, m \in Nat : p + l + k = t /\ t <= m => \A n \in 1..l : p + n \in 1..m OBVIOUS
    <3>2. /\ conn.parsed \in Nat /\ Len(conn.bufr) \in Nat /\ Len(Kept) \in Nat /\ net.taken \in Nat /\ Len(net.sent) \in Nat
          /\ net.taken <= Len(net.sent)
      BY <1>3, <1>4
    <3>3. conn.parsed + Len(conn.bufr) + Len(Kept) = net.taken BY DEF HeldInv
    <3> QED BY ONLY <3>1, <3>2, <3>3
  <2> QED BY <1>1, <2>1, <2>2 DEF HeldInv
<1>6. EofInv' BY <1>2 DEF EofInv
<1>7. ReadInv' BY <1>1 DEF ReadInv, Dry, ServeReads, HandlerReads
<1>8. ControlInv' BY DEF ControlInv
<1>9. ReplyInv' BY DEF ReplyInv
<1>10. conn.parsed + 1 \in Nat /\ bdy.chunked \in BOOLEAN BY <1>3 DEF Shape
<1>11. Rest(bdy) => Rest(bdy)'
  <2>1. Boundary(All, conn.parsed + 1) => Boundary(All, conn.parsed + 1)' BY <1>10
  <2>2. bdy.left \in Nat /\ BodyAt(All, conn.parsed + 1, bdy.left, bdy.chunked) => BodyAt(All, conn.parsed + 1, bdy.left, bdy.chunked)'
    BY <1>10
  <2> QED BY <1>2, <2>1, <2>2 DEF Rest
<1>12. ParseInv' BY <1>2, <1>3, <1>11 DEF ParseInv
<1> QED BY <1>5, <1>6, <1>7, <1>8, <1>9, <1>12

\* The client begins a request: its units are appended.
LEMMA ClientRequestKeeps == ASSUME IInv, NEW s \in AnyShape, ClientRequest(s) PROVE IInv'
<1> USE DEF IInv
<1> DEFINE i == Len(net.reqs) + 1  u == UnitsOf(s, i)
<1>0. /\ net.sent \in Seq(Units) /\ net.todo = <<>> /\ net.reqs \in Seq(AnyShape) /\ i \in Nat /\ ~net.gone
  BY DEF Shape, ClientRequest
<1>1. u \in Seq(Units) /\ Len(u) >= 2 /\ u[1].k = "first"
  <2>1. /\ u \in Seq(Units) /\ s.body \in Nat /\ Len(u) = s.body + (IF s.framing = "length" THEN 2 ELSE 3)
        /\ u[1].k = "first"
    BY <1>0, UnitsOfShape
  <2> HIDE DEF u
  <2> QED BY <2>1
<1>2. /\ DOMAIN net' = NetFields /\ net'.sent = net.sent \o SubSeq(u, 1, 2) /\ net'.todo = SubSeq(u, 3, Len(u))
      /\ net'.reqs = Append(net.reqs, s) /\ net'.taken = net.taken /\ net'.gone = net.gone
      /\ UNCHANGED <<cfg, srv, conn, cr, req, bdy, w, hnd>>
  BY DEF ClientRequest, Shape, NetFields
<1> HIDE DEF u
<1>3. SubSeq(u, 1, 2) \in Seq(Units) /\ SubSeq(u, 3, Len(u)) \in Seq(Units) /\ SubSeq(u, 1, 2) \o SubSeq(u, 3, Len(u)) = u
  <2>1. SubSeq(u, 1, 2) \in Seq(Units) /\ SubSeq(u, 3, Len(u)) \in Seq(Units) BY <1>1
  <2>2. SubSeq(u, 1, 2) \o SubSeq(u, 2 + 1, Len(u)) = SubSeq(u, 1, Len(u))
    <3>1. 1 \in 1..(Len(u) + 1) /\ 2 \in (1 - 1)..Len(u) /\ Len(u) \in 2..Len(u) BY <1>1
    <3> QED BY <1>1, <3>1, ConcatAdjacentSubSeq
  <2>3. SubSeq(u, 1, Len(u)) = u BY <1>1, SubSeqFull
  <2> QED BY <2>1, <2>2, <2>3
<1>4. All = net.sent /\ All' = net.sent \o u
  <2>1. All = net.sent BY <1>0, ConcatEmptySeq DEF All
  <2>2. All' = (net.sent \o SubSeq(u, 1, 2)) \o SubSeq(u, 3, Len(u)) BY <1>2 DEF All
  <2>3. (net.sent \o SubSeq(u, 1, 2)) \o SubSeq(u, 3, Len(u)) = net.sent \o (SubSeq(u, 1, 2) \o SubSeq(u, 3, Len(u)))
    <3>1. net.sent \in Seq(Units) /\ SubSeq(u, 1, 2) \in Seq(Units) /\ SubSeq(u, 3, Len(u)) \in Seq(Units) BY <1>0, <1>3
    <3> QED BY <3>1, Associative
  <2> QED BY <2>1, <2>2, <2>3, <1>3
<1>5. StreamInv' 
  <2>1. Requests(net.sent \o UnitsOf(s, Len(net.reqs) + 1), Append(net.reqs, s))
    BY <1>0, <1>4, RequestAppended DEF StreamInv
  <2> QED BY <2>1, <1>2, <1>4 DEF StreamInv, u
<1>6. /\ net'.sent \in Seq(Units) /\ Len(net.sent) <= Len(net'.sent) /\ \A n \in 1..Len(net.sent) : net'.sent[n] = net.sent[n]
  BY <1>0, <1>2, <1>3, Concatenated
<1>7. Shape'
  <2>1. net'.reqs \in Seq(AnyShape) BY <1>0, <1>2
  <2>2. net'.taken \in 0..Len(net'.sent) BY <1>2, <1>6 DEF Shape
  <2> QED BY <1>2, <1>3, <1>6, <2>1, <2>2 DEF Shape
<1>8. u # <<>> BY <1>1
<1>9. \A p \in Nat : Boundary(All, p) => Boundary(All', p) BY <1>0, <1>1, <1>4, <1>8, BoundaryStays
<1>10. \A p \in Nat, n \in Nat, ch \in BOOLEAN : BodyAt(All, p, n, ch) => BodyAt(All', p, n, ch)
  BY <1>0, <1>1, <1>4, <1>8, BodyStays
<1>11. \A p \in 1..Len(All) : p \in 1..Len(All') /\ All'[p] = All[p] BY <1>0, <1>1, <1>4, Concatenated
<1> QED BY <1>0, <1>2, <1>5, <1>6, <1>7, <1>9, <1>10, <1>11, ClientKeeps

\* The client sends one of the units it has left.
LEMMA ClientSendKeeps == ASSUME IInv, ClientSend PROVE IInv'
<1> USE DEF IInv
<1>1. /\ net.sent \in Seq(Units) /\ net.todo \in Seq(Units) /\ net.todo # <<>> /\ ~net.gone
      /\ DOMAIN net' = NetFields /\ net'.sent = Append(net.sent, Head(net.todo)) /\ net'.todo = Tail(net.todo)
      /\ net'.reqs = net.reqs /\ net'.taken = net.taken /\ net'.gone = net.gone
      /\ UNCHANGED <<cfg, srv, conn, cr, req, bdy, w, hnd>>
  BY DEF ClientSend, Shape, NetFields
<1>2. Head(net.todo) \in Units /\ Tail(net.todo) \in Seq(Units) BY <1>1, HeadTailProperties
<1>3. All' = All
  <2>1. net.todo = <<Head(net.todo)>> \o Tail(net.todo) BY <1>1
  <2>2. net'.sent = net.sent \o <<Head(net.todo)>> BY <1>1, <1>2
  <2>3. <<Head(net.todo)>> \in Seq(Units) BY <1>2
  <2>4. (net.sent \o <<Head(net.todo)>>) \o Tail(net.todo) = net.sent \o (<<Head(net.todo)>> \o Tail(net.todo))
    <3>1. net.sent \in Seq(Units) /\ <<Head(net.todo)>> \in Seq(Units) /\ Tail(net.todo) \in Seq(Units) BY <1>1, <1>2, <2>3
    <3> QED BY <3>1, Associative
  <2> QED BY <1>1, <2>1, <2>2, <2>4 DEF All
<1>4. StreamInv' BY <1>1, <1>3 DEF StreamInv
<1>5. /\ net'.sent \in Seq(Units) /\ Len(net.sent) <= Len(net'.sent) /\ \A n \in 1..Len(net.sent) : net'.sent[n] = net.sent[n]
  BY <1>1, <1>2
<1>6. Shape'
  <2>1. net'.taken \in 0..Len(net'.sent) BY <1>1, <1>5 DEF Shape
  <2> QED BY <1>1, <1>2, <1>5, <2>1 DEF Shape
<1> QED BY <1>1, <1>3, <1>4, <1>5, <1>6, ClientKeeps

\* The client hangs up.
LEMMA ClientCloseKeeps == ASSUME IInv, ClientClose PROVE IInv'
<1> USE DEF IInv
<1>1. /\ DOMAIN net' = NetFields /\ net'.sent = net.sent /\ net'.todo = net.todo
      /\ net'.reqs = net.reqs /\ net'.taken = net.taken /\ net'.gone /\ ~net.gone
      /\ UNCHANGED <<cfg, srv, conn, cr, req, bdy, w, hnd>>
  BY DEF ClientClose, Shape, NetFields
<1>2. All' = All BY <1>1 DEF All
<1>3. StreamInv' BY <1>1, <1>2 DEF StreamInv
<1>4. Shape' /\ net.sent \in Seq(Units) BY <1>1 DEF Shape
<1> QED BY <1>1, <1>2, <1>3, <1>4, ClientKeeps

-----------------------------------------------------------------------------
(* The socket is read.                                                      *)

\* The rest of a sequence, unit by unit.
LEMMA Suffix ==
  ASSUME NEW q \in Seq(Units), NEW p \in Nat, p <= Len(q)
  PROVE  LET r == SubSeq(q, p + 1, Len(q)) IN
         r \in Seq(Units) /\ Len(r) = Len(q) - p /\ \A n \in 1..Len(r) : r[n] = q[p + n]
<1> DEFINE r == SubSeq(q, p + 1, Len(q))
<1>1. \A i \in (p + 1)..Len(q) : q[i] \in Units OBVIOUS
<1>2. /\ r \in Seq(Units) /\ Len(r) = IF p + 1 <= Len(q) THEN Len(q) - (p + 1) + 1 ELSE 0
      /\ \A i \in 1..(Len(q) - (p + 1) + 1) : r[i] = q[p + 1 + i - 1]
  BY <1>1, SubSeqProperties
<1> HIDE DEF r
<1>3. Len(r) = Len(q) - p BY <1>2
<1>4. \A n \in 1..Len(r) : r[n] = q[p + n]
  <2> SUFFICES ASSUME NEW n \in 1..Len(r) PROVE r[n] = q[p + n] OBVIOUS
  <2>1. p + 1 + n - 1 = p + n /\ n \in 1..(Len(q) - (p + 1) + 1) BY <1>3
  <2> QED BY <2>1, <1>2
<1> QED BY <1>2, <1>3, <1>4 DEF r

\* What the socket holds.
LEMMA SocketFacts ==
  ASSUME Shape
  PROVE  /\ net.sent \in Seq(Units) /\ net.taken \in Nat /\ net.taken <= Len(net.sent)
         /\ Socket \in Seq(Units) /\ Len(Socket) = Len(net.sent) - net.taken
         /\ \A n \in 1..Len(Socket) : Socket[n] = net.sent[net.taken + n]
         /\ Socket = <<>> <=> net.taken = Len(net.sent)
<1>1. net.sent \in Seq(Units) /\ net.taken \in Nat /\ net.taken <= Len(net.sent) BY DEF Shape
<1>2. /\ Socket \in Seq(Units) /\ Len(Socket) = Len(net.sent) - net.taken
      /\ \A n \in 1..Len(Socket) : Socket[n] = net.sent[net.taken + n]
  BY <1>1, Suffix DEF Socket
<1> QED BY <1>1, <1>2

\* A step that only moves units between the socket, the background read and bufr.
ReadSame ==
  /\ DOMAIN net' = NetFields /\ net'.sent = net.sent /\ net'.todo = net.todo /\ net'.reqs = net.reqs /\ net'.gone = net.gone
  /\ DOMAIN conn' = ConnFields /\ DOMAIN cr' = CrFields
  /\ conn'.at = conn.at /\ conn'.hijacked = conn.hijacked /\ conn'.parsed = conn.parsed
  /\ conn'.part = conn.part /\ conn'.err = conn.err /\ cr'.panic = cr.panic
  /\ UNCHANGED <<cfg, req, bdy, w, hnd>>

\* A step that changes only the reads and what was read leaves the requests as they are.
LEMMA SameRead ==
  ASSUME ReadSame, IInv,
         Shape', HeldInv', EofInv', ReadInv', NoMore /\ conn.bufr = <<>> => NoMore' /\ conn'.bufr = <<>>
  PROVE  IInv'
<1> USE DEF IInv
<1>1. All' = All BY DEF ReadSame, All
<1>2. StreamInv' BY <1>1 DEF ReadSame, StreamInv
<1>3. ControlInv' BY DEF ReadSame, ControlInv
<1>4. ReplyInv' BY DEF ReadSame, ReplyInv
<1>5. Rest(bdy) => Rest(bdy)' BY <1>1 DEF ReadSame, Rest
<1>6. ParseInv' BY <1>1, <1>5 DEF ReadSame, ParseInv
<1> QED BY <1>2, <1>3, <1>4, <1>6

\* The background read takes a byte or fails.
LEMMA BackgroundReadReturnsKeeps == ASSUME IInv, BackgroundReadReturns PROVE IInv'
<1> USE DEF IInv
<1>1. /\ cr.bg = "read" /\ cr'.inRead = cr.inRead /\ cr'.byte = cr.byte /\ cr'.by = cr.by
      /\ conn' = conn /\ ReadSame
      /\ \/ /\ Socket # <<>> /\ cr'.bg = "byte" /\ cr'.got = Head(Socket) /\ net'.taken = net.taken + 1
         \/ /\ cr'.bg \in {"eof", "timeout", "closed"} /\ cr'.got = cr.got /\ net'.taken = net.taken
  <2> USE DEF Shape, NetFields, CrFields, ReadSame
  <2>1. cr.bg = "read" /\ conn' = conn /\ UNCHANGED <<cfg, req, bdy, w, hnd>> BY DEF BackgroundReadReturns
  <2>2. CASE Socket # <<>> /\ cr' = [cr EXCEPT !.bg = "byte", !.got = Head(Socket)] /\ net' = [net EXCEPT !.taken = @ + 1]
    BY <2>1, <2>2
  <2>3. ASSUME NEW e \in {"eof", "timeout", "closed"}, cr' = [cr EXCEPT !.bg = e], net' = net
        PROVE  ReadSame /\ cr'.bg = e /\ cr'.inRead = cr.inRead /\ cr'.byte = cr.byte /\ cr'.by = cr.by /\ cr'.got = cr.got
    BY <2>1, <2>3
  <2> QED BY <2>1, <2>2, <2>3 DEF BackgroundReadReturns
<1>2. cr.inRead /\ cr.byte = NoUnit /\ cr.got = NoUnit /\ Kept = <<>> BY <1>1 DEF ReadInv, Kept
<1>3. (CloseReads' <=> CloseReads) /\ (BodyOver' <=> BodyOver)
  BY <1>1 DEF ReadSame, CloseReads, CloseAtOnce, CloseGivesUp, BodyOver
<1>4. CASE cr'.bg # "byte"
  <2>1. Kept' = <<>> BY <1>1, <1>2, <1>4 DEF Kept
  <2>2. Shape' BY <1>1, <1>4 DEF Shape, ReadSame
  <2>3. HeldInv' BY <1>1, <1>2, <1>4, <2>1 DEF HeldInv, ReadSame
  <2>4. NoMore => NoMore' BY <1>1, <1>4, <2>1 DEF NoMore, ReadSame
  <2>5. EofInv' BY <1>1, <2>4 DEF EofInv
  <2>6. ReadInv' BY <1>1, <1>2, <1>3, <1>4 DEF ReadInv, ReadSame, Dry, ServeReads, HandlerReads
  <2> QED BY <1>1, <2>2, <2>3, <2>4, <2>5, <2>6, SameRead
<1>5. CASE cr'.bg = "byte"
  <2>1. /\ net.taken < Len(net.sent) /\ Head(Socket) = net.sent[net.taken + 1] /\ Head(Socket) \in Units
        /\ Head(Socket) # NoUnit
    <3>1. Socket \in Seq(Units) /\ Socket # <<>> /\ 1 \in 1..Len(Socket) /\ Head(Socket) = Socket[1] BY <1>1, <1>5, SocketFacts
    <3> QED BY <3>1, SocketFacts, UnitsAreSome
  <2>2. Kept' = <<Head(Socket)>> BY <1>1, <1>5, <2>1 DEF Kept
  <2>3. Shape' BY <1>1, <1>5, <2>1 DEF Shape, ReadSame
  <2>4. HeldInv'
    <3>1. Len(Kept) = 0 /\ Len(Kept') = 1 /\ Kept'[1] = net.sent[net.taken + 1] BY <1>2, <2>1, <2>2
    <3>2. net'.taken = net.taken + 1 /\ conn.parsed + Len(conn.bufr) + 0 = net.taken /\ net.taken \in Nat
      BY <1>1, <1>5, <3>1 DEF HeldInv, Shape
    <3> QED BY <1>1, <1>5, <3>1, <3>2 DEF HeldInv, ReadSame, Shape
  <2>5. ~NoMore BY <2>1 DEF NoMore, Shape
  <2>6. EofInv' BY <1>1, <2>5 DEF EofInv
  <2>7. ReadInv' BY <1>1, <1>2, <1>3, <1>5, <2>1 DEF ReadInv, ReadSame, Dry, ServeReads, HandlerReads
  <2> QED BY <1>1, <2>3, <2>4, <2>5, <2>6, <2>7, SameRead
<1> QED BY <1>4, <1>5

\* It gives its byte to connReader.
LEMMA BackgroundReadEndsKeeps == ASSUME IInv, BackgroundReadEnds PROVE IInv'
<1> USE DEF IInv
<1>1. /\ cr.bg \in {"byte", "eof", "timeout", "closed"} /\ ~cr'.inRead /\ cr'.by = cr.by /\ cr'.got = NoUnit /\ cr'.bg = "off"
      /\ cr'.byte = (IF cr.bg = "byte" THEN cr.got ELSE cr.byte)
      /\ net' = net /\ conn'.bufr = conn.bufr /\ conn'.rerr = conn.rerr /\ ReadSame
  BY DEF BackgroundReadEnds, CancelOn, Shape, NetFields, CrFields, ConnFields, ReadSame
<1>2. cr.inRead /\ cr.byte = NoUnit BY <1>1 DEF ReadInv
<1>3. (CloseReads' <=> CloseReads) /\ (BodyOver' <=> BodyOver)
  BY <1>1 DEF ReadSame, CloseReads, CloseAtOnce, CloseGivesUp, BodyOver
<1>4. Kept' = Kept BY <1>1, <1>2 DEF Kept, ReadInv
<1>5. Shape' BY <1>1 DEF Shape, ReadSame
<1>6. HeldInv' BY <1>1, <1>4 DEF HeldInv, ReadSame
<1>7. (NoMore' <=> NoMore) BY <1>1, <1>4 DEF NoMore
<1>8. EofInv' BY <1>1, <1>7 DEF EofInv
<1>9. ReadInv' BY <1>1, <1>2, <1>3 DEF ReadInv, ReadSame, Dry, ServeReads, HandlerReads
<1> QED BY <1>1, <1>5, <1>6, <1>7, <1>8, <1>9, SameRead

\* The byte of the background read goes to the end of bufr.
LEMMA ByteMoves ==
  ASSUME Shape, HeldInv, cr.byte # NoUnit, cr.got = NoUnit, cr'.byte = NoUnit, cr'.got = NoUnit, net' = net,
         conn'.bufr = Append(conn.bufr, cr.byte), conn'.parsed = conn.parsed
  PROVE  HeldInv' /\ conn'.bufr \in Seq(Units) /\ ~NoMore
<1>1. Kept = <<cr.byte>> /\ Kept' = <<>> BY DEF Kept
<1>2. cr.byte \in Units /\ conn.bufr \in Seq(Units) /\ conn.parsed \in Nat /\ net.taken \in Nat BY DEF Shape
<1>3. Len(Kept) = 1 /\ Kept # <<>> /\ Kept[1] = cr.byte /\ Len(Kept') = 0 BY <1>1
<1>4. /\ conn'.bufr \in Seq(Units) /\ Len(conn'.bufr) = Len(conn.bufr) + 1 /\ conn'.bufr[Len(conn.bufr) + 1] = cr.byte
      /\ \A n \in 1..Len(conn.bufr) : conn'.bufr[n] = conn.bufr[n]
  BY <1>2
<1>5. conn.parsed + (Len(conn.bufr) + 1) = net.taken /\ net.sent[net.taken] = cr.byte
  BY <1>2, <1>3 DEF HeldInv
<1>6. \A n \in 1..Len(conn'.bufr) : conn'.bufr[n] = net.sent[conn.parsed + n]
  <2> SUFFICES ASSUME NEW n \in 1..Len(conn'.bufr) PROVE conn'.bufr[n] = net.sent[conn.parsed + n] OBVIOUS
  <2>1. CASE n = Len(conn.bufr) + 1 BY <2>1, <1>4, <1>5
  <2>2. CASE n # Len(conn.bufr) + 1
    <3>1. n \in 1..Len(conn.bufr) BY <2>2, <1>2, <1>4
    <3> QED BY <3>1, <1>4 DEF HeldInv
  <2> QED BY <2>1, <2>2
<1> QED BY <1>1, <1>2, <1>3, <1>4, <1>5, <1>6 DEF HeldInv, NoMore

\* connReader.Read takes that byte first.
LEMMA ConnReadKeeps == ASSUME IInv, NEW who \in {"serve", "handler"}, ConnRead(who) PROVE IInv'
<1> USE DEF IInv
<1>1. /\ Dry /\ cr.by = "none" /\ (who = "serve" => ServeReads) /\ (who = "handler" => HandlerReads)
      /\ net' = net /\ conn'.rerr = conn.rerr /\ (~cr.inRead => ReadSame) /\ cr.bg = cr'.bg /\ cr'.got = cr.got
  <2> USE DEF Shape, NetFields, CrFields, ConnFields, ReadSame
  <2>1. Dry /\ cr.by = "none" /\ (who = "serve" => ServeReads) /\ (who = "handler" => HandlerReads) /\ ~cr.panic
    BY DEF ConnRead
  <2>2. ~cr.inRead \/ cr.inRead OBVIOUS
  <2>3. DOMAIN conn' = ConnFields /\ conn'.rerr = conn.rerr /\ conn'.at = conn.at /\ conn'.hijacked = conn.hijacked
        /\ conn'.parsed = conn.parsed /\ conn'.part = conn.part /\ conn'.err = conn.err
    BY DEF ConnRead
  <2>4. DOMAIN cr' = CrFields /\ cr'.bg = cr.bg /\ cr'.got = cr.got BY DEF ConnRead
  <2>5. ~cr.inRead => cr'.panic = cr.panic BY DEF ConnRead
  <2>6. net' = net /\ UNCHANGED <<cfg, req, bdy, w, hnd>> BY DEF ConnRead
  <2> QED BY <2>1, <2>3, <2>4, <2>5, <2>6
<1>2. ~cr.inRead /\ cr.bg = "off"
  <2>1. cr.bg # "off" => bdy.sawEOF BY DEF ReadInv
  <2>2. ServeReads /\ bdy.sawEOF => conn.at \in {"read", "peek"} BY DEF ServeReads, CloseReads, CloseAtOnce, BodyOver
  <2>3. HandlerReads => ~bdy.sawEOF BY DEF HandlerReads, CloseReads, CloseAtOnce, ControlInv
  <2> QED BY <1>1, <2>1, <2>2, <2>3 DEF ReadInv
<1>3. ReadSame /\ (CloseReads' <=> CloseReads) /\ (BodyOver' <=> BodyOver)
  BY <1>1, <1>2 DEF ReadSame, CloseReads, CloseAtOnce, CloseGivesUp, BodyOver
<1>4. CASE cr.byte = NoUnit
  <2>1. conn'.bufr = conn.bufr /\ cr'.inRead /\ cr'.by = who /\ cr'.byte = cr.byte
    BY <1>2, <1>4 DEF ConnRead, Shape, CrFields
  <2>2. Kept' = Kept BY <1>1, <1>3, <2>1 DEF Kept
  <2>3. Shape' BY <1>1, <1>3, <2>1 DEF Shape, ReadSame
  <2>4. HeldInv' BY <1>1, <1>3, <2>1, <2>2 DEF HeldInv, ReadSame
  <2>5. (NoMore' <=> NoMore) BY <1>1, <1>3, <2>2 DEF NoMore
  <2>6. EofInv' BY <1>1, <1>3, <2>5 DEF EofInv
  <2>7. ReadInv'
    <3>1. who = "serve" => ServeReads' BY <1>1, <1>3 DEF ReadSame, ServeReads
    <3>2. who = "handler" => HandlerReads' BY <1>1, <1>3 DEF ReadSame, HandlerReads
    <3>3. conn.at # "hijacked" /\ ~conn.hijacked
      BY <1>1 DEF ServeReads, HandlerReads, ControlInv, InHandler, Finishing
    <3>4. Dry' BY <1>1, <1>3, <2>1 DEF ReadSame, Dry
    <3> QED BY <1>1, <1>2, <1>4, <2>1, <3>1, <3>2, <3>3, <3>4 DEF ReadInv, ReadSame
  <2> QED BY <1>1, <1>3, <2>1, <2>3, <2>4, <2>5, <2>6, <2>7, SameRead
<1>5. CASE cr.byte # NoUnit
  <2>1. conn'.bufr = Append(conn.bufr, cr.byte) /\ ~cr'.inRead /\ cr'.by = "none" /\ cr'.byte = NoUnit
    BY <1>1, <1>2, <1>5 DEF ConnRead, Shape, CrFields, ConnFields, ReadInv
  <2>2. cr.got = NoUnit /\ cr'.got = NoUnit BY <1>1, <1>2 DEF ReadInv
  <2>3. HeldInv' /\ conn'.bufr \in Seq(Units) /\ ~NoMore BY <1>1, <1>3, <1>5, <2>1, <2>2, ByteMoves DEF ReadSame
  <2>4. Shape' BY <1>1, <1>3, <2>1, <2>3 DEF Shape, ReadSame
  <2>5. EofInv' BY <1>1, <1>3, <2>3 DEF EofInv
  <2>6. ReadInv' BY <1>1, <1>2, <1>3, <2>1, <2>2 DEF ReadInv, ReadSame, Dry, ServeReads, HandlerReads
  <2> QED BY <1>1, <1>3, <2>3, <2>4, <2>5, <2>6, SameRead
<1> QED BY <1>4, <1>5

\* The socket gives what it has, or an error.
LEMMA ConnReadReturnsKeeps == ASSUME IInv, ConnReadReturns PROVE IInv'
<1> USE DEF IInv
<1>1. /\ cr.by # "none" /\ ReadSame /\ cr'.byte = cr.byte /\ cr'.bg = cr.bg /\ cr'.got = cr.got /\ ~cr'.inRead /\ cr'.by = "none"
      /\ \/ \E n \in {1, Len(Socket)} :
              /\ Socket # <<>> /\ conn'.bufr = conn.bufr \o SubSeq(Socket, 1, n) /\ conn'.rerr = conn.rerr
              /\ net'.taken = net.taken + n
         \/ /\ conn'.bufr = conn.bufr /\ net' = net /\ conn'.rerr # "none"
            /\ conn'.rerr = "eof" => Socket = <<>> /\ net.gone
  <2> USE DEF Shape, NetFields, CrFields, ConnFields, ReadSame
  <2>1. cr' = [cr EXCEPT !.inRead = FALSE, !.by = "none"] /\ cr.by # "none" /\ UNCHANGED <<cfg, req, bdy, w, hnd>>
    BY DEF ConnReadReturns
  <2>2. ASSUME NEW n \in {1, Len(Socket)}, Socket # <<>>, net' = [net EXCEPT !.taken = @ + n],
               conn' = [conn EXCEPT !.bufr = @ \o SubSeq(Socket, 1, n), !.readAny = TRUE]
        PROVE  ReadSame /\ conn'.bufr = conn.bufr \o SubSeq(Socket, 1, n) /\ conn'.rerr = conn.rerr
               /\ net'.taken = net.taken + n
    BY <2>1, <2>2
  <2>3. ASSUME NEW e \in {"closed", "eof", "timeout"}, net' = net, e = "eof" => Socket = <<>> /\ net.gone,
               conn' = CancelOn(e, [conn EXCEPT !.rerr = e, !.deadline = IF e = "timeout" THEN "past" ELSE @])
        PROVE  ReadSame /\ conn'.bufr = conn.bufr /\ conn'.rerr = e
    BY <2>1, <2>3 DEF CancelOn
  <2> QED BY <2>1, <2>2, <2>3 DEF ConnReadReturns
<1>2. /\ cr.inRead /\ cr.byte = NoUnit /\ cr.bg = "off" /\ cr.got = NoUnit /\ Kept = <<>> /\ Kept' = <<>>
      /\ Dry /\ conn.rerr = "none"
  BY <1>1 DEF ReadInv, Kept, Dry
<1>3. (CloseReads' <=> CloseReads) /\ (BodyOver' <=> BodyOver)
  BY <1>1 DEF ReadSame, CloseReads, CloseAtOnce, CloseGivesUp, BodyOver
<1>4. ReadInv' BY <1>1, <1>2 DEF ReadInv, ReadSame
<1>5. CASE conn'.bufr = conn.bufr /\ net' = net /\ (conn'.rerr = "eof" => Socket = <<>> /\ net.gone)
  <2>1. Shape' BY <1>1, <1>5 DEF Shape, ReadSame
  <2>2. HeldInv' BY <1>1, <1>2, <1>5 DEF HeldInv, ReadSame
  <2>3. (NoMore' <=> NoMore) BY <1>2, <1>5 DEF NoMore
  <2>4. EofInv' BY <1>2, <1>5, <2>3, SocketFacts DEF EofInv, NoMore
  <2> QED BY <1>1, <1>4, <1>5, <2>1, <2>2, <2>3, <2>4, SameRead
<1>6. ASSUME NEW n \in {1, Len(Socket)}, Socket # <<>>, conn'.bufr = conn.bufr \o SubSeq(Socket, 1, n), conn'.rerr = conn.rerr,
             net'.taken = net.taken + n
      PROVE  IInv'
  <2> DEFINE got == SubSeq(Socket, 1, n)
  <2>1. /\ Socket \in Seq(Units) /\ n \in 1..Len(Socket) /\ net.taken \in Nat /\ Len(Socket) = Len(net.sent) - net.taken
        /\ net.taken + n <= Len(net.sent) /\ net.taken < Len(net.sent)
    BY <1>6, SocketFacts
  <2>2. got \in Seq(Units) /\ Len(got) = n /\ \A m \in 1..n : got[m] = Socket[m] BY <2>1
  <2>3. \A m \in 1..n : got[m] = net.sent[net.taken + m] BY <2>1, <2>2, SocketFacts
  <2> HIDE DEF got
  <2>4. conn.bufr \in Seq(Units) /\ conn.parsed \in Nat /\ conn.parsed + Len(conn.bufr) = net.taken
    BY <1>2 DEF Shape, HeldInv
  <2>5. /\ conn'.bufr \in Seq(Units) /\ Len(conn'.bufr) = Len(conn.bufr) + n
        /\ \A m \in 1..Len(conn.bufr) : conn'.bufr[m] = conn.bufr[m]
        /\ \A m \in 1..n : conn'.bufr[Len(conn.bufr) + m] = got[m]
    <3>1. conn'.bufr = conn.bufr \o got BY <1>6 DEF got
    <3>2. /\ conn.bufr \o got \in Seq(Units) /\ Len(conn.bufr \o got) = Len(conn.bufr) + Len(got)
          /\ \A m \in 1..Len(conn.bufr) : (conn.bufr \o got)[m] = conn.bufr[m]
          /\ \A m \in 1..Len(got) : (conn.bufr \o got)[Len(conn.bufr) + m] = got[m]
      <4>1. conn.bufr \in Seq(Units) /\ got \in Seq(Units) BY <2>2, <2>4
      <4> QED BY ONLY <4>1, Concatenated
    <3> QED BY <2>2, <3>1, <3>2
  <2>6. Shape'
    <3>1. net'.taken \in 0..Len(net'.sent)
      <4>1. net'.taken = net.taken + n /\ net'.sent = net.sent BY <1>1, <1>6 DEF ReadSame
      <4>2. Len(net.sent) \in Nat /\ n \in Nat BY <2>1, SocketFacts
      <4> QED BY <4>1, <4>2, <2>1
    <3> QED BY <1>1, <2>5, <3>1 DEF Shape, ReadSame
  <2>7. \A m \in 1..Len(conn'.bufr) : conn'.bufr[m] = net.sent[conn.parsed + m]
    <3> SUFFICES ASSUME NEW m \in 1..Len(conn'.bufr) PROVE conn'.bufr[m] = net.sent[conn.parsed + m] OBVIOUS
    <3>1. CASE m <= Len(conn.bufr) 
      <4>1. m \in 1..Len(conn.bufr) BY <3>1, <2>4, <2>5
      <4> QED BY <4>1, <2>5 DEF HeldInv
    <3>2. CASE ~(m <= Len(conn.bufr))
      <4>1. m - Len(conn.bufr) \in 1..n /\ Len(conn.bufr) + (m - Len(conn.bufr)) = m
            /\ net.taken + (m - Len(conn.bufr)) = conn.parsed + m
        BY <3>2, <2>1, <2>4, <2>5
      <4> QED BY <4>1, <2>3, <2>5
    <3> QED BY <3>1, <3>2
  <2>8. HeldInv'
    <3>1. Kept = <<>> /\ Kept' = <<>> BY <1>2
    <3>2. conn'.parsed = conn.parsed /\ net'.taken = net.taken + n /\ net'.sent = net.sent /\ n \in Nat
      BY <1>1, <1>6, <2>1 DEF ReadSame
    <3>3. conn'.parsed + Len(conn'.bufr) = net'.taken BY <2>1, <2>4, <2>5, <3>2
    <3> QED BY <2>4, <2>5, <2>7, <3>1, <3>2, <3>3 DEF HeldInv
  <2>9. ~NoMore BY <2>1 DEF NoMore
  <2>10. EofInv' BY <1>2, <1>6 DEF EofInv
  <2> QED BY <1>1, <1>4, <2>6, <2>8, <2>9, <2>10, SameRead
<1> QED BY <1>1, <1>5, <1>6

-----------------------------------------------------------------------------
(* Units leave bufr: the head of a request, and its body.                   *)

\* The first unit of bufr is the next one of the stream.
LEMMA NextUnit ==
  ASSUME IInv, conn.bufr # <<>>
  PROVE  /\ Head(conn.bufr) \in Units /\ Tail(conn.bufr) \in Seq(Units)
         /\ conn.parsed + 1 \in 1..Len(All) /\ Head(conn.bufr) = All[conn.parsed + 1]
<1> USE DEF IInv
<1>1. /\ conn.bufr \in Seq(Units) /\ conn.parsed \in Nat /\ net.sent \in Seq(Units) /\ net.todo \in Seq(Units)
      /\ net.taken <= Len(net.sent)
  BY DEF Shape
<1>2. Head(conn.bufr) \in Units /\ Tail(conn.bufr) \in Seq(Units) BY <1>1, HeadTailProperties
<1>3. 1 \in 1..Len(conn.bufr) /\ Head(conn.bufr) = conn.bufr[1] BY <1>1
<1>4. conn.parsed + 1 \in 1..Len(net.sent) BY <1>1, <1>3 DEF HeldInv, Kept
<1>5. Head(conn.bufr) = net.sent[conn.parsed + 1] BY <1>3 DEF HeldInv
<1>6. /\ \A m \in 1..Len(net.sent) : All[m] = net.sent[m]
      /\ Len(All) = Len(net.sent) + Len(net.todo)
  BY <1>1, Concatenated DEF All
<1>7. conn.parsed + 1 \in 1..Len(All)
  <2>1. \A p, m, n \in Nat : p \in 1..m => p \in 1..(m + n) OBVIOUS
  <2>2. Len(net.sent) \in Nat /\ Len(net.todo) \in Nat /\ conn.parsed + 1 \in Nat BY <1>1
  <2>3. conn.parsed + 1 \in 1..(Len(net.sent) + Len(net.todo)) BY ONLY <1>4, <2>1, <2>2
  <2> QED BY ONLY <1>6, <2>3
<1> QED BY <1>2, <1>4, <1>5, <1>6, <1>7

\* A step that takes it.
Takes ==
  /\ net' = net /\ conn.bufr # <<>> /\ conn'.bufr = Tail(conn.bufr) /\ conn'.parsed = conn.parsed + 1
  /\ conn'.rerr = conn.rerr

\* The unit that is parsed is the next one of the stream.
LEMMA TakesOne ==
  ASSUME IInv, Takes, cr'.byte = cr.byte, cr'.got = cr.got
  PROVE  HeldInv' /\ EofInv' /\ ~(NoMore /\ conn.bufr = <<>>) /\ All' = All /\ StreamInv' /\ conn'.parsed \in Nat
<1> USE DEF IInv
<1>1. conn.bufr \in Seq(Units) /\ conn.parsed \in Nat BY DEF Shape
<1>2. /\ Len(conn'.bufr) = Len(conn.bufr) - 1
      /\ \A m \in 1..Len(conn'.bufr) : conn'.bufr[m] = conn.bufr[m + 1]
  BY <1>1, HeadTailProperties DEF Takes
<1>3. Kept' = Kept BY DEF Kept
<1>4. Len(conn.bufr) \in Nat \ {0} /\ Len(Kept) \in {0, 1} BY <1>1 DEF Takes, Kept
<1>5. conn'.parsed + Len(conn'.bufr) + Len(Kept') = net'.taken BY <1>1, <1>2, <1>3, <1>4 DEF Takes, HeldInv
<1>6. \A m \in 1..Len(conn'.bufr) : conn'.bufr[m] = net'.sent[conn'.parsed + m]
  <2> SUFFICES ASSUME NEW m \in 1..Len(conn'.bufr) PROVE conn'.bufr[m] = net'.sent[conn'.parsed + m] OBVIOUS
  <2>1. m + 1 \in 1..Len(conn.bufr) /\ conn.parsed + (m + 1) = conn'.parsed + m BY <1>1, <1>2, <1>4 DEF Takes
  <2> QED BY <2>1, <1>2 DEF HeldInv, Takes
<1>7. HeldInv' BY <1>3, <1>5, <1>6 DEF HeldInv, Takes
<1>8. (NoMore' <=> NoMore) BY <1>3 DEF NoMore, Takes
<1>9. EofInv' BY <1>8 DEF EofInv, Takes
<1>10. All' = All BY DEF All, Takes
<1> QED BY <1>1, <1>7, <1>9, <1>10 DEF StreamInv, Takes

\* A head is read where the last request ended.
LEMMA ReadHeadKeeps == ASSUME IInv, ReadHead PROVE IInv'
<1> USE DEF IInv
<1> DEFINE u == Head(conn.bufr)  s == net.reqs[u.id]  p == conn.parsed + 1
<1>1. /\ conn.at = "read" /\ conn.bufr # <<>> /\ Takes /\ DOMAIN conn' = ConnFields /\ cr' = cr /\ hnd' = hnd /\ cfg' = cfg
      /\ conn'.hijacked = conn.hijacked
      /\ \/ /\ conn.part = 0 /\ u.k = "first" /\ conn'.at = "read" /\ conn'.part = 1 /\ UNCHANGED <<req, bdy, w>>
         \/ /\ conn.part = 0 /\ u.k # "first" /\ UNCHANGED <<req, bdy, w>>
         \/ /\ conn.part = 1 /\ conn'.at = "parsed" /\ req' = s /\ bdy' = NewBody(s) /\ w' = NoResponse
  <2> USE DEF ReadHead, Shape, ConnFields, Takes
  <2>1. conn.at = "read" /\ conn.bufr # <<>> /\ net' = net /\ cr' = cr /\ hnd' = hnd /\ cfg' = cfg OBVIOUS
  <2>2. CASE conn.part = 0 /\ u.k = "first" BY <2>2
  <2>3. CASE conn.part = 0 /\ u.k # "first" BY <2>3
  <2>4. CASE conn.part # 0
    <3>1. conn.part = 1 /\ req' = s /\ bdy' = NewBody(s) /\ w' = NoResponse BY <2>4
    <3>2. conn' = [conn EXCEPT !.bufr = Tail(@), !.parsed = @ + 1,
                               !.at = "parsed", !.err = IF s.bad \in {"no", "expectation"} THEN "none" ELSE s.bad,
                               !.deadline = IF cfg.timeouts THEN "set" ELSE "none", !.readAny = TRUE]
      BY <2>4
    <3> QED BY <2>1, <3>1, <3>2
  <2> QED BY <2>1, <2>2, <2>3, <2>4
<1>2. /\ u \in Units /\ Tail(conn.bufr) \in Seq(Units) /\ p \in 1..Len(All) /\ u = All[p] BY <1>1, NextUnit
<1>3. HeldInv' /\ EofInv' /\ ~(NoMore /\ conn.bufr = <<>>) /\ All' = All /\ StreamInv' /\ conn'.parsed \in Nat
  BY <1>1, TakesOne
<1>4. conn.parsed \in Nat /\ All \in Seq(Units) /\ conn'.parsed = p
  <2>1. net.sent \in Seq(Units) /\ net.todo \in Seq(Units) BY DEF Shape
  <2>2. All \in Seq(Units) BY <2>1, Concatenated DEF All
  <2> QED BY <1>1, <2>2 DEF Shape, Takes
<1>5. /\ All[p].id \in 1..Len(net.reqs)
      /\ All[p].k = "first" => p + 1 \in 1..Len(All) /\ All[p + 1].k = "rest"
      /\ All[p].k = "rest" => BodyAt(All, p + 1, net.reqs[All[p].id].body, net.reqs[All[p].id].framing # "length")
  BY <1>2 DEF StreamInv, Requests
<1>6. conn.rerr = "none" \/ conn.rerr # "none" OBVIOUS
<1>7. cr.by = "none" /\ cr.bg = "off" /\ ~cr.inRead BY <1>1 DEF ReadInv, Dry, Shape
<1>8. ~conn.hijacked /\ hnd.at = "off" /\ w.todo = "none" /\ w.discarded = -1 BY <1>1 DEF ControlInv, InHandler, Finishing
<1>9. CASE conn.part = 0
  <2>1. u.k = "first" BY <1>1, <1>2, <1>3, <1>4, <1>9 DEF ParseInv, Boundary
  <2>2. conn'.at = "read" /\ conn'.part = 1 /\ UNCHANGED <<req, bdy, w>> BY <1>1, <1>9, <2>1
  <2>3. Shape' BY <1>1, <1>2, <1>3, <2>2 DEF Shape, Takes
  <2>4. ReadInv' BY <1>1, <1>7, <1>8, <2>2 DEF ReadInv
  <2>5. ControlInv' BY <1>1, <2>2 DEF ControlInv
  <2>6. ReplyInv' BY <2>2 DEF ReplyInv
  <2>7. ParseInv' BY <1>2, <1>3, <1>4, <1>5, <2>1, <2>2 DEF ParseInv, InHandler, Finishing
  <2> QED BY <1>3, <2>3, <2>4, <2>5, <2>6, <2>7
<1>10. CASE conn.part = 1
  <2>1. conn'.at = "parsed" /\ bdy' = NewBody(s) /\ w' = NoResponse BY <1>1, <1>10
  <2>2. u.k = "rest" BY <1>1, <1>2, <1>10 DEF ParseInv
  <2>3. s \in AnyShape /\ s.body \in Nat
    <3>1. net.reqs \in Seq(AnyShape) BY DEF Shape
    <3> QED BY <3>1, <1>2, <1>5, BodyIsCounted
  <2>4. /\ DOMAIN bdy' = BdyFields /\ bdy'.left = s.body /\ bdy'.chunked = (s.framing # "length") /\ bdy'.chunked \in BOOLEAN
        /\ bdy'.sawEOF = (s.body = 0 /\ s.framing = "length") /\ bdy'.present = (s.body > 0 \/ s.framing # "length")
        /\ ~bdy'.closed
    BY <2>1 DEF NewBody, NoBody, BdyFields
  <2>5. DOMAIN w' = WFields /\ w'.header = "no" /\ w'.todo = "none" /\ w'.discarded = -1 /\ ~w'.sawEOF
    BY <2>1 DEF NoResponse, WFields
  <2>6. Shape' BY <1>1, <1>2, <1>3, <2>4, <2>5 DEF Shape, Takes
  <2>7. ReadInv' BY <1>1, <1>7, <1>8, <2>1 DEF ReadInv
  <2>8. ControlInv' BY <1>1, <1>8, <2>1, <2>5 DEF ControlInv
  <2>9. ReplyInv'
    <3>1. CASE s.body = 0 /\ s.framing = "length" BY <2>4, <2>5, <3>1 DEF ReplyInv
    <3>2. CASE ~(s.body = 0 /\ s.framing = "length")
      <4>1. s.body > 0 \/ s.framing # "length" BY <2>3, <3>2
      <4>2. bdy'.present BY <2>4, <4>1
      <4> QED BY <2>5, <4>2 DEF ReplyInv
    <3> QED BY <3>1, <3>2
  <2>10. Rest(bdy)'
    <3>1. BodyAt(All, p + 1, s.body, s.framing # "length") BY <1>2, <1>5, <2>2
    <3>2. CASE s.framing = "length" /\ s.body = 0
      <4>1. Boundary(All, p + 1)
        BY <3>1, <3>2, <1>4 DEF BodyAt
      <4> QED BY <1>3, <1>4, <2>4, <3>2, <4>1 DEF Rest
    <3>3. CASE ~(s.framing = "length" /\ s.body = 0)
      BY <1>3, <1>4, <2>3, <2>4, <3>1, <3>3 DEF Rest
    <3> QED BY <3>2, <3>3
  <2>11. ParseInv' BY <2>1, <2>10 DEF ParseInv
  <2> QED BY <1>3, <2>6, <2>7, <2>8, <2>9, <2>11
<1> QED BY <1>1, <1>9, <1>10

\* Or the connection ends.
LEMMA ReadHeadFailsKeeps == ASSUME IInv, ReadHeadFails PROVE IInv'
<1> USE DEF IInv
<1>1. /\ conn.at = "read" /\ conn.bufr = <<>> /\ conn.rerr # "none" /\ DOMAIN conn' = ConnFields
      /\ conn'.at = "parsed" /\ conn'.err # "none" /\ conn'.rerr = "none" /\ conn'.bufr = conn.bufr /\ conn'.parsed = conn.parsed
      /\ conn'.hijacked = conn.hijacked /\ UNCHANGED <<cfg, net, srv, cr, req, bdy, w, hnd>>
  BY DEF ReadHeadFails, Shape, ConnFields
<1>2. cr.by = "none" /\ cr.bg = "off" /\ ~cr.inRead BY <1>1 DEF ReadInv, Dry
<1>3. ~conn.hijacked /\ hnd.at = "off" /\ w.todo = "none" /\ w.discarded = -1 BY <1>1 DEF ControlInv, InHandler, Finishing
<1>4. Shape' BY <1>1 DEF Shape
<1>5. StreamInv' /\ HeldInv' BY <1>1 DEF StreamInv, HeldInv, All, Kept
<1>6. EofInv' BY <1>1 DEF EofInv
<1>7. ReadInv' BY <1>1, <1>2, <1>3 DEF ReadInv
<1>8. ControlInv' BY <1>1, <1>3 DEF ControlInv
<1>9. ReplyInv' BY <1>1 DEF ReplyInv
<1>10. ParseInv' BY <1>1 DEF ParseInv, InHandler, Finishing
<1> QED BY <1>4, <1>5, <1>6, <1>7, <1>8, <1>9, <1>10

\* The first bytes of the next request are there, or none will come.
LEMMA PeekedKeeps == ASSUME IInv, Peeked PROVE IInv'
<1> USE DEF IInv
<1>1. /\ conn.at = "peek" /\ ~Dry /\ DOMAIN conn' = ConnFields
      /\ \/ conn'.at = "start" /\ conn'.rerr = conn.rerr
         \/ conn'.at = "closing" /\ conn'.rerr = "none"
      /\ conn'.bufr = conn.bufr /\ conn'.parsed = conn.parsed
      /\ conn'.hijacked = conn.hijacked /\ UNCHANGED <<cfg, net, srv, cr, req, bdy, w, hnd>>
  BY DEF Peeked, Shape, ConnFields
<1>2. cr.by = "none" /\ cr.bg = "off" /\ ~cr.inRead BY <1>1 DEF ReadInv
<1>3. ~conn.hijacked /\ hnd.at = "off" /\ w.todo = "none" /\ w.discarded = -1 BY <1>1 DEF ControlInv, InHandler, Finishing
<1>4. Shape' BY <1>1 DEF Shape
<1>5. StreamInv' /\ HeldInv' /\ All' = All /\ (NoMore' <=> NoMore) BY <1>1 DEF StreamInv, HeldInv, All, Kept, NoMore
<1>6. EofInv' BY <1>1, <1>5 DEF EofInv
<1>7. ReadInv' BY <1>1, <1>2, <1>3 DEF ReadInv
<1>8. ControlInv' BY <1>1, <1>3 DEF ControlInv
<1>9. ReplyInv' BY <1>1 DEF ReplyInv
<1>10. ParseInv' BY <1>1, <1>5 DEF ParseInv, InHandler, Finishing
<1> QED BY <1>4, <1>5, <1>6, <1>7, <1>8, <1>9, <1>10

\* Dispatch: the background read starts, if the request has no body.
LEMMA DispatchKeeps == ASSUME IInv, Dispatch PROVE IInv'
<1> USE DEF IInv
<1>0. conn.at = "dispatch" /\ net' = net /\ cfg' = cfg /\ req' = req BY DEF Dispatch
<1>1. cr.by = "none" /\ cr.bg = "off" /\ ~cr.inRead /\ ~cr.panic /\ cr.got = NoUnit
  BY <1>0 DEF ReadInv, ServeReads, HandlerReads, ControlInv, InHandler, Finishing
<1>2. ~conn.hijacked /\ hnd.at = "off" /\ w.todo = "none" /\ w.discarded = -1 BY <1>0 DEF ControlInv, InHandler, Finishing
<1>3. /\ DOMAIN conn' = ConnFields /\ conn'.bufr = conn.bufr /\ conn'.parsed = conn.parsed /\ conn'.rerr = conn.rerr
      /\ ~conn'.hijacked /\ conn'.at \in {"handler", "finish"} /\ (conn'.at = "handler" \/ UNCHANGED <<cr, bdy, hnd>>)
      /\ DOMAIN w' = WFields /\ w'.header = w.header /\ w'.sawEOF = w.sawEOF /\ w'.todo = "none" /\ w'.discarded = -1
      /\ w'.closeAfter \in {w.closeAfter, FALSE}
      /\ DOMAIN bdy' = BdyFields /\ bdy'.sawEOF = bdy.sawEOF /\ bdy'.closed = bdy.closed /\ bdy'.left = bdy.left
      /\ bdy'.chunked = bdy.chunked /\ bdy'.present = bdy.present
      /\ DOMAIN hnd' = HndFields /\ hnd'.at \in {"off", "run"}
  <2> USE DEF Shape, ConnFields, WFields, BdyFields, HndFields, StartClearsDeadline, NoHandler
  <2>1. CASE req.bad = "expectation"
    <3>1. /\ conn' = [conn EXCEPT !.at = "finish"] /\ UNCHANGED <<cr, bdy, hnd>>
          /\ w' = [w EXCEPT !.wroteHeader = TRUE, !.given = [OK EXCEPT !.conn = "close"], !.closeAfter = FALSE,
                            !.handlerDone = TRUE]
      BY <1>0, <2>1 DEF Dispatch
    <3> QED BY <1>2, <3>1
  <2>2. CASE req.bad # "expectation"
    <3>1. /\ bdy' = [bdy EXCEPT !.hook = ~bdy.sawEOF] /\ hnd' = [NoHandler EXCEPT !.at = "run"] /\ w' = w
          /\ conn' = [(IF bdy.sawEOF THEN StartClearsDeadline(conn) ELSE conn) EXCEPT !.at = "handler", !.served = @ + 1]
      BY <1>0, <2>2 DEF Dispatch
    <3>2. /\ DOMAIN conn' = ConnFields /\ conn'.bufr = conn.bufr /\ conn'.parsed = conn.parsed /\ conn'.rerr = conn.rerr
          /\ ~conn'.hijacked /\ conn'.at = "handler"
      BY <1>2, <3>1
    <3> QED BY <1>2, <3>1, <3>2
  <2> QED BY <2>1, <2>2
<1>4. /\ DOMAIN cr' = CrFields /\ cr'.byte = cr.byte /\ cr'.got = cr.got /\ cr'.by = "none" /\ ~cr'.panic
      /\ \/ cr'.bg = "off" /\ ~cr'.inRead
         \/ cr'.bg = "read" /\ cr'.inRead /\ bdy.sawEOF /\ cr.byte = NoUnit
  BY <1>0, <1>1 DEF Dispatch, Shape, CrFields, StartBackgroundRead
<1>5. Shape' BY <1>0, <1>3, <1>4 DEF Shape
<1>6. StreamInv' /\ HeldInv' /\ All' = All /\ (NoMore' <=> NoMore)
  BY <1>0, <1>3, <1>4 DEF StreamInv, HeldInv, All, Kept, NoMore
<1>7. EofInv' BY <1>3, <1>6 DEF EofInv
<1>8. ReadInv' BY <1>1, <1>3, <1>4 DEF ReadInv
<1>9. w.header = "no" BY <1>0, <1>3 DEF ControlInv
<1>10. ControlInv' BY <1>2, <1>3 DEF ControlInv, InHandler, Finishing
<1>11. ReplyInv' BY <1>3, <1>9 DEF ReplyInv
<1>12. Rest(bdy)' BY <1>0, <1>3, <1>6 DEF ParseInv, Rest
<1>13. ParseInv' BY <1>3, <1>12 DEF ParseInv
<1> QED BY <1>5, <1>6, <1>7, <1>8, <1>10, <1>11, <1>13

-----------------------------------------------------------------------------
(* The body of a request is read, by the handler or behind it.              *)

\* Where one reads of a body, the handler or the server owns the connection, and no read is under way.
Reading == hnd.at \in {"reading", "closing"} \/ w.discarded # -1 \/ conn.at = "bodyclose"

\* One who reads of the body is the only reader.
LEMMA ReadersAlone ==
  ASSUME IInv, Reading, ~bdy.sawEOF, ReadPossible
  PROVE  /\ conn.at \in {"handler"} \cup (Finishing \ {"decide"}) /\ ~conn.hijacked
         /\ cr.by = "none" /\ cr.bg = "off" /\ ~cr.inRead /\ ~cr.panic /\ cr.got = NoUnit
         /\ w.header # "no" => w.closeAfter
<1> USE DEF IInv
<1>1. conn.at \in {"handler"} \cup (Finishing \ {"decide"}) /\ ~conn.hijacked BY DEF ControlInv, Reading, Finishing
<1>2. conn.bufr # <<>> => Len(conn.bufr) >= 1 BY DEF Shape
<1>3. ~Dry
  <2>1. conn.at # "peek" BY <1>1 DEF Finishing
  <2>2. Len(conn.bufr) \in Nat BY DEF Shape
  <2> QED BY <1>2, <2>1, <2>2 DEF Dry, ReadPossible
<1>4. cr.by = "none" /\ cr.bg = "off" /\ ~cr.inRead /\ ~cr.panic /\ cr.got = NoUnit BY <1>3 DEF ReadInv
<1> QED BY <1>1, <1>4 DEF ReplyInv

\* What a read makes of the body, whatever else its reader notes in it.
Made(b) ==
  /\ DOMAIN b = BdyFields /\ b.left = ReadOutcome.left /\ b.chunked = bdy.chunked /\ (b.sawEOF <=> ReadOutcome.sawEOF)
  /\ (ReadOutcome.closed => b.closed) /\ b.present = bdy.present /\ (b.hook <=> bdy.hook)

\* A read takes the next unit of the body, or meets its end.
LEMMA BodyGoesOn ==
  ASSUME IInv, Reading, ~bdy.sawEOF, ~bdy.closed, ReadPossible, NEW b, Made(b), BodyRead(b), net' = net
  PROVE  /\ HeldInv' /\ EofInv' /\ StreamInv' /\ Rest(bdy)'
         /\ DOMAIN conn' = ConnFields /\ conn'.bufr \in Seq(Units) /\ conn'.parsed \in Nat
         /\ conn'.at = conn.at /\ conn'.hijacked = conn.hijacked /\ conn'.part = conn.part /\ conn'.err = conn.err
         /\ DOMAIN bdy' = BdyFields /\ bdy'.chunked = bdy.chunked /\ bdy'.present = bdy.present
         /\ (bdy'.sawEOF <=> b.sawEOF) /\ bdy'.closed = b.closed
         /\ DOMAIN cr' = CrFields /\ cr'.byte = cr.byte /\ cr'.got = NoUnit /\ cr'.by = "none" /\ ~cr'.panic
         /\ \/ cr'.bg = "off" /\ ~cr'.inRead
            \/ cr'.bg = "read" /\ cr'.inRead /\ bdy'.sawEOF /\ cr'.byte = NoUnit
<1> USE DEF IInv
<1>1. /\ conn.at \in {"handler"} \cup (Finishing \ {"decide"}) /\ cr.by = "none" /\ cr.bg = "off" /\ ~cr.inRead /\ ~cr.panic
      /\ cr.got = NoUnit
  BY ReadersAlone
<1>2. /\ DOMAIN bdy' = BdyFields /\ bdy'.left = ReadOutcome.left /\ bdy'.chunked = bdy.chunked /\ bdy'.present = bdy.present
      /\ (bdy'.sawEOF <=> ReadOutcome.sawEOF) /\ (bdy'.sawEOF <=> b.sawEOF) /\ bdy'.closed = b.closed
      /\ (ReadOutcome.closed => bdy'.closed)
  <2>1. CASE b.sawEOF
    <3>1. bdy' = [b EXCEPT !.hook = FALSE] BY <2>1 DEF BodyRead
    <3> QED BY <2>1, <3>1 DEF Made, BdyFields
  <2>2. CASE ~b.sawEOF
    <3>1. bdy' = b BY <2>2 DEF BodyRead
    <3> QED BY <3>1 DEF Made
  <2> QED BY <2>1, <2>2
<1>3. /\ DOMAIN cr' = CrFields /\ cr'.byte = cr.byte /\ cr'.got = NoUnit /\ cr'.by = "none" /\ ~cr'.panic
      /\ \/ cr'.bg = "off" /\ ~cr'.inRead
         \/ cr'.bg = "read" /\ cr'.inRead /\ bdy'.sawEOF /\ cr'.byte = NoUnit
  <2>1. CASE b.sawEOF /\ b.hook /\ cr.byte = NoUnit
    <3>1. cr' = [cr EXCEPT !.inRead = TRUE, !.bg = "read"] BY <1>1, <2>1 DEF BodyRead, StartBackgroundRead
    <3> QED BY <1>1, <1>2, <2>1, <3>1 DEF Shape, CrFields
  <2>2. CASE ~(b.sawEOF /\ b.hook /\ cr.byte = NoUnit)
    <3>1. cr' = cr BY <1>1, <2>2 DEF BodyRead, StartBackgroundRead
    <3> QED BY <1>1, <3>1 DEF Shape
  <2> QED BY <2>1, <2>2
<1>4. /\ DOMAIN conn' = ConnFields /\ conn'.at = conn.at /\ conn'.hijacked = conn.hijacked /\ conn'.part = conn.part
      /\ conn'.err = conn.err
      /\ IF conn.bufr # <<>> THEN conn'.bufr = Tail(conn.bufr) /\ conn'.parsed = conn.parsed + 1 /\ conn'.rerr = conn.rerr
         ELSE conn'.bufr = conn.bufr /\ conn'.parsed = conn.parsed /\ conn'.rerr = "none"
  <2> DEFINE c == IF conn.bufr # <<>> THEN [conn EXCEPT !.bufr = Tail(@), !.parsed = @ + 1] ELSE [conn EXCEPT !.rerr = "none"]
  <2>1. /\ DOMAIN c = ConnFields /\ c.at = conn.at /\ c.hijacked = conn.hijacked /\ c.part = conn.part /\ c.err = conn.err
        /\ IF conn.bufr # <<>> THEN c.bufr = Tail(conn.bufr) /\ c.parsed = conn.parsed + 1 /\ c.rerr = conn.rerr
           ELSE c.bufr = conn.bufr /\ c.parsed = conn.parsed /\ c.rerr = "none"
    <3>1. CASE conn.bufr # <<>> BY <3>1 DEF Shape, ConnFields
    <3>2. CASE conn.bufr = <<>> BY <3>2 DEF Shape, ConnFields
    <3> QED BY <3>1, <3>2
  <2>2. conn' \in {c, [c EXCEPT !.deadline = "none"]} BY DEF BodyRead, StartClearsDeadline
  <2> HIDE DEF c
  <2> QED BY <2>1, <2>2 DEF ConnFields
<1>5. Rest(bdy) BY <1>1 DEF ParseInv, InHandler
<1>6. /\ bdy.left \in Nat /\ bdy.chunked \in BOOLEAN /\ BodyAt(All, conn.parsed + 1, bdy.left, bdy.chunked)
      /\ (~bdy.chunked => bdy.left # 0)
  BY <1>5 DEF Rest, Shape
<1>7. conn.parsed \in Nat /\ conn.parsed + 1 \in Nat /\ conn.bufr \in Seq(Units) BY DEF Shape
<1>8. CASE conn.bufr # <<>>
  <2> DEFINE u == Head(conn.bufr)  p == conn.parsed + 1
  <2>1. u \in Units /\ Tail(conn.bufr) \in Seq(Units) /\ p \in 1..Len(All) /\ u = All[p] BY <1>8, NextUnit
  <2>2. Takes BY <1>4, <1>8 DEF Takes
  <2>3. HeldInv' /\ EofInv' /\ All' = All /\ StreamInv' /\ conn'.parsed \in Nat BY <1>1, <1>3, <2>2, TakesOne
  <2>4. ReadOutcome = BodyTakes(bdy, u) BY <1>8 DEF ReadOutcome
  <2>5. conn'.parsed = p /\ conn'.bufr \in Seq(Units) BY <1>4, <1>8, <2>1
  <2>6. All \in Seq(Units)
    <3>1. net.sent \in Seq(Units) /\ net.todo \in Seq(Units) BY DEF Shape
    <3> QED BY <3>1, Concatenated DEF All
  <2>7. /\ bdy.left # 0 => u.k = "body" /\ BodyAt(All, p + 1, bdy.left - 1, bdy.chunked)
        /\ bdy.left = 0 /\ bdy.chunked => u.k \in {"end", "bad"} /\ Boundary(All, p + 1)
    <3>1. /\ bdy.left # 0 => All[p].k = "body" /\ BodyAt(All, p + 1, bdy.left - 1, bdy.chunked)
          /\ bdy.left = 0 /\ bdy.chunked => All[p].k \in {"end", "bad"} /\ Boundary(All, p + 1)
      BY <1>6, <1>7, <2>6, BodyTakesOne
    <3> QED BY <2>1, <3>1
  <2> HIDE DEF u, p
  <2>8. Rest(bdy)'
    <3>1. CASE bdy.left # 0
      <4>1. u.k = "body" /\ BodyAt(All, p + 1, bdy.left - 1, bdy.chunked) BY <2>7, <3>1
      <4>2. ReadOutcome = [bdy EXCEPT !.left = @ - 1, !.sawEOF = ~bdy.chunked /\ bdy.left = 1]
        BY <2>4, <4>1 DEF BodyTakes
      <4>3. bdy'.left = bdy.left - 1 /\ (bdy'.sawEOF <=> ~bdy.chunked /\ bdy.left = 1)
        BY <1>2, <4>2 DEF Shape, BdyFields
      <4>4. CASE bdy'.sawEOF
        <5>1. bdy.left - 1 = 0 /\ bdy.chunked = FALSE BY <1>6, <4>3, <4>4
        <5>2. p \in Nat /\ p + 1 \in Nat BY <1>7 DEF p
        <5>3. BodyAt(All, p + 1, 0, FALSE) BY <4>1, <5>1
        <5>4. Boundary(All, p + 1) BY <2>6, <5>2, <5>3, BodyTakesOne
        <5> QED BY <2>3, <2>5, <4>4, <5>4 DEF Rest
      <4>5. CASE ~bdy'.sawEOF
        <5>1. bdy.left - 1 \in Nat /\ (~bdy.chunked => bdy.left - 1 # 0) BY <1>6, <3>1, <4>3, <4>5
        <5> QED BY <1>2, <2>3, <2>5, <4>1, <4>3, <4>5, <5>1 DEF Rest
      <4> QED BY <4>4, <4>5
    <3>2. CASE bdy.left = 0
      <4>1. u.k \in {"end", "bad"} /\ Boundary(All, p + 1) BY <1>6, <2>7, <3>2
      <4>2. CASE u.k = "end"
        <5>1. ReadOutcome = [bdy EXCEPT !.sawEOF = TRUE] BY <2>4, <4>2 DEF BodyTakes
        <5>2. bdy'.sawEOF BY <1>2, <5>1 DEF Shape, BdyFields
        <5> QED BY <2>3, <2>5, <4>1, <5>2 DEF Rest
      <4>3. CASE u.k = "bad"
        <5>1. ReadOutcome = [bdy EXCEPT !.closed = TRUE] BY <2>4, <4>3 DEF BodyTakes
        <5>2. bdy'.closed /\ ~bdy'.sawEOF BY <1>2, <5>1 DEF Shape, BdyFields
        <5> QED BY <5>2 DEF Rest
      <4> QED BY <4>1, <4>2, <4>3
    <3> QED BY <3>1, <3>2
  <2> QED BY <1>2, <1>3, <1>4, <2>3, <2>5, <2>8
<1>9. CASE conn.bufr = <<>>
  <2>1. conn'.bufr = conn.bufr /\ conn'.parsed = conn.parsed /\ conn'.rerr = "none" BY <1>4, <1>9
  <2>2. All' = All /\ Kept' = Kept BY <1>1, <1>3 DEF All, Kept
  <2>3. StreamInv' /\ HeldInv' /\ (NoMore' <=> NoMore) BY <2>1, <2>2 DEF StreamInv, HeldInv, NoMore
  <2>4. EofInv' BY <2>1 DEF EofInv
  <2>5. ReadOutcome = [bdy EXCEPT !.sawEOF = ~bdy.chunked /\ conn.rerr = "eof", !.failed = bdy.chunked]
    BY <1>9 DEF ReadOutcome, BodyFails
  <2>6. bdy'.left = bdy.left /\ (bdy'.sawEOF => conn.rerr = "eof") BY <1>2, <2>5 DEF Shape, BdyFields
  <2>7. bdy'.sawEOF => NoMore' BY <2>3, <2>6 DEF EofInv
  <2>8. Rest(bdy)' BY <1>2, <1>6, <1>9, <2>1, <2>2, <2>6, <2>7 DEF Rest
  <2> QED BY <1>2, <1>3, <1>4, <1>7, <2>1, <2>3, <2>4, <2>8
<1> QED BY <1>8, <1>9

\* A step that reads of the body keeps the invariant.
LEMMA BodyReadKeeps ==
  ASSUME IInv, Reading, ~bdy.sawEOF, ~bdy.closed, ReadPossible, NEW b, Made(b), BodyRead(b), UNCHANGED <<cfg, net, req>>,
         DOMAIN w' = WFields, DOMAIN hnd' = HndFields, hnd'.at = hnd.at \/ (hnd.at = "reading" /\ hnd'.at = "run"),
         hnd'.at # "reading", w'.header = w.header, w'.closeAfter = w.closeAfter, w'.todo = w.todo,
         w'.sawEOF => w.sawEOF \/ b.sawEOF, w'.discarded \in Int, w'.discarded >= -1, w'.discarded = -1 <=> w.discarded = -1
  PROVE  IInv'
<1> USE DEF IInv
<1>1. /\ conn.at \in {"handler"} \cup (Finishing \ {"decide"}) /\ ~conn.hijacked /\ (w.header # "no" => w.closeAfter)
  BY ReadersAlone
<1>2. /\ HeldInv' /\ EofInv' /\ StreamInv' /\ Rest(bdy)'
      /\ DOMAIN conn' = ConnFields /\ conn'.bufr \in Seq(Units) /\ conn'.parsed \in Nat
      /\ conn'.at = conn.at /\ conn'.hijacked = conn.hijacked /\ conn'.part = conn.part /\ conn'.err = conn.err
      /\ DOMAIN bdy' = BdyFields /\ bdy'.chunked = bdy.chunked /\ bdy'.present = bdy.present
      /\ (bdy'.sawEOF <=> b.sawEOF) /\ bdy'.closed = b.closed
      /\ DOMAIN cr' = CrFields /\ cr'.byte = cr.byte /\ cr'.got = NoUnit /\ cr'.by = "none" /\ ~cr'.panic
      /\ \/ cr'.bg = "off" /\ ~cr'.inRead
         \/ cr'.bg = "read" /\ cr'.inRead /\ bdy'.sawEOF /\ cr'.byte = NoUnit
  BY BodyGoesOn
<1>3. Shape' BY <1>2 DEF Shape
<1>4. w.header # "no" \/ conn.at \notin {"bodyclose", "decide"} BY DEF ControlInv
<1>5. ReadInv' BY <1>1, <1>2, <1>4 DEF ReadInv, Finishing
<1>6. ControlInv' BY <1>1, <1>2 DEF ControlInv, InHandler, Finishing
<1>7. ReplyInv' BY <1>1, <1>2 DEF ReplyInv
<1>8. ParseInv' BY <1>1, <1>2 DEF ParseInv, Finishing
<1> QED BY <1>2, <1>3, <1>5, <1>6, <1>7, <1>8


\* What the readers of a body make of it.
LEMMA OutcomeShape ==
  ASSUME Shape
  PROVE  /\ Made(ReadOutcome)
         /\ LET b == [ReadOutcome EXCEPT !.drained = @ + BodyBytes, !.closed = @ \/ conn.bufr = <<>>] IN
            Made(b) /\ (b.sawEOF <=> ReadOutcome.sawEOF)
         /\ LET b == [ReadOutcome EXCEPT !.failed = @ \/ conn.bufr = <<>>] IN Made(b) /\ (b.sawEOF <=> ReadOutcome.sawEOF)
<1>1. /\ DOMAIN ReadOutcome = BdyFields /\ ReadOutcome.chunked = bdy.chunked /\ ReadOutcome.present = bdy.present
      /\ ReadOutcome.hook = bdy.hook
  <2> DEFINE u == Head(conn.bufr)
  <2> USE DEF Shape, BdyFields
  <2>1. CASE conn.bufr = <<>> BY <2>1 DEF ReadOutcome, BodyFails
  <2>2. CASE conn.bufr # <<>> /\ u.k = "body"
    <3>1. ReadOutcome = [bdy EXCEPT !.left = @ - 1, !.sawEOF = ~bdy.chunked /\ bdy.left = 1]
      BY <2>2 DEF ReadOutcome, BodyTakes
    <3> QED BY <3>1
  <2>3. CASE conn.bufr # <<>> /\ u.k = "end"
    <3>1. ReadOutcome = [bdy EXCEPT !.sawEOF = TRUE] BY <2>3 DEF ReadOutcome, BodyTakes
    <3> QED BY <3>1
  <2>4. CASE conn.bufr # <<>> /\ u.k # "body" /\ u.k # "end"
    <3>1. ReadOutcome = [bdy EXCEPT !.closed = TRUE] BY <2>4 DEF ReadOutcome, BodyTakes
    <3> QED BY <3>1
  <2> QED BY <2>1, <2>2, <2>3, <2>4
<1> QED BY <1>1 DEF Made, BdyFields

\* The handler's Read of the body.
LEMMA HandlerGetsKeeps == ASSUME IInv, HandlerGets PROVE IInv'
<1> USE DEF IInv
<1>1. hnd.at = "reading" /\ ReadPossible /\ BodyRead(ReadOutcome) /\ UNCHANGED <<cfg, net, req>> BY DEF HandlerGets
<1>2. Reading /\ ~bdy.sawEOF /\ ~bdy.closed BY <1>1 DEF Reading, ControlInv
<1>3. /\ DOMAIN w' = WFields /\ w'.header = w.header /\ w'.closeAfter = w.closeAfter /\ w'.todo = w.todo
      /\ (w'.sawEOF => w.sawEOF \/ ReadOutcome.sawEOF) /\ w'.discarded = w.discarded
  BY DEF HandlerGets, Shape, WFields
<1>4. DOMAIN hnd' = HndFields /\ hnd'.at = "run" BY DEF HandlerGets, Shape, HndFields
<1>5. w.discarded \in Int /\ w.discarded >= -1 BY DEF ControlInv
<1>6. Made(ReadOutcome) BY OutcomeShape
<1> QED BY <1>1, <1>2, <1>3, <1>4, <1>5, <1>6, BodyReadKeeps

\* body.Close reads on.
LEMMA DrainKeeps ==
  ASSUME IInv, Reading, CloseDrains, hnd.at # "reading", UNCHANGED <<cfg, net, req, w, hnd>>
  PROVE  IInv'
<1> USE DEF IInv
<1> DEFINE b == [ReadOutcome EXCEPT !.drained = @ + BodyBytes, !.closed = @ \/ conn.bufr = <<>>]
<1>1. ~bdy.sawEOF /\ ~bdy.closed /\ ReadPossible BY DEF CloseDrains, CloseReads, CloseAtOnce
<1>2. Made(b) BY OutcomeShape
<1>3. BodyRead(b) BY DEF CloseDrains
<1>4. DOMAIN w' = WFields /\ DOMAIN hnd' = HndFields /\ w.discarded \in Int /\ w.discarded >= -1 BY DEF Shape, ControlInv
<1> HIDE DEF b
<1> QED BY <1>1, <1>2, <1>3, <1>4, BodyReadKeeps

\* The body is closed, or the reply given up on it.
LEMMA BodyClosedKeeps ==
  ASSUME IInv, cr.by = "none", UNCHANGED <<cfg, net, req, cr>>,
         DOMAIN conn' = ConnFields, conn'.bufr = conn.bufr, conn'.parsed = conn.parsed, conn'.rerr = conn.rerr,
         conn'.hijacked = conn.hijacked, conn'.part = conn.part, conn'.err = conn.err,
         conn'.at = conn.at \/ (conn.at = "bodyclose" /\ conn'.at = "decide" /\ bdy'.closed /\ hnd.at \notin {"reading", "closing"}),
         DOMAIN bdy' = BdyFields, bdy'.sawEOF = bdy.sawEOF, bdy'.left = bdy.left, bdy'.chunked = bdy.chunked,
         bdy'.present = bdy.present, bdy.closed => bdy'.closed,
         DOMAIN hnd' = HndFields, hnd'.at = hnd.at \/ (hnd.at = "closing" /\ hnd'.at = "run"), hnd'.at # "reading",
         DOMAIN w' = WFields, w'.todo = w.todo, w'.sawEOF = w.sawEOF,
         \/ w'.header = w.header /\ w'.closeAfter = w.closeAfter /\ w'.discarded = w.discarded
         \/ /\ w.discarded # -1 /\ w.header = "no" /\ w'.discarded = -1 /\ (~w'.closeAfter => bdy.sawEOF) /\ conn'.at = conn.at
  PROVE  IInv'
<1> USE DEF IInv
<1>1. All' = All /\ Kept' = Kept BY DEF All, Kept
<1>2. Shape' BY DEF Shape
<1>3. StreamInv' /\ HeldInv' /\ (NoMore' <=> NoMore) BY <1>1 DEF StreamInv, HeldInv, NoMore
<1>4. EofInv' BY <1>3 DEF EofInv
<1>5. w.discarded # -1 => conn.at \in {"handler", "finish"} /\ ~conn.hijacked BY DEF ControlInv
<1>6. ReadInv' BY <1>5 DEF ReadInv
<1>7. ControlInv' BY <1>5 DEF ControlInv, InHandler, Finishing
<1>8. ReplyInv' BY <1>5 DEF ReplyInv
<1>9. Rest(bdy) => Rest(bdy)' BY <1>1, <1>3 DEF Rest
<1>10. ParseInv' BY <1>1, <1>3, <1>9 DEF ParseInv, InHandler, Finishing
<1> QED BY <1>2, <1>3, <1>4, <1>6, <1>7, <1>8, <1>10

\* The handler closes the body.
LEMMA HandlerClosingKeeps == ASSUME IInv, HandlerClosing PROVE IInv'
<1> USE DEF IInv
<1>1. hnd.at = "closing" /\ UNCHANGED <<cfg, net, req, w>> BY DEF HandlerClosing
<1>2. CASE CloseDrains /\ UNCHANGED hnd BY <1>1, <1>2, DrainKeeps DEF Reading
<1>3. CASE CloseBody /\ hnd' = [hnd EXCEPT !.at = "run"] /\ UNCHANGED <<conn, cr>>
  <2>1. ~CloseReads BY <1>3 DEF CloseBody, CloseReads
  <2>2. cr.by = "none" BY <1>1, <2>1 DEF ReadInv, ControlInv, ServeReads, HandlerReads, InHandler, Finishing
  <2>3. /\ DOMAIN bdy' = BdyFields /\ bdy'.sawEOF = bdy.sawEOF /\ bdy'.left = bdy.left /\ bdy'.chunked = bdy.chunked
        /\ bdy'.present = bdy.present /\ bdy'.closed
    BY <1>3 DEF CloseBody, Shape, BdyFields
  <2>4. DOMAIN hnd' = HndFields /\ hnd'.at = "run" BY <1>3 DEF Shape, HndFields
  <2>5. DOMAIN conn' = ConnFields /\ DOMAIN w' = WFields BY <1>1, <1>3 DEF Shape
  <2> QED BY <1>1, <1>3, <2>2, <2>3, <2>4, <2>5, BodyClosedKeeps
<1> QED BY <1>2, <1>3 DEF HandlerClosing

\* finishRequest closes the body.
LEMMA FinishBodyKeeps == ASSUME IInv, FinishBody PROVE IInv'
<1> USE DEF IInv
<1>1. conn.at = "bodyclose" /\ hnd.at \notin {"reading", "closing"} /\ UNCHANGED <<cfg, net, req, w, hnd>> BY DEF FinishBody
<1>2. CASE CloseDrains BY <1>1, <1>2, DrainKeeps DEF Reading
<1>3. CASE CloseBody /\ conn' = [conn EXCEPT !.at = "decide"] /\ UNCHANGED cr
  <2>1. ~CloseReads BY <1>3 DEF CloseBody, CloseReads
  <2>2. w.discarded = -1 BY <1>1 DEF ControlInv
  <2>3. cr.by = "none" BY <1>1, <2>1, <2>2 DEF ReadInv, ServeReads, HandlerReads
  <2>4. /\ DOMAIN bdy' = BdyFields /\ bdy'.sawEOF = bdy.sawEOF /\ bdy'.left = bdy.left /\ bdy'.chunked = bdy.chunked
        /\ bdy'.present = bdy.present /\ bdy'.closed
    BY <1>3 DEF CloseBody, Shape, BdyFields
  <2>5. /\ DOMAIN conn' = ConnFields /\ conn'.at = "decide" /\ conn'.bufr = conn.bufr /\ conn'.parsed = conn.parsed
        /\ conn'.rerr = conn.rerr /\ conn'.hijacked = conn.hijacked /\ conn'.part = conn.part /\ conn'.err = conn.err
    BY <1>3 DEF Shape, ConnFields
  <2>6. DOMAIN hnd' = HndFields /\ DOMAIN w' = WFields BY <1>1 DEF Shape
  <2> QED BY <1>1, <1>3, <2>3, <2>4, <2>5, <2>6, BodyClosedKeeps
<1> QED BY <1>2, <1>3 DEF FinishBody

\* writeHeader discards the rest of the body.
LEMMA HeaderDiscardsKeeps == ASSUME IInv, HeaderDiscards PROVE IInv'
<1> USE DEF IInv
<1>1. w.discarded >= 0 /\ w.discarded \in Int /\ UNCHANGED <<cfg, net, req, hnd>> BY DEF HeaderDiscards, ControlInv
<1>2. w.discarded # -1 /\ w.todo # "none" /\ w.header = "no" /\ hnd.at \notin {"reading", "closing"} /\ conn.at \in {"handler", "finish"}
  BY <1>1 DEF ControlInv
<1>3. MaxDiscard \in Nat BY HTTPServerAssumption DEF HTTPServerAssumption
<1>4. DOMAIN hnd' = HndFields /\ DOMAIN conn = ConnFields /\ DOMAIN bdy = BdyFields BY <1>1 DEF Shape
<1>5. CASE BodyOver /\ w' = HeaderOut(w, bdy.failed \/ ~bdy.sawEOF) /\ bdy' = [bdy EXCEPT !.closed = TRUE] /\ UNCHANGED <<conn, cr>>
  <2>1. cr.by = "none" BY <1>2, <1>5 DEF ReadInv, ServeReads, HandlerReads
  <2>2. /\ DOMAIN bdy' = BdyFields /\ bdy'.sawEOF = bdy.sawEOF /\ bdy'.left = bdy.left /\ bdy'.chunked = bdy.chunked
        /\ bdy'.present = bdy.present /\ bdy'.closed
    BY <1>5 DEF Shape, BdyFields
  <2>3. DOMAIN w' = WFields /\ w'.todo = w.todo /\ w'.sawEOF = w.sawEOF /\ w'.discarded = -1 /\ (~w'.closeAfter => bdy.sawEOF)
    BY <1>5 DEF Shape, WFields, HeaderOut
  <2> QED BY <1>1, <1>2, <1>4, <1>5, <2>1, <2>2, <2>3, BodyClosedKeeps
<1>6. CASE w.discarded = MaxDiscard + 1 /\ w' = HeaderOut(TooLarge(w), TRUE) /\ UNCHANGED <<conn, cr, bdy>>
  <2>1. w.discarded \notin 0..MaxDiscard BY <1>3, <1>6
  <2>2. cr.by = "none" BY <1>2, <2>1 DEF ReadInv, ServeReads, HandlerReads
  <2>3. DOMAIN w' = WFields /\ w'.todo = w.todo /\ w'.sawEOF = w.sawEOF /\ w'.discarded = -1 /\ w'.closeAfter
    BY <1>6 DEF Shape, WFields, HeaderOut, TooLarge
  <2> QED BY <1>1, <1>2, <1>4, <1>6, <2>2, <2>3, BodyClosedKeeps
<1>7. CASE /\ ~BodyOver /\ ReadPossible /\ BodyRead([ReadOutcome EXCEPT !.failed = @ \/ conn.bufr = <<>>])
           /\ w' = [w EXCEPT !.discarded = @ + BodyBytes]
  <2> DEFINE b == [ReadOutcome EXCEPT !.failed = @ \/ conn.bufr = <<>>]
  <2>1. ~bdy.sawEOF /\ ~bdy.closed /\ Reading BY <1>2, <1>7 DEF BodyOver, Reading
  <2>2. Made(b) /\ BodyRead(b) BY <1>7, OutcomeShape
  <2>3. BodyBytes \in {0, 1} BY DEF BodyBytes
  <2>4. /\ DOMAIN w' = WFields /\ w'.todo = w.todo /\ w'.sawEOF = w.sawEOF /\ w'.header = w.header
        /\ w'.closeAfter = w.closeAfter /\ w'.discarded = w.discarded + BodyBytes
    BY <1>7 DEF Shape, WFields
  <2>5. w'.discarded \in Int /\ w'.discarded >= 0 BY <1>1, <2>3, <2>4
  <2> HIDE DEF b
  <2> QED BY <1>1, <1>2, <1>4, <1>7, <2>1, <2>2, <2>4, <2>5, BodyReadKeeps
<1> QED BY <1>5, <1>6, <1>7 DEF HeaderDiscards

-----------------------------------------------------------------------------
(* The connection is handed over, kept or closed.                           *)

\* Hijack gives the bytes it holds away.
LEMMA HijackedKeeps == ASSUME IInv, Hijacked PROVE IInv'
<1> USE DEF IInv
<1>1. /\ conn.at = "hijacked" /\ UNCHANGED <<cfg, net, srv, req, bdy, w, hnd>>
      /\ DOMAIN conn' = ConnFields /\ conn'.at = "handler" /\ conn'.hijacked /\ conn'.parsed = conn.parsed
      /\ conn'.rerr = conn.rerr /\ conn'.bufr = (IF cr.byte # NoUnit THEN Append(conn.bufr, cr.byte) ELSE conn.bufr)
      /\ DOMAIN cr' = CrFields /\ cr'.byte = NoUnit /\ cr'.inRead = cr.inRead /\ cr'.by = cr.by /\ cr'.bg = cr.bg
      /\ cr'.got = cr.got /\ cr'.panic = cr.panic
  BY DEF Hijacked, SetState, Shape, ConnFields, CrFields
<1>2. ~cr.inRead /\ cr.by = "none" /\ cr.bg = "off" /\ cr.got = NoUnit /\ ~cr.panic BY <1>1 DEF ReadInv
<1>3. hnd.at = "run" /\ ~cfg.wrapped /\ w.todo = "none" /\ w.discarded = -1 BY <1>1 DEF ControlInv, InHandler
<1>4. All' = All BY <1>1 DEF All
<1>5. HeldInv' /\ conn'.bufr \in Seq(Units) /\ (NoMore => NoMore' /\ conn'.bufr = conn.bufr)
  <2>1. CASE cr.byte = NoUnit
    <3>1. Kept' = Kept /\ conn'.bufr = conn.bufr BY <1>1, <2>1 DEF Kept
    <3> QED BY <1>1, <3>1 DEF HeldInv, NoMore, Shape
  <2>2. CASE cr.byte # NoUnit BY <1>1, <1>2, <2>2, ByteMoves
  <2> QED BY <2>1, <2>2
<1>6. Shape' BY <1>1, <1>5 DEF Shape
<1>7. StreamInv' BY <1>1, <1>4 DEF StreamInv
<1>8. EofInv' BY <1>1, <1>5 DEF EofInv
<1>9. ReadInv' BY <1>1, <1>2 DEF ReadInv
<1>10. ControlInv' BY <1>1, <1>3 DEF ControlInv, InHandler, Finishing
<1>11. ReplyInv' BY <1>1 DEF ReplyInv
<1>12. Rest(bdy)' BY <1>1, <1>4, <1>5 DEF ParseInv, InHandler, Rest
<1>13. ParseInv' BY <1>1, <1>12 DEF ParseInv
<1> QED BY <1>5, <1>6, <1>7, <1>8, <1>9, <1>10, <1>11, <1>13

\* A connection is kept when its body was read to the end.
LEMMA DecideKeeps == ASSUME IInv, Decide PROVE IInv'
<1> USE DEF IInv
<1>1. /\ conn.at = "decide" /\ w' = w /\ DOMAIN hnd' = HndFields /\ hnd'.at = "off"
      /\ (conn'.at = "idle" /\ ~w.closeAfter) \/ conn'.at = "closing"
      /\ StreamSame
  <2> USE DEF Decide, SetState, ShouldReuse, NoHandler, Shape, ConnFields, HndFields, StreamSame
  <2>1. CASE ShouldReuse BY <2>1
  <2>2. CASE ~ShouldReuse BY <2>2
  <2> QED BY <2>1, <2>2
<1>2. /\ StreamInv' /\ HeldInv' /\ EofInv' /\ All' = All /\ (NoMore' <=> NoMore) /\ (Rest(bdy)' <=> Rest(bdy))
      /\ (CloseReads' <=> CloseReads) /\ (BodyOver' <=> BodyOver)
  BY <1>1, SameStream
<1>3. w.discarded = -1 /\ w.todo = "none" /\ hnd.at \notin {"reading", "closing"} /\ ~conn.hijacked
  BY <1>1 DEF ControlInv, Finishing, InHandler
<1>4. cr.by = "none" BY <1>1, <1>3 DEF ReadInv, ServeReads, HandlerReads
<1>5. Shape' BY <1>1 DEF Shape, StreamSame
<1>6. ReadInv' BY <1>1, <1>3, <1>4 DEF ReadInv, StreamSame
<1>7. ControlInv' BY <1>1, <1>3 DEF ControlInv, StreamSame, InHandler, Finishing
<1>8. ReplyInv' BY <1>1 DEF ReplyInv, StreamSame
<1>9. Rest(bdy) /\ (~w.closeAfter => bdy.sawEOF) BY <1>1 DEF ParseInv, ReplyInv, ControlInv, Finishing
<1>10. ParseInv' BY <1>1, <1>2, <1>9 DEF ParseInv, Rest, StreamSame, InHandler, Finishing
<1> QED BY <1>2, <1>5, <1>6, <1>7, <1>8, <1>10

\* The request is forgotten: nobody reads, and the next one starts afresh.
LEMMA ForgetsKeep ==
  ASSUME IInv, UNCHANGED <<cfg, net, cr>>, bdy' = NoBody, w' = NoResponse, DOMAIN hnd' = HndFields,
         conn.at \in {"idle", "closing"}, hnd'.at = "off",
         DOMAIN conn' = ConnFields, conn'.bufr = conn.bufr, conn'.parsed = conn.parsed, conn'.rerr = conn.rerr,
         conn'.hijacked = conn.hijacked,
         conn'.at \in {"closing", "closed"} \/ (conn.at = "idle" /\ conn'.at \in {"start", "peek"})
  PROVE  IInv'
<1> USE DEF IInv
<1>1. w.discarded = -1 /\ w.todo = "none" /\ hnd.at = "off" /\ ~conn.hijacked BY DEF ControlInv, InHandler, Finishing
<1>2. cr.by = "none" BY <1>1 DEF ReadInv, ServeReads, HandlerReads
<1>3. /\ DOMAIN bdy' = BdyFields /\ bdy'.sawEOF /\ bdy'.chunked = FALSE
      /\ DOMAIN w' = WFields /\ w'.header = "no" /\ w'.todo = "none" /\ w'.discarded = -1 /\ ~w'.sawEOF
  BY DEF NoBody, NoResponse, BdyFields, WFields
<1>4. All' = All /\ Kept' = Kept BY DEF All, Kept
<1>5. StreamInv' /\ HeldInv' /\ (NoMore' <=> NoMore) BY <1>4 DEF StreamInv, HeldInv, NoMore
<1>6. EofInv' BY <1>5 DEF EofInv
<1>7. Shape' BY <1>3 DEF Shape
<1>8. ReadInv' BY <1>1, <1>2, <1>3 DEF ReadInv
<1>9. ControlInv' BY <1>1, <1>3 DEF ControlInv
<1>10. ReplyInv' BY <1>3 DEF ReplyInv
<1>11. ParseInv' BY <1>4, <1>5 DEF ParseInv, InHandler, Finishing
<1> QED BY <1>5, <1>6, <1>7, <1>8, <1>9, <1>10, <1>11

\* Between requests.
LEMMA IdleKeeps == ASSUME IInv, Idle PROVE IInv'
<1> USE DEF IInv
<1>1. conn.at = "idle" /\ UNCHANGED <<cfg, net, cr, hnd>> /\ bdy' = NoBody /\ w' = NoResponse BY DEF Idle
<1>2. /\ DOMAIN conn' = ConnFields /\ conn'.bufr = conn.bufr /\ conn'.parsed = conn.parsed /\ conn'.rerr = conn.rerr
      /\ conn'.hijacked = conn.hijacked /\ conn'.at \in {"closing", "start", "peek"}
  BY DEF Idle, Shape, ConnFields
<1>3. hnd.at = "off" /\ DOMAIN hnd = HndFields BY <1>1 DEF ControlInv, Shape, InHandler, Finishing
<1> QED BY <1>1, <1>2, <1>3, ForgetsKeep

\* The connection is closed.
LEMMA CloseConnKeeps == ASSUME IInv, CloseConn PROVE IInv'
<1> USE DEF IInv
<1>1. conn.at = "closing" /\ UNCHANGED <<cfg, net, cr>> /\ bdy' = NoBody /\ w' = NoResponse /\ hnd' = NoHandler BY DEF CloseConn
<1>2. /\ DOMAIN conn' = ConnFields /\ conn'.bufr = conn.bufr /\ conn'.parsed = conn.parsed /\ conn'.rerr = conn.rerr
      /\ conn'.hijacked = conn.hijacked /\ conn'.at = "closed"
  BY DEF CloseConn, Shape, ConnFields
<1>3. hnd'.at = "off" /\ DOMAIN hnd' = HndFields BY <1>1 DEF NoHandler, HndFields
<1> QED BY <1>1, <1>2, <1>3, ForgetsKeep

-----------------------------------------------------------------------------
(* The invariant and the property.                                          *)

\* The invariant holds at first, and every action keeps it.
LEMMA InitInv == Init => IInv
<1> SUFFICES ASSUME Init PROVE IInv OBVIOUS
<1> USE DEF Init
<1>1. Shape
  BY DEF Shape, NoUnit, NoBody, NoResponse, NoHandler, NetFields, ConnFields, CrFields, BdyFields, WFields, HndFields
<1>2. All = <<>> /\ Kept = <<>> BY DEF All, Kept, NoUnit
<1>3. Len(All) = 0 /\ Len(Kept) = 0 BY <1>2
<1>4. Boundary(All, 1) BY <1>3 DEF Boundary
<1>5. StreamInv BY <1>3, <1>4 DEF StreamInv, Requests
<1>6. HeldInv BY <1>2, <1>3 DEF HeldInv
<1>7. EofInv BY DEF EofInv
<1>8. ReadInv BY DEF ReadInv, NoHandler, HandlerReads
<1>9. ControlInv BY DEF ControlInv, NoResponse, NoHandler
<1>10. ReplyInv BY DEF ReplyInv, NoResponse, NoBody
<1>11. ParseInv BY <1>4 DEF ParseInv, InHandler, Finishing
<1> QED BY <1>1, <1>5, <1>6, <1>7, <1>8, <1>9, <1>10, <1>11 DEF IInv

\* The client's actions.
LEMMA ClientSteps == ASSUME IInv, Client PROVE IInv'
<1>1. ASSUME NEW s \in UNION {Shapes[i] : i \in 1..Len(Shapes)}, ClientRequest(s) PROVE IInv'
  BY <1>1, ClientRequestKeeps DEF AnyShape
<1>2. CASE ClientSend BY <1>2, ClientSendKeeps
<1>3. CASE ClientClose BY <1>3, ClientCloseKeeps
<1> QED BY <1>1, <1>2, <1>3 DEF Client

\* The readers'.
LEMMA ReaderSteps == ASSUME IInv, Reader PROVE IInv'
<1>1. CASE BackgroundReadReturns BY <1>1, BackgroundReadReturnsKeeps
<1>2. CASE BackgroundReadEnds BY <1>2, BackgroundReadEndsKeeps
<1>3. CASE ConnReadReturns BY <1>3, ConnReadReturnsKeeps
<1>4. ASSUME NEW who \in {"serve", "handler"}, ConnRead(who) PROVE IInv' BY <1>4, ConnReadKeeps
<1> QED BY <1>1, <1>2, <1>3, <1>4 DEF Reader

\* The serve goroutine's.
LEMMA ServeSteps == ASSUME IInv, Serve PROVE IInv'
<1>0. Shape /\ ControlInv BY DEF IInv
<1>1. CASE Accept \/ TrackNew \/ GoServe \/ ReadRequest \/ SetActive \/ StateClosed \/ AbortPendingRead \/ AbortWaited
  BY <1>0, <1>1, ServeMoves, MovesKeep
<1>2. CASE ReadHead \/ ReadHeadFails \/ Peeked BY <1>2, ReadHeadKeeps, ReadHeadFailsKeeps, PeekedKeeps
<1>3. CASE Refuse \/ Dispatch BY <1>3, RefuseKeeps, DispatchKeeps
<1>4. CASE HeaderStarts \/ HeaderDiscards \/ Continue BY <1>4, HeaderStartsKeeps, HeaderDiscardsKeeps, ContinueKeeps
<1>5. CASE TimeoutDone \/ TimeoutPanic BY <1>0, <1>5, TimeoutActs, HandlerMovesKeep
<1>6. CASE RefusalFinishes \/ Hijacked \/ FinishBody BY <1>6, RefusalFinishesKeeps, HijackedKeeps, FinishBodyKeeps
<1>7. CASE Decide \/ Idle \/ CloseConn BY <1>7, DecideKeeps, IdleKeeps, CloseConnKeeps
<1> QED BY <1>1, <1>2, <1>3, <1>4, <1>5, <1>6, <1>7 DEF Serve

\* The handler's.
LEMMA HandlerSteps == ASSUME IInv, Waiting \/ Handler \/ TimeoutFires PROVE IInv'
<1>0. Shape /\ ControlInv BY DEF IInv
<1>1. CASE Waiting BY <1>1, HandlerGetsKeeps, HandlerClosingKeeps DEF Waiting
<1>2. CASE Handler
  <2>1. HandlerMoves BY <1>0, <1>2, HandlerActs DEF Handler
  <2> QED BY <2>1, HandlerMovesKeep
<1>3. CASE TimeoutFires BY <1>0, <1>3, TimeoutActs, HandlerMovesKeep
<1> QED BY <1>1, <1>2, <1>3

\* And a step that changes nothing.
LEMMA StutterKeeps == ASSUME IInv, UNCHANGED vars PROVE IInv'
<1>1. All' = All /\ Kept' = Kept BY DEF vars, All, Kept
<1>2. (NoMore' <=> NoMore) BY <1>1 DEF vars, NoMore
<1>3. (Rest(bdy)' <=> Rest(bdy)) BY <1>1, <1>2 DEF vars, Rest
<1> QED
  BY <1>1, <1>2, <1>3 DEF IInv, vars, Shape, StreamInv, HeldInv, EofInv, ReadInv, Dry, ServeReads, HandlerReads, CloseReads,
     CloseAtOnce, CloseGivesUp, BodyOver, ControlInv, ReplyInv, ParseInv

\* The invariant of one connection of the server: what was taken off the socket and not yet
\* parsed is held once and in order, one read at a time is under way, and the parser is at the
\* start of a request whenever it begins one.
THEOREM Invariance == Spec => []IInv
<1>1. IInv /\ [Next]_vars => IInv'
  <2> SUFFICES ASSUME IInv, [Next]_vars PROVE IInv' OBVIOUS
  <2>1. CASE Client BY <2>1, ClientSteps
  <2>2. CASE Reader BY <2>2, ReaderSteps
  <2>3. CASE Serve BY <2>3, ServeSteps
  <2>4. CASE Waiting \/ Handler \/ TimeoutFires BY <2>4, HandlerSteps
  <2>5. CASE Operator
    <3>1. Moves BY <2>5, OperatorMoves DEF IInv
    <3> QED BY <3>1, MovesKeep
  <2>6. CASE Done \/ UNCHANGED vars BY <2>6, StutterKeeps DEF Done
  <2> QED BY <2>1, <2>2, <2>3, <2>4, <2>5, <2>6 DEF Next
<1> QED BY <1>1, InitInv, PTL DEF Spec

\* What the invariant says of the stream.
LEMMA StreamHeld == IInv => StreamIntact
<1> SUFFICES ASSUME IInv PROVE StreamIntact OBVIOUS
<1> USE DEF IInv
<1>1. /\ net.sent \in Seq(Units) /\ net.taken \in Nat /\ net.taken <= Len(net.sent)
      /\ Socket \in Seq(Units) /\ Len(Socket) = Len(net.sent) - net.taken
      /\ \A n \in 1..Len(Socket) : Socket[n] = net.sent[net.taken + n]
  BY SocketFacts
<1>2. conn.bufr \in Seq(Units) /\ conn.parsed \in Nat /\ Len(conn.bufr) \in Nat BY DEF Shape
<1>3. Kept \in Seq(Units) /\ Len(Kept) \in {0, 1} BY DEF Kept, Shape
<1>4. conn.parsed + Len(conn.bufr) + Len(Kept) = net.taken BY DEF HeldInv
<1>5. conn.parsed <= Len(net.sent) /\ Len(net.sent) \in Nat BY <1>1, <1>2, <1>3, <1>4
<1>6. /\ Unread \in Seq(Units) /\ Len(Unread) = Len(net.sent) - conn.parsed
      /\ \A n \in 1..Len(Unread) : Unread[n] = net.sent[conn.parsed + n]
  BY <1>1, <1>2, <1>5, Suffix DEF Unread
<1>7. conn.bufr \o Kept \o Socket = Unread
  <2> DEFINE h == conn.bufr \o Kept  all == h \o Socket
  <2>1. /\ h \in Seq(Units) /\ Len(h) = Len(conn.bufr) + Len(Kept)
        /\ \A m \in 1..Len(conn.bufr) : h[m] = conn.bufr[m]
        /\ \A m \in 1..Len(Kept) : h[Len(conn.bufr) + m] = Kept[m]
    BY <1>2, <1>3, Concatenated
  <2> HIDE DEF h
  <2>2. /\ all \in Seq(Units) /\ Len(all) = Len(h) + Len(Socket)
        /\ \A m \in 1..Len(h) : all[m] = h[m]
        /\ \A m \in 1..Len(Socket) : all[Len(h) + m] = Socket[m]
    <3>1. h \in Seq(Units) /\ Socket \in Seq(Units) BY <1>1, <2>1
    <3> QED BY ONLY <3>1, Concatenated DEF all
  <2> HIDE DEF all
  <2>3. Len(all) = Len(Unread) /\ Len(h) \in Nat /\ Len(Socket) \in Nat /\ conn.parsed + Len(h) = net.taken
    <3>1. Len(h) \in Nat /\ Len(Socket) \in Nat BY <1>1, <2>1, LenProperties
    <3>2. Len(h) = Len(conn.bufr) + Len(Kept) BY <2>1
    <3>3. conn.parsed + Len(h) = net.taken BY ONLY <1>2, <1>3, <1>4, <3>2
    <3> QED BY ONLY <1>1, <1>2, <1>5, <1>6, <2>2, <3>1, <3>3
  <2>4. ASSUME NEW n \in 1..Len(h) PROVE h[n] = net.sent[conn.parsed + n]
    <3>1. CASE n <= Len(conn.bufr)
      <4>1. n \in 1..Len(conn.bufr) BY <1>2, <3>1
      <4> QED BY <2>1, <4>1 DEF HeldInv
    <3>2. CASE ~(n <= Len(conn.bufr))
      <4>1. Len(Kept) = 1 /\ n = Len(conn.bufr) + 1 BY <1>2, <1>3, <2>1, <3>2
      <4>2. h[n] = Kept[1] /\ Kept # <<>>
        <5>1. 1 \in 1..Len(Kept) BY <4>1
        <5>2. Kept # <<>> BY <5>1
        <5>3. h[Len(conn.bufr) + 1] = Kept[1] BY <2>1, <5>1
        <5> QED BY ONLY <4>1, <5>2, <5>3
      <4>3. net.taken = conn.parsed + n BY <1>2, <1>4, <4>1
      <4> QED BY <4>2, <4>3 DEF HeldInv
    <3> QED BY <3>1, <3>2
  <2>5. ASSUME NEW n \in 1..Len(all) PROVE all[n] = Unread[n]
    <3>1. n \in 1..Len(Unread) /\ Unread[n] = net.sent[conn.parsed + n] BY <1>6, <2>3
    <3>2. CASE n <= Len(h)
      <4>1. n \in 1..Len(h) BY <2>3, <3>2
      <4> QED BY <2>2, <2>4, <3>1, <4>1
    <3>3. CASE ~(n <= Len(h))
      <4>1. n - Len(h) \in 1..Len(Socket) /\ Len(h) + (n - Len(h)) = n /\ net.taken + (n - Len(h)) = conn.parsed + n
        <5>1. \A p, l, s, m \in Nat : m \in 1..(l + s) /\ ~(m <= l) => m - l \in 1..s /\ l + (m - l) = m /\ (p + l) + (m - l) = p + m
          OBVIOUS
        <5>2. n \in 1..(Len(h) + Len(Socket)) /\ n \in Nat BY <2>2
        <5> QED BY ONLY <1>2, <2>3, <3>3, <5>1, <5>2
      <4>2. all[Len(h) + (n - Len(h))] = Socket[n - Len(h)] BY <2>2, <4>1
      <4>3. Socket[n - Len(h)] = net.sent[net.taken + (n - Len(h))] BY <1>1, <4>1
      <4> QED BY ONLY <3>1, <4>1, <4>2, <4>3
    <3> QED BY <3>2, <3>3
  <2>6. all = Unread BY <1>6, <2>2, <2>3, <2>5, SeqEqual
  <2> QED BY <2>6 DEF all, h
<1>8. conn.hijacked => Kept = <<>> /\ ~cr.inRead BY DEF ReadInv, Kept
<1>9. ASSUME conn.at = "read", conn.part = 0, Unread # <<>> PROVE Unread[1].k = "first"
  <2>1. 1 \in 1..Len(Unread) /\ Unread[1] = net.sent[conn.parsed + 1] BY <1>6, <1>9
  <2>2. conn.parsed + 1 \in 1..Len(net.sent) BY <1>2, <1>5, <1>6, <2>1
  <2>3. /\ Len(All) = Len(net.sent) + Len(net.todo) /\ \A m \in 1..Len(net.sent) : All[m] = net.sent[m]
    <3>1. net.sent \in Seq(Units) /\ net.todo \in Seq(Units) BY DEF Shape
    <3>2. /\ Len(net.sent \o net.todo) = Len(net.sent) + Len(net.todo)
          /\ \A m \in 1..Len(net.sent) : (net.sent \o net.todo)[m] = net.sent[m]
      <4>1. \A a, b \in Seq(Units) : Len(a \o b) = Len(a) + Len(b) /\ \A m \in 1..Len(a) : (a \o b)[m] = a[m]
        BY ONLY Concatenated
      <4> QED BY ONLY <3>1, <4>1
    <3> QED BY ONLY <3>2 DEF All
  <2>4. Boundary(All, conn.parsed + 1)
    <3>1. ~(NoMore /\ conn.bufr = <<>>)
      <4> SUFFICES ASSUME NoMore, conn.bufr = <<>> PROVE FALSE OBVIOUS
      <4>1. Len(Kept) = 0 /\ Len(conn.bufr) = 0 /\ net.taken = Len(net.sent) BY DEF NoMore
      <4>2. conn.parsed = Len(net.sent) BY <1>2, <1>4, <4>1
      <4> QED BY <2>2, <4>2, <1>5
    <3> QED BY <1>9, <3>1 DEF ParseInv
  <2>5. conn.parsed + 1 # Len(All) + 1
    <3>1. Len(net.todo) \in Nat BY DEF Shape
    <3>2. \A p, m, n \in Nat : p \in 1..m => p # m + n + 1 OBVIOUS
    <3>3. conn.parsed + 1 \in Nat BY <1>2
    <3>4. conn.parsed + 1 # Len(net.sent) + Len(net.todo) + 1 BY ONLY <1>5, <2>2, <3>1, <3>2, <3>3
    <3> QED BY ONLY <2>3, <3>4
  <2> QED BY <2>1, <2>2, <2>3, <2>4, <2>5 DEF Boundary
<1>10. ~cr.panic BY DEF ReadInv
<1>11. conn.at = "read" /\ conn.part = 0 /\ Unread # <<>> => Unread[1].k = "first" BY <1>9
<1> HIDE DEF IInv
<1> QED BY <1>7, <1>8, <1>10, <1>11 DEF StreamIntact

\* Whatever the client sends and the handlers do, each byte of the client's stream is read once,
\* in order and by one reader: connReader, its background read, the discarding of a body, a
\* hijacker and the parser of the next request never lose, repeat or share one.
THEOREM StreamIsReadOnce == Spec => []StreamIntact
BY Invariance, StreamHeld, PTL

-----------------------------------------------------------------------------
(* The reply keeps its count.                                               *)

\* What WriteHeader is called with.
LEMMA Answers ==
  \A x \in Headers \cup {OK} :
    /\ x.length \in Nat \cup {-1}
    /\ [x EXCEPT !.conn = "close"].body = x.body /\ [x EXCEPT !.conn = "close"].length = x.length
<1> DEFINE Reply == [body : BOOLEAN, length : Nat \cup {-1}, conn : {"", "close", "keep-alive"}, identity : BOOLEAN]
<1>1. OK \in Reply BY DEF OK
<1>2. Headers \subseteq Reply BY HTTPServerAssumption DEF HTTPServerAssumption
<1>3. \A x \in Reply :
        /\ x.length \in Nat \cup {-1}
        /\ [x EXCEPT !.conn = "close"].body = x.body /\ [x EXCEPT !.conn = "close"].length = x.length
  OBVIOUS
<1> HIDE DEF Reply
<1> QED BY <1>1, <1>2, <1>3

\* WriteHeader, requestTooLarge and writeHeader, of a reply that is sound.
LEMMA WriteHeaderSound ==
  ASSUME Counted(w), Framed(w), Written(w), ~conn.hijacked, NEW x \in Headers \cup {OK}
  PROVE  LET h == WriteHeader(w, x) IN
         /\ Counted(h) /\ Framed(h) /\ Written(h) /\ h.wroteHeader /\ h.todo = w.todo /\ h.header = w.header
         /\ h.written = w.written /\ h.buf = w.buf /\ h.sent = w.sent /\ h.handlerDone = w.handlerDone
         /\ (~w.wroteHeader => h.given.body = x.body /\ h.length = x.length)
<1> DEFINE h == WriteHeader(w, x)
<1>1. CASE w.wroteHeader
  <2>1. h = w BY <1>1 DEF WriteHeader
  <2> QED BY <1>1, <2>1
<1>2. CASE ~w.wroteHeader
  <2>1. h = [w EXCEPT !.wroteHeader = TRUE, !.given = IF w.limitHit THEN [x EXCEPT !.conn = "close"] ELSE x, !.length = x.length]
    BY <1>2 DEF WriteHeader
  <2>2. x.length \in Nat \cup {-1} BY Answers
  <2>3. /\ DOMAIN h = WFields /\ h.wroteHeader /\ h.todo = w.todo /\ h.header = w.header /\ h.written = w.written /\ h.buf = w.buf
        /\ h.sent = w.sent /\ h.handlerDone = w.handlerDone /\ h.length = x.length /\ h.raw = w.raw /\ h.closeAfter = w.closeAfter
    BY <2>1 DEF Counted, WFields
  <2>4. h.given.body = x.body /\ h.given.length = x.length
    <3>1. h.given = x \/ h.given = [x EXCEPT !.conn = "close"] BY <2>1 DEF Counted, WFields
    <3> QED BY <3>1, Answers
  <2> HIDE DEF h
  <2>5. Counted(h) BY <2>2, <2>3, <2>4 DEF Counted
  <2>6. w.header = "no" /\ w.todo = "none" /\ ~w.handlerDone /\ w.sent = 0 /\ w.buf = 0 /\ w.written = 0
    BY <1>2 DEF Framed, Written
  <2>7. Framed(h) BY <2>3, <2>4, <2>6 DEF Framed
  <2>8. Written(h) BY <2>3, <2>6 DEF Written, Pending
  <2> QED BY <1>2, <2>3, <2>4, <2>5, <2>7, <2>8 DEF h
<1> QED BY <1>1, <1>2

\* chunkWriter.writeHeader, of a reply that is sound.
LEMMA HeaderOutSound ==
  ASSUME Counted(w), Framed(w), Written(w), w.header = "no", w.wroteHeader, NEW r \in {w, TooLarge(w)}, NEW c
  PROVE  LET h == HeaderOut(r, c) IN
         Counted(h) /\ Framed(h) /\ Written(h) /\ h.wroteHeader /\ h.header # "no" /\ h.todo = w.todo
<1> DEFINE h == HeaderOut(r, c)
<1>1. /\ DOMAIN r = WFields /\ r.given = w.given /\ r.sent = w.sent /\ r.buf = w.buf /\ r.written = w.written /\ r.todo = w.todo
      /\ r.raw = w.raw /\ r.handlerDone = w.handlerDone /\ r.wroteHeader = w.wroteHeader
  BY DEF Counted, TooLarge, WFields
<1>2. h = [r EXCEPT !.header = Framing, !.length = LengthOut, !.closeAfter = c \/ Framing = "eof", !.discarded = -1]
  BY DEF HeaderOut
<1>3. /\ DOMAIN h = WFields /\ h.given = w.given /\ h.sent = w.sent /\ h.buf = w.buf /\ h.written = w.written /\ h.todo = w.todo
      /\ h.raw = w.raw /\ h.handlerDone = w.handlerDone /\ h.wroteHeader = w.wroteHeader
      /\ h.header = Framing /\ h.length = LengthOut /\ (Framing = "eof" => h.closeAfter)
  BY <1>1, <1>2 DEF WFields
<1> HIDE DEF h
<1>4. w.sent = 0 /\ w.length = w.given.length /\ w.length \in Nat \cup {-1} /\ w.buf \in Nat /\ w.written \in Nat
  BY DEF Framed, Counted
<1>5. LengthOut \in Nat \cup {-1} BY <1>4 DEF LengthOut
<1>6. Counted(h) BY <1>3, <1>5 DEF Counted
<1>7. Framing \in {"bare", "length", "chunked", "eof"} BY DEF Framing
<1>8. Framed(h) BY <1>3, <1>4 DEF Framed, Framing, Bare, BodyAllowed
<1>9. Written(h)
  <2>1. CASE AutoLength
    <3>1. w.handlerDone /\ w.length = -1 /\ w.given.body BY <1>4, <2>1 DEF AutoLength, BodyAllowed
    <3>2. w.todo \in {"none", "finish"} BY <3>1 DEF Written
    <3>3. ~req.head => w.sent + w.buf = w.written BY <3>1, <3>2 DEF Written, Pending
    <3> QED BY <1>3, <3>1, <3>2, <3>3 DEF Written, Pending
  <2>2. CASE ~AutoLength
    <3>1. h.length = w.length BY <1>3, <2>2 DEF LengthOut
    <3> QED BY <1>3, <3>1 DEF Written, Pending
  <2> QED BY <2>1, <2>2
<1> QED BY <1>3, <1>6, <1>7, <1>8, <1>9 DEF h

\* Steps that leave the reply as it is.
SameReply ==
  /\ DOMAIN w' = WFields /\ w'.wroteHeader = w.wroteHeader /\ w'.given = w.given /\ w'.length = w.length /\ w'.written = w.written
  /\ w'.buf = w.buf /\ w'.closeAfter = w.closeAfter /\ w'.handlerDone = w.handlerDone /\ w'.header = w.header /\ w'.sent = w.sent
  /\ w'.ended = w.ended /\ w'.raw = w.raw /\ w'.todo = w.todo
Onward ==
  \/ conn'.at = conn.at /\ conn'.err = conn.err
  \/ conn.at = "parsed" /\ conn.err = "none" /\ conn'.at = "dispatch"
  \/ conn.at = "dispatch" /\ conn'.at = "handler"
  \/ conn.at \in InHandler /\ conn'.at \in InHandler \ {"handler"}
  \/ conn.at = "hijacked" /\ conn'.at = "handler" /\ ~cfg.wrapped
  \/ conn.at \in {"abort", "aborting", "bodyclose"} /\ conn'.at \in {"aborting", "bodyclose", "decide"}
  \/ conn.at = "decide" /\ conn'.at = "idle" /\ ShouldReuse
  \/ conn'.at \in {"accepted", "tracked", "start", "read", "peek", "refuse", "closing", "closed", "done"}
  \/ conn'.at = "parsed" /\ conn'.err # "none"

\* Such a step keeps the count.
LEMMA SameReplyKeeps ==
  ASSUME MessageInv, SameReply, Onward, req' = req, cfg' = cfg, hnd'.buf \in Nat
  PROVE  MessageInv'
<1>1. Counted(w)' BY DEF MessageInv, Counted, SameReply
<1>2. CASE ~InRequest' BY <1>1, <1>2 DEF MessageInv
<1>3. CASE InRequest'
  <2>1. InRequest BY <1>3 DEF InRequest, Onward, InHandler, Finishing
  <2>2. Framed(w) /\ Written(w) /\ Placed BY <2>1 DEF MessageInv
  <2>3. Framed(w)' BY <2>2 DEF Framed, Bare, SameReply
  <2>4. Written(w)' BY <2>2 DEF Written, Pending, SameReply
  <2>5. Placed' BY <1>3, <2>2 DEF InRequest, Placed, Written, Onward, Over, InHandler, Finishing, SameReply, Bare, ShouldReuse, BodyAllowed
  <2> QED BY <1>1, <2>3, <2>4, <2>5 DEF MessageInv
<1> QED BY <1>2, <1>3


\* The actions that leave it as it is.
LEMMA MovesMessage == ASSUME IInv, MessageInv, Moves PROVE MessageInv'
<1>1. SameReply /\ req' = req /\ cfg' = cfg /\ hnd'.buf \in Nat
  BY DEF Moves, StreamSame, SameReply, MessageInv, Counted
<1>2. Onward BY DEF Moves, Onward, InHandler
<1> QED BY <1>1, <1>2, SameReplyKeeps

\* What a read of a body leaves of the connection.
LEMMA BodyReadStays ==
  ASSUME Shape, NEW b, BodyRead(b)
  PROVE  /\ DOMAIN conn' = ConnFields /\ conn'.at = conn.at /\ conn'.err = conn.err /\ conn'.hijacked = conn.hijacked
         /\ conn'.cancelled = conn.cancelled /\ conn'.closed = conn.closed /\ conn'.werr = conn.werr
         /\ conn'.deadline = (IF b.sawEOF /\ b.hook /\ ~cr.inRead /\ cr.byte = NoUnit THEN "none" ELSE conn.deadline)
         /\ IF conn.bufr # <<>> THEN conn'.bufr = Tail(conn.bufr) /\ conn'.rerr = conn.rerr
            ELSE conn'.bufr = conn.bufr /\ conn'.rerr = "none"
<1> DEFINE c == IF conn.bufr # <<>> THEN [conn EXCEPT !.bufr = Tail(@), !.parsed = @ + 1] ELSE [conn EXCEPT !.rerr = "none"]
<1>1. /\ DOMAIN c = ConnFields /\ c.at = conn.at /\ c.err = conn.err /\ c.hijacked = conn.hijacked
      /\ c.cancelled = conn.cancelled /\ c.closed = conn.closed /\ c.werr = conn.werr /\ c.deadline = conn.deadline
      /\ IF conn.bufr # <<>> THEN c.bufr = Tail(conn.bufr) /\ c.rerr = conn.rerr ELSE c.bufr = conn.bufr /\ c.rerr = "none"
  <2>1. CASE conn.bufr # <<>> BY <2>1 DEF Shape, ConnFields
  <2>2. CASE conn.bufr = <<>> BY <2>2 DEF Shape, ConnFields
  <2> QED BY <2>1, <2>2
<1>2. conn' = IF b.sawEOF /\ b.hook /\ ~cr.inRead /\ cr.byte = NoUnit THEN [c EXCEPT !.deadline = "none"] ELSE c
  BY DEF BodyRead, StartClearsDeadline
<1> HIDE DEF c
<1> QED BY <1>1, <1>2 DEF ConnFields

\* The client and the readers.
LEMMA ReaderMessage == ASSUME IInv, MessageInv, Client \/ Reader PROVE MessageInv'
<1> USE DEF IInv
<1>1. SameReply /\ req' = req /\ cfg' = cfg /\ hnd'.buf \in Nat
  <2>1. UNCHANGED <<w, req, cfg, hnd>>
    BY DEF Client, ClientRequest, ClientSend, ClientClose, Reader, BackgroundReadReturns, BackgroundReadEnds, ConnRead, ConnReadReturns
  <2> QED BY <2>1 DEF SameReply, MessageInv, Counted
<1>2. conn'.at = conn.at /\ conn'.err = conn.err
  <2> USE DEF Shape, ConnFields
  <2>1. CASE Client BY <2>1 DEF Client, ClientRequest, ClientSend, ClientClose
  <2>2. CASE BackgroundReadReturns BY <2>2 DEF BackgroundReadReturns
  <2>3. CASE BackgroundReadEnds BY <2>3 DEF BackgroundReadEnds, CancelOn
  <2>4. CASE ConnReadReturns BY <2>4 DEF ConnReadReturns, CancelOn
  <2>5. ASSUME NEW who \in {"serve", "handler"}, ConnRead(who) PROVE conn'.at = conn.at /\ conn'.err = conn.err
    BY <2>5 DEF ConnRead
  <2> QED BY <2>1, <2>2, <2>3, <2>4, <2>5 DEF Reader
<1> QED BY <1>1, <1>2, SameReplyKeeps DEF Onward

\* The readers of the body.
LEMMA BodyMessage == ASSUME IInv, MessageInv, HandlerGets \/ HandlerClosing \/ FinishBody PROVE MessageInv'
<1> USE DEF IInv
<1>1. SameReply /\ req' = req /\ cfg' = cfg /\ hnd'.buf \in Nat
  <2>1. CASE HandlerGets BY <2>1 DEF HandlerGets, SameReply, MessageInv, Counted, WFields, Shape, HndFields
  <2>2. CASE HandlerClosing
    <3>1. w' = w /\ req' = req /\ cfg' = cfg /\ hnd'.buf = hnd.buf BY <2>2 DEF HandlerClosing, Shape, HndFields
    <3> QED BY <3>1 DEF SameReply, MessageInv, Counted
  <2>3. CASE FinishBody BY <2>3 DEF FinishBody, SameReply, MessageInv, Counted
  <2> QED BY <2>1, <2>2, <2>3
<1>2. Onward
  <2>1. ASSUME NEW b, BodyRead(b) PROVE Onward BY <2>1, BodyReadStays DEF Onward
  <2>2. CASE conn' = conn BY <2>2 DEF Onward
  <2>3. CASE conn.at = "bodyclose" /\ conn' = [conn EXCEPT !.at = "decide"] BY <2>3 DEF Shape, ConnFields, Onward
  <2> QED BY <2>1, <2>2, <2>3 DEF HandlerGets, HandlerClosing, FinishBody, CloseDrains
<1> QED BY <1>1, <1>2, SameReplyKeeps

\* The actions of the handler that do not touch the reply.
LEMMA HandlerIdles ==
  ASSUME IInv, MessageInv, HandlerRead \/ HandlerCloses \/ HandlerPanics \/ TimeoutWrite \/ TimeoutReturn \/ TimeoutPanic
  PROVE  MessageInv'
<1> USE DEF IInv
<1>0. hnd.buf \in Nat BY DEF MessageInv
<1>1. SameReply
  <2>1. CASE HandlerRead BY <2>1 DEF HandlerRead, SameReply, Shape, WFields
  <2>2. CASE w' = w BY <2>2 DEF SameReply, Shape
  <2> QED BY <2>1, <2>2 DEF HandlerCloses, HandlerPanics, TimeoutWrite, TimeoutReturn, TimeoutPanic
<1>2. req' = req /\ cfg' = cfg BY DEF HandlerRead, HandlerCloses, HandlerPanics, TimeoutWrite, TimeoutReturn, TimeoutPanic
<1>3. hnd'.buf \in Nat
  <2> USE <1>0 DEF Shape, HndFields, Called, NoHandler
  <2>1. CASE HandlerRead BY <2>1 DEF HandlerRead
  <2>2. CASE HandlerCloses BY <2>2 DEF HandlerCloses
  <2>3. CASE HandlerPanics BY <2>3 DEF HandlerPanics
  <2>4. CASE TimeoutWrite BY <2>4 DEF TimeoutWrite
  <2>5. CASE TimeoutReturn BY <2>5 DEF TimeoutReturn
  <2>6. CASE TimeoutPanic BY <2>6 DEF TimeoutPanic
  <2> QED BY <2>1, <2>2, <2>3, <2>4, <2>5, <2>6
<1>4. Onward
  <2>1. CASE conn' = conn BY <2>1 DEF Onward
  <2>2. CASE HandlerPanics BY <2>2 DEF HandlerPanics, Onward, Shape, ConnFields
  <2>3. CASE TimeoutPanic BY <2>3 DEF TimeoutPanic, Onward, Shape, ConnFields
  <2> QED BY <2>1, <2>2, <2>3 DEF HandlerRead, HandlerCloses, TimeoutWrite, TimeoutReturn
<1> QED BY <1>1, <1>2, <1>3, <1>4, SameReplyKeeps

\* The actions of the handler that begin a reply or add to it.
LEMMA HandlerWrites ==
  ASSUME IInv, MessageInv, HandlerHeader \/ HandlerHitsLimit \/ HandlerWrite
  PROVE  MessageInv'
<1> USE DEF IInv
<1>0. /\ Counted(w) /\ hnd.buf \in Nat /\ Runs /\ ~cfg.wrapped /\ conn' = conn /\ cfg' = cfg /\ req' = req /\ hnd' = Called("run")
  BY DEF MessageInv, HandlerHeader, HandlerHitsLimit, HandlerWrite, Direct, Acts
<1>1. conn.at = "handler" /\ w.todo = "none" BY <1>0 DEF Runs
<1>2. Framed(w) /\ Written(w) /\ ~w.handlerDone BY <1>1 DEF MessageInv, InRequest, Placed, InHandler
<1>3. hnd'.buf \in Nat BY <1>0 DEF Called, Shape, HndFields
<1>4. (Counted(w) /\ Framed(w) /\ Written(w) /\ ~w.handlerDone)'
  <2>1. CASE HandlerHeader
    <3>1. PICK x \in Headers : w' = WriteHeader(w, x) BY <2>1 DEF HandlerHeader
    <3>2. CASE conn.hijacked
      <4>1. w' = w BY <3>1, <3>2 DEF WriteHeader
      <4> QED BY <4>1, <1>0, <1>2 DEF Counted, Framed, Written, Bare, Pending
    <3>3. CASE ~conn.hijacked
      <4>1. Counted(w') /\ Framed(WriteHeader(w, x)) /\ Written(WriteHeader(w, x)) /\ ~w'.handlerDone
        BY <1>0, <1>2, <3>1, <3>3, WriteHeaderSound
      <4> QED BY <4>1, <1>0, <3>1 DEF Counted, Framed, Written, Bare, Pending
    <3> QED BY <3>2, <3>3
  <2>2. CASE HandlerHitsLimit
    <3>1. w' = TooLarge(w) BY <2>2 DEF HandlerHitsLimit
    <3>2. /\ DOMAIN w' = WFields /\ w'.wroteHeader = w.wroteHeader /\ w'.given = w.given /\ w'.length = w.length
          /\ w'.written = w.written /\ w'.buf = w.buf /\ w'.closeAfter /\ w'.handlerDone = w.handlerDone /\ w'.header = w.header
          /\ w'.sent = w.sent /\ w'.ended = w.ended /\ w'.raw = w.raw /\ w'.todo = w.todo
      BY <1>0, <3>1 DEF TooLarge, Counted, WFields
    <3> QED BY <1>0, <1>2, <3>2 DEF Counted, Framed, Written, Bare, Pending
  <2>3. CASE HandlerWrite
    <3> DEFINE h == WriteHeader(w, OK)
    <3>1. ~conn.hijacked BY <2>3 DEF HandlerWrite
    <3>2. Counted(h) /\ Framed(h) /\ Written(h) /\ h.wroteHeader /\ h.todo = "none" /\ ~h.handlerDone
      BY <1>0, <1>1, <1>2, <3>1, WriteHeaderSound
    <3>3. w' = LET wrote == [h EXCEPT !.written = @ + 1] IN
               IF ~h.given.body THEN h
               ELSE IF h.length # -1 /\ wrote.written > h.length THEN wrote
               ELSE IF h.buf < BufSize THEN [wrote EXCEPT !.buf = @ + 1]
               ELSE [wrote EXCEPT !.todo = "write"]
      BY <2>3 DEF HandlerWrite
    <3> HIDE DEF h
    <3>4. h.written \in Nat /\ h.buf \in Nat /\ h.sent \in Nat /\ DOMAIN h = WFields BY <3>2 DEF Counted
    <3>5. CASE ~h.given.body
      <4>1. w' = h BY <3>3, <3>5
      <4> QED BY <1>0, <3>2, <4>1 DEF Counted, Framed, Written, Bare, Pending
    <3>6. CASE h.given.body
      <4>1. /\ DOMAIN w' = WFields /\ w'.wroteHeader /\ w'.given = h.given /\ w'.length = h.length
            /\ w'.written = h.written + 1 /\ w'.closeAfter = h.closeAfter /\ w'.handlerDone = h.handlerDone /\ w'.header = h.header
            /\ w'.sent = h.sent /\ w'.raw = h.raw
            /\ \/ h.length # -1 /\ h.written + 1 > h.length /\ w'.buf = h.buf /\ w'.todo = "none"
               \/ ~(h.length # -1 /\ h.written + 1 > h.length) /\ w'.buf = h.buf + 1 /\ w'.todo = "none"
               \/ ~(h.length # -1 /\ h.written + 1 > h.length) /\ w'.buf = h.buf /\ w'.todo = "write"
        <5> DEFINE wrote == [h EXCEPT !.written = @ + 1]
        <5>1. /\ DOMAIN wrote = WFields /\ wrote.wroteHeader = h.wroteHeader /\ wrote.given = h.given /\ wrote.length = h.length
              /\ wrote.written = h.written + 1 /\ wrote.closeAfter = h.closeAfter /\ wrote.handlerDone = h.handlerDone
              /\ wrote.header = h.header /\ wrote.sent = h.sent /\ wrote.raw = h.raw /\ wrote.buf = h.buf /\ wrote.todo = h.todo
          BY <3>4 DEF WFields
        <5>2. \/ w' = wrote /\ h.length # -1 /\ h.written + 1 > h.length
              \/ w' = [wrote EXCEPT !.buf = @ + 1] /\ ~(h.length # -1 /\ h.written + 1 > h.length)
              \/ w' = [wrote EXCEPT !.todo = "write"] /\ ~(h.length # -1 /\ h.written + 1 > h.length)
          BY <3>3, <3>6, <5>1
        <5> HIDE DEF wrote
        <5>3. CASE w' = wrote /\ h.length # -1 /\ h.written + 1 > h.length BY <3>2, <5>1, <5>3
        <5>4. CASE w' = [wrote EXCEPT !.buf = @ + 1] /\ ~(h.length # -1 /\ h.written + 1 > h.length)
          BY <3>2, <5>1, <5>4 DEF WFields
        <5>5. CASE w' = [wrote EXCEPT !.todo = "write"] /\ ~(h.length # -1 /\ h.written + 1 > h.length)
          BY <3>2, <5>1, <5>5 DEF WFields
        <5> QED BY <5>2, <5>3, <5>4, <5>5
      <4>2. Counted(w)' BY <3>2, <3>4, <4>1 DEF Counted
      <4>3. Framed(w)' BY <1>0, <3>2, <4>1 DEF Framed, Bare
      <4>4. (~req.head => w.sent + Pending(w) = w.written \/ (w.length # -1 /\ w.written > w.length))'
        <5>1. ~req.head => h.sent + h.buf = h.written \/ (h.length # -1 /\ h.written > h.length)
          BY <3>2 DEF Written, Pending
        <5>2. h.length \in Nat \cup {-1} BY <3>2 DEF Counted
        <5> QED BY <1>0, <3>4, <4>1, <5>1, <5>2 DEF Pending
      <4>5. Written(w)' BY <1>0, <3>2, <3>6, <4>1, <4>4 DEF Written
      <4> QED BY <3>2, <4>1, <4>2, <4>3, <4>5
    <3> QED BY <3>5, <3>6
  <2> QED BY <2>1, <2>2, <2>3
<1>5. Placed' BY <1>0, <1>1, <1>4 DEF Placed, Over, InHandler
<1> QED BY <1>3, <1>4, <1>5 DEF MessageInv

\* Flush, ReadFrom and Hijack begin a reply.
LEMMA HandlerAsksMessage == ASSUME IInv, MessageInv, NEW what \in {"flush", "sendfile", "hijack"}, HandlerAsks(what) PROVE MessageInv'
<1> USE DEF IInv
<1>0. /\ Counted(w) /\ hnd.buf \in Nat /\ Runs /\ ~cfg.wrapped /\ ~conn.hijacked /\ cfg' = cfg /\ req' = req /\ hnd' = Called("run")
  BY DEF MessageInv, HandlerAsks, Direct, Acts
<1>1. conn.at = "handler" /\ w.todo = "none" BY <1>0 DEF Runs
<1>2. Framed(w) /\ Written(w) /\ ~w.handlerDone BY <1>1 DEF MessageInv, InRequest, Placed, InHandler
<1>3. hnd'.buf \in Nat BY <1>0 DEF Called, Shape, HndFields
<1>4. CASE what = "hijack" /\ ~w.wroteHeader
  <2>1. w' = w /\ conn' = [conn EXCEPT !.at = "hijack"] BY <1>4 DEF HandlerAsks
  <2>2. SameReply BY <1>0, <2>1 DEF SameReply, Counted
  <2>3. Onward BY <1>1, <2>1 DEF Onward, InHandler, Shape, ConnFields
  <2> QED BY <1>0, <1>3, <2>2, <2>3, SameReplyKeeps
<1>5. CASE ~(what = "hijack" /\ ~w.wroteHeader)
  <2> DEFINE h == WriteHeader(w, OK)
  <2>1. conn' = conn /\ w' = [h EXCEPT !.todo = what] BY <1>5 DEF HandlerAsks
  <2>2. Counted(h) /\ Framed(h) /\ Written(h) /\ h.wroteHeader /\ h.todo = "none" /\ ~h.handlerDone
    BY <1>0, <1>1, <1>2, WriteHeaderSound
  <2> HIDE DEF h
  <2>3. /\ DOMAIN w' = WFields /\ w'.wroteHeader /\ w'.given = h.given /\ w'.length = h.length /\ w'.written = h.written
        /\ w'.buf = h.buf /\ w'.closeAfter = h.closeAfter /\ w'.handlerDone = h.handlerDone /\ w'.header = h.header
        /\ w'.sent = h.sent /\ w'.raw = h.raw /\ w'.todo = what
    BY <2>1, <2>2 DEF Counted, WFields
  <2>4. Counted(w)' BY <2>2, <2>3 DEF Counted
  <2>5. Framed(w)' BY <1>0, <2>2, <2>3 DEF Framed, Bare
  <2>6. Written(w)' BY <1>0, <2>2, <2>3 DEF Written, Pending
  <2>7. Placed' BY <1>0, <1>1, <2>1, <2>2, <2>3 DEF Placed, Over, InHandler
  <2> QED BY <1>3, <2>4, <2>5, <2>6, <2>7 DEF MessageInv
<1> QED BY <1>4, <1>5

\* A handler that returns has its reply finished.
LEMMA HandlerReturnsMessage == ASSUME IInv, MessageInv, HandlerReturns PROVE MessageInv'
<1> USE DEF IInv
<1>0. /\ Counted(w) /\ Runs /\ ~cfg.wrapped /\ cfg' = cfg /\ req' = req /\ hnd' = NoHandler
      /\ conn' = [conn EXCEPT !.at = IF conn.hijacked THEN "done" ELSE "finish", !.cancelled = @ \/ conn.hijacked]
      /\ w' = IF conn.hijacked THEN w ELSE [WriteHeader(w, OK) EXCEPT !.handlerDone = TRUE, !.todo = "finish"]
  BY DEF MessageInv, HandlerReturns
<1>1. conn.at = "handler" /\ w.todo = "none" BY <1>0 DEF Runs
<1>2. Framed(w) /\ Written(w) /\ ~w.handlerDone BY <1>1 DEF MessageInv, InRequest, Placed, InHandler
<1>3. hnd'.buf \in Nat BY <1>0 DEF NoHandler
<1>4. conn'.at = IF conn.hijacked THEN "done" ELSE "finish" BY <1>0 DEF Shape, ConnFields
<1>5. CASE conn.hijacked
  <2>1. w' = w BY <1>0, <1>5
  <2>2. SameReply BY <1>0, <2>1 DEF SameReply, Counted
  <2>3. Onward BY <1>4, <1>5 DEF Onward
  <2> QED BY <1>0, <1>3, <2>2, <2>3, SameReplyKeeps
<1>6. CASE ~conn.hijacked
  <2> DEFINE h == WriteHeader(w, OK)
  <2>1. w' = [h EXCEPT !.handlerDone = TRUE, !.todo = "finish"] BY <1>0, <1>6
  <2>2. Counted(h) /\ Framed(h) /\ Written(h) /\ h.wroteHeader /\ h.todo = "none"
    BY <1>0, <1>1, <1>2, <1>6, WriteHeaderSound
  <2> HIDE DEF h
  <2>3. /\ DOMAIN w' = WFields /\ w'.wroteHeader /\ w'.given = h.given /\ w'.length = h.length /\ w'.written = h.written
        /\ w'.buf = h.buf /\ w'.closeAfter = h.closeAfter /\ w'.handlerDone /\ w'.header = h.header
        /\ w'.sent = h.sent /\ w'.raw = h.raw /\ w'.todo = "finish"
    BY <2>1, <2>2 DEF Counted, WFields
  <2>4. Counted(w)' BY <2>2, <2>3 DEF Counted
  <2>5. Framed(w)' BY <1>0, <2>2, <2>3 DEF Framed, Bare
  <2>6. Written(w)' BY <1>0, <2>2, <2>3 DEF Written, Pending
  <2>7. Placed' BY <1>4, <1>6, <2>3 DEF Placed, Over, InHandler
  <2> QED BY <1>3, <2>4, <2>5, <2>6, <2>7 DEF MessageInv
<1> QED BY <1>5, <1>6

\* The reply of a TimeoutHandler is what its buffer holds, or an error of one write.
LEMMA TimeoutMessage == ASSUME IInv, MessageInv, TimeoutDone \/ TimeoutFires PROVE MessageInv'
<1> USE DEF IInv
<1>0. /\ Counted(w) /\ hnd.buf \in Nat /\ conn.at = "handler" /\ cfg.wrapped /\ cfg' = cfg /\ req' = req
      /\ conn' = [conn EXCEPT !.at = "finish"] /\ ~conn.hijacked
  BY DEF MessageInv, TimeoutDone, TimeoutFires, ControlInv
<1>1. PICK n \in Nat : w' = Answer(w, n) BY <1>0 DEF TimeoutDone, TimeoutFires
<1>2. Framed(w) /\ Written(w) /\ ~w.handlerDone /\ ~w.wroteHeader BY <1>0 DEF MessageInv, InRequest, Placed, InHandler
<1>3. hnd'.buf \in Nat
  <2>1. CASE TimeoutDone BY <1>0, <2>1 DEF TimeoutDone, Shape, HndFields
  <2>2. CASE TimeoutFires BY <1>0, <2>2 DEF TimeoutFires, Shape, HndFields
  <2> QED BY <2>1, <2>2
<1>4. conn'.at = "finish" BY <1>0 DEF Shape, ConnFields
<1> DEFINE h == WriteHeader(w, OK)
<1>5. /\ Counted(h) /\ Framed(h) /\ h.wroteHeader /\ h.header = "no" /\ h.sent = 0 /\ h.given.body /\ h.length = -1
  <2>1. w.header = "no" /\ w.sent = 0 BY <1>2 DEF Framed, Written
  <2>2. OK.body /\ OK.length = -1 BY DEF OK
  <2> QED BY <1>0, <1>2, <2>1, <2>2, WriteHeaderSound
<1>6. w' = [h EXCEPT !.written = n, !.buf = IF n <= BufSize THEN n ELSE 0, !.handlerDone = n <= BufSize,
                     !.todo = IF n <= BufSize THEN "finish" ELSE "bulk"]
  BY <1>1 DEF Answer
<1> HIDE DEF h
<1>7. /\ DOMAIN w' = WFields /\ w'.wroteHeader /\ w'.given = h.given /\ w'.length = -1 /\ w'.written = n
      /\ w'.closeAfter = h.closeAfter /\ w'.header = "no" /\ w'.sent = 0 /\ w'.raw = h.raw
      /\ \/ w'.buf = n /\ w'.handlerDone /\ w'.todo = "finish"
         \/ w'.buf = 0 /\ ~w'.handlerDone /\ w'.todo = "bulk"
  BY <1>5, <1>6 DEF Counted, WFields
<1>8. Counted(w)' BY <1>5, <1>7 DEF Counted
<1>9. Framed(w)' BY <1>5, <1>7 DEF Framed
<1>10. Written(w)' BY <1>0, <1>5, <1>7 DEF Written, Pending
<1>11. Placed' BY <1>4, <1>7 DEF Placed, Over, InHandler
<1> QED BY <1>3, <1>8, <1>9, <1>10, <1>11 DEF MessageInv

\* A refused expectation has a reply of its own, without a body.
LEMMA DispatchMessage == ASSUME IInv, MessageInv, Dispatch PROVE MessageInv'
<1> USE DEF IInv
<1>0. /\ Counted(w) /\ hnd.buf \in Nat /\ conn.at = "dispatch" /\ cfg' = cfg /\ req' = req
  BY DEF MessageInv, Dispatch
<1>1. Framed(w) /\ Written(w) /\ ~w.wroteHeader BY <1>0 DEF MessageInv, InRequest, Placed, InHandler
<1>2. CASE req.bad = "expectation"
  <2>1. /\ conn' = [conn EXCEPT !.at = "finish"] /\ hnd' = hnd
        /\ w' = [w EXCEPT !.wroteHeader = TRUE, !.given = [OK EXCEPT !.conn = "close"], !.closeAfter = FALSE, !.handlerDone = TRUE]
    BY <1>2 DEF Dispatch
  <2>2. conn'.at = "finish" BY <2>1 DEF Shape, ConnFields
  <2>3. /\ DOMAIN w' = WFields /\ w'.wroteHeader /\ w'.given.body /\ w'.given.length = -1 /\ w'.length = w.length
        /\ w'.written = w.written /\ w'.buf = w.buf /\ w'.handlerDone /\ w'.header = w.header /\ w'.sent = w.sent
        /\ w'.todo = w.todo
    BY <1>0, <2>1 DEF Counted, WFields, OK
  <2>4. w.header = "no" /\ w.todo = "none" /\ w.buf = 0 /\ w.written = 0 /\ w.length = -1 /\ w.sent = 0
    BY <1>1 DEF Framed, Written
  <2>5. Counted(w)' BY <1>0, <2>3, <2>4 DEF Counted
  <2>6. Framed(w)' BY <2>3, <2>4 DEF Framed
  <2>7. Written(w)' BY <2>3, <2>4 DEF Written, Pending
  <2>8. Placed' BY <2>2, <2>3 DEF Placed, Over, InHandler
  <2> QED BY <1>0, <2>1, <2>5, <2>6, <2>7, <2>8 DEF MessageInv
<1>3. CASE req.bad # "expectation"
  <2>1. /\ conn' = [(IF bdy.sawEOF THEN StartClearsDeadline(conn) ELSE conn) EXCEPT !.at = "handler", !.served = @ + 1]
        /\ w' = w /\ hnd' = [NoHandler EXCEPT !.at = "run"]
    BY <1>3 DEF Dispatch
  <2>2. conn'.at = "handler" BY <2>1 DEF StartClearsDeadline, Shape, ConnFields
  <2>3. hnd'.buf \in Nat BY <2>1 DEF NoHandler
  <2>4. SameReply BY <1>0, <2>1 DEF SameReply, Counted
  <2>5. Onward BY <1>0, <2>2 DEF Onward
  <2> QED BY <1>0, <2>3, <2>4, <2>5, SameReplyKeeps
<1> QED BY <1>2, <1>3

\* A reply not begun.
LEMMA Blank == Counted(NoResponse) /\ Counted([NoResponse EXCEPT !.header = "no", !.closeAfter = TRUE])
               /\ Counted([NoResponse EXCEPT !.header = "error", !.closeAfter = TRUE])
BY DEF Counted, NoResponse, OK, WFields

\* A new request has a new response; between requests there is none.
LEMMA ReadHeadMessage == ASSUME IInv, MessageInv, ReadHead PROVE MessageInv'
<1> USE DEF IInv
<1>0. Counted(w) /\ hnd.buf \in Nat /\ cfg' = cfg /\ hnd' = hnd /\ conn.at = "read" BY DEF MessageInv, ReadHead
<1> DEFINE u == Head(conn.bufr)
           c == [conn EXCEPT !.bufr = Tail(@), !.parsed = @ + 1]
<1>1. c.at = "read" /\ c.err = conn.err /\ DOMAIN c = ConnFields BY <1>0 DEF Shape, ConnFields
<1>2. \/ conn' = (IF u.k = "first" THEN [c EXCEPT !.part = 1] ELSE [c EXCEPT !.at = "parsed", !.err = "bad"]) /\ req' = req /\ w' = w
      \/ w' = NoResponse /\ \E e, d : conn' = [c EXCEPT !.at = "parsed", !.err = e, !.deadline = d, !.readAny = TRUE]
  <2> DEFINE e0 == IF net.reqs[u.id].bad \in {"no", "expectation"} THEN "none" ELSE net.reqs[u.id].bad
             d0 == IF cfg.timeouts THEN "set" ELSE "none"
  <2>1. \/ conn' = (IF u.k = "first" THEN [c EXCEPT !.part = 1] ELSE [c EXCEPT !.at = "parsed", !.err = "bad"]) /\ req' = req /\ w' = w
        \/ w' = NoResponse /\ conn' = [c EXCEPT !.at = "parsed", !.err = e0, !.deadline = d0, !.readAny = TRUE]
    BY DEF ReadHead
  <2> HIDE DEF e0, d0, c, u
  <2> QED BY <2>1
<1> HIDE DEF c, u
<1>3. CASE conn' = (IF u.k = "first" THEN [c EXCEPT !.part = 1] ELSE [c EXCEPT !.at = "parsed", !.err = "bad"]) /\ req' = req /\ w' = w
  <2>1. conn'.at = "read" \/ (conn'.at = "parsed" /\ conn'.err = "bad") BY <1>1, <1>3 DEF ConnFields
  <2>2. SameReply BY <1>0, <1>3 DEF SameReply, Counted
  <2>3. Onward BY <2>1 DEF Onward
  <2> QED BY <1>0, <1>3, <2>2, <2>3, SameReplyKeeps
<1>4. CASE w' = NoResponse /\ \E e, d : conn' = [c EXCEPT !.at = "parsed", !.err = e, !.deadline = d, !.readAny = TRUE]
  <2>1. conn'.at = "parsed" BY <1>1, <1>4 DEF ConnFields
  <2>2. Counted(w)' BY <1>4, Blank
  <2>3. /\ ~w'.wroteHeader /\ w'.given.body /\ w'.given.length = -1 /\ w'.length = -1 /\ w'.written = 0 /\ w'.buf = 0
        /\ ~w'.handlerDone /\ w'.header = "no" /\ w'.sent = 0 /\ w'.todo = "none"
    BY <1>4 DEF NoResponse, OK
  <2>4. (Framed(w) /\ Written(w) /\ Placed)' BY <2>1, <2>3 DEF Framed, Written, Placed, Pending, Over, InHandler
  <2> QED BY <1>0, <2>2, <2>4 DEF MessageInv
<1> QED BY <1>2, <1>3, <1>4

\* Between two requests there is no reply to count.
LEMMA BetweenMessage == ASSUME IInv, MessageInv, ReadHeadFails \/ Peeked \/ Refuse \/ Idle \/ CloseConn PROVE MessageInv'
<1> USE DEF IInv
<1>0. Counted(w) /\ hnd.buf \in Nat BY DEF MessageInv
<1>1. CASE ReadHeadFails \/ Peeked
  <2>1. w' = w /\ req' = req /\ cfg' = cfg /\ hnd' = hnd BY <1>1 DEF ReadHeadFails, Peeked
  <2>2. Onward
    <3>1. CASE ReadHeadFails BY <3>1 DEF ReadHeadFails, Onward, Shape, ConnFields
    <3>2. CASE Peeked
      <4>1. conn'.at \in {"start", "closing"} BY <3>2 DEF Peeked, Shape, ConnFields
      <4> QED BY <4>1 DEF Onward
    <3> QED BY <1>1, <3>1, <3>2
  <2>3. SameReply BY <1>0, <2>1 DEF SameReply, Counted
  <2> QED BY <1>0, <2>1, <2>2, <2>3, SameReplyKeeps
<1>2. CASE Refuse \/ Idle \/ CloseConn
  <2>1. Counted(w') /\ hnd'.buf \in Nat
    <3>1. CASE Refuse BY <1>0, <3>1, Blank DEF Refuse
    <3>2. CASE Idle \/ CloseConn BY <1>0, <3>2, Blank DEF Idle, CloseConn, NoHandler
    <3> QED BY <1>2, <3>1, <3>2
  <2>2. conn'.at \in {"closing", "peek", "start", "closed"} BY <1>2 DEF Refuse, Idle, CloseConn, Shape, ConnFields
  <2>3. ~InRequest' BY <2>2 DEF InRequest, InHandler, Finishing
  <2> QED BY <2>1, <2>3 DEF MessageInv, Counted
<1> QED BY <1>1, <1>2

\* Where a header goes out.
LEMMA Replying ==
  ASSUME IInv, MessageInv, w.todo # "none"
  PROVE  /\ InRequest /\ Framed(w) /\ Written(w) /\ Placed /\ Counted(w) /\ w.wroteHeader
         /\ conn.at \in {"finish"} \/ (conn.at = "handler" /\ ~cfg.wrapped /\ ~w.handlerDone)
<1>1. conn.at = "finish" \/ (conn.at = "handler" /\ ~cfg.wrapped) BY DEF IInv, ControlInv
<1>2. InRequest BY <1>1 DEF InRequest, InHandler, Finishing
<1> QED BY <1>1, <1>2 DEF MessageInv, Written, Placed, InHandler

\* The header of a reply goes out.
LEMMA HeaderGoesOut ==
  ASSUME IInv, MessageInv, w.todo # "none", w.header = "no", NEW r \in {w, TooLarge(w)}, NEW c, w' = HeaderOut(r, c),
         conn' = conn, req' = req, cfg' = cfg, hnd' = hnd
  PROVE  MessageInv'
<1>1. /\ Framed(w) /\ Written(w) /\ Placed /\ Counted(w) /\ w.wroteHeader
      /\ conn.at \in {"finish"} \/ (conn.at = "handler" /\ ~cfg.wrapped /\ ~w.handlerDone)
  BY Replying
<1> DEFINE h == HeaderOut(r, c)
<1>2. Counted(h) /\ Framed(h) /\ Written(h) /\ h.wroteHeader BY <1>1, HeaderOutSound
<1>3. h.handlerDone = w.handlerDone
  BY <1>1 DEF HeaderOut, TooLarge, Counted, WFields
<1>4. w' = h OBVIOUS
<1> HIDE DEF h
<1>5. (Counted(w) /\ Framed(w) /\ Written(w))' BY <1>2, <1>4 DEF Counted, Framed, Written, Bare, Pending
<1>6. Placed' BY <1>1, <1>2, <1>3, <1>4 DEF Placed, Over, InHandler
<1> QED BY <1>5, <1>6 DEF MessageInv

\* writeHeader at its start,
LEMMA HeaderStartsMessage == ASSUME IInv, MessageInv, HeaderStarts PROVE MessageInv'
<1>0. /\ w.todo # "none" /\ w.header = "no" /\ conn' = conn /\ req' = req /\ cfg' = cfg /\ hnd' = hnd
  BY DEF HeaderStarts
<1>1. \/ \E r \in {w, TooLarge(w)} : \E c : w' = HeaderOut(r, c)
      \/ w' = [w EXCEPT !.discarded = 0]
  BY DEF HeaderStarts
<1>2. CASE \E r \in {w, TooLarge(w)} : \E c : w' = HeaderOut(r, c) BY <1>0, <1>2, HeaderGoesOut
<1>3. CASE w' = [w EXCEPT !.discarded = 0]
  <2>1. SameReply BY <1>3 DEF SameReply, MessageInv, Counted, WFields
  <2>2. Onward BY <1>0 DEF Onward
  <2>3. hnd'.buf \in Nat BY <1>0 DEF MessageInv
  <2> QED BY <1>0, <2>1, <2>2, <2>3, SameReplyKeeps
<1> QED BY <1>1, <1>2, <1>3

\* and after the rest of the request body.
LEMMA HeaderDiscardsMessage == ASSUME IInv, MessageInv, HeaderDiscards PROVE MessageInv'
<1>0. /\ w.todo # "none" /\ w.header = "no" /\ req' = req /\ cfg' = cfg /\ hnd' = hnd /\ Shape
  BY DEF HeaderDiscards, IInv, ControlInv
<1>1. \/ conn' = conn /\ \E r \in {w, TooLarge(w)} : \E c : w' = HeaderOut(r, c)
      \/ w' = [w EXCEPT !.discarded = @ + BodyBytes] /\ \E b : BodyRead(b)
  BY DEF HeaderDiscards
<1>2. CASE conn' = conn /\ \E r \in {w, TooLarge(w)} : \E c : w' = HeaderOut(r, c) BY <1>0, <1>2, HeaderGoesOut
<1>3. CASE w' = [w EXCEPT !.discarded = @ + BodyBytes] /\ \E b : BodyRead(b)
  <2>1. SameReply BY <1>3 DEF SameReply, MessageInv, Counted, WFields
  <2>2. PICK b : BodyRead(b) BY <1>3
  <2>3. Onward BY <1>0, <2>2, BodyReadStays DEF Onward
  <2>4. hnd'.buf \in Nat BY <1>0 DEF MessageInv
  <2> QED BY <1>0, <2>1, <2>3, <2>4, SameReplyKeeps
<1> QED BY <1>1, <1>2, <1>3

\* What follows the header: every write that was buffered is sent or eaten, once.
LEMMA ContinueMessage == ASSUME IInv, MessageInv, Continue PROVE MessageInv'
<1>0. /\ w.todo # "none" /\ w.header # "no" /\ req' = req /\ cfg' = cfg /\ hnd' = hnd /\ Shape
      /\ w.todo \in {"write", "flush", "sendfile", "hijack"} => conn.at = "handler"
      /\ w.todo \in {"finish", "bulk"} => conn.at = "finish"
  BY DEF Continue, IInv, ControlInv
<1>1. /\ Framed(w) /\ Written(w) /\ Counted(w) /\ w.wroteHeader
      /\ conn.at \in {"finish"} \/ (conn.at = "handler" /\ ~cfg.wrapped /\ ~w.handlerDone)
  BY <1>0, Replying
<1>2. hnd'.buf \in Nat BY <1>0 DEF MessageInv
<1>3. /\ w.sent \in Nat /\ w.buf \in Nat /\ w.written \in Nat /\ w.length \in Nat \cup {-1} /\ DOMAIN w = WFields BY <1>1 DEF Counted
\* The fields every branch leaves alone, and the rest.
<1> DEFINE Kind == /\ DOMAIN w' = WFields /\ w'.wroteHeader = w.wroteHeader /\ w'.given = w.given /\ w'.length = w.length
                   /\ w'.closeAfter = w.closeAfter /\ w'.handlerDone = w.handlerDone /\ w'.header = w.header
           Sent == IF req.head THEN w.sent ELSE w.sent + w.buf
           Tell(sent, buf, written, todo) ==
             w'.sent = sent /\ w'.buf = buf /\ w'.written = written /\ w'.todo = todo
<1>5. CASE w.todo = "write"
  <2>1. w' = [Put(w, w.buf) EXCEPT !.buf = 1] /\ conn' = conn BY <1>5 DEF Continue
  <2>2. Kind /\ Tell(Sent, 1, w.written, "none") /\ w'.raw = w.raw
    BY <1>3, <2>1 DEF Put, WFields
  <2>3. w.given.body /\ (~req.head => w.sent + w.buf + 1 = w.written \/ (w.length # -1 /\ w.written > w.length))
    BY <1>1, <1>3, <1>5 DEF Written, Pending
  <2>4. Counted(w)' BY <1>1, <1>3, <2>2 DEF Counted
  <2>5. Framed(w)' BY <1>0, <1>1, <2>2, <2>3 DEF Framed, Bare
  <2>6. (~req.head => w.sent + Pending(w) = w.written \/ (w.length # -1 /\ w.written > w.length))'
    BY <1>0, <1>3, <2>2, <2>3 DEF Pending
  <2>7. Written(w)' BY <1>1, <2>2, <2>3, <2>6 DEF Written
  <2>8. Placed' BY <1>0, <1>1, <1>5, <2>1, <2>2 DEF Placed, Over, InHandler
  <2> QED BY <1>2, <2>4, <2>5, <2>7, <2>8 DEF MessageInv
<1>6. CASE w.todo \in {"flush", "finish"}
  <2>1. /\ \/ w' = [Put(w, w.buf) EXCEPT !.buf = 0]
           \/ w' = [Put(w, w.buf) EXCEPT !.buf = 0, !.ended = w.header = "chunked"] /\ w.todo = "finish"
        /\ w.todo = "finish" => w'.ended = (w.header = "chunked")
    BY <1>3, <1>6 DEF Continue, Put, WFields
  <2>2. Kind /\ Tell(Sent, 0, w.written, "none") /\ w'.raw = w.raw
    <3> DEFINE p == Put(w, w.buf)
    <3>1. /\ DOMAIN p = WFields /\ p.wroteHeader = w.wroteHeader /\ p.given = w.given /\ p.length = w.length
          /\ p.closeAfter = w.closeAfter /\ p.handlerDone = w.handlerDone /\ p.header = w.header
          /\ p.sent = Sent /\ p.written = w.written /\ p.todo = "none" /\ p.raw = w.raw
      BY <1>3 DEF Put, WFields
    <3> HIDE DEF p
    <3>2. CASE w' = [p EXCEPT !.buf = 0] BY <3>1, <3>2 DEF WFields
    <3>3. CASE w' = [p EXCEPT !.buf = 0, !.ended = w.header = "chunked"] BY <3>1, <3>3 DEF WFields
    <3> QED BY <2>1, <3>2, <3>3 DEF p
  <2>3. conn'.at = IF w.todo = "flush" THEN "handler" ELSE "abort"
    BY <1>0, <1>6 DEF Continue, Flushed, WriteOutcomes, Shape, ConnFields
  <2>4. /\ ~req.head => w.sent + w.buf = w.written \/ (w.length # -1 /\ w.written > w.length)
        /\ ~w.given.body => w.sent = 0 /\ w.buf = 0 /\ w.written = 0
    BY <1>1, <1>3, <1>6 DEF Written, Pending
  <2>5. Counted(w)' BY <1>1, <1>3, <2>2 DEF Counted
  <2>6. Framed(w)' BY <1>0, <1>1, <2>2, <2>4 DEF Framed, Bare
  <2>7. (~req.head => w.sent + Pending(w) = w.written \/ (w.length # -1 /\ w.written > w.length))'
    BY <1>0, <1>3, <2>2, <2>4 DEF Pending
  <2>8. Written(w)' BY <1>1, <2>2, <2>4, <2>7 DEF Written
  <2>9. Placed' BY <1>0, <1>1, <1>6, <2>1, <2>2, <2>3 DEF Placed, Over, InHandler
  <2> QED BY <1>2, <2>5, <2>6, <2>8, <2>9 DEF MessageInv
<1>7. CASE w.todo = "bulk"
  <2>1. w' = [Put(w, w.written) EXCEPT !.todo = "finish"] /\ conn' = conn BY <1>7 DEF Continue
  <2>2. Kind /\ Tell(IF req.head THEN w.sent ELSE w.sent + w.written, w.buf, w.written, "finish") /\ w'.raw = w.raw
    BY <1>3, <2>1 DEF Put, WFields
  <2>3. /\ w.buf = 0 /\ (~req.head => w.sent + w.written = w.written \/ (w.length # -1 /\ w.written > w.length))
        /\ ~w.given.body => w.sent = 0 /\ w.buf = 0 /\ w.written = 0
    BY <1>1, <1>3, <1>7 DEF Written, Pending
  <2>4. Counted(w)' BY <1>1, <1>3, <2>2 DEF Counted
  <2>5. Framed(w)' BY <1>0, <1>1, <2>2, <2>3 DEF Framed, Bare
  <2>6. (~req.head => w.sent + Pending(w) = w.written \/ (w.length # -1 /\ w.written > w.length))'
    BY <1>0, <1>3, <2>2, <2>3 DEF Pending
  <2>7. Written(w)' BY <1>1, <2>2, <2>3, <2>6 DEF Written
  <2>8. Placed' BY <1>0, <1>1, <1>7, <2>1, <2>2 DEF Placed, Over, InHandler
  <2> QED BY <1>2, <2>4, <2>5, <2>7, <2>8 DEF MessageInv
<1>8. CASE w.todo = "sendfile"
  <2> DEFINE sp == Put(w, w.buf)
  <2>0. /\ DOMAIN sp = WFields /\ sp.wroteHeader = w.wroteHeader /\ sp.given = w.given /\ sp.length = w.length
        /\ sp.closeAfter = w.closeAfter /\ sp.handlerDone = w.handlerDone /\ sp.header = w.header
        /\ sp.sent = Sent /\ sp.buf = w.buf /\ sp.written = w.written /\ sp.todo = "none" /\ sp.raw = w.raw
    BY <1>3 DEF Put, WFields
  <2>1. w' = IF w.header # "chunked" /\ w.given.body
             THEN [sp EXCEPT !.buf = 0, !.sent = @ + 1, !.written = @ + 1, !.raw = TRUE]
             ELSE [sp EXCEPT !.buf = IF w.given.body THEN 1 ELSE 0, !.written = IF w.given.body THEN @ + 1 ELSE @]
    BY <1>8 DEF Continue, BodyAllowed
  <2> HIDE DEF sp
  <2>2. conn'.at = "handler" BY <1>0, <1>8 DEF Continue, Flushed, WriteOutcomes, Shape, ConnFields
  <2>3. /\ ~req.head => w.sent + w.buf = w.written \/ (w.length # -1 /\ w.written > w.length)
        /\ ~w.given.body => w.sent = 0 /\ w.buf = 0 /\ w.written = 0
    BY <1>1, <1>3, <1>8 DEF Written, Pending
  <2>4. \/ w.header # "chunked" /\ w.given.body /\ Kind /\ Tell(Sent + 1, 0, w.written + 1, "none") /\ w'.raw
        \/ w.header = "chunked" /\ w.given.body /\ Kind /\ Tell(Sent, 1, w.written + 1, "none") /\ w'.raw = w.raw
        \/ ~w.given.body /\ Kind /\ Tell(Sent, 0, w.written, "none") /\ w'.raw = w.raw
    <3>1. CASE w.header # "chunked" /\ w.given.body BY <1>3, <2>0, <2>1, <3>1 DEF WFields
    <3>2. CASE w.header = "chunked" /\ w.given.body BY <1>3, <2>0, <2>1, <3>2 DEF WFields
    <3>3. CASE ~w.given.body BY <1>3, <2>0, <2>1, <3>3 DEF WFields
    <3> QED BY <3>1, <3>2, <3>3
  <2>5. Kind /\ w'.todo = "none" /\ w'.sent \in Nat /\ w'.buf \in Nat /\ w'.written \in Nat BY <1>3, <2>4
  <2>6. Counted(w)' BY <1>1, <2>5 DEF Counted
  <2>7. Framed(w)'
    <3>1. CASE w.header # "chunked" /\ w.given.body /\ w'.raw BY <1>0, <1>1, <2>5, <3>1 DEF Framed, Bare
    <3>2. CASE w.header = "chunked" /\ w.given.body BY <1>0, <1>1, <2>5, <3>2 DEF Framed, Bare
    <3>3. CASE ~w.given.body /\ w'.sent = Sent /\ w'.raw = w.raw
      BY <1>0, <1>1, <2>3, <2>5, <3>3 DEF Framed, Bare
    <3> QED BY <2>4, <3>1, <3>2, <3>3
  <2>8. (~req.head => w.sent + Pending(w) = w.written \/ (w.length # -1 /\ w.written > w.length))'
    BY <1>0, <1>3, <2>3, <2>4 DEF Pending
  <2>9. ~w'.given.body => w'.sent = 0 /\ w'.buf = 0 /\ w'.written = 0
    BY <2>3, <2>4
  <2>10. Written(w)' BY <1>1, <2>5, <2>8, <2>9 DEF Written
  <2>11. Placed' BY <1>0, <1>1, <1>8, <2>2, <2>5 DEF Placed, Over, InHandler
  <2> QED BY <1>2, <2>6, <2>7, <2>10, <2>11 DEF MessageInv
<1>9. CASE w.todo = "hijack"
  <2>1. w' = Put(w, 0) BY <1>9 DEF Continue
  <2>2. Kind /\ Tell(w.sent, w.buf, w.written, "none") /\ w'.raw = w.raw
    BY <1>3, <2>1 DEF Put, WFields
  <2>3. conn'.at = "hijack" BY <1>0, <1>9 DEF Continue, Flushed, WriteOutcomes, Shape, ConnFields
  <2>4. Counted(w)' BY <1>1, <1>3, <2>2 DEF Counted
  <2>5. Framed(w)' BY <1>0, <1>1, <2>2 DEF Framed, Bare
  <2>6. Written(w)' BY <1>0, <1>1, <1>9, <2>2 DEF Written, Pending
  <2>7. Placed' BY <1>0, <1>1, <1>9, <2>2, <2>3 DEF Placed, Over, InHandler
  <2> QED BY <1>2, <2>4, <2>5, <2>6, <2>7 DEF MessageInv
<1> QED BY <1>5, <1>6, <1>7, <1>8, <1>9 DEF Continue

\* sendExpectationFailed goes on to finishRequest.
LEMMA RefusalMessage == ASSUME IInv, MessageInv, RefusalFinishes PROVE MessageInv'
<1>0. /\ conn.at = "finish" /\ w.todo = "none" /\ w.header = "no" /\ w' = [w EXCEPT !.todo = "finish"]
      /\ conn' = conn /\ req' = req /\ cfg' = cfg /\ hnd' = hnd
  BY DEF RefusalFinishes
<1>1. Counted(w) /\ hnd.buf \in Nat /\ Framed(w) /\ Written(w) /\ Placed
  BY <1>0 DEF MessageInv, InRequest, Finishing
<1>2. /\ DOMAIN w' = WFields /\ w'.wroteHeader = w.wroteHeader /\ w'.given = w.given /\ w'.length = w.length /\ w'.written = w.written
      /\ w'.buf = w.buf /\ w'.closeAfter = w.closeAfter /\ w'.handlerDone = w.handlerDone /\ w'.header = w.header
      /\ w'.sent = w.sent /\ w'.raw = w.raw /\ w'.todo = "finish"
  BY <1>0, <1>1 DEF Counted, WFields
<1>3. Counted(w)' BY <1>1, <1>2 DEF Counted
<1>4. Framed(w)' BY <1>0, <1>1, <1>2 DEF Framed, Bare
<1>5. Written(w)' BY <1>0, <1>1, <1>2 DEF Written, Pending, Placed
<1>6. Placed' BY <1>0, <1>1, <1>2 DEF Placed, Over, InHandler
<1> QED BY <1>0, <1>1, <1>3, <1>4, <1>5, <1>6 DEF MessageInv

\* shouldReuseConnection lets no reply pass that is short.
LEMMA DecideMessage == ASSUME IInv, MessageInv, Decide \/ Hijacked PROVE MessageInv'
<1> USE DEF IInv
<1>1. SameReply /\ req' = req /\ cfg' = cfg /\ hnd'.buf \in Nat
  BY DEF Decide, Hijacked, NoHandler, SameReply, MessageInv, Counted
<1>2. Onward
  <2>1. CASE Decide
    <3>1. CASE ShouldReuse BY <2>1, <3>1 DEF Decide, SetState, Onward, Shape, ConnFields
    <3>2. CASE ~ShouldReuse BY <2>1, <3>2 DEF Decide, Onward, Shape, ConnFields
    <3> QED BY <3>1, <3>2
  <2>2. CASE Hijacked BY <2>2 DEF Hijacked, SetState, Onward, Shape, ConnFields, ControlInv
  <2> QED BY <2>1, <2>2
<1> QED BY <1>1, <1>2, SameReplyKeeps

\* At first there is no reply.
LEMMA InitMessage == Init => MessageInv
BY Blank DEF Init, MessageInv, InRequest, InHandler, Finishing, NoHandler

\* Every action keeps the count.
LEMMA MessageSteps == ASSUME IInv, MessageInv, [Next]_vars PROVE MessageInv'
<1>0. Shape /\ ControlInv BY DEF IInv
<1>1. CASE Client \/ Reader BY <1>1, ReaderMessage
<1>2. CASE Serve
  <2>1. CASE Accept \/ TrackNew \/ GoServe \/ ReadRequest \/ SetActive \/ StateClosed \/ AbortPendingRead \/ AbortWaited
    BY <1>0, <2>1, ServeMoves, MovesMessage
  <2>2. CASE ReadHead BY <2>2, ReadHeadMessage
  <2>3. CASE ReadHeadFails \/ Peeked \/ Refuse \/ Idle \/ CloseConn BY <2>3, BetweenMessage
  <2>4. CASE Dispatch BY <2>4, DispatchMessage
  <2>5. CASE HeaderStarts \/ HeaderDiscards \/ Continue
    BY <2>5, HeaderStartsMessage, HeaderDiscardsMessage, ContinueMessage
  <2>6. CASE TimeoutDone BY <2>6, TimeoutMessage
  <2>7. CASE TimeoutPanic BY <2>7, HandlerIdles
  <2>8. CASE RefusalFinishes BY <2>8, RefusalMessage
  <2>9. CASE Hijacked \/ Decide BY <2>9, DecideMessage
  <2>10. CASE FinishBody BY <2>10, BodyMessage
  <2> QED BY <1>2, <2>1, <2>2, <2>3, <2>4, <2>5, <2>6, <2>7, <2>8, <2>9, <2>10 DEF Serve
<1>3. CASE Waiting BY <1>3, BodyMessage DEF Waiting
<1>4. CASE Handler
  <2>1. CASE HandlerRead \/ HandlerCloses \/ HandlerPanics \/ TimeoutWrite \/ TimeoutReturn BY <2>1, HandlerIdles
  <2>2. CASE HandlerHeader \/ HandlerHitsLimit \/ HandlerWrite BY <2>2, HandlerWrites
  <2>3. CASE HandlerReturns BY <2>3, HandlerReturnsMessage
  <2>4. ASSUME NEW what \in {"flush", "sendfile", "hijack"}, HandlerAsks(what) PROVE MessageInv' BY <2>4, HandlerAsksMessage
  <2> QED BY <1>4, <2>1, <2>2, <2>3, <2>4 DEF Handler
<1>5. CASE TimeoutFires BY <1>5, TimeoutMessage
<1>6. CASE Operator BY <1>0, <1>6, OperatorMoves, MovesMessage
<1>7. CASE Done \/ UNCHANGED vars
  <2>1. UNCHANGED vars BY <1>7 DEF Done
  <2>2. SameReply /\ hnd'.buf \in Nat BY <2>1 DEF vars, SameReply, MessageInv, Counted
  <2>3. Onward /\ req' = req /\ cfg' = cfg BY <2>1 DEF vars, Onward
  <2> QED BY <2>2, <2>3, SameReplyKeeps
<1> QED BY <1>1, <1>2, <1>3, <1>4, <1>5, <1>6, <1>7 DEF Next

\* A connection between two requests has sent exactly the reply it announced.
LEMMA MessageComplete == MessageInv => ReplyComplete
<1> SUFFICES ASSUME MessageInv, conn.at = "idle"
             PROVE  /\ w.header \in {"length", "chunked", "bare"} /\ w.buf = 0
                    /\ w.header = "length"  => w.sent = w.length
                    /\ w.header = "chunked" => w.ended /\ w.sent = w.written
                    /\ w.header = "bare"    => w.sent = 0 \/ (req.head /\ w.raw)
  BY DEF ReplyComplete
<1>1. Counted(w) /\ Framed(w) /\ Written(w) /\ Placed BY DEF MessageInv, InRequest
<1>2. /\ w.buf = 0 /\ w.todo = "none" /\ w.header # "no" /\ (w.header = "chunked" => w.ended)
      /\ ~w.closeAfter /\ (~Bare(w) /\ w.length # -1 => w.length = w.written)
  BY <1>1 DEF Placed, Over
<1>3. w.sent \in Nat /\ w.written \in Nat /\ w.length \in Nat \cup {-1} BY <1>1 DEF Counted
<1>4. ~req.head => w.sent = w.written \/ (w.length # -1 /\ w.written > w.length)
  BY <1>1, <1>2, <1>3 DEF Written, Pending
<1>5. CASE w.header = "length"
  <2>1. ~Bare(w) /\ w.length # -1 BY <1>1, <1>5 DEF Framed
  <2> QED BY <1>2, <1>3, <1>4, <1>5, <2>1 DEF Bare
<1>6. CASE w.header = "chunked"
  <2>1. ~Bare(w) /\ w.length = -1 BY <1>1, <1>6 DEF Framed
  <2> QED BY <1>2, <1>4, <1>6, <2>1 DEF Bare
<1>7. CASE w.header = "bare" BY <1>1, <1>2, <1>7 DEF Framed
<1> QED BY <1>1, <1>2, <1>5, <1>6, <1>7 DEF Framed

\* ReplyComplete for any requests, settings, handlers and sizes: a connection is kept for another
\* request only when the client can tell where the reply ended, because chunkWriter has sent the
\* length it announced, or the last chunk, or nothing at all after a header that allows no body.
THEOREM RepliesAreComplete == Spec => []ReplyComplete
<1>1. IInv /\ MessageInv /\ [Next]_vars => MessageInv' BY MessageSteps
<1> QED BY <1>1, Invariance, InitMessage, MessageComplete, PTL DEF Spec

-----------------------------------------------------------------------------
(* The context is cancelled by the loss of the connection.                  *)

\* Steps that neither read nor wake a reader.
Steady ==
  /\ cfg' = cfg /\ cr' = cr /\ bdy'.sawEOF = bdy.sawEOF
  /\ conn'.bufr = conn.bufr /\ conn'.rerr = conn.rerr /\ conn'.deadline = conn.deadline /\ conn'.hijacked = conn.hijacked
  /\ net.gone => net'.gone
  /\ conn.closed => conn'.closed
  /\ conn.werr => conn'.werr
  /\ conn'.cancelled => conn.cancelled \/ Lost' \/ conn'.at = "done"
  /\ conn'.at \in Stopping => (w.closeAfter => w'.closeAfter)
  /\ \/ conn'.at = conn.at /\ conn'.err = conn.err
     \/ conn.at \in {"accept", "accepted", "tracked"} /\ conn'.at \in {"accepted", "tracked", "start", "done"}
     \/ conn.at = "parsed" /\ conn'.at = (IF conn.err = "none" THEN "dispatch" ELSE "refuse")
     \/ conn.at = "refuse" /\ conn'.at = "closing"
     \/ conn.at = "closed" /\ conn'.at = "done"
     \/ conn.at = "handler" /\ conn'.at \in {"hijack", "finish", "closing", "done"}
     \/ conn.at = "finish" /\ w.header # "no" /\ conn'.at = "abort"
     \/ conn.at = "bodyclose" /\ conn'.at = "decide"
     \/ conn.at = "decide" /\ conn'.at = (IF ShouldReuse THEN "idle" ELSE "closing")

\* Such a step keeps what is said of the context.
LEMMA SteadyKeeps ==
  ASSUME IInv, AbortInv, CancelInv, Steady
  PROVE  AbortInv' /\ CancelInv'
<1>1. AbortInv' BY DEF AbortInv, Steady, ShouldReuse, Stopping
<1>2. CancelInv'
  <2>1. CASE ~conn'.cancelled BY <2>1 DEF CancelInv
  <2>2. CASE Lost' \/ conn'.at = "done" BY <2>2 DEF CancelInv
  <2>3. CASE conn.cancelled /\ ~Lost'
    <3>1. ~Lost BY <2>3 DEF Steady, Lost
    <3>2. conn.at = "finish" /\ w.header # "no" /\ TimedOut => w.closeAfter BY DEF IInv, ReplyInv, TimedOut
    <3>3. TimedOut' <=> TimedOut BY DEF Steady, TimedOut
    <3> QED BY <2>3, <3>1, <3>2, <3>3 DEF CancelInv, Steady, Stopping, InHandler, ShouldReuse
  <2> QED BY <2>1, <2>2, <2>3 DEF Steady
<1> QED BY <1>1, <1>2

\* The client, the server and the serve goroutine where it neither reads nor wakes a reader.
LEMMA EnvironmentSteady == ASSUME IInv, Client \/ Operator PROVE Steady
<1> USE DEF IInv
<1>1. CASE Client
  BY <1>1 DEF Client, ClientRequest, ClientSend, ClientClose, Steady, Shape, NetFields
<1>2. CASE Operator
  <2> USE DEF Steady, Shape, ConnFields
  <2>1. CASE Shutdown BY <2>1 DEF Shutdown
  <2>2. CASE ShutdownPolls BY <2>2 DEF ShutdownPolls, CloseIdle
  <2>3. CASE ServerClose BY <2>3 DEF ServerClose
  <2>4. CASE DisableKeepAlives BY <2>4 DEF DisableKeepAlives, CloseIdle
  <2>5. CASE GrowOld BY <2>5 DEF GrowOld
  <2> QED BY <1>2, <2>1, <2>2, <2>3, <2>4, <2>5 DEF Operator
<1> QED BY <1>1, <1>2

\* The serve goroutine where it neither reads nor wakes a reader.
LEMMA ServeSteady ==
  ASSUME IInv, Accept \/ TrackNew \/ GoServe \/ SetActive \/ StateClosed \/ Refuse \/ HeaderStarts \/ RefusalFinishes \/ Decide
  PROVE  Steady
<1> USE DEF IInv, Steady, Shape, ConnFields, Stopping
<1>1. CASE Accept BY <1>1 DEF Accept
<1>2. CASE TrackNew BY <1>2 DEF TrackNew
<1>3. CASE GoServe BY <1>3 DEF GoServe
<1>4. CASE SetActive BY <1>4 DEF SetActive, SetState
<1>5. CASE StateClosed BY <1>5 DEF StateClosed, SetState
<1>6. CASE Refuse BY <1>6 DEF Refuse
<1>7. CASE HeaderStarts BY <1>7 DEF HeaderStarts, ControlInv
<1>8. CASE RefusalFinishes BY <1>8 DEF RefusalFinishes
<1>9. CASE Decide
  <2>1. CASE ShouldReuse BY <1>9, <2>1 DEF Decide, SetState
  <2>2. CASE ~ShouldReuse BY <1>9, <2>2 DEF Decide
  <2> QED BY <2>1, <2>2
<1> QED BY <1>1, <1>2, <1>3, <1>4, <1>5, <1>6, <1>7, <1>8, <1>9

\* A failed write cancels the context, and is one of a lost connection.
LEMMA ContinueSteady == ASSUME IInv, Continue PROVE Steady
<1> USE DEF IInv, Shape, ConnFields
<1>1. /\ cfg' = cfg /\ cr' = cr /\ bdy' = bdy /\ net' = net /\ w.header # "no" /\ conn.at \in {"handler", "finish"}
      /\ w.todo \in {"write", "flush", "sendfile", "hijack"} => conn.at = "handler"
      /\ w.todo \in {"finish", "bulk"} => conn.at = "finish"
  BY DEF Continue, ControlInv
<1>2. \/ conn' = conn
      \/ \E ok \in BOOLEAN : conn' = Flushed(conn, ok)
      \/ w.todo = "hijack" /\ \E ok \in BOOLEAN : conn' = [Flushed(conn, ok) EXCEPT !.at = "hijack"]
      \/ w.todo = "finish" /\ \E ok \in BOOLEAN : conn' = [Flushed(conn, ok) EXCEPT !.at = "abort"]
  BY DEF Continue, WriteOutcomes
<1>3. conn'.at = "abort" => (w.closeAfter => w'.closeAfter)
  <2>1. CASE w.todo = "finish"
    <3>1. w' = [Put(w, w.buf) EXCEPT !.buf = 0, !.ended = w.header = "chunked"] BY <2>1 DEF Continue
    <3> QED BY <3>1 DEF Put, WFields
  <2>2. CASE w.todo # "finish" BY <1>1, <1>2, <2>2 DEF Continue, Flushed
  <2> QED BY <2>1, <2>2
<1>4. CASE conn' = conn BY <1>1, <1>4 DEF Steady, Continue, Stopping
<1>5. ASSUME NEW ok \in BOOLEAN, NEW a \in {conn.at, "hijack", "abort"},
             a = "hijack" => w.todo = "hijack", a = "abort" => w.todo = "finish",
             conn' = [Flushed(conn, ok) EXCEPT !.at = a]
      PROVE  Steady
  <2>1. /\ DOMAIN conn' = ConnFields /\ conn'.at = a /\ conn'.err = conn.err
        /\ conn'.bufr = conn.bufr /\ conn'.rerr = conn.rerr /\ conn'.deadline = conn.deadline
        /\ conn'.hijacked = conn.hijacked /\ conn'.closed = conn.closed
        /\ (conn.werr => conn'.werr) /\ (conn'.cancelled => conn.cancelled \/ conn'.werr)
    BY <1>5 DEF Flushed
  <2>2. conn'.at = conn.at \/ (conn.at = "handler" /\ conn'.at = "hijack") \/ (conn.at = "finish" /\ conn'.at = "abort")
    BY <1>1, <1>5, <2>1
  <2>3. conn'.at \in Stopping => (w.closeAfter => w'.closeAfter) BY <1>1, <1>3, <2>2 DEF Stopping
  <2> QED BY <1>1, <2>1, <2>2, <2>3 DEF Steady, Lost
<1>6. ASSUME NEW ok \in BOOLEAN, conn' = Flushed(conn, ok) PROVE conn' = [Flushed(conn, ok) EXCEPT !.at = conn.at]
  BY <1>6 DEF Flushed
<1>7. CASE \E ok \in BOOLEAN : conn' = Flushed(conn, ok)
  <2>1. PICK ok \in BOOLEAN : conn' = Flushed(conn, ok) BY <1>7
  <2> QED BY <1>1, <1>5, <1>6, <2>1
<1>8. CASE w.todo = "hijack" /\ \E ok \in BOOLEAN : conn' = [Flushed(conn, ok) EXCEPT !.at = "hijack"] BY <1>5, <1>8
<1>9. CASE w.todo = "finish" /\ \E ok \in BOOLEAN : conn' = [Flushed(conn, ok) EXCEPT !.at = "abort"] BY <1>5, <1>9
<1> QED BY <1>2, <1>4, <1>7, <1>8, <1>9

\* What a handler does without reading,
LEMMA HandlerSteady ==
  ASSUME IInv, (Handler /\ ~\E what \in {"flush", "sendfile", "hijack"} : HandlerAsks(what)) \/ TimeoutDone \/ TimeoutFires \/ TimeoutPanic
  PROVE  Steady
<1> USE DEF IInv, Shape, ConnFields, Steady, Runs, Acts, Direct, Stopping
<1>1. CASE HandlerRead
  <2>1. w'.closeAfter = w.closeAfter BY <1>1 DEF HandlerRead, WFields
  <2> QED BY <1>1, <2>1 DEF HandlerRead
<1>2. CASE HandlerCloses BY <1>2 DEF HandlerCloses
<1>3. CASE HandlerHeader BY <1>3 DEF HandlerHeader
<1>4. CASE HandlerHitsLimit BY <1>4 DEF HandlerHitsLimit
<1>5. CASE HandlerWrite BY <1>5 DEF HandlerWrite
<1>6. CASE HandlerPanics
  <2>1. CASE cfg.wrapped BY <1>6, <2>1 DEF HandlerPanics
  <2>2. CASE ~cfg.wrapped BY <1>6, <2>2 DEF HandlerPanics
  <2> QED BY <2>1, <2>2
<1>7. CASE HandlerReturns BY <1>7 DEF HandlerReturns
<1>8. CASE TimeoutWrite BY <1>8 DEF TimeoutWrite
<1>9. CASE TimeoutReturn BY <1>9 DEF TimeoutReturn
<1>10. CASE TimeoutDone BY <1>10 DEF TimeoutDone
<1>11. CASE TimeoutFires BY <1>11 DEF TimeoutFires
<1>12. CASE TimeoutPanic BY <1>12 DEF TimeoutPanic
<1> QED BY <1>1, <1>2, <1>3, <1>4, <1>5, <1>6, <1>7, <1>8, <1>9, <1>10, <1>11, <1>12 DEF Handler

\* and what it asks of the response.
LEMMA AsksSteady == ASSUME IInv, NEW what \in {"flush", "sendfile", "hijack"}, HandlerAsks(what) PROVE Steady
<1> USE DEF IInv, Shape, ConnFields, Steady, Runs, Acts, Direct, Stopping
<1>1. CASE what = "hijack" /\ ~w.wroteHeader BY <1>1 DEF HandlerAsks
<1>2. CASE ~(what = "hijack" /\ ~w.wroteHeader) BY <1>2 DEF HandlerAsks
<1> QED BY <1>1, <1>2

\* The background read: no deadline is set while it runs, so that a timeout is the one that
\* abortPendingRead causes.
LEMMA BackgroundCancels ==
  ASSUME IInv, AbortInv, CancelInv, BackgroundReadReturns \/ BackgroundReadEnds
  PROVE  AbortInv' /\ CancelInv'
<1> USE DEF IInv, Shape, ConnFields, CrFields, NetFields
<1>0. /\ cfg' = cfg /\ bdy' = bdy /\ w' = w /\ cr.bg # "off" /\ bdy.sawEOF
  BY DEF BackgroundReadReturns, BackgroundReadEnds, ReadInv
<1>1. CASE BackgroundReadReturns
  <2>1. /\ conn' = conn /\ cr'.bg \in {"closed", "byte", "eof", "timeout"} /\ cr'.aborted = cr.aborted /\ cr'.byte = cr.byte
        /\ (cr'.bg = "closed" => conn.closed) /\ (cr'.bg = "eof" => net.gone) /\ (cr'.bg = "timeout" => conn.deadline = "past")
        /\ net'.gone = net.gone
    <3>1. CASE cr' = [cr EXCEPT !.bg = "byte", !.got = Head(Socket)] /\ net' = [net EXCEPT !.taken = @ + 1]
      BY <1>1, <3>1 DEF BackgroundReadReturns
    <3>2. ASSUME NEW bg \in {"closed", "eof", "timeout"}, cr' = [cr EXCEPT !.bg = bg], net' = net,
                 bg = "closed" => conn.closed, bg = "eof" => net.gone, bg = "timeout" => conn.deadline = "past"
          PROVE  /\ cr'.bg = bg /\ cr'.aborted = cr.aborted /\ cr'.byte = cr.byte /\ net'.gone = net.gone
      BY <3>2
    <3> QED BY <1>1, <3>1, <3>2 DEF BackgroundReadReturns
  <2>2. AbortInv' BY <1>0, <2>1 DEF AbortInv
  <2>3. CancelInv' BY <1>0, <2>1 DEF CancelInv, Lost, TimedOut
  <2> QED BY <2>2, <2>3
<1>2. CASE BackgroundReadEnds
  <2>1. /\ net' = net /\ cr'.bg = "off" /\ ~cr'.aborted
        /\ conn' = CancelOn(IF cr.bg = "byte" \/ (cr.bg = "timeout" /\ cr.aborted) THEN "none" ELSE cr.bg, conn)
    BY <1>2 DEF BackgroundReadEnds
  <2>2. /\ conn'.at = conn.at /\ conn'.err = conn.err /\ conn'.closed = conn.closed /\ conn'.werr = conn.werr
        /\ conn'.rerr = conn.rerr /\ conn'.bufr = conn.bufr /\ conn'.deadline = conn.deadline /\ conn'.hijacked = conn.hijacked
        /\ (conn'.cancelled => conn.cancelled \/ cr.bg \in {"eof", "closed"})
    <3>1. cr.bg \in {"byte", "eof", "timeout", "closed"} /\ (cr.bg = "timeout" => cr.aborted) BY <1>2 DEF BackgroundReadEnds, AbortInv
    <3>2. \/ conn' = CancelOn("none", conn)
          \/ cr.bg \in {"eof", "closed"} /\ conn' = CancelOn(cr.bg, conn)
      BY <2>1, <3>1
    <3> QED BY <3>2 DEF CancelOn
  <2>3. AbortInv' BY <1>0, <2>1, <2>2 DEF AbortInv
  <2>4. CancelInv'
    <3>1. CASE conn'.cancelled /\ ~Lost
      <4>1. conn.cancelled BY <2>2, <3>1 DEF AbortInv, Lost
      <4>2. ~TimedOut BY <1>0 DEF TimedOut
      <4> QED BY <1>0, <2>1, <2>2, <3>1, <4>1, <4>2 DEF CancelInv
    <3>2. CASE Lost BY <2>1, <2>2, <3>2 DEF CancelInv, Lost
    <3> QED BY <3>1, <3>2 DEF CancelInv
  <2> QED BY <2>3, <2>4
<1> QED BY <1>1, <1>2

\* A read of the connection, by one who needs it: a deadline it may hit is that of a head, or of a
\* body that is then not read to its end.
LEMMA Readers ==
  ASSUME IInv, NEW by \in {"serve", "handler"}, by = "serve" => ServeReads, by = "handler" => HandlerReads, Dry
  PROVE  /\ conn.rerr = "none"
         /\ \/ conn.at = "read" /\ Len(conn.bufr) < 1
            \/ conn.at = "peek" /\ Len(conn.bufr) < 2
            \/ conn.at \in {"handler", "finish"} /\ ~bdy.sawEOF /\ ~conn.hijacked /\ Len(conn.bufr) < 1
            \/ conn.at \in Stopping /\ w.closeAfter
<1>1. conn.rerr = "none" /\ (Len(conn.bufr) < IF conn.at = "peek" THEN 2 ELSE 1) BY DEF Dry
<1>2. /\ conn.at = "bodyclose" => w.header # "no"
      /\ w.header # "no" /\ ~w.closeAfter => bdy.sawEOF
      /\ w.discarded \in Int
  BY DEF IInv, ControlInv, ReplyInv
<1>3. CASE ServeReads
  <2>1. CASE conn.at \in {"read", "peek"} BY <1>1, <2>1
  <2>2. CASE conn.at = "bodyclose" /\ CloseReads BY <1>1, <1>2, <2>2 DEF CloseReads, CloseAtOnce, Stopping
  <2>3. CASE w.discarded \in 0..MaxDiscard /\ ~BodyOver
    <3>1. w.discarded # -1 /\ ~bdy.sawEOF
      <4>1. MaxDiscard \in Nat BY HTTPServerAssumption DEF HTTPServerAssumption
      <4> QED BY <2>3, <4>1 DEF BodyOver
    <3>2. w.todo # "none" /\ ~conn.hijacked /\ conn.at \in {"finish", "handler"} BY <3>1 DEF IInv, ControlInv
    <3> QED BY <1>1, <3>1, <3>2
  <2> QED BY <1>3, <2>1, <2>2, <2>3 DEF ServeReads
<1>4. CASE HandlerReads
  <2>1. ~bdy.sawEOF /\ hnd.at \in {"reading", "closing"}
    BY <1>4 DEF HandlerReads, CloseReads, CloseAtOnce, IInv, ControlInv
  <2>2. conn.at \in {"handler", "finish", "abort", "aborting", "bodyclose"} /\ (conn.hijacked => hnd.at = "run" \/ conn.at = "done")
    BY <2>1 DEF IInv, ControlInv, Finishing
  <2>3. conn.at \in Stopping => w.header # "no" BY DEF IInv, ControlInv, Stopping
  <2> QED BY <1>1, <1>2, <2>1, <2>2, <2>3 DEF Stopping
<1> QED BY <1>3, <1>4

\* A read of the connection that fails.
LEMMA ReadCancels ==
  ASSUME IInv, AbortInv, CancelInv, (\E who \in {"serve", "handler"} : ConnRead(who)) \/ ConnReadReturns
  PROVE  AbortInv' /\ CancelInv'
<1> USE DEF IInv, Shape, ConnFields, CrFields, NetFields
<1>0. cfg' = cfg /\ bdy' = bdy /\ w' = w /\ conn.rerr = "none" BY DEF ConnRead, ConnReadReturns, ReadInv, Dry
<1>1. ASSUME NEW who \in {"serve", "handler"}, ConnRead(who) PROVE AbortInv' /\ CancelInv'
  <2>1. /\ net' = net /\ cr'.aborted = cr.aborted /\ cr'.bg = cr.bg /\ (cr'.byte = cr.byte \/ (cr'.byte = NoUnit /\ cr.byte # NoUnit))
    BY <1>1 DEF ConnRead
  <2>2. /\ conn'.at = conn.at /\ conn'.err = conn.err /\ conn'.closed = conn.closed /\ conn'.werr = conn.werr
        /\ conn'.rerr = conn.rerr /\ conn'.deadline = conn.deadline /\ conn'.hijacked = conn.hijacked
        /\ conn'.cancelled = conn.cancelled
        /\ (cr.byte = NoUnit => conn'.bufr = conn.bufr /\ cr'.byte = cr.byte)
    BY <1>1 DEF ConnRead
  <2>3. AbortInv' BY <1>0, <2>1, <2>2 DEF AbortInv
  <2>4. CancelInv' BY <1>0, <2>1, <2>2 DEF CancelInv, Lost, TimedOut
  <2> QED BY <2>3, <2>4
<1>2. CASE ConnReadReturns
  <2>1. /\ cr.by \in {"serve", "handler"} /\ cr.bg = "off" /\ cr.byte = NoUnit /\ cr.inRead
        /\ cr.by = "serve" => ServeReads
        /\ cr.by = "handler" => HandlerReads
        /\ Dry
    BY <1>2 DEF ConnReadReturns, ReadInv
  <2>2. /\ \/ conn.at = "read" /\ Len(conn.bufr) < 1
           \/ conn.at = "peek" /\ Len(conn.bufr) < 2
           \/ conn.at \in {"handler", "finish"} /\ ~bdy.sawEOF /\ ~conn.hijacked /\ Len(conn.bufr) < 1
           \/ conn.at \in Stopping /\ w.closeAfter
    BY <2>1, Readers
  <2>3. Len(conn.bufr) < 1 => conn.bufr = <<>> OBVIOUS
  <2>4. /\ cr'.aborted = cr.aborted /\ cr'.bg = cr.bg /\ cr'.byte = cr.byte /\ net'.gone = net.gone
    BY <1>2 DEF ConnReadReturns
  <2>5. CASE \E n \in {1, Len(Socket)} :
               /\ ~conn.closed /\ Socket # <<>> /\ (conn.deadline # "past" \/ cr.aborted)
               /\ conn' = [conn EXCEPT !.bufr = @ \o SubSeq(Socket, 1, n), !.readAny = TRUE]
    <3>1. /\ conn'.at = conn.at /\ conn'.err = conn.err /\ conn'.closed = conn.closed /\ conn'.werr = conn.werr
          /\ conn'.rerr = conn.rerr /\ conn'.deadline = conn.deadline /\ conn'.hijacked = conn.hijacked
          /\ conn'.cancelled = conn.cancelled /\ (conn.deadline # "past" \/ cr.aborted)
      BY <2>5
    <3>2. AbortInv' BY <1>0, <2>4, <3>1 DEF AbortInv
    <3>3. ~(conn.at \in InHandler \cup {"finish"} /\ TimedOut) BY <2>1, <2>2, <3>1 DEF TimedOut, AbortInv, InHandler, Stopping
    <3>4. CancelInv' BY <1>0, <2>4, <3>1, <3>3 DEF CancelInv, Lost
    <3> QED BY <3>2, <3>4
  <2>6. CASE \E e \in {"closed", "eof", "timeout"} :
               /\ CASE e = "closed"  -> conn.closed
                    [] e = "eof"     -> ~conn.closed /\ Socket = <<>> /\ net.gone
                    [] e = "timeout" -> ~conn.closed /\ conn.deadline # "none"
               /\ conn' = CancelOn(e, [conn EXCEPT !.rerr = e, !.deadline = IF e = "timeout" THEN "past" ELSE @])
    <3>1. PICK e \in {"closed", "eof", "timeout"} :
               /\ CASE e = "closed"  -> conn.closed
                    [] e = "eof"     -> ~conn.closed /\ Socket = <<>> /\ net.gone
                    [] e = "timeout" -> ~conn.closed /\ conn.deadline # "none"
               /\ conn' = CancelOn(e, [conn EXCEPT !.rerr = e, !.deadline = IF e = "timeout" THEN "past" ELSE @])
      BY <2>6
    <3>2. /\ conn'.at = conn.at /\ conn'.err = conn.err /\ conn'.closed = conn.closed /\ conn'.werr = conn.werr
          /\ conn'.rerr = e /\ conn'.bufr = conn.bufr /\ conn'.hijacked = conn.hijacked
          /\ conn'.deadline = IF e = "timeout" THEN "past" ELSE conn.deadline
      BY <3>1 DEF CancelOn
    <3>3. (e = "closed" => conn.closed) /\ (e = "eof" => net.gone) /\ (e = "timeout" => conn.deadline # "none")
      BY <3>1
    <3>4. AbortInv' BY <1>0, <2>1, <2>4, <3>2, <3>3 DEF AbortInv
    <3>5. CASE e # "timeout" BY <2>4, <3>1, <3>2, <3>3, <3>4, <3>5 DEF CancelInv, Lost
    <3>6. CASE e = "timeout"
      <4>1. conn.at \in {"handler", "finish"} => cfg.timeouts BY <3>3, <3>6 DEF AbortInv
      <4>2. conn.at \in {"handler", "finish"} /\ ~(conn.at \in Stopping) => TimedOut'
        BY <1>0, <2>1, <2>2, <2>3, <2>4, <3>2, <3>6, <4>1 DEF TimedOut
      <4> QED BY <1>0, <2>2, <2>3, <3>2, <3>4, <3>6, <4>2 DEF CancelInv, InHandler, Stopping
    <3> QED BY <3>4, <3>5, <3>6
  <2> QED BY <1>2, <2>5, <2>6 DEF ConnReadReturns
<1> QED BY <1>1, <1>2

\* A read of a body that fails by its deadline leaves the body short.
LEMMA BodyCancels ==
  ASSUME IInv, AbortInv, CancelInv, Reading, ~bdy.sawEOF, NEW b, Made(b), b.sawEOF <=> ReadOutcome.sawEOF, BodyRead(b),
         ReadPossible, cfg' = cfg, net' = net, w'.closeAfter = w.closeAfter
  PROVE  AbortInv' /\ CancelInv'
<1> USE DEF IInv
<1>1. conn.at \in {"handler"} \cup (Finishing \ {"decide"}) /\ ~conn.hijacked BY ReadersAlone
<1>2. /\ conn'.at = conn.at /\ conn'.err = conn.err /\ conn'.hijacked = conn.hijacked
      /\ conn'.cancelled = conn.cancelled /\ conn'.closed = conn.closed /\ conn'.werr = conn.werr
      /\ conn'.deadline = (IF b.sawEOF /\ b.hook /\ ~cr.inRead /\ cr.byte = NoUnit THEN "none" ELSE conn.deadline)
      /\ conn.bufr = <<>> => conn'.bufr = <<>>
  BY BodyReadStays
<1>3. bdy'.sawEOF = b.sawEOF BY DEF BodyRead, Made, BdyFields
<1>4. /\ cr'.aborted = cr.aborted /\ cr'.byte = cr.byte
      /\ \/ cr'.bg = cr.bg
         \/ cr'.bg = "read" /\ b.sawEOF /\ b.hook /\ ~cr.inRead /\ cr.byte = NoUnit
  BY DEF BodyRead, StartBackgroundRead, Shape, CrFields
<1>5. cr.bg = "off" BY DEF ReadInv
<1>6. conn.bufr = <<>> /\ b.sawEOF => net.gone
  <2>1. CASE conn.bufr = <<>> /\ b.sawEOF
    <3>1. BodyFails(bdy, conn.rerr).sawEOF BY <2>1 DEF ReadOutcome
    <3>2. conn.rerr = "eof" BY <3>1 DEF BodyFails, Shape, BdyFields
    <3> QED BY <3>2 DEF EofInv, NoMore
  <2> QED BY <2>1
<1>7. AbortInv' BY <1>1, <1>2, <1>4, <1>5 DEF AbortInv, Finishing
<1>8. CancelInv'
  <2>1. CASE ~conn.cancelled \/ Lost BY <1>2, <2>1 DEF CancelInv, Lost
  <2>2. CASE conn.at \in Stopping /\ w.closeAfter BY <1>2, <2>2 DEF CancelInv
  <2>3. CASE conn.at \in InHandler \cup {"finish"} /\ TimedOut
    <3>1. CASE b.sawEOF BY <1>2, <1>6, <2>3, <3>1 DEF CancelInv, Lost, TimedOut
    <3>2. CASE ~b.sawEOF BY <1>2, <1>3, <1>4, <2>3, <3>2 DEF CancelInv, TimedOut
    <3> QED BY <3>1, <3>2
  <2> QED BY <1>1, <2>1, <2>2, <2>3 DEF CancelInv, Finishing
<1> QED BY <1>7, <1>8

\* The same of body.Close.
LEMMA DrainCancels ==
  ASSUME IInv, AbortInv, CancelInv, Reading, CloseDrains, cfg' = cfg, net' = net, w' = w
  PROVE  AbortInv' /\ CancelInv'
<1> DEFINE b == [ReadOutcome EXCEPT !.drained = @ + BodyBytes, !.closed = @ \/ conn.bufr = <<>>]
<1>1. ~bdy.sawEOF /\ ReadPossible BY DEF CloseDrains, CloseReads, CloseAtOnce
<1>2. Made(b) /\ (b.sawEOF <=> ReadOutcome.sawEOF) BY OutcomeShape DEF IInv
<1>3. BodyRead(b) BY DEF CloseDrains
<1> HIDE DEF b
<1> QED BY <1>1, <1>2, <1>3, BodyCancels

\* The readers of a body.
LEMMA BodyActsCancel ==
  ASSUME IInv, AbortInv, CancelInv, HandlerGets \/ HandlerClosing \/ FinishBody \/ HeaderDiscards
  PROVE  AbortInv' /\ CancelInv'
<1> USE DEF IInv
<1>1. CASE HandlerGets
  <2>1. Reading /\ ~bdy.sawEOF BY <1>1 DEF HandlerGets, Reading, ControlInv
  <2>2. Made(ReadOutcome) BY OutcomeShape
  <2>3. w'.closeAfter = w.closeAfter BY <1>1 DEF HandlerGets, Shape, WFields
  <2> QED BY <1>1, <2>1, <2>2, <2>3, BodyCancels DEF HandlerGets
<1>2. CASE HandlerClosing
  <2>1. CASE CloseDrains BY <1>2, <2>1, DrainCancels DEF HandlerClosing, Reading
  <2>2. CASE CloseBody /\ UNCHANGED <<conn, cr>>
    <3>1. bdy'.sawEOF = bdy.sawEOF BY <2>2 DEF CloseBody, Shape, BdyFields
    <3>2. Steady BY <1>2, <2>2, <3>1 DEF HandlerClosing, Steady
    <3> QED BY <3>2, SteadyKeeps
  <2> QED BY <1>2, <2>1, <2>2 DEF HandlerClosing
<1>3. CASE FinishBody
  <2>1. CASE CloseDrains BY <1>3, <2>1, DrainCancels DEF FinishBody, Reading
  <2>2. CASE CloseBody /\ conn' = [conn EXCEPT !.at = "decide"] /\ UNCHANGED cr
    <3>1. bdy'.sawEOF = bdy.sawEOF BY <2>2 DEF CloseBody, Shape, BdyFields
    <3>2. Steady BY <1>3, <2>2, <3>1 DEF FinishBody, Steady, Shape, ConnFields
    <3> QED BY <3>2, SteadyKeeps
  <2> QED BY <1>3, <2>1, <2>2 DEF FinishBody
<1>4. CASE HeaderDiscards
  <2>1. conn.at \in {"handler", "finish"} /\ cfg' = cfg /\ net' = net BY <1>4 DEF HeaderDiscards, ControlInv
  <2>2. CASE ~BodyOver /\ ReadPossible /\ BodyRead([ReadOutcome EXCEPT !.failed = @ \/ conn.bufr = <<>>])
             /\ w' = [w EXCEPT !.discarded = @ + BodyBytes] /\ w.discarded <= MaxDiscard
    <3> DEFINE b == [ReadOutcome EXCEPT !.failed = @ \/ conn.bufr = <<>>]
    <3>1. ~bdy.sawEOF /\ Reading BY <1>4, <2>2 DEF HeaderDiscards, BodyOver, Reading
    <3>2. Made(b) /\ (b.sawEOF <=> ReadOutcome.sawEOF) /\ BodyRead(b) BY <2>2, OutcomeShape
    <3>3. w'.closeAfter = w.closeAfter BY <2>2 DEF Shape, WFields
    <3> HIDE DEF b
    <3> QED BY <2>1, <2>2, <3>1, <3>2, <3>3, BodyCancels
  <2>3. CASE UNCHANGED <<conn, cr>> /\ (bdy' = bdy \/ bdy' = [bdy EXCEPT !.closed = TRUE])
    <3>1. bdy'.sawEOF = bdy.sawEOF BY <2>3 DEF Shape, BdyFields
    <3>2. Steady BY <2>1, <2>3, <3>1 DEF Steady, Stopping
    <3> QED BY <3>2, SteadyKeeps
  <2> QED BY <1>4, <2>2, <2>3 DEF HeaderDiscards
<1> QED BY <1>1, <1>2, <1>3, <1>4

\* The head of a request, and what comes between two requests.
LEMMA HeadCancels ==
  ASSUME IInv, AbortInv, CancelInv, ReadRequest \/ ReadHead \/ ReadHeadFails \/ Idle \/ Peeked \/ CloseConn
  PROVE  AbortInv' /\ CancelInv'
<1> USE DEF IInv, Shape, ConnFields
<1>0. cfg' = cfg /\ cr' = cr /\ net' = net
  BY DEF ReadRequest, ReadHead, ReadHeadFails, Idle, Peeked, CloseConn
<1>1. /\ conn'.closed = conn.closed \/ conn'.closed
      /\ conn'.werr = conn.werr
      /\ conn'.deadline = conn.deadline \/ conn'.deadline = "none" \/ (conn'.deadline = "set" /\ cfg.timeouts /\ conn.at \in {"start", "read", "idle"})
      /\ \/ conn.at = "start" /\ conn'.at = "read" /\ conn'.cancelled = conn.cancelled
         \/ conn.at = "read" /\ conn.bufr # <<>> /\ conn'.at \in {"read", "parsed"} /\ conn'.cancelled = conn.cancelled
         \/ conn.at = "read" /\ conn'.at = "parsed" /\ conn'.err = "net" /\ conn'.cancelled = conn.cancelled
         \/ conn.at = "idle" /\ conn'.at \in {"closing", "peek", "start"} /\ conn'.cancelled = conn.cancelled
         \/ conn.at = "peek" /\ Len(conn.bufr) >= 2 /\ conn'.at = "start" /\ conn'.cancelled = conn.cancelled
         \/ conn.at = "peek" /\ conn'.at = "closing" /\ conn'.cancelled = conn.cancelled
         \/ conn.at = "closing" /\ conn'.at = "closed" /\ conn'.closed
  <2>1. CASE ReadRequest BY <2>1 DEF ReadRequest
  <2>2. CASE ReadHead
    <3> DEFINE c == [conn EXCEPT !.bufr = Tail(@), !.parsed = @ + 1]
               u == Head(conn.bufr)
               e0 == IF net.reqs[u.id].bad \in {"no", "expectation"} THEN "none" ELSE net.reqs[u.id].bad
    <3>1. /\ DOMAIN c = ConnFields /\ c.at = conn.at /\ c.closed = conn.closed /\ c.werr = conn.werr /\ c.deadline = conn.deadline
          /\ c.cancelled = conn.cancelled
      OBVIOUS
    <3>2. /\ conn.at = "read" /\ conn.bufr # <<>>
          /\ \/ conn' = [c EXCEPT !.part = 1]
             \/ conn' = [c EXCEPT !.at = "parsed", !.err = "bad"]
             \/ conn' = [c EXCEPT !.at = "parsed", !.err = e0, !.deadline = IF cfg.timeouts THEN "set" ELSE "none", !.readAny = TRUE]
      BY <2>2 DEF ReadHead
    <3> HIDE DEF c, u, e0
    <3>3. CASE conn' = [c EXCEPT !.part = 1] BY <3>1, <3>2, <3>3
    <3>4. CASE conn' = [c EXCEPT !.at = "parsed", !.err = "bad"] BY <3>1, <3>2, <3>4
    <3>5. CASE conn' = [c EXCEPT !.at = "parsed", !.err = e0, !.deadline = IF cfg.timeouts THEN "set" ELSE "none", !.readAny = TRUE]
      BY <3>1, <3>2, <3>5
    <3> QED BY <3>2, <3>3, <3>4, <3>5
  <2>3. CASE ReadHeadFails BY <2>3 DEF ReadHeadFails
  <2>4. CASE Idle BY <2>4 DEF Idle
  <2>5. CASE Peeked
    <3>1. CASE Len(conn.bufr) >= 2 BY <2>5, <3>1 DEF Peeked
    <3>2. CASE ~(Len(conn.bufr) >= 2) BY <2>5, <3>2 DEF Peeked
    <3> QED BY <3>1, <3>2
  <2>6. CASE CloseConn BY <2>6 DEF CloseConn
  <2> QED BY <2>1, <2>2, <2>3, <2>4, <2>5, <2>6
<1>2. conn.at \in {"start", "read", "idle"} => cr.bg = "off" BY DEF ReadInv
<1>3. AbortInv' BY <1>0, <1>1, <1>2 DEF AbortInv
<1>4. CancelInv'
  <2>1. CASE conn.at \notin {"start", "idle"} /\ ~(conn.at = "read" /\ conn.bufr # <<>>) /\ ~(conn.at = "peek" /\ Len(conn.bufr) >= 2)
    BY <1>1, <2>1 DEF CancelInv, Lost
  <2>2. CASE conn.at \in {"start", "idle"} \/ (conn.at = "read" /\ conn.bufr # <<>>) \/ (conn.at = "peek" /\ Len(conn.bufr) >= 2)
    <3>1. conn.at = "peek" /\ Len(conn.bufr) >= 2 => ~(Len(conn.bufr) < 2) OBVIOUS
    <3>2. ~conn.cancelled \/ Lost BY <2>2, <3>1 DEF CancelInv, InHandler, Stopping
    <3>3. conn'.cancelled = conn.cancelled BY <1>1, <2>2
    <3> QED BY <1>0, <1>1, <3>2, <3>3 DEF CancelInv, Lost
  <2> QED BY <2>1, <2>2
<1> QED BY <1>3, <1>4

\* The background read starts without a deadline.
LEMMA DispatchCancels == ASSUME IInv, AbortInv, CancelInv, Dispatch PROVE AbortInv' /\ CancelInv'
<1> USE DEF IInv, Shape, ConnFields, CrFields
<1>0. conn.at = "dispatch" /\ cfg' = cfg /\ net' = net /\ cr.bg = "off" BY DEF Dispatch, ReadInv
<1>1. /\ conn'.at \in {"handler", "finish"} /\ conn'.cancelled = conn.cancelled /\ conn'.closed = conn.closed /\ conn'.werr = conn.werr
      /\ cr'.aborted = cr.aborted
      /\ \/ cr'.bg = "off" /\ (conn'.deadline = conn.deadline \/ conn'.deadline = "none")
         \/ cr'.bg = "read" /\ conn'.deadline = "none"
  <2>1. CASE req.bad = "expectation" BY <1>0, <2>1 DEF Dispatch
  <2>2. CASE req.bad # "expectation"
    <3> DEFINE c == IF bdy.sawEOF THEN StartClearsDeadline(conn) ELSE conn
    <3>1. /\ DOMAIN c = ConnFields /\ c.cancelled = conn.cancelled /\ c.closed = conn.closed /\ c.werr = conn.werr
          /\ c.deadline = IF bdy.sawEOF /\ ~cr.inRead /\ cr.byte = NoUnit THEN "none" ELSE conn.deadline
      BY DEF StartClearsDeadline
    <3>2. conn' = [c EXCEPT !.at = "handler", !.served = @ + 1] /\ cr' = IF bdy.sawEOF THEN StartBackgroundRead ELSE cr
      BY <2>2 DEF Dispatch
    <3>3. /\ cr'.aborted = cr.aborted
          /\ \/ cr'.bg = cr.bg
             \/ cr'.bg = "read" /\ bdy.sawEOF /\ ~cr.inRead /\ cr.byte = NoUnit
      BY <3>2 DEF StartBackgroundRead
    <3> HIDE DEF c
    <3> QED BY <1>0, <3>1, <3>2, <3>3
  <2> QED BY <2>1, <2>2
<1>2. AbortInv' BY <1>0, <1>1 DEF AbortInv
<1>3. CancelInv' BY <1>0, <1>1 DEF CancelInv, Lost, InHandler, Stopping
<1> QED BY <1>2, <1>3

\* abortPendingRead: the read it wakes is the background read, for Hijack, or one of a body that
\* closes the connection.
LEMMA AbortCancels ==
  ASSUME IInv, AbortInv, CancelInv, AbortPendingRead \/ AbortWaited \/ Hijacked
  PROVE  AbortInv' /\ CancelInv'
<1> USE DEF IInv, Shape, ConnFields, CrFields
<1>0. cfg' = cfg /\ net' = net /\ bdy' = bdy /\ w' = w BY DEF AbortPendingRead, AbortWaited, Hijacked
<1>1. CASE AbortPendingRead /\ cr.inRead
  <2>1. /\ conn.at \in {"abort", "hijack"} /\ cr'.aborted /\ cr'.bg = cr.bg /\ cr'.byte = cr.byte
        /\ conn'.deadline = "past" /\ conn'.at = (IF conn.at = "abort" THEN "aborting" ELSE "hijacking")
        /\ conn'.cancelled = conn.cancelled /\ conn'.closed = conn.closed /\ conn'.werr = conn.werr /\ conn'.bufr = conn.bufr
        /\ conn'.hijacked = conn.hijacked
    BY <1>1 DEF AbortPendingRead
  <2>2. CASE cr.bg # "off"
    <3>1. bdy.sawEOF BY <2>2 DEF ReadInv
    <3>2. AbortInv' BY <1>0, <2>1, <2>2, <3>1 DEF AbortInv
    <3>3. CancelInv' BY <1>0, <2>1, <3>1 DEF CancelInv, Lost, TimedOut, InHandler, Stopping
    <3> QED BY <3>2, <3>3
  <2>3. CASE cr.bg = "off"
    <3>1. /\ cr.by \in {"serve", "handler"} /\ (cr.by = "serve" => ServeReads) /\ (cr.by = "handler" => HandlerReads) /\ Dry
      BY <1>1, <2>3 DEF ReadInv
    <3>2. conn.at = "abort" /\ w.closeAfter BY <2>1, <3>1, Readers DEF Stopping
    <3>3. AbortInv' BY <1>0, <2>1, <2>3, <3>2 DEF AbortInv
    <3>4. CancelInv' BY <1>0, <2>1, <3>2 DEF CancelInv, Stopping
    <3> QED BY <3>3, <3>4
  <2> QED BY <2>2, <2>3
<1>2. CASE (AbortPendingRead /\ ~cr.inRead) \/ AbortWaited
  <2>1. cr.bg = "off" /\ ~cr.inRead BY <1>2 DEF AbortWaited, ReadInv
  <2>2. /\ cr' = cr
        /\ conn'.cancelled = conn.cancelled /\ conn'.closed = conn.closed /\ conn'.werr = conn.werr /\ conn'.bufr = conn.bufr
        /\ conn'.hijacked = conn.hijacked
        /\ \/ conn.at = "abort" /\ conn'.at = "bodyclose" /\ conn'.deadline = conn.deadline
           \/ conn.at = "hijack" /\ conn'.at = "hijacked" /\ conn'.deadline = conn.deadline
           \/ conn.at = "aborting" /\ conn'.at = "bodyclose" /\ conn'.deadline = "none"
           \/ conn.at = "hijacking" /\ conn'.at = "hijacked" /\ conn'.deadline = "none"
    <3>1. CASE AbortPendingRead /\ ~cr.inRead BY <3>1 DEF AbortPendingRead
    <3>2. CASE AbortWaited BY <3>2 DEF AbortWaited
    <3> QED BY <1>2, <3>1, <3>2
  <2>3. AbortInv' BY <1>0, <2>1, <2>2 DEF AbortInv
  <2>4. CancelInv' BY <1>0, <2>2 DEF CancelInv, Lost, TimedOut, AbortInv, InHandler, Stopping
  <2> QED BY <2>3, <2>4
<1>3. CASE Hijacked
  <2>1. /\ conn.at = "hijacked" /\ cr'.aborted = cr.aborted /\ cr'.bg = cr.bg /\ cr'.byte = NoUnit
        /\ conn' = [SetState(conn, "hijacked") EXCEPT !.at = "handler", !.hijacked = TRUE, !.deadline = "none",
                       !.bufr = IF cr.byte # NoUnit THEN Append(@, cr.byte) ELSE @]
    BY <1>3 DEF Hijacked
  <2>2. /\ conn'.at = "handler" /\ conn'.hijacked /\ conn'.deadline = "none" /\ conn'.cancelled = conn.cancelled
        /\ conn'.closed = conn.closed /\ conn'.werr = conn.werr /\ (cr.byte = NoUnit => conn'.bufr = conn.bufr)
    BY <2>1 DEF SetState
  <2>3. AbortInv' BY <1>0, <2>1, <2>2 DEF AbortInv
  <2>4. CancelInv' BY <1>0, <2>1, <2>2 DEF CancelInv, Lost, TimedOut, InHandler, Stopping
  <2> QED BY <2>3, <2>4
<1> QED BY <1>1, <1>2, <1>3

\* Every action keeps what is said of the context.
LEMMA CancelSteps == ASSUME IInv, AbortInv, CancelInv, [Next]_vars PROVE AbortInv' /\ CancelInv'
<1>1. CASE Client \/ Operator BY <1>1, EnvironmentSteady, SteadyKeeps
<1>2. CASE Reader BY <1>2, BackgroundCancels, ReadCancels DEF Reader
<1>3. CASE Serve
  <2>1. CASE Accept \/ TrackNew \/ GoServe \/ SetActive \/ StateClosed \/ Refuse \/ HeaderStarts \/ RefusalFinishes \/ Decide
    BY <2>1, ServeSteady, SteadyKeeps
  <2>2. CASE ReadRequest \/ ReadHead \/ ReadHeadFails \/ Idle \/ Peeked \/ CloseConn BY <2>2, HeadCancels
  <2>3. CASE Dispatch BY <2>3, DispatchCancels
  <2>4. CASE FinishBody \/ HeaderDiscards BY <2>4, BodyActsCancel
  <2>5. CASE Continue BY <2>5, ContinueSteady, SteadyKeeps
  <2>6. CASE TimeoutDone \/ TimeoutPanic BY <2>6, HandlerSteady, SteadyKeeps
  <2>7. CASE AbortPendingRead \/ AbortWaited \/ Hijacked BY <2>7, AbortCancels
  <2> QED BY <1>3, <2>1, <2>2, <2>3, <2>4, <2>5, <2>6, <2>7 DEF Serve
<1>4. CASE Waiting BY <1>4, BodyActsCancel DEF Waiting
<1>5. CASE Handler
  <2>1. ASSUME NEW what \in {"flush", "sendfile", "hijack"}, HandlerAsks(what) PROVE Steady BY <2>1, AsksSteady
  <2>2. Steady BY <1>5, <2>1, HandlerSteady
  <2> QED BY <2>2, SteadyKeeps
<1>6. CASE TimeoutFires BY <1>6, HandlerSteady, SteadyKeeps
<1>7. CASE Done \/ UNCHANGED vars
  <2>1. Steady BY <1>7 DEF Done, vars, Steady
  <2> QED BY <2>1, SteadyKeeps
<1> QED BY <1>1, <1>2, <1>3, <1>4, <1>5, <1>6, <1>7 DEF Next

\* CancelledByLoss for any requests, settings and handlers: the context of a request is cancelled
\* while its handler runs only when the client is gone, the connection is closed or broken, or a
\* read of the body has met ReadTimeout.
THEOREM CancelledOnlyByLoss == Spec => []CancelledByLoss
<1>1. Init => AbortInv /\ CancelInv BY DEF Init, AbortInv, CancelInv
<1>2. IInv /\ AbortInv /\ CancelInv /\ [Next]_vars => (AbortInv /\ CancelInv)' BY CancelSteps
<1>3. IInv /\ AbortInv /\ CancelInv => CancelledByLoss
  <2>1. IInv /\ ~bdy.sawEOF => bdy.present BY DEF IInv, ReplyInv
  <2> QED BY <2>1 DEF CancelInv, CancelledByLoss, Lost, TimedOut, InHandler, Stopping
<1> QED BY <1>1, <1>2, <1>3, Invariance, PTL DEF Spec

-----------------------------------------------------------------------------
(* Shutdown spares a connection with a request.                             *)

\* Where a connection is known to the server, and what its state word says.
Begun == conn.at \notin {"accept", "accepted", "done"}
SpareInv ==
  /\ DOMAIN srv = {"down", "noKeepAlives", "shutdown"}
  /\ conn.at = "parsed" /\ conn.err = "none" => conn.readAny
  /\ Served => conn.state \in {"active", "hijacked"}
  /\ Begun => conn.tracked \/ conn.closed \/ conn.hijacked

\* What ShutdownSparesActive says of a step.
Spares ==
  /\ ~conn.closed /\ conn'.closed /\ Served => cfg.operator = "close"
  /\ srv.shutdown # srv'.shutdown /\ srv'.shutdown = "returned" => ~conn'.tracked /\ (Served => conn.closed \/ conn.hijacked)

\* Steps that leave the state word and activeConn alone.
SameWord ==
  /\ DOMAIN conn' = ConnFields /\ conn'.state = conn.state /\ conn'.tracked = conn.tracked /\ conn'.closed = conn.closed
  /\ conn'.hijacked = conn.hijacked
Unmarked ==
  /\ srv' = srv /\ SameWord
  /\ \/ conn'.at = conn.at /\ conn'.err = conn.err /\ (conn.readAny => conn'.readAny)
     \/ conn.at = "start" /\ conn'.at = "read"
     \/ conn.at = "read" /\ conn'.at = "parsed" /\ (conn'.err = "none" => conn'.readAny)
     \/ conn.at \in {"idle", "peek"} /\ conn'.at \in {"peek", "start"}
     \/ Begun /\ conn'.at \in {"closing", "done"}
     \/ Served /\ Served'

\* Such a step closes nothing.
LEMMA UnmarkedSpares == ASSUME SpareInv, Unmarked PROVE SpareInv' /\ Spares
BY DEF SpareInv, Unmarked, SameWord, Spares, Begun, Served

\* The client, and the handler while it does not write.
LEMMA HandlerUnmarked ==
  ASSUME Shape, Client \/ (Handler /\ ~\E what \in {"flush", "sendfile", "hijack"} : HandlerAsks(what))
                \/ TimeoutDone \/ TimeoutFires \/ TimeoutPanic
  PROVE  Unmarked
<1> USE DEF Shape, ConnFields, Unmarked, SameWord, Served, Begun, Runs, Acts, Direct
<1>1. CASE Client BY <1>1 DEF Client, ClientRequest, ClientSend, ClientClose
<1>2. CASE HandlerRead BY <1>2 DEF HandlerRead
<1>3. CASE HandlerCloses BY <1>3 DEF HandlerCloses
<1>4. CASE HandlerHeader BY <1>4 DEF HandlerHeader
<1>5. CASE HandlerHitsLimit BY <1>5 DEF HandlerHitsLimit
<1>6. CASE HandlerWrite BY <1>6 DEF HandlerWrite
<1>7. CASE HandlerPanics
  <2>1. CASE cfg.wrapped BY <1>7, <2>1 DEF HandlerPanics
  <2>2. CASE ~cfg.wrapped BY <1>7, <2>2 DEF HandlerPanics
  <2> QED BY <2>1, <2>2
<1>8. CASE HandlerReturns
  <2>1. /\ srv' = srv /\ conn.at = "handler"
        /\ conn' = [conn EXCEPT !.at = IF conn.hijacked THEN "done" ELSE "finish", !.cancelled = @ \/ conn.hijacked]
    BY <1>8 DEF HandlerReturns
  <2> QED BY <2>1
<1>9. CASE TimeoutWrite BY <1>9 DEF TimeoutWrite
<1>10. CASE TimeoutReturn BY <1>10 DEF TimeoutReturn
<1>11. CASE TimeoutDone BY <1>11 DEF TimeoutDone
<1>12. CASE TimeoutFires BY <1>12 DEF TimeoutFires
<1>13. CASE TimeoutPanic BY <1>13 DEF TimeoutPanic
<1> QED BY <1>1, <1>2, <1>3, <1>4, <1>5, <1>6, <1>7, <1>8, <1>9, <1>10, <1>11, <1>12, <1>13 DEF Handler

\* What the handler asks of the response, and what then goes out.
LEMMA WritingUnmarked ==
  ASSUME IInv, (\E what \in {"flush", "sendfile", "hijack"} : HandlerAsks(what)) \/ Continue \/ HeaderStarts \/ RefusalFinishes
  PROVE  Unmarked
<1> USE DEF IInv, Shape, ConnFields, Unmarked, SameWord, Served, Begun
<1>1. ASSUME NEW what \in {"flush", "sendfile", "hijack"}, HandlerAsks(what) PROVE Unmarked
  <2>1. srv' = srv /\ conn.at = "handler" /\ (conn' = conn \/ conn' = [conn EXCEPT !.at = "hijack"])
    BY <1>1 DEF HandlerAsks, Direct, Acts, Runs
  <2> QED BY <2>1
<1>2. CASE Continue
  <2>1. /\ srv' = srv
        /\ w.todo = "hijack" => conn.at = "handler"
        /\ w.todo = "finish" => conn.at = "finish"
    BY <1>2 DEF Continue, ControlInv
  <2>2. ASSUME NEW ok \in BOOLEAN
        PROVE  /\ Flushed(conn, ok).state = conn.state /\ Flushed(conn, ok).tracked = conn.tracked
               /\ Flushed(conn, ok).closed = conn.closed /\ Flushed(conn, ok).hijacked = conn.hijacked
               /\ Flushed(conn, ok).at = conn.at /\ Flushed(conn, ok).err = conn.err
               /\ Flushed(conn, ok).readAny = conn.readAny /\ DOMAIN Flushed(conn, ok) = ConnFields
    BY DEF Flushed
  <2>3. \/ conn' = conn
        \/ \E ok \in BOOLEAN : conn' = Flushed(conn, ok)
        \/ w.todo = "hijack" /\ \E ok \in BOOLEAN : conn' = [Flushed(conn, ok) EXCEPT !.at = "hijack"]
        \/ w.todo = "finish" /\ \E ok \in BOOLEAN : conn' = [Flushed(conn, ok) EXCEPT !.at = "abort"]
    BY <1>2 DEF Continue, WriteOutcomes
  <2>4. CASE conn' = conn BY <2>1, <2>4
  <2>5. CASE \E ok \in BOOLEAN : conn' = Flushed(conn, ok) BY <2>1, <2>2, <2>5
  <2>6. CASE w.todo = "hijack" /\ \E ok \in BOOLEAN : conn' = [Flushed(conn, ok) EXCEPT !.at = "hijack"]
    <3>1. PICK ok \in BOOLEAN : conn' = [Flushed(conn, ok) EXCEPT !.at = "hijack"] BY <2>6
    <3> QED BY <2>1, <2>2, <2>6, <3>1
  <2>7. CASE w.todo = "finish" /\ \E ok \in BOOLEAN : conn' = [Flushed(conn, ok) EXCEPT !.at = "abort"]
    <3>1. PICK ok \in BOOLEAN : conn' = [Flushed(conn, ok) EXCEPT !.at = "abort"] BY <2>7
    <3> QED BY <2>1, <2>2, <2>7, <3>1
  <2> QED BY <2>3, <2>4, <2>5, <2>6, <2>7
<1>3. CASE HeaderStarts BY <1>3 DEF HeaderStarts
<1>4. CASE RefusalFinishes BY <1>4 DEF RefusalFinishes
<1> QED BY <1>1, <1>2, <1>3, <1>4

\* The readers of the connection.
LEMMA ReaderUnmarked == ASSUME Shape, Reader PROVE Unmarked
<1> USE DEF Shape, ConnFields, Unmarked, SameWord
<1>1. CASE BackgroundReadReturns BY <1>1 DEF BackgroundReadReturns
<1>2. CASE BackgroundReadEnds BY <1>2 DEF BackgroundReadEnds, CancelOn
<1>3. CASE \E who \in {"serve", "handler"} : ConnRead(who) BY <1>3 DEF ConnRead
<1>4. CASE ConnReadReturns
  <2>1. /\ srv' = srv
        /\ \/ \E n \in {1, Len(Socket)} : conn' = [conn EXCEPT !.bufr = @ \o SubSeq(Socket, 1, n), !.readAny = TRUE]
           \/ \E e \in {"closed", "eof", "timeout"} :
                conn' = CancelOn(e, [conn EXCEPT !.rerr = e, !.deadline = IF e = "timeout" THEN "past" ELSE @])
    BY <1>4 DEF ConnReadReturns
  <2>2. CASE \E n \in {1, Len(Socket)} : conn' = [conn EXCEPT !.bufr = @ \o SubSeq(Socket, 1, n), !.readAny = TRUE]
    BY <2>1, <2>2
  <2>3. CASE \E e \in {"closed", "eof", "timeout"} :
               conn' = CancelOn(e, [conn EXCEPT !.rerr = e, !.deadline = IF e = "timeout" THEN "past" ELSE @])
    BY <2>1, <2>3 DEF CancelOn
  <2> QED BY <2>1, <2>2, <2>3
<1> QED BY <1>1, <1>2, <1>3, <1>4 DEF Reader

\* The readers of a body.
LEMMA BodyUnmarked == ASSUME Shape, HandlerGets \/ HandlerClosing \/ FinishBody \/ HeaderDiscards PROVE Unmarked
<1> USE DEF Shape, ConnFields, Unmarked, SameWord
<1>1. ASSUME NEW b, BodyRead(b), srv' = srv PROVE Unmarked
  <2> DEFINE c == IF conn.bufr # <<>> THEN [conn EXCEPT !.bufr = Tail(@), !.parsed = @ + 1] ELSE [conn EXCEPT !.rerr = "none"]
  <2>1. /\ DOMAIN c = ConnFields /\ c.state = conn.state /\ c.tracked = conn.tracked /\ c.closed = conn.closed
        /\ c.hijacked = conn.hijacked /\ c.at = conn.at /\ c.err = conn.err /\ c.readAny = conn.readAny
    OBVIOUS
  <2>2. conn' = c \/ conn' = [c EXCEPT !.deadline = "none"] BY <1>1 DEF BodyRead, StartClearsDeadline
  <2> HIDE DEF c
  <2> QED BY <1>1, <2>1, <2>2
<1>2. CASE HandlerGets BY <1>1, <1>2 DEF HandlerGets
<1>3. CASE HandlerClosing
  <2>1. CASE CloseDrains BY <1>1, <1>3, <2>1 DEF HandlerClosing, CloseDrains
  <2>2. CASE UNCHANGED <<conn, cr>> BY <1>3, <2>2 DEF HandlerClosing
  <2> QED BY <1>3, <2>1, <2>2 DEF HandlerClosing
<1>4. CASE FinishBody
  <2>1. CASE CloseDrains BY <1>1, <1>4, <2>1 DEF FinishBody, CloseDrains
  <2>2. CASE conn' = [conn EXCEPT !.at = "decide"] BY <1>4, <2>2 DEF FinishBody, Served
  <2> QED BY <1>4, <2>1, <2>2 DEF FinishBody
<1>5. CASE HeaderDiscards
  <2>1. CASE conn' = conn BY <1>5, <2>1 DEF HeaderDiscards
  <2>2. CASE conn' # conn
    <3>1. BodyRead([ReadOutcome EXCEPT !.failed = @ \/ conn.bufr = <<>>]) BY <1>5, <2>2 DEF HeaderDiscards
    <3> QED BY <1>1, <1>5, <3>1 DEF HeaderDiscards
  <2> QED BY <2>1, <2>2
<1> QED BY <1>2, <1>3, <1>4, <1>5

\* The serve goroutine between requests, and around its handler.
LEMMA ServeUnmarked ==
  ASSUME IInv, ReadRequest \/ ReadHead \/ ReadHeadFails \/ Refuse \/ Dispatch \/ AbortPendingRead \/ AbortWaited \/ Idle \/ Peeked
  PROVE  Unmarked
<1> USE DEF IInv, Shape, ConnFields, Unmarked, SameWord, Served, Begun
<1>1. CASE ReadRequest BY <1>1 DEF ReadRequest
<1>2. CASE ReadHead
  <2> DEFINE c == [conn EXCEPT !.bufr = Tail(@), !.parsed = @ + 1]
             u == Head(conn.bufr)
             e0 == IF net.reqs[u.id].bad \in {"no", "expectation"} THEN "none" ELSE net.reqs[u.id].bad
             d0 == IF cfg.timeouts THEN "set" ELSE "none"
  <2>1. /\ DOMAIN c = ConnFields /\ c.state = conn.state /\ c.tracked = conn.tracked /\ c.closed = conn.closed
        /\ c.hijacked = conn.hijacked /\ c.at = conn.at /\ c.err = conn.err /\ c.readAny = conn.readAny
    OBVIOUS
  <2>2. /\ conn.at = "read" /\ srv' = srv
        /\ \/ conn' = [c EXCEPT !.part = 1]
           \/ conn' = [c EXCEPT !.at = "parsed", !.err = "bad"]
           \/ conn' = [c EXCEPT !.at = "parsed", !.err = e0, !.deadline = d0, !.readAny = TRUE]
    BY <1>2 DEF ReadHead
  <2> HIDE DEF c, u, e0, d0
  <2>3. CASE conn' = [c EXCEPT !.part = 1] BY <2>1, <2>2, <2>3
  <2>4. CASE conn' = [c EXCEPT !.at = "parsed", !.err = "bad"] BY <2>1, <2>2, <2>4
  <2>5. CASE conn' = [c EXCEPT !.at = "parsed", !.err = e0, !.deadline = d0, !.readAny = TRUE] BY <2>1, <2>2, <2>5
  <2> QED BY <2>2, <2>3, <2>4, <2>5
<1>3. CASE ReadHeadFails BY <1>3 DEF ReadHeadFails
<1>4. CASE Refuse BY <1>4 DEF Refuse
<1>5. CASE Dispatch
  <2> DEFINE c == IF bdy.sawEOF THEN StartClearsDeadline(conn) ELSE conn
  <2>1. /\ DOMAIN c = ConnFields /\ c.state = conn.state /\ c.tracked = conn.tracked /\ c.closed = conn.closed
        /\ c.hijacked = conn.hijacked
    BY DEF StartClearsDeadline
  <2>2. /\ srv' = srv /\ conn.at = "dispatch"
        /\ conn' = [conn EXCEPT !.at = "finish"] \/ conn' = [c EXCEPT !.at = "handler", !.served = @ + 1]
    BY <1>5 DEF Dispatch
  <2> HIDE DEF c
  <2> QED BY <2>1, <2>2
<1>6. CASE AbortPendingRead
  <2>1. /\ srv' = srv /\ conn.at \in {"abort", "hijack"}
        /\ \/ conn' = [conn EXCEPT !.deadline = "past", !.at = IF conn.at = "abort" THEN "aborting" ELSE "hijacking"]
           \/ conn' = [conn EXCEPT !.at = IF conn.at = "abort" THEN "bodyclose" ELSE "hijacked"]
    BY <1>6 DEF AbortPendingRead
  <2> QED BY <2>1
<1>7. CASE AbortWaited BY <1>7 DEF AbortWaited
<1>8. CASE Idle BY <1>8 DEF Idle
<1>9. CASE Peeked
  <2>1. CASE Len(conn.bufr) >= 2 BY <1>9, <2>1 DEF Peeked
  <2>2. CASE ~(Len(conn.bufr) >= 2) BY <1>9, <2>2 DEF Peeked
  <2> QED BY <2>1, <2>2
<1> QED BY <1>1, <1>2, <1>3, <1>4, <1>5, <1>6, <1>7, <1>8, <1>9

\* setState, and the end of a connection.
LEMMA StatesSpare ==
  ASSUME IInv, SpareInv, Accept \/ TrackNew \/ GoServe \/ SetActive \/ Hijacked \/ Decide \/ CloseConn \/ StateClosed
  PROVE  SpareInv' /\ Spares
<1> USE DEF IInv, Shape, ConnFields, SpareInv, Spares, Served, Begun
<1>1. CASE Accept BY <1>1 DEF Accept
<1>2. CASE TrackNew BY <1>2 DEF TrackNew
<1>3. CASE GoServe BY <1>3 DEF GoServe
<1>4. CASE SetActive
  <2>1. CASE conn.readAny BY <1>4, <2>1 DEF SetActive, SetState
  <2>2. CASE ~conn.readAny BY <1>4, <2>2 DEF SetActive
  <2> QED BY <2>1, <2>2
<1>5. CASE Hijacked
  <2>1. /\ srv' = srv /\ conn.at = "hijacked"
        /\ conn' = [SetState(conn, "hijacked") EXCEPT !.at = "handler", !.hijacked = TRUE, !.deadline = "none",
                       !.bufr = IF cr.byte # NoUnit THEN Append(@, cr.byte) ELSE @]
    BY <1>5 DEF Hijacked
  <2>2. conn'.at = "handler" /\ conn'.hijacked /\ conn'.state = "hijacked" /\ conn'.closed = conn.closed BY <2>1 DEF SetState
  <2> QED BY <2>1, <2>2
<1>6. CASE Decide
  <2>1. CASE ShouldReuse BY <1>6, <2>1 DEF Decide, SetState
  <2>2. CASE ~ShouldReuse BY <1>6, <2>2 DEF Decide
  <2> QED BY <2>1, <2>2
<1>7. CASE CloseConn BY <1>7 DEF CloseConn
<1>8. CASE StateClosed BY <1>8 DEF StateClosed, SetState
<1> QED BY <1>1, <1>2, <1>3, <1>4, <1>5, <1>6, <1>7, <1>8

\* The operator: closeIdleConns looks at the state word only.
LEMMA OperatorSpares == ASSUME IInv, SpareInv, Operator PROVE SpareInv' /\ Spares
<1> USE DEF IInv, Shape, ConnFields, SpareInv, Spares, Served, Begun
<1>1. CASE Shutdown BY <1>1 DEF Shutdown
<1>2. /\ Quiescent(conn) => ~CloseIdle(conn).tracked
      /\ \/ CloseIdle(conn) = conn
         \/ ~Served /\ CloseIdle(conn) = [conn EXCEPT !.closed = TRUE, !.tracked = FALSE]
      /\ Served /\ Quiescent(conn) => ~conn.tracked
  BY DEF CloseIdle, Quiescent
<1>3. CASE ShutdownPolls
  <2>1. conn' = CloseIdle(conn) /\ (srv'.shutdown # srv.shutdown => Quiescent(conn)) /\ DOMAIN srv' = DOMAIN srv
    BY <1>3 DEF ShutdownPolls
  <2>2. CASE conn' = conn BY <1>2, <2>1, <2>2
  <2>3. CASE ~Served /\ conn' = [conn EXCEPT !.closed = TRUE, !.tracked = FALSE] BY <2>1, <2>3
  <2> QED BY <1>2, <2>1, <2>2, <2>3
<1>4. CASE ServerClose
  <2>1. srv'.shutdown = srv.shutdown /\ DOMAIN srv' = DOMAIN srv /\ cfg.operator = "close" BY <1>4 DEF ServerClose
  <2>2. CASE conn.tracked BY <1>4, <2>1, <2>2 DEF ServerClose
  <2>3. CASE ~conn.tracked BY <1>4, <2>1, <2>3 DEF ServerClose
  <2> QED BY <2>2, <2>3
<1>5. CASE DisableKeepAlives
  <2>1. srv'.shutdown = srv.shutdown /\ DOMAIN srv' = DOMAIN srv /\ conn' = CloseIdle(conn) BY <1>5 DEF DisableKeepAlives
  <2>2. CASE conn' = conn BY <2>1, <2>2
  <2>3. CASE ~Served /\ conn' = [conn EXCEPT !.closed = TRUE, !.tracked = FALSE] BY <2>1, <2>3
  <2> QED BY <1>2, <2>1, <2>2, <2>3
<1>6. CASE GrowOld BY <1>6 DEF GrowOld
<1> QED BY <1>1, <1>3, <1>4, <1>5, <1>6 DEF Operator

\* Every action.
LEMMA SpareSteps == ASSUME IInv, SpareInv, [Next]_vars PROVE SpareInv' /\ Spares
<1> USE DEF IInv
<1>1. CASE Client \/ TimeoutFires BY <1>1, HandlerUnmarked, UnmarkedSpares
<1>2. CASE Reader BY <1>2, ReaderUnmarked, UnmarkedSpares
<1>3. CASE Serve
  <2>1. CASE ReadRequest \/ ReadHead \/ ReadHeadFails \/ Refuse \/ Dispatch \/ AbortPendingRead \/ AbortWaited \/ Idle \/ Peeked
    BY <2>1, ServeUnmarked, UnmarkedSpares
  <2>2. CASE Accept \/ TrackNew \/ GoServe \/ SetActive \/ Hijacked \/ Decide \/ CloseConn \/ StateClosed BY <2>2, StatesSpare
  <2>3. CASE FinishBody \/ HeaderDiscards BY <2>3, BodyUnmarked, UnmarkedSpares
  <2>4. CASE Continue \/ HeaderStarts \/ RefusalFinishes BY <2>4, WritingUnmarked, UnmarkedSpares
  <2>5. CASE TimeoutDone \/ TimeoutPanic BY <2>5, HandlerUnmarked, UnmarkedSpares
  <2> QED BY <1>3, <2>1, <2>2, <2>3, <2>4, <2>5 DEF Serve
<1>4. CASE Waiting BY <1>4, BodyUnmarked, UnmarkedSpares DEF Waiting
<1>5. CASE Handler
  <2>1. Unmarked BY <1>5, HandlerUnmarked, WritingUnmarked
  <2> QED BY <2>1, UnmarkedSpares
<1>6. CASE Operator BY <1>6, OperatorSpares
<1>7. CASE Done \/ UNCHANGED vars
  <2>1. Unmarked BY <1>7 DEF Done, vars, Unmarked, SameWord, Shape
  <2> QED BY <2>1, UnmarkedSpares
<1> QED BY <1>1, <1>2, <1>3, <1>4, <1>5, <1>6, <1>7 DEF Next

\* ShutdownSparesActive for any requests, settings and handlers: closeIdleConns never closes a
\* connection whose request was handed over, since its state word says active until the server
\* has decided about the next one, and Shutdown returns only when it knows of no such connection.
THEOREM ShutdownSpares == Spec => ShutdownSparesActive
<1>1. Init => SpareInv BY DEF Init, SpareInv, Served, Begun
<1>2. IInv /\ SpareInv /\ [Next]_vars => SpareInv' BY SpareSteps
<1>3. IInv /\ SpareInv /\ [Next]_vars =>
        [/\ ~conn.closed /\ conn'.closed /\ Served => cfg.operator = "close"
         /\ srv.shutdown # srv'.shutdown /\ srv'.shutdown = "returned" => ~conn'.tracked /\ (Served => conn.closed \/ conn.hijacked)]_vars
  BY SpareSteps DEF Spares
<1> QED BY <1>1, <1>2, <1>3, Invariance, PTL DEF Spec, ShutdownSparesActive
=============================================================================
