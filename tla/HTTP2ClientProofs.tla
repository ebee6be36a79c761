-------------------------- MODULE HTTP2ClientProofs --------------------------
(***************************************************************************)
(* Proofs about HTTP2Client for any number of requests, connections and    *)
(* streams, any limits and whatever the server does within the protocol:   *)
(* a request that is sent again was processed by no server before, and the *)
(* frames of a connection are in the order that HTTP/2 asks for.           *)
(*                                                                         *)
(* Most steps are "calm": they open no stream, put neither HEADERS nor     *)
(* DATA on the wire and leave what the server has seen and taken alone.    *)
(* CalmKeeps treats them all at once, and each has a lemma that says it is *)
(* calm.  The others - a dial, a new stream, HEADERS, DATA, the server's   *)
(* reading and its GOAWAY - change one connection and its server, and have *)
(* a proof each from MovesKeep, OthersTrip and WritersElsewhere.           *)
(***************************************************************************)
EXTENDS HTTP2Client, SequenceTheorems, FiniteSetTheorems, TLAPS

-----------------------------------------------------------------------------
(* The inductive invariant.                                                *)

Elems(q) == {q[b] : b \in DOMAIN q}
IsSequence(q) == q \in Seq(Elems(q))

StreamFields == {"r", "b", "resc", "reset", "done", "flow", "inflow", "stop", "started", "first", "headers",
                 "pipe", "perr", "didReset", "bw", "eof", "res", "bres", "watch"}
ConnFields   == {"at", "goAway", "closing", "closed", "next", "streams", "max", "win", "flow", "inflow",
                 "pending", "held", "single", "asleep", "idle", "whenIdle", "reply", "shut", "open", "out",
                 "rd", "on", "val", "s"}
ServerFields == {"down", "init", "last", "top", "open", "ended", "replied", "gave", "got", "rwin", "rconn",
                 "sent", "turns", "seen", "took"}

ConnShape(k) == DOMAIN k = ConnFields /\ DOMAIN k.s = StreamIds /\ \A i \in StreamIds : DOMAIN k.s[i] = StreamFields
\* The fields there are.
Shape ==
  /\ DOMAIN cc = Conns /\ \A c \in Conns : ConnShape(cc[c])
  /\ DOMAIN net = Conns /\ \A c \in Conns : DOMAIN net[c] = ServerFields
  /\ DOMAIN rt = Reqs /\ \A r \in Reqs : DOMAIN rt[r] = {"at", "c", "id", "try", "err", "written"}
  /\ DOMAIN pool = {"conns", "keys", "dialing"}

\* The server n has not processed stream i and never will: it has refused it, or has gone away before it.
Spared(n, i) == i \in StreamIds \ n.took /\ (i \in n.seen \/ (n.last # -1 /\ i > n.last))
\* An answer after which stream i may be repeated is true of it.
True(n, i, v) == v # "unusable" /\ (v \in {"goaway", "refused"} => Spared(n, i))

\* The identifiers of the streams that have been opened on the wire, and of those that were ended on it.
WireOpened(k, n) == n.seen \cup {f.id : f \in {g \in Elems(k.out) : g.t = "HEADERS"}}
WireEnded(k, n) == n.ended \cup {f.id : f \in {g \in Elems(k.out) : g.end}}

\* A body that is being written, with cc.mu or without.
Writes == {"go", "read", "flow", "data", "end"}

\* What may be on its way to the client.
FrameTrue(n, f) ==
  /\ f.t = "HEADERS" => f.what \in {"2xx", "4xx", "100"}
  /\ f.t = "RST" => True(n, f.id, f.what)
  /\ f.t = "GOAWAY" => n.last # -1 /\ f.n \in Int /\ f.n >= n.last
ReaderTrue(k, n) ==
  /\ k.rd \in {"send", "sendforget"} => k.val \in {"2xx", "4xx", "100"}
  /\ k.rd = "reset" => True(n, k.on, k.val)
  /\ k.rd = "goaway" => n.last # -1 /\ k.on \in Int /\ k.on >= n.last
Answers(s) == {s.resc, s.reset, s.res, s.bres}
ServerInv(n) ==
  /\ IsSequence(n.down) /\ \A f \in Elems(n.down) : FrameTrue(n, f)
  /\ n.seen \subseteq StreamIds /\ n.took \subseteq n.seen
  /\ n.last \in Int /\ n.top \in Nat
  /\ \A i \in n.took : i <= n.top /\ (n.last # -1 => i <= n.last)
AnswersInv(k, n) == \A i \in StreamIds : \A v \in Answers(k.s[i]) : True(n, i, v)

\* The frames that wait to be read by the server, oldest first.
OutInv(k, n) ==
  /\ IsSequence(k.out) /\ WireEnded(k, n) \subseteq WireOpened(k, n)
  /\ \A b \in DOMAIN k.out : k.out[b].t = "HEADERS" =>
       /\ k.out[b].id \in StreamIds /\ \A i \in n.seen : i < k.out[b].id
       /\ \A a \in 1..(b - 1) : k.out[a].t = "HEADERS" => k.out[a].id < k.out[b].id
  /\ \A b \in DOMAIN k.out : k.out[b].t = "DATA" =>
       /\ k.out[b].id \in n.seen \/ \E a \in 1..(b - 1) : k.out[a].t = "HEADERS" /\ k.out[a].id = k.out[b].id
       /\ k.out[b].id \notin n.ended /\ \A a \in 1..(b - 1) : k.out[a].id = k.out[b].id => ~k.out[a].end
ConnInv(c) ==
  LET k == cc[c]  n == net[c] IN
  /\ k.next \in Nat /\ (k.at = "none" => k.next = 1)
  /\ \A i \in WireOpened(k, n) : i < k.next
  /\ ServerInv(n) /\ AnswersInv(k, n) /\ ReaderTrue(k, n) /\ OutInv(k, n)

\* A request and its connection.
OnConn == {"got", "trip", "slot", "slotcancelled", "headers", "wait", "forget", "decide", "body", "closing"}
OnStream == {"headers", "wait", "forget", "body", "closing"}
TripGood(r, t) ==
  /\ t.at \in OnConn => t.c \in Conns /\ cc[t.c].at = "up"
  /\ t.at = "dial" => t.c \in Conns /\ cc[t.c].at # "none"
  /\ t.at \in {"start", "dial", "got", "trip", "slot", "slotcancelled"} => t.id = 0
  /\ t.at \in OnStream => t.id \in StreamIds /\ t.id < cc[t.c].next /\ cc[t.c].s[t.id].r = r
  /\ t.at = "headers" =>
       /\ cc[t.c].held /\ t.id + 2 = cc[t.c].next /\ t.id \notin WireOpened(cc[t.c], net[t.c])
       /\ cc[t.c].s[t.id].bw \in {"off", "delay"} /\ (~HasBody(r) => cc[t.c].s[t.id].bw = "off")
  /\ t.at \in {"forget", "decide"} =>
       (t.err = "unusable" => t.id = 0) /\ (t.err \in {"goaway", "refused"} => Spared(net[t.c], t.id))
  \* An earlier stream of the request is no longer the server's business.
  /\ \A c \in Conns : \A i \in StreamIds :
       i < cc[c].next /\ cc[c].s[i].r = r => (c = t.c /\ i = t.id) \/ Spared(net[c], i)
TripInv(r) == TripGood(r, rt[r])

\* Where a body is written, on a connection that still is.
WriterInv(c) ==
  LET k == cc[c] IN
  k.open = "open" => \A i \in StreamIds :
    LET s == k.s[i] IN
    /\ s.bw \in Writes => i \in WireOpened(k, net[c]) \ WireEnded(k, net[c])
    /\ s.bw = "delay" =>
         \/ i \in WireOpened(k, net[c]) \ WireEnded(k, net[c])
         \/ s.r \in Reqs /\ rt[s.r].at = "headers" /\ rt[s.r].c = c /\ rt[s.r].id = i

PoolInv ==
  /\ IsSequence(pool.conns) /\ \A c \in Elems(pool.conns) : c \in Conns /\ cc[c].at = "up"
  /\ pool.dialing # 0 => pool.dialing \in Conns /\ cc[pool.dialing].at # "none"

IInv == /\ Shape /\ PoolInv /\ (\A c \in Conns : ConnInv(c)) /\ (\A r \in Reqs : TripInv(r))
        /\ \A c \in Conns : WriterInv(c)

-----------------------------------------------------------------------------
(* Sequences.                                                              *)

LEMMA SequenceOf ==
  ASSUME NEW S, NEW q \in Seq(S)
  PROVE  IsSequence(q) /\ Elems(q) \subseteq S
BY LenProperties, IsASeq DEF Elems, IsSequence

LEMMA SequenceLength ==
  ASSUME NEW q, IsSequence(q)  PROVE Len(q) \in Nat /\ DOMAIN q = 1..Len(q)
BY LenProperties DEF IsSequence

LEMMA ShortSequences ==
  /\ IsSequence(<<>>) /\ Elems(<<>>) = {}
  /\ \A a : IsSequence(<<a>>) /\ Elems(<<a>>) = {a}
<1>1. IsSequence(<<>>) /\ Elems(<<>>) = {}
  BY DEF IsSequence, Elems
<1>2. ASSUME NEW a  PROVE IsSequence(<<a>>) /\ Elems(<<a>>) = {a}
  <2>1. Elems(<<a>>) = {a}
    BY DEF Elems
  <2> QED  BY <2>1 DEF IsSequence
<1> QED  BY <1>1, <1>2

LEMMA Appended ==
  ASSUME NEW q, NEW a, IsSequence(q)
  PROVE  /\ IsSequence(Append(q, a)) /\ Elems(Append(q, a)) = Elems(q) \cup {a}
         /\ Len(Append(q, a)) = Len(q) + 1 /\ Append(q, a)[Len(q) + 1] = a
         /\ \A b \in 1..Len(q) : Append(q, a)[b] = q[b]
<1> DEFINE S == Elems(q) \cup {a}
           z == Append(q, a)
<1>1. q \in Seq(S)
  BY SeqMonotonic DEF IsSequence
<1>2. z \in Seq(S) /\ Len(z) = Len(q) + 1 /\ z[Len(q) + 1] = a /\ \A b \in 1..Len(q) : z[b] = q[b]
  BY <1>1, AppendProperties
<1>3. IsSequence(z) /\ Elems(z) \subseteq S
  BY <1>2, SequenceOf
<1> HIDE DEF z, S
<1>4. Len(q) \in Nat /\ DOMAIN q = 1..Len(q) /\ DOMAIN z = 1..Len(z)
  BY <1>3, SequenceLength
<1>5. S \subseteq Elems(z)
  BY <1>2, <1>4 DEF Elems, S
<1> QED  BY <1>2, <1>3, <1>5 DEF S, z

LEMMA Shorter ==
  ASSUME NEW q, IsSequence(q), q # <<>>
  PROVE  /\ IsSequence(Tail(q)) /\ Elems(q) = {Head(q)} \cup Elems(Tail(q)) /\ Head(q) = q[1]
         /\ Len(q) \in Nat \ {0} /\ Len(Tail(q)) = Len(q) - 1
         /\ \A b \in 1..(Len(q) - 1) : Tail(q)[b] = q[b + 1]
<1> DEFINE z == Tail(q)
<1>1. Head(q) \in Elems(q) /\ z \in Seq(Elems(q)) /\ Len(z) = Len(q) - 1
      /\ \A b \in 1..Len(z) : z[b] = q[b + 1]
  BY HeadTailProperties DEF IsSequence
<1>2. IsSequence(z) /\ Elems(z) \subseteq Elems(q)
  BY <1>1, SequenceOf
<1>3. Head(q) = q[1]
  BY HeadTailProperties DEF IsSequence
<1> HIDE DEF z
<1>4. Len(q) \in Nat /\ DOMAIN q = 1..Len(q) /\ DOMAIN z = 1..Len(z)
  BY <1>2, SequenceLength
<1>5. Len(q) # 0
  BY EmptySeq DEF IsSequence
<1>6. \A b \in DOMAIN q : b = 1 \/ (b - 1 \in DOMAIN z /\ z[b - 1] = q[b])
  BY <1>1, <1>4
<1>7. Elems(q) \subseteq {q[1]} \cup Elems(z)
  BY <1>6 DEF Elems
<1> QED  BY <1>1, <1>2, <1>3, <1>4, <1>5, <1>7 DEF z

\* o2 is o and frames that neither open nor end a stream nor carry its body.
Plain(o, o2) ==
  /\ IsSequence(o2) /\ Len(o) <= Len(o2)
  /\ \A b \in 1..Len(o) : o2[b] = o[b]
  /\ \A b \in DOMAIN o2 : b > Len(o) => o2[b].t \notin {"HEADERS", "DATA"} /\ ~o2[b].end

LEMMA PlainIsReflexive == ASSUME NEW o, IsSequence(o)  PROVE Plain(o, o)
BY SequenceLength DEF Plain

LEMMA PlainIsTransitive ==
  ASSUME NEW o, NEW o2, NEW o3, IsSequence(o), Plain(o, o2), Plain(o2, o3)  PROVE Plain(o, o3)
BY SequenceLength DEF Plain

LEMMA PlainAppend ==
  ASSUME NEW o, NEW f, IsSequence(o), f.t \notin {"HEADERS", "DATA"}, ~f.end  PROVE Plain(o, Append(o, f))
<1> DEFINE z == Append(o, f)
<1>1. IsSequence(z) /\ Len(z) = Len(o) + 1 /\ z[Len(o) + 1] = f /\ \A b \in 1..Len(o) : z[b] = o[b]
  BY Appended
<1> HIDE DEF z
<1>2. Len(o) \in Nat /\ DOMAIN z = 1..Len(z)
  BY <1>1, SequenceLength
<1>3. \A b \in DOMAIN z : b > Len(o) => b = Len(o) + 1
  BY <1>1, <1>2
<1>4. Plain(o, z)
  BY <1>1, <1>2, <1>3 DEF Plain
<1> QED  BY <1>4 DEF z

\* Such frames change nothing of what the invariant says of the wire.
LEMMA PlainWire ==
  ASSUME NEW k, NEW k2, NEW n, IsSequence(k.out), Plain(k.out, k2.out)
  PROVE  /\ WireOpened(k2, n) = WireOpened(k, n) /\ WireEnded(k2, n) = WireEnded(k, n)
         /\ OutInv(k, n) => OutInv(k2, n)
<1> DEFINE o == k.out
           p == k2.out
<1>1. Len(o) \in Nat /\ DOMAIN o = 1..Len(o) /\ Len(p) \in Nat /\ DOMAIN p = 1..Len(p) /\ IsSequence(p)
  BY SequenceLength DEF Plain
<1>2. \A b \in DOMAIN o : b \in DOMAIN p /\ p[b] = o[b]
  BY <1>1 DEF Plain
<1>3. \A b \in DOMAIN p : b \in DOMAIN o \/ (p[b].t \notin {"HEADERS", "DATA"} /\ ~p[b].end)
  BY <1>1 DEF Plain
<1>4. \A b \in DOMAIN o : \A a \in 1..(b - 1) : a \in DOMAIN o
  BY <1>1
<1> HIDE DEF o, p
<1>5. {g \in Elems(p) : g.t = "HEADERS"} = {g \in Elems(o) : g.t = "HEADERS"}
  BY <1>2, <1>3 DEF Elems
<1>6. {g \in Elems(p) : g.end} = {g \in Elems(o) : g.end}
  BY <1>2, <1>3 DEF Elems
<1>7. WireOpened(k2, n) = WireOpened(k, n) /\ WireEnded(k2, n) = WireEnded(k, n)
  BY <1>5, <1>6 DEF WireOpened, WireEnded, o, p
<1>8. ASSUME OutInv(k, n)  PROVE OutInv(k2, n)
  <2>1. \A b \in DOMAIN p : p[b].t = "HEADERS" =>
          /\ p[b].id \in StreamIds /\ \A i \in n.seen : i < p[b].id
          /\ \A a \in 1..(b - 1) : p[a].t = "HEADERS" => p[a].id < p[b].id
    BY <1>2, <1>3, <1>4, <1>8 DEF OutInv, o
  <2>2. \A b \in DOMAIN p : p[b].t = "DATA" =>
          /\ p[b].id \in n.seen \/ \E a \in 1..(b - 1) : p[a].t = "HEADERS" /\ p[a].id = p[b].id
          /\ p[b].id \notin n.ended /\ \A a \in 1..(b - 1) : p[a].id = p[b].id => ~p[a].end
    BY <1>2, <1>3, <1>4, <1>8 DEF OutInv, o
  <2> QED  BY <1>1, <1>7, <1>8, <2>1, <2>2 DEF OutInv, o, p
<1> QED  BY <1>7, <1>8

-----------------------------------------------------------------------------
(* What the handlers' parts leave alone.                                   *)

Shaped(k) == ConnShape(k) /\ IsSequence(k.out)
Bringing  == {"send", "sendforget", "reset", "goaway"}
StreamLike(s, s2) ==
  /\ DOMAIN s2 = StreamFields /\ s2.r = s.r /\ s2.bw \in {s.bw, "off"}
  /\ \A v \in Answers(s2) : v \in Answers(s) \/ ~Retriable(v)
\* From k to k2 nothing happens to the streams' identities, to HEADERS and DATA, or to their writers
\* but that one may stop, and no answer comes that would let a stream be repeated.
Like(k, k2) ==
  /\ ConnShape(k2) /\ k2.at = k.at /\ k2.next = k.next /\ k2.held = k.held
  /\ k2.open = "open" => k.open = "open"
  /\ Plain(k.out, k2.out)
  /\ \A i \in StreamIds : StreamLike(k.s[i], k2.s[i])
  /\ (k2.rd = k.rd /\ k2.on = k.on /\ k2.val = k.val) \/ k2.rd \notin Bringing

LEMMA LikeIsReflexive == ASSUME NEW k, Shaped(k)  PROVE Like(k, k)
BY PlainIsReflexive DEF Like, Shaped, StreamLike, ConnShape

LEMMA LikeIsTransitive ==
  ASSUME NEW k, NEW k2, NEW k3, Shaped(k), Like(k, k2), Like(k2, k3)  PROVE Like(k, k3)
BY PlainIsTransitive DEF Like, Shaped, StreamLike

LEMMA LikeShaped == ASSUME NEW k, NEW k2, Like(k, k2)  PROVE Shaped(k2)
BY DEF Like, Shaped, Plain

\* The same streams ...
LEMMA LikeSame ==
  ASSUME NEW k, NEW k2, Shaped(k), DOMAIN k2 = ConnFields, k2.s = k.s, k2.at = k.at, k2.next = k.next,
         k2.held = k.held, k2.open = "open" => k.open = "open", k2.out = k.out,
         (k2.rd = k.rd /\ k2.on = k.on /\ k2.val = k.val) \/ k2.rd \notin Bringing
  PROVE  Like(k, k2)
<1>1. Plain(k.out, k2.out)
  BY PlainIsReflexive DEF Shaped
<1> QED  BY <1>1 DEF Like, Shaped, StreamLike, ConnShape

\* ... or like ones.
LEMMA LikeStreams ==
  ASSUME NEW k, NEW k2, Shaped(k), DOMAIN k2 = ConnFields, DOMAIN k2.s = StreamIds,
         \A i \in StreamIds : StreamLike(k.s[i], k2.s[i]), k2.at = k.at, k2.next = k.next,
         k2.held = k.held, k2.open = "open" => k.open = "open", k2.out = k.out,
         (k2.rd = k.rd /\ k2.on = k.on /\ k2.val = k.val) \/ k2.rd \notin Bringing
  PROVE  Like(k, k2)
<1>1. Plain(k.out, k2.out)
  BY PlainIsReflexive DEF Shaped
<1> QED  BY <1>1 DEF Like, Shaped, StreamLike, ConnShape

LEMMA PutLike ==
  ASSUME NEW k, NEW f, Shaped(k), f.t \notin {"HEADERS", "DATA"}, ~f.end  PROVE Like(k, Put(k, f))
<1> DEFINE k2 == [k EXCEPT !.out = Append(@, f)]
<1>1. Plain(k.out, Append(k.out, f))
  BY PlainAppend DEF Shaped
<1>2. k2.out = Append(k.out, f) /\ DOMAIN k2 = ConnFields /\ k2.s = k.s /\ k2.at = k.at /\ k2.next = k.next
      /\ k2.held = k.held /\ k2.open = k.open /\ k2.rd = k.rd /\ k2.on = k.on /\ k2.val = k.val
  BY DEF Shaped, ConnShape, ConnFields
<1>3. Put(k, f) \in {k, k2}
  BY DEF Put
<1> HIDE DEF k2
<1>4. Like(k, k2)
  BY <1>1, <1>2 DEF Like, Shaped, StreamLike, ConnShape
<1> QED  BY <1>3, <1>4, LikeIsReflexive

LEMMA WriteResetLike == ASSUME NEW k, NEW i, Shaped(k)  PROVE Like(k, WriteReset(k, i))
BY PutLike DEF F, WriteReset

LEMMA WindowLike == ASSUME NEW k, NEW i, NEW n, Shaped(k)  PROVE Like(k, Put(k, F("WINDOW", i, n, FALSE, "")))
BY PutLike DEF F

LEMMA BroadcastLike == ASSUME NEW k, Shaped(k)  PROVE Like(k, Broadcast(k))
<1> DEFINE k2 == Broadcast(k)
<1>1. DOMAIN k2 = ConnFields /\ k2.s = k.s /\ k2.at = k.at /\ k2.next = k.next /\ k2.held = k.held
      /\ k2.open = k.open /\ k2.out = k.out /\ k2.rd = k.rd /\ k2.on = k.on /\ k2.val = k.val
  BY DEF Shaped, ConnShape, ConnFields, Broadcast
<1> HIDE DEF k2
<1>2. Like(k, k2)
  BY <1>1, LikeSame
<1> QED  BY <1>2 DEF k2

LEMMA ForgetLike == ASSUME NEW k, NEW i, Shaped(k)  PROVE Like(k, Forget(k, i))
<1> DEFINE k2 == [Broadcast(k) EXCEPT !.streams = @ \ {i}, !.s[i].done = TRUE,
                            !.idle = @ \/ (k.streams = {i} /\ "idle" \in cas.user)]
<1>1. DOMAIN k2 = ConnFields /\ k2.at = k.at /\ k2.next = k.next /\ k2.held = k.held
      /\ k2.open = k.open /\ k2.out = k.out /\ k2.rd = k.rd /\ k2.on = k.on /\ k2.val = k.val
      /\ k2.s = [k.s EXCEPT ![i].done = TRUE]
  BY DEF Shaped, ConnShape, ConnFields, Broadcast
<1>2. Forget(k, i) \in {k, k2}
  BY DEF Forget
<1> HIDE DEF k2
<1>3. DOMAIN k2.s = StreamIds /\ \A j \in StreamIds : StreamLike(k.s[j], k2.s[j])
  BY <1>1 DEF Shaped, ConnShape, StreamFields, StreamLike, Answers
<1>4. Like(k, k2)
  BY <1>1, <1>3, LikeStreams
<1> QED  BY <1>2, <1>4, LikeIsReflexive

LEMMA OfferLike == ASSUME NEW k, NEW i, NEW v, Shaped(k), ~Retriable(v)  PROVE Like(k, Offer(k, i, v))
<1> DEFINE k2 == [k EXCEPT !.s[i].resc = v]
<1>1. DOMAIN k2 = ConnFields /\ k2.at = k.at /\ k2.next = k.next /\ k2.held = k.held
      /\ k2.open = k.open /\ k2.out = k.out /\ k2.rd = k.rd /\ k2.on = k.on /\ k2.val = k.val
      /\ k2.s = [k.s EXCEPT ![i].resc = v]
  BY DEF Shaped, ConnShape, ConnFields
<1>2. Offer(k, i, v) \in {k, k2}
  BY DEF Offer
<1> HIDE DEF k2
<1>3. DOMAIN k2.s = StreamIds /\ \A j \in StreamIds : StreamLike(k.s[j], k2.s[j])
  BY <1>1 DEF Shaped, ConnShape, StreamFields, StreamLike, Answers
<1>4. Like(k, k2)
  BY <1>1, <1>3, LikeStreams
<1> QED  BY <1>2, <1>4, LikeIsReflexive

LEMMA EndPipeLike == ASSUME NEW k, NEW i, NEW e, Shaped(k)  PROVE Like(k, EndPipe(k, i, e))
<1> DEFINE k2 == [k EXCEPT !.s[i].perr = e]
<1>1. DOMAIN k2 = ConnFields /\ k2.at = k.at /\ k2.next = k.next /\ k2.held = k.held
      /\ k2.open = k.open /\ k2.out = k.out /\ k2.rd = k.rd /\ k2.on = k.on /\ k2.val = k.val
      /\ k2.s = [k.s EXCEPT ![i].perr = e]
  BY DEF Shaped, ConnShape, ConnFields
<1>2. EndPipe(k, i, e) \in {k, k2}
  BY DEF EndPipe
<1> HIDE DEF k2
<1>3. DOMAIN k2.s = StreamIds /\ \A j \in StreamIds : StreamLike(k.s[j], k2.s[j])
  BY <1>1 DEF Shaped, ConnShape, StreamFields, StreamLike, Answers
<1>4. Like(k, k2)
  BY <1>1, <1>3, LikeStreams
<1> QED  BY <1>2, <1>4, LikeIsReflexive

LEMMA CloseIfIdleLike == ASSUME NEW k, Shaped(k)  PROVE Like(k, CloseIfIdle(k))
<1> DEFINE k2 == [k EXCEPT !.closed = TRUE, !.open = "closed"]
<1>1. DOMAIN k2 = ConnFields /\ k2.s = k.s /\ k2.at = k.at /\ k2.next = k.next /\ k2.held = k.held
      /\ k2.open # "open" /\ k2.out = k.out /\ k2.rd = k.rd /\ k2.on = k.on /\ k2.val = k.val
  BY DEF Shaped, ConnShape, ConnFields
<1>2. CloseIfIdle(k) \in {k, k2}
  BY DEF CloseIfIdle
<1> HIDE DEF k2
<1>3. Like(k, k2)
  BY <1>1, LikeSame
<1> QED  BY <1>2, <1>3, LikeIsReflexive

LEMMA IterateLike == ASSUME NEW k, Shaped(k)  PROVE Like(k, Iterate(k))
BY CloseIfIdleLike, LikeIsReflexive DEF Iterate

LEMMA AbortLike == ASSUME NEW k, NEW i, NEW how, Shaped(k)  PROVE Like(k, Abort(k, i, how))
<1> DEFINE k2 == Abort(k, i, how)
<1>1. DOMAIN k2 = ConnFields /\ k2.at = k.at /\ k2.next = k.next /\ k2.held = k.held
      /\ k2.open = k.open /\ k2.out = k.out /\ k2.rd = k.rd /\ k2.on = k.on /\ k2.val = k.val
      /\ k2.s = [k.s EXCEPT ![i].stop = how, ![i].bw = IF @ = "delay" THEN "off" ELSE @]
  BY DEF Shaped, ConnShape, ConnFields, Abort, Broadcast
<1> HIDE DEF k2
<1>2. PICK s2 : s2 = [k.s[i] EXCEPT !.stop = how, !.bw = IF @ = "delay" THEN "off" ELSE @]
  OBVIOUS
<1>3. k2.s = [k.s EXCEPT ![i] = s2]
  BY <1>1, <1>2 DEF Shaped, ConnShape, StreamFields
<1>4. i \in StreamIds => StreamLike(k.s[i], s2)
  BY <1>2 DEF Shaped, ConnShape, StreamFields, StreamLike, Answers
<1>5. DOMAIN k2.s = StreamIds /\ \A j \in StreamIds : StreamLike(k.s[j], k2.s[j])
  BY <1>3, <1>4 DEF Shaped, ConnShape, StreamLike
<1>6. Like(k, k2)
  BY <1>1, <1>5, LikeStreams
<1> QED  BY <1>6 DEF k2

LEMMA RefundLike == ASSUME NEW k, NEW n, Shaped(k)  PROVE Like(k, Refund(k, n))
<1> DEFINE k2 == [k EXCEPT !.inflow = @ + n]
<1>1. DOMAIN k2 = ConnFields /\ k2.s = k.s /\ k2.at = k.at /\ k2.next = k.next /\ k2.held = k.held
      /\ k2.open = k.open /\ k2.out = k.out /\ k2.rd = k.rd /\ k2.on = k.on /\ k2.val = k.val
  BY DEF Shaped, ConnShape, ConnFields
<1>2. Refund(k, n) \in {k, Put(k2, F("WINDOW", 0, n, FALSE, ""))}
  BY DEF Refund
<1> HIDE DEF k2
<1>3. Like(k, k2)
  BY <1>1, LikeSame
<1>4. Like(k, Put(k2, F("WINDOW", 0, n, FALSE, "")))
  BY <1>3, LikeShaped, LikeIsTransitive, WindowLike
<1> QED  BY <1>2, <1>4, LikeIsReflexive

LEMMA EndStreamErrorLike == ASSUME NEW k, NEW i, NEW e, Shaped(k)  PROVE Like(k, EndStreamError(k, i, e))
<1> DEFINE k2 == [k EXCEPT !.whenIdle = @ \/ Req(k.s[i].r).close]
           k3 == EndPipe(k2, i, e)
<1>1. DOMAIN k2 = ConnFields /\ k2.s = k.s /\ k2.at = k.at /\ k2.next = k.next /\ k2.held = k.held
      /\ k2.open = k.open /\ k2.out = k.out /\ k2.rd = k.rd /\ k2.on = k.on /\ k2.val = k.val
  BY DEF Shaped, ConnShape, ConnFields
<1>2. EndStreamError(k, i, e) = Offer(k3, i, "error")
  BY DEF EndStreamError
<1> HIDE DEF k2
<1>3. Like(k, k2)
  BY <1>1, LikeSame
<1>4. Like(k, k3)
  BY <1>3, LikeShaped, LikeIsTransitive, EndPipeLike
<1> HIDE DEF k3
<1>5. ~Retriable("error")
  BY DEF Retriable
<1>6. Like(k3, Offer(k3, i, "error"))
  BY <1>4, <1>5, LikeShaped, OfferLike
<1> QED  BY <1>2, <1>4, <1>6, LikeIsTransitive

LEMMA OverLike == ASSUME NEW k, Shaped(k)  PROVE Like(k, Over(k))
<1> DEFINE k2 == Over(k)
<1>1. DOMAIN k2 = ConnFields /\ k2.at = k.at /\ k2.next = k.next /\ k2.held = k.held
      /\ k2.open = k.open /\ k2.out = k.out /\ k2.rd = k.rd /\ k2.on = k.on /\ k2.val = k.val
      /\ k2.s = [i \in StreamIds |-> IF i \in k.streams THEN Ended(k.s[i]) ELSE k.s[i]]
  BY DEF Shaped, ConnShape, ConnFields, Over, Broadcast
<1>2. \A i \in StreamIds : StreamLike(k.s[i], Ended(k.s[i])) /\ StreamLike(k.s[i], k.s[i])
  BY DEF Shaped, ConnShape, StreamFields, StreamLike, Answers, Ended, Retriable
<1> HIDE DEF k2
<1>3. DOMAIN k2.s = StreamIds /\ \A j \in StreamIds : StreamLike(k.s[j], k2.s[j])
  BY <1>1, <1>2
<1>4. Like(k, k2)
  BY <1>1, <1>3, LikeStreams
<1> QED  BY <1>4 DEF k2

-----------------------------------------------------------------------------
(* Calm steps: no stream is opened or ended on the wire.                   *)

TripFields == {"at", "c", "id", "try", "err", "written"}

\* A request whose HEADERS are to be written to stream i of c.
Headed(c, i) == \E r \in Reqs : rt[r].at = "headers" /\ rt[r].c = c /\ rt[r].id = i
WriterTame(c, i, k2) ==
  LET old == cc[c].s[i].bw  new == k2.s[i].bw IN
  \/ new \in {old, "off"}
  \/ /\ ~Headed(c, i) /\ new # "delay"
     /\ new \in Writes /\ k2.open = "open" => i \in WireOpened(cc[c], net[c]) \ WireEnded(cc[c], net[c])
Tame(c, k2) ==
  /\ ConnShape(k2) /\ k2.next = cc[c].next /\ k2.held = cc[c].held
  /\ k2.at = cc[c].at \/ (cc[c].at = "dialing" /\ k2.at # "none")
  /\ k2.open = "open" => cc[c].open = "open"
  /\ Plain(cc[c].out, k2.out)
  /\ \A i \in StreamIds :
       /\ k2.s[i].r = cc[c].s[i].r /\ WriterTame(c, i, k2)
       /\ \A v \in Answers(k2.s[i]) : True(net[c], i, v)
  /\ ReaderTrue(k2, net[c])
ConnsTame == DOMAIN cc' = Conns /\ \A c \in Conns : Tame(c, cc'[c])
\* What the server has done so far is the same.
SameServer(n, m) ==
  m.seen = n.seen /\ m.took = n.took /\ m.last = n.last /\ m.top = n.top /\ m.ended = n.ended
NetTame ==
  /\ DOMAIN net' = Conns
  /\ \A c \in Conns :
       /\ DOMAIN net'[c] = ServerFields /\ SameServer(net[c], net'[c])
       /\ IsSequence(net'[c].down) /\ \A f \in Elems(net'[c].down) : FrameTrue(net[c], f)
PoolTame ==
  /\ DOMAIN pool' = {"conns", "keys", "dialing"}
  /\ IsSequence(pool'.conns) /\ \A c \in Elems(pool'.conns) : c \in Conns /\ cc[c].at = "up"
  /\ pool'.dialing # 0 => pool'.dialing \in Conns /\ cc[pool'.dialing].at # "none"
TripsTame ==
  /\ DOMAIN rt' = Reqs
  /\ \A r \in Reqs :
       /\ DOMAIN rt'[r] = TripFields /\ TripGood(r, rt'[r])
       /\ rt'[r].at = "headers" <=> rt[r].at = "headers"
       /\ rt[r].at = "headers" => rt'[r].c = rt[r].c /\ rt'[r].id = rt[r].id
Calm == ConnsTame /\ NetTame /\ PoolTame /\ TripsTame /\ cas' = cas

LEMMA ConnShaped == ASSUME IInv, NEW c \in Conns  PROVE Shaped(cc[c])
BY DEF IInv, Shape, Shaped, ConnInv, OutInv

LEMMA SameTruth ==
  ASSUME NEW n, NEW m, SameServer(n, m)
  PROVE  /\ \A i : Spared(m, i) <=> Spared(n, i)
         /\ \A i, v : True(n, i, v) => True(m, i, v)
         /\ \A f : FrameTrue(n, f) => FrameTrue(m, f)
         /\ \A k : ReaderTrue(k, n) => ReaderTrue(k, m)
         /\ \A k : WireOpened(k, m) = WireOpened(k, n) /\ WireEnded(k, m) = WireEnded(k, n)
         /\ \A k : OutInv(k, n) => OutInv(k, m)
BY DEF SameServer, Spared, True, WireOpened, WireEnded, FrameTrue, ReaderTrue, OutInv

LEMMA CalmKeeps == ASSUME IInv, Calm  PROVE IInv'
<1>1. Shape'
  BY DEF Calm, ConnsTame, NetTame, PoolTame, TripsTame, Tame, Shape, TripFields
<1>2. PoolInv'
  BY DEF Calm, ConnsTame, Tame, PoolTame, PoolInv
<1>3. ASSUME NEW c \in Conns
      PROVE  /\ ConnInv(c)'
             /\ WireOpened(cc'[c], net'[c]) = WireOpened(cc[c], net[c])
             /\ WireEnded(cc'[c], net'[c]) = WireEnded(cc[c], net[c])
  <2> DEFINE k == cc[c]
             n == net[c]
             k2 == cc'[c]
             m == net'[c]
  <2>1. ConnInv(c) /\ IsSequence(k.out)
    BY DEF IInv, ConnInv, OutInv
  <2>2. Tame(c, k2) /\ SameServer(n, m) /\ IsSequence(m.down) /\ \A f \in Elems(m.down) : FrameTrue(n, f)
    BY DEF Calm, ConnsTame, NetTame
  <2>3. Plain(k.out, k2.out)
    BY <2>2 DEF Tame
  <2> HIDE DEF k, k2, n, m
  <2>4. /\ WireOpened(k2, n) = WireOpened(k, n) /\ WireEnded(k2, n) = WireEnded(k, n)
        /\ OutInv(k, n) => OutInv(k2, n)
    BY <2>1, <2>3, PlainWire
  <2>5. WireOpened(k2, m) = WireOpened(k, n) /\ WireEnded(k2, m) = WireEnded(k, n)
    BY <2>2, <2>4, SameTruth
  <2>6. OutInv(k2, m)
    BY <2>1, <2>2, <2>4, SameTruth DEF ConnInv, k, n
  <2>7. ReaderTrue(k2, m)
    BY <2>2, SameTruth DEF Tame, n
  <2>8. ServerInv(m)
    BY <2>2, SameTruth, <2>1 DEF ConnInv, n, ServerInv, SameServer
  <2>9. AnswersInv(k2, m)
    BY <2>2, SameTruth DEF Tame, n, AnswersInv
  <2>10. k2.next = k.next /\ (k2.at = "none" => k.at = "none")
    BY <2>2 DEF Tame, k
  <2>11. k2.next \in Nat /\ (k2.at = "none" => k2.next = 1) /\ \A i \in WireOpened(k2, m) : i < k2.next
    BY <2>1, <2>5, <2>10 DEF ConnInv, k, n
  <2>12. ConnInv(c)'
    BY <2>6, <2>7, <2>8, <2>9, <2>11 DEF ConnInv, k2, m
  <2> QED  BY <2>5, <2>12 DEF k, k2, n, m
<1>4. ASSUME NEW r \in Reqs  PROVE TripInv(r)'
  <2> DEFINE t == rt'[r]
  <2>1. TripGood(r, t) /\ (t.at = "headers" => Headed(t.c, t.id))
    BY DEF Calm, TripsTame, Headed
  <2>2. HasBody(r)' <=> HasBody(r)
    BY DEF Calm, HasBody, Req
  <2> HIDE DEF t
  <2>3. /\ t.at \in OnConn => t.c \in Conns /\ cc'[t.c].at = "up"
        /\ t.at = "dial" => t.c \in Conns /\ cc'[t.c].at # "none"
        /\ t.at \in {"start", "dial", "got", "trip", "slot", "slotcancelled"} => t.id = 0
    BY <2>1 DEF TripGood, Calm, ConnsTame, Tame
  <2>4. t.at \in OnStream => t.id \in StreamIds /\ t.id < cc'[t.c].next /\ cc'[t.c].s[t.id].r = r
    BY <2>1 DEF TripGood, OnStream, OnConn, Calm, ConnsTame, Tame
  <2>5. t.at = "headers" =>
          /\ cc'[t.c].held /\ t.id + 2 = cc'[t.c].next /\ t.id \notin WireOpened(cc'[t.c], net'[t.c])
          /\ cc'[t.c].s[t.id].bw \in {"off", "delay"} /\ (~HasBody(r) => cc'[t.c].s[t.id].bw = "off")
    BY <2>1, <1>3 DEF TripGood, OnStream, OnConn, Calm, ConnsTame, Tame, WriterTame
  <2>6. \A c \in Conns : \A i : Spared(net[c], i) => Spared(net'[c], i)
    BY SameTruth DEF Calm, NetTame
  <2>7. t.at \in {"forget", "decide"} =>
          (t.err = "unusable" => t.id = 0) /\ (t.err \in {"goaway", "refused"} => Spared(net'[t.c], t.id))
    BY <2>1, <2>6 DEF TripGood, OnConn
  <2>8. \A c \in Conns : \A i \in StreamIds :
          i < cc'[c].next /\ cc'[c].s[i].r = r => (c = t.c /\ i = t.id) \/ Spared(net'[c], i)
    BY <2>1, <2>6 DEF Calm, ConnsTame, Tame, TripGood
  <2> QED  BY <2>2, <2>3, <2>4, <2>5, <2>7, <2>8 DEF TripInv, TripGood, t
<1>5. ASSUME NEW c \in Conns  PROVE WriterInv(c)'
  BY <1>3 DEF WriterInv, Calm, ConnsTame, Tame, IInv, WriterTame, Writes, TripsTame
<1> QED  BY <1>1, <1>2, <1>3, <1>4, <1>5 DEF IInv

\* One connection changes in a way the parts of handlers do.
LEMMA LikeIsTame == ASSUME IInv, NEW c \in Conns, NEW k2, Like(cc[c], k2)  PROVE Tame(c, k2)
BY DEF IInv, ConnInv, AnswersInv, Like, StreamLike, Retriable, True, ReaderTrue, Bringing, WriterTame, Tame

LEMMA SetTame ==
  ASSUME IInv, NEW c \in Conns, NEW k2, Tame(c, k2), Set(c, k2)  PROVE ConnsTame
BY LikeIsTame, LikeIsReflexive, ConnShaped DEF Set, IInv, Shape, ConnsTame

LEMMA SetLike ==
  ASSUME IInv, NEW c \in Conns, NEW k2, Like(cc[c], k2), Set(c, k2)  PROVE ConnsTame
BY LikeIsTame, SetTame

LEMMA StillTame ==
  ASSUME IInv
  PROVE  /\ UNCHANGED cc => ConnsTame
         /\ UNCHANGED net => NetTame
         /\ UNCHANGED pool => PoolTame
         /\ UNCHANGED rt => TripsTame
BY LikeIsTame, LikeIsReflexive, ConnShaped DEF ConnsTame, IInv, Shape, NetTame, ConnInv, ServerInv, SameServer,
   PoolTame, PoolInv, TripsTame, TripInv, TripFields

-----------------------------------------------------------------------------
(* The least of some numbers is one of them.                               *)

LEMMA LeastIn == ASSUME NEW I \in SUBSET Nat, I # {}  PROVE Min(I) \in I
<1> DEFINE R == OpToRel(<, Nat)
<1>1. IsWellFoundedOn(R, Nat)
  BY NatLessThanWellFounded
<1>2. \A a, b \in Nat : a < b => <<a, b>> \in R
  BY DEF OpToRel
<1>3. \A a, b \in Nat : ~(a < b) => b <= a
  OBVIOUS
<1> HIDE DEF R
<1>4. PICK x \in I : \A y \in I : ~(<<y, x>> \in R)
  BY <1>1, WFMin
<1>5. \A y \in I : x <= y
  BY <1>2, <1>3, <1>4
<1> QED  BY <1>5 DEF Min

-----------------------------------------------------------------------------
(* How the parts of a calm step are found.                                 *)

LEMMA MoveTame ==
  ASSUME IInv, NEW r \in Reqs, NEW a, NEW e,
         Fails(r, a, e) \/ (Step(r, a) /\ e = rt[r].err),
         rt[r].at # "headers", a \notin {"headers", "dial", "start"},
         a \in OnConn => rt[r].at \in OnConn,
         a \in {"got", "trip", "slot", "slotcancelled"} => rt[r].id = 0,
         a \in OnStream => rt[r].at \in OnStream,
         a \in {"forget", "decide"} =>
           (e = "unusable" => rt[r].id = 0) /\ (e \in {"goaway", "refused"} => Spared(net[rt[r].c], rt[r].id))
  PROVE  TripsTame
<1>1. PICK t : t = [rt[r] EXCEPT !.at = a, !.err = e]
  OBVIOUS
<1>2. DOMAIN rt = Reqs /\ \A q \in Reqs : DOMAIN rt[q] = TripFields /\ TripGood(q, rt[q])
  BY DEF IInv, Shape, TripInv, TripFields
<1>3. DOMAIN t = TripFields /\ t.at = a /\ t.err = e /\ t.c = rt[r].c /\ t.id = rt[r].id
  BY <1>1, <1>2 DEF TripFields
<1>4. rt' = [rt EXCEPT ![r] = t]
  BY <1>1, <1>2 DEF Fails, TripFields, Step
<1>5. TripGood(r, t)
  <2>1. TripGood(r, rt[r])
    BY <1>2
  <2> QED  BY <1>3, <2>1 DEF TripGood, OnStream
<1>6. DOMAIN rt' = Reqs /\ \A q \in Reqs : rt'[q] = IF q = r THEN t ELSE rt[q]
  BY <1>2, <1>4
<1> QED  BY <1>2, <1>3, <1>5, <1>6 DEF TripsTame

LEMMA TakenTame ==
  ASSUME IInv, NEW c \in Conns, Taken(c), net[c].down # <<>>
  PROVE  NetTame /\ FrameTrue(net[c], Head(net[c].down))
BY Shorter DEF IInv, ConnInv, Shape, ServerInv, Taken, ServerFields, SameServer, NetTame

LEMMA ToldTame ==
  ASSUME IInv, NEW c \in Conns, NEW n, NEW f, Tells(c, n, f),
         DOMAIN n = ServerFields, SameServer(net[c], n), n.down = net[c].down, FrameTrue(net[c], f)
  PROVE  NetTame
BY Appended DEF IInv, ConnInv, Shape, ServerInv, Tells, ServerFields, SameServer, NetTame

\* A stream of k changes, and its reader does not: the writer stops, or goes on.
LEMMA LikeStream ==
  ASSUME NEW k, Shaped(k), NEW i, NEW k2, DOMAIN k2 = ConnFields, NEW s2, k2.s = [k.s EXCEPT ![i] = s2],
         i \in StreamIds => StreamLike(k.s[i], s2),
         k2.at = k.at, k2.next = k.next, k2.held = k.held, k2.open = "open" => k.open = "open", k2.out = k.out,
         (k2.rd = k.rd /\ k2.on = k.on /\ k2.val = k.val) \/ k2.rd \notin Bringing
  PROVE  Like(k, k2)
BY LikeStreams DEF Shaped, ConnShape, StreamLike

LEMMA FromLike ==
  ASSUME IInv, NEW c \in Conns, NEW k2, Like(cc[c], k2), NEW k3, Like(k2, k3)
  PROVE  Like(cc[c], k3)
BY LikeIsTransitive, ConnShaped

\* What is left of Tame when a step gives a stream an answer, or its writer something to do.
LEMMA StreamTame ==
  ASSUME IInv, NEW c \in Conns, NEW k, Like(cc[c], k), NEW i \in StreamIds, NEW s2, NEW k2,
         ConnShape(k2), k2.s = [k.s EXCEPT ![i] = s2], k2.at = k.at, k2.next = k.next, k2.held = k.held,
         k2.open = k.open, k2.out = k.out, ReaderTrue(k2, net[c]),
         s2.r = cc[c].s[i].r, \A v \in Answers(s2) : True(net[c], i, v),
         \/ s2.bw \in {cc[c].s[i].bw, "off"}
         \/ /\ ~Headed(c, i) /\ s2.bw # "delay"
            /\ s2.bw \in Writes /\ k2.open = "open" => i \in WireOpened(cc[c], net[c]) \ WireEnded(cc[c], net[c])
  PROVE  Tame(c, k2)
<1>1. Tame(c, k)
  BY LikeIsTame
<1>2. \A j \in StreamIds : k2.s[j] = IF j = i THEN s2 ELSE k.s[j]
  BY DEF Like, ConnShape
<1>3. WriterTame(c, i, k2) /\ k2.s[i] = s2
  BY <1>2 DEF WriterTame
<1>4. \A j \in StreamIds : j # i => WriterTame(c, j, k2)
  BY <1>1, <1>2 DEF Tame, WriterTame
<1>5. \A j \in StreamIds : k2.s[j].r = cc[c].s[j].r /\ \A v \in Answers(k2.s[j]) : True(net[c], j, v)
  BY <1>1, <1>2 DEF Tame
<1> QED  BY <1>1, <1>3, <1>4, <1>5 DEF Tame

\* What is tame stays so under the parts of handlers.
LEMMA TameLike ==
  ASSUME IInv, NEW c \in Conns, NEW k, Tame(c, k), NEW k2, Like(k, k2)  PROVE Tame(c, k2)
BY ConnShaped, PlainIsTransitive DEF Tame, Like, Shaped, StreamLike, Retriable, True, ReaderTrue, Bringing,
   WriterTame, Writes

-----------------------------------------------------------------------------
(* The calm steps of the goroutine that reads frames.                      *)

LEMMA ProcessHeadersCalm == ASSUME IInv, NEW c \in Conns, ProcessHeaders(c)  PROVE Calm
<1> DEFINE f == Head(net[c].down)
           i == f.id
           k == [cc[c] EXCEPT !.reply = TRUE]
           s == k.s[i]
           early == f.end /\ ~HasBody(s.r)
           response == [k EXCEPT !.s[i].first = TRUE, !.s[i].headers = TRUE, !.s[i].perr = IF f.end THEN "eof" ELSE @,
                            !.s[i].watch = IF ~f.end /\ Req(s.r).cancel THEN "on" ELSE "off",
                            !.rd = IF f.end /\ ~early THEN "sendforget" ELSE "send", !.on = i, !.val = f.what]
           signal == [k EXCEPT !.s[i].first = TRUE, !.s[i].bw = IF @ = "delay" THEN "go" ELSE @]
<1>1. /\ Reads(c, "HEADERS") /\ Taken(c) /\ UNCHANGED <<cas, pool, rt, body>>
      /\ \/ i \notin k.streams /\ Set(c, Iterate(k))
         \/ i \in k.streams /\ Set(c, Iterate(Forget(EndStreamError(k, i, "eof"), i)))
         \/ i \in k.streams /\ Set(c, Dies(k))
         \/ i \in k.streams /\ Set(c, Iterate(signal))
         \/ i \in k.streams /\ f.what # "100" /\ (Set(c, Forget(response, i)) \/ Set(c, response))
  BY DEF ProcessHeaders
<1>2. NetTame /\ f.what \in {"2xx", "4xx", "100"} /\ ~cc[c].held
  BY <1>1, TakenTame DEF Reads, Free, FrameTrue
<1>3. Shaped(cc[c])
  BY ConnShaped
<1>4. Like(cc[c], k)
  <2>1. DOMAIN k = ConnFields /\ k.s = cc[c].s /\ k.at = cc[c].at /\ k.next = cc[c].next /\ k.held = cc[c].held
      /\ k.open = cc[c].open /\ k.out = cc[c].out /\ k.rd = cc[c].rd /\ k.on = cc[c].on /\ k.val = cc[c].val
    BY <1>3 DEF Shaped, ConnShape, ConnFields
  <2> HIDE DEF k
  <2> QED  BY <1>3, <2>1, LikeSame
<1>5. k.s = cc[c].s /\ k.at = cc[c].at
  BY <1>3 DEF Shaped, ConnShape, ConnFields
<1> HIDE DEF f, k
<1>6. Shaped(k)
  BY <1>4, LikeShaped
<1>7. ConnsTame
  <2>1. CASE Set(c, Iterate(k))
    BY <1>4, <1>6, <2>1, IterateLike, FromLike, SetLike
  <2>2. CASE Set(c, Iterate(Forget(EndStreamError(k, i, "eof"), i)))
    BY <1>4, <1>6, EndStreamErrorLike, FromLike, LikeShaped, ForgetLike, <2>2, IterateLike, SetLike
  <2>3. CASE Set(c, Dies(k))
    <3> DEFINE d == Dies(k)
    <3>1. DOMAIN d = ConnFields /\ d.s = k.s /\ d.at = k.at /\ d.next = k.next /\ d.held = k.held
          /\ d.open = k.open /\ d.out = k.out /\ d.rd = "cleanup"
      BY <1>6 DEF Dies, Shaped, ConnShape, ConnFields
    <3> HIDE DEF d
    <3>2. Like(k, d)
      BY <1>6, <3>1, LikeSame DEF Bringing
    <3>3. Like(cc[c], d)
      BY <1>4, <3>2, FromLike
    <3> QED  BY <2>3, <3>3, SetLike DEF d
  <2>4. CASE i \in k.streams /\ Set(c, Iterate(signal))
    <3>1. PICK s2 : s2 = [k.s[i] EXCEPT !.first = TRUE, !.bw = IF @ = "delay" THEN "go" ELSE @]
      OBVIOUS
    <3>2. DOMAIN signal = ConnFields /\ signal.s = [k.s EXCEPT ![i] = s2] /\ signal.at = k.at /\ signal.next = k.next
          /\ signal.held = k.held /\ signal.open = k.open /\ signal.out = k.out /\ signal.rd = k.rd /\ signal.on = k.on
          /\ signal.val = k.val
      BY <1>6, <3>1 DEF Shaped, ConnShape, ConnFields
    <3> HIDE DEF signal
    <3>3. CASE i \in StreamIds
      <4>1. DOMAIN s2 = StreamFields /\ s2.r = k.s[i].r /\ Answers(s2) = Answers(k.s[i])
            /\ s2.bw = IF k.s[i].bw = "delay" THEN "go" ELSE k.s[i].bw
        BY <1>6, <3>1, <3>3 DEF Shaped, ConnShape, StreamFields, Answers
      <4>2. ConnShape(signal)
        BY <1>6, <3>2, <4>1 DEF Shaped, ConnShape
      <4>3. ConnInv(c) /\ WriterInv(c)
        BY DEF IInv
      <4>4. ReaderTrue(signal, net[c])
        <5>1. Tame(c, k)
          BY <1>4, LikeIsTame
        <5> QED  BY <3>2, <5>1 DEF Tame, ReaderTrue
      <4>5. \A v \in Answers(s2) : True(net[c], i, v)
        BY <1>5, <3>3, <4>1, <4>3 DEF ConnInv, AnswersInv
      <4>6. ~\E r \in Reqs : rt[r].at = "headers" /\ rt[r].c = c
        BY <1>2 DEF IInv, TripInv, TripGood
      <4>7. signal.open = "open" => cc[c].open = "open"
        BY <1>4, <3>2 DEF Like
      <4>8. \/ s2.bw \in {cc[c].s[i].bw, "off"}
            \/ /\ ~Headed(c, i) /\ s2.bw # "delay"
               /\ s2.bw \in Writes /\ signal.open = "open" =>
                    i \in WireOpened(cc[c], net[c]) \ WireEnded(cc[c], net[c])
        BY <1>5, <3>3, <4>1, <4>3, <4>6, <4>7 DEF WriterInv, Headed
      <4>9. Tame(c, signal)
        BY <1>4, <1>5, <3>2, <3>3, <4>1, <4>2, <4>4, <4>5, <4>8, StreamTame
      <4>10. Shaped(signal)
        BY <1>6, <3>2, <4>2 DEF Shaped
      <4>11. Like(signal, Iterate(signal))
        BY <4>10, IterateLike
      <4>12. Tame(c, Iterate(signal))
        BY <4>9, <4>11, TameLike
      <4> QED  BY <2>4, <4>12, SetTame
    <3>4. CASE i \notin StreamIds
      <4>1. Like(k, signal)
        BY <1>6, <3>2, <3>4, LikeStream
      <4> QED  BY <1>4, <2>4, <4>1, LikeShaped, IterateLike, FromLike, SetLike
    <3> QED  BY <3>3, <3>4
  <2>5. CASE f.what # "100" /\ (Set(c, Forget(response, i)) \/ Set(c, response))
    <3>1. PICK s2 : s2 = [k.s[i] EXCEPT !.first = TRUE, !.headers = TRUE, !.perr = IF f.end THEN "eof" ELSE @,
                            !.watch = IF ~f.end /\ Req(s.r).cancel THEN "on" ELSE "off"]
      OBVIOUS
    <3>2. DOMAIN response = ConnFields /\ response.s = [k.s EXCEPT ![i] = s2] /\ response.at = k.at
          /\ response.next = k.next /\ response.held = k.held /\ response.open = k.open /\ response.out = k.out
          /\ response.rd \in {"send", "sendforget"} /\ response.val = f.what
      BY <1>6, <3>1 DEF Shaped, ConnShape, ConnFields
    <3> HIDE DEF response
    <3>3. DOMAIN response.s = StreamIds /\ \A j \in StreamIds : StreamLike(k.s[j], response.s[j])
      <4>1. i \in StreamIds => StreamLike(k.s[i], s2)
        <5> HIDE DEF s
        <5> QED  BY <1>6, <3>1 DEF Shaped, ConnShape, StreamFields, StreamLike, Answers
      <4>2. DOMAIN response.s = StreamIds /\ \A j \in StreamIds : response.s[j] = IF j = i THEN s2 ELSE k.s[j]
        BY <1>6, <3>2 DEF Shaped, ConnShape
      <4>3. \A j \in StreamIds : StreamLike(k.s[j], k.s[j])
        BY <1>6 DEF Shaped, ConnShape, StreamLike
      <4> QED  BY <4>1, <4>2, <4>3
    <3>4. ReaderTrue(response, net[c])
      BY <1>2, <3>2 DEF ReaderTrue
    <3>5. ConnShape(response)
      BY <3>2, <3>3 DEF ConnShape, StreamLike
    <3>6. Tame(c, response)
      <4>1. Tame(c, k)
        BY <1>4, LikeIsTame
      <4>2. \A j \in StreamIds : \A v \in Answers(response.s[j]) : True(net[c], j, v)
        BY <3>3, <4>1 DEF Tame, StreamLike, Retriable, True
      <4>3. \A j \in StreamIds : response.s[j].r = cc[c].s[j].r /\ WriterTame(c, j, response)
        BY <1>5, <3>3 DEF StreamLike, WriterTame
      <4> QED  BY <3>2, <3>4, <3>5, <4>1, <4>2, <4>3 DEF Tame
    <3>7. Shaped(response)
      BY <1>6, <3>2, <3>5 DEF Shaped
    <3>8. Tame(c, Forget(response, i))
      BY <3>6, <3>7, ForgetLike, TameLike
    <3> QED  BY <2>5, <3>6, <3>8, SetTame
  <2> QED  BY <1>1, <2>1, <2>2, <2>3, <2>4, <2>5
<1> QED  BY <1>1, <1>2, <1>7, StillTame DEF Calm

LEMMA SendResponseCalm == ASSUME IInv, NEW c \in Conns, SendResponse(c)  PROVE Calm
<1> DEFINE k == cc[c]
           i == k.on
           sent == [k EXCEPT !.rd = "run", !.s[i].resc = k.val]
<1>1. /\ k.rd \in {"send", "sendforget"} /\ UNCHANGED <<cas, pool, rt, body, net>>
      /\ Set(c, Iterate(sent)) \/ Set(c, Iterate(Forget(sent, i)))
  BY DEF SendResponse
<1>2. Shaped(k) /\ ConnInv(c)
  BY ConnShaped DEF IInv
<1>3. ~Retriable(k.val)
  BY <1>1, <1>2 DEF ConnInv, ReaderTrue, Retriable
<1>4. PICK s2 : s2 = [k.s[i] EXCEPT !.resc = k.val]
  OBVIOUS
<1>5. DOMAIN sent = ConnFields /\ sent.s = [k.s EXCEPT ![i] = s2] /\ sent.at = k.at /\ sent.next = k.next
      /\ sent.held = k.held /\ sent.open = k.open /\ sent.out = k.out /\ sent.rd = "run"
  BY <1>2, <1>4 DEF Shaped, ConnShape, ConnFields
<1>6. i \in StreamIds => StreamLike(k.s[i], s2)
  BY <1>2, <1>3, <1>4 DEF Shaped, ConnShape, StreamFields, StreamLike, Answers
<1> HIDE DEF sent
<1>7. Like(k, sent)
  BY <1>2, <1>5, <1>6, LikeStream DEF Bringing
<1>8. Like(k, Iterate(sent))
  BY <1>7, LikeShaped, IterateLike, FromLike
<1>9. Like(k, Iterate(Forget(sent, i)))
  BY <1>7, LikeShaped, ForgetLike, FromLike, IterateLike
<1> QED  BY <1>1, <1>8, <1>9, SetLike, StillTame DEF Calm

LEMMA ProcessDataCalm == ASSUME IInv, NEW c \in Conns, ProcessData(c)  PROVE Calm
<1> DEFINE f == Head(net[c].down)
           i == f.id
           k == IF f.end THEN Forget(cc[c], i) ELSE cc[c]
           arrived == IF Length(f) > 0 THEN DataArrives(k, f) ELSE k
<1>1. /\ Reads(c, "DATA") /\ Taken(c) /\ UNCHANGED <<cas, pool, rt, body>>
      /\ \/ Set(c, Iterate(Refund(k, Length(f)))) \/ Set(c, [Dies(k) EXCEPT !.val = "flow"])
         \/ Set(c, Iterate(EndStreamError(arrived, i, "eof"))) \/ Set(c, Iterate(arrived))
  BY DEF ProcessData
<1>2. NetTame
  BY <1>1, TakenTame DEF Reads
<1>3. Like(cc[c], k) /\ Shaped(k)
  BY ConnShaped, ForgetLike, LikeIsReflexive, LikeShaped
<1> HIDE DEF f, k
<1>4. Like(k, DataArrives(k, f))
  <2> DEFINE took == [k EXCEPT !.inflow = @ - Length(f), !.s[i].inflow = @ - Length(f)]
             back == Length(f) - (IF k.s[i].didReset THEN 0 ELSE f.n)
             refund == Refund(took, back)
             credited == [refund EXCEPT !.s[i].inflow = @ + back]
             refunded == IF back = 0 \/ k.s[i].didReset THEN refund ELSE Put(credited, F("WINDOW", i, back, FALSE, ""))
             piped == [refunded EXCEPT !.s[i].pipe = @ + f.n]
  <2>1. DataArrives(k, f) \in {refunded, piped}
    BY DEF DataArrives
  <2>2. Like(k, took)
    <3>1. PICK s2 : s2 = [k.s[i] EXCEPT !.inflow = @ - Length(f)]
      OBVIOUS
    <3>2. DOMAIN took = ConnFields /\ took.s = [k.s EXCEPT ![i] = s2] /\ took.at = k.at /\ took.next = k.next
          /\ took.held = k.held /\ took.open = k.open /\ took.out = k.out /\ took.rd = k.rd /\ took.on = k.on
          /\ took.val = k.val
      BY <1>3, <3>1 DEF Shaped, ConnShape, ConnFields
    <3>3. i \in StreamIds => StreamLike(k.s[i], s2)
      BY <1>3, <3>1 DEF Shaped, ConnShape, StreamFields, StreamLike, Answers
    <3> HIDE DEF took
    <3> QED  BY <1>3, <3>2, <3>3, LikeStream
  <2> HIDE DEF took, back
  <2>3. Like(k, refund) /\ Shaped(refund)
    BY <1>3, <2>2, LikeShaped, RefundLike, LikeIsTransitive
  <2> HIDE DEF refund
  <2>4. Like(refund, credited)
    <3>1. PICK s2 : s2 = [refund.s[i] EXCEPT !.inflow = @ + back]
      OBVIOUS
    <3>2. DOMAIN credited = ConnFields /\ credited.s = [refund.s EXCEPT ![i] = s2] /\ credited.at = refund.at
          /\ credited.next = refund.next /\ credited.held = refund.held /\ credited.open = refund.open
          /\ credited.out = refund.out /\ credited.rd = refund.rd /\ credited.on = refund.on /\ credited.val = refund.val
      BY <2>3, <3>1 DEF Shaped, ConnShape, ConnFields
    <3>3. i \in StreamIds => StreamLike(refund.s[i], s2)
      BY <2>3, <3>1 DEF Shaped, ConnShape, StreamFields, StreamLike, Answers
    <3> HIDE DEF credited
    <3> QED  BY <2>3, <3>2, <3>3, LikeStream
  <2>5. Like(refund, refunded)
    <3> HIDE DEF credited
    <3>1. Like(refund, Put(credited, F("WINDOW", i, back, FALSE, "")))
      BY <2>3, <2>4, LikeShaped, WindowLike, LikeIsTransitive
    <3> QED  BY <2>3, <3>1, LikeIsReflexive
  <2> HIDE DEF refunded
  <2>6. Like(k, refunded) /\ Shaped(refunded)
    BY <1>3, <2>3, <2>5, LikeIsTransitive, LikeShaped
  <2>7. Like(refunded, piped)
    <3>1. PICK s2 : s2 = [refunded.s[i] EXCEPT !.pipe = @ + f.n]
      OBVIOUS
    <3>2. DOMAIN piped = ConnFields /\ piped.s = [refunded.s EXCEPT ![i] = s2] /\ piped.at = refunded.at
          /\ piped.next = refunded.next /\ piped.held = refunded.held /\ piped.open = refunded.open
          /\ piped.out = refunded.out /\ piped.rd = refunded.rd /\ piped.on = refunded.on /\ piped.val = refunded.val
      BY <2>6, <3>1 DEF Shaped, ConnShape, ConnFields
    <3>3. i \in StreamIds => StreamLike(refunded.s[i], s2)
      BY <2>6, <3>1 DEF Shaped, ConnShape, StreamFields, StreamLike, Answers
    <3> HIDE DEF piped
    <3> QED  BY <2>6, <3>2, <3>3, LikeStream
  <2> HIDE DEF piped
  <2>8. Like(k, piped)
    BY <1>3, <2>6, <2>7, LikeIsTransitive
  <2> QED  BY <2>1, <2>6, <2>8
<1>5. Like(cc[c], arrived) /\ Shaped(arrived)
  BY <1>3, <1>4, LikeIsReflexive, FromLike, LikeShaped
<1> HIDE DEF arrived
<1>6. Like(cc[c], Iterate(Refund(k, Length(f))))
  BY <1>3, RefundLike, FromLike, LikeShaped, IterateLike
<1>7. Like(cc[c], Iterate(EndStreamError(arrived, i, "eof"))) /\ Like(cc[c], Iterate(arrived))
  BY <1>5, EndStreamErrorLike, FromLike, LikeShaped, IterateLike
<1>8. Like(cc[c], [Dies(k) EXCEPT !.val = "flow"])
  <2> DEFINE d == [Dies(k) EXCEPT !.val = "flow"]
  <2>1. DOMAIN d = ConnFields /\ d.s = k.s /\ d.at = k.at /\ d.next = k.next /\ d.held = k.held
        /\ d.open = k.open /\ d.out = k.out /\ d.rd = "cleanup"
    BY <1>3 DEF Dies, Shaped, ConnShape, ConnFields
  <2> HIDE DEF d
  <2>2. Like(k, d)
    BY <1>3, <2>1, LikeSame DEF Bringing
  <2>3. Like(cc[c], d)
    BY <1>3, <2>2, FromLike
  <2> QED  BY <2>3 DEF d
<1>9. ConnsTame
  BY <1>1, <1>6, <1>7, <1>8, SetLike
<1> QED  BY <1>1, <1>2, <1>9, StillTame DEF Calm

LEMMA ProcessResetCalm == ASSUME IInv, NEW c \in Conns, ProcessReset(c)  PROVE Calm
<1> DEFINE f == Head(net[c].down)
           k == Forget(cc[c], f.id)
           d == [k EXCEPT !.rd = "reset", !.on = f.id, !.val = f.what]
<1>1. /\ Reads(c, "RST") /\ Taken(c) /\ UNCHANGED <<cas, pool, rt, body>>
      /\ Set(c, d) \/ Set(c, Iterate(cc[c]))
  BY DEF ProcessReset
<1>2. NetTame /\ True(net[c], f.id, f.what)
  BY <1>1, TakenTame DEF Reads, FrameTrue
<1>3. Tame(c, k) /\ Shaped(k)
  BY ConnShaped, ForgetLike, LikeShaped, LikeIsTame
<1> HIDE DEF f, k
<1>4. DOMAIN d = ConnFields /\ d.s = k.s /\ d.at = k.at /\ d.next = k.next /\ d.held = k.held
      /\ d.open = k.open /\ d.out = k.out /\ d.rd = "reset" /\ d.on = f.id /\ d.val = f.what
  BY <1>3 DEF Shaped, ConnShape, ConnFields
<1> HIDE DEF d
<1>5. ReaderTrue(d, net[c])
  BY <1>2, <1>4 DEF ReaderTrue
<1>6. Tame(c, d)
  BY <1>3, <1>4, <1>5 DEF Tame, WriterTame, ConnShape
<1>7. ConnsTame
  BY <1>1, <1>6, ConnShaped, IterateLike, SetLike, SetTame
<1> QED  BY <1>1, <1>2, <1>7, StillTame DEF Calm

LEMMA TellResetCalm == ASSUME IInv, NEW c \in Conns, TellReset(c)  PROVE Calm
<1> DEFINE k == cc[c]
           a == [k EXCEPT !.rd = "run", !.s[k.on].reset = k.val]
           b == EndPipe(a, k.on, "error")
           d == Broadcast(b)
<1>1. k.rd = "reset" /\ UNCHANGED <<cas, pool, rt, body, net>> /\ Set(c, Iterate(d))
  BY DEF TellReset
<1>2. Shaped(k) /\ ConnInv(c) /\ Like(k, k)
  BY ConnShaped, LikeIsReflexive DEF IInv
<1>3. True(net[c], k.on, k.val)
  BY <1>1, <1>2 DEF ConnInv, ReaderTrue
<1>4. PICK s2 : s2 = [k.s[k.on] EXCEPT !.reset = k.val]
  OBVIOUS
<1>5. DOMAIN a = ConnFields /\ a.s = [k.s EXCEPT ![k.on] = s2] /\ a.at = k.at /\ a.next = k.next
      /\ a.held = k.held /\ a.open = k.open /\ a.out = k.out /\ a.rd = "run"
  BY <1>2, <1>4 DEF Shaped, ConnShape, ConnFields
<1> HIDE DEF a
<1>6. Tame(c, a) /\ Shaped(a)
  <2>1. CASE k.on \in StreamIds
    BY <1>2, <1>4, <2>1, <1>5, <1>3, StreamTame DEF Shaped, ConnShape, StreamFields, Answers, ConnInv,
       AnswersInv, ReaderTrue
  <2>2. CASE k.on \notin StreamIds
    <3>1. Like(k, a)
      BY <1>2, <1>5, <2>2, LikeStream DEF Bringing
    <3> QED  BY <3>1, LikeIsTame, LikeShaped
  <2> QED  BY <2>1, <2>2
<1>7. Tame(c, b) /\ Shaped(b)
  BY <1>6, EndPipeLike, TameLike, LikeShaped
<1> HIDE DEF b
<1>8. Tame(c, d) /\ Shaped(d)
  BY <1>7, BroadcastLike, TameLike, LikeShaped
<1> HIDE DEF d
<1>9. Tame(c, Iterate(d))
  BY <1>8, IterateLike, TameLike
<1> QED  BY <1>1, <1>9, SetTame, StillTame DEF Calm

\* MarkDead only takes connections away.
LEMMA MarkedTame == ASSUME IInv, NEW c \in Conns, pool' = MarkedDead(c)  PROVE PoolTame
<1> DEFINE q == pool.conns
           z == RemoveFirst(q, c)
<1>1. PoolInv /\ DOMAIN pool = {"conns", "keys", "dialing"}
  BY DEF IInv, Shape
<1>2. IsSequence(q)
  BY <1>1 DEF PoolInv
<1> HIDE DEF q
<1>3. IsSequence(z) /\ Elems(z) \subseteq Elems(q)
  <2>1. CASE \E i \in 1..Len(q) : q[i] = c
    <3> DEFINE I == {i \in 1..Len(q) : q[i] = c}
               j == Min(I)
    <3>1. Len(q) \in Nat /\ DOMAIN q = 1..Len(q)
      BY <1>2, SequenceLength
    <3>2. z = RemoveAt(q, j)
      BY <2>1 DEF RemoveFirst, SelectInSeq
    <3>3. I \in SUBSET Nat /\ I # {}
      BY <2>1, <3>1
    <3>4. j \in I
      BY <3>3, LeastIn
    <3>5. j \in 1..Len(q)
      BY <3>4
    <3> HIDE DEF I, j
    <3>6. \A i \in 1..(j - 1) : q[i] \in Elems(q)
      BY <3>1, <3>5 DEF Elems
    <3>7. \A i \in (j + 1)..Len(q) : q[i] \in Elems(q)
      BY <3>1, <3>5 DEF Elems
    <3>8. SubSeq(q, 1, j - 1) \in Seq(Elems(q)) /\ SubSeq(q, j + 1, Len(q)) \in Seq(Elems(q))
      BY <3>5, <3>1, <3>6, <3>7, SubSeqProperties
    <3>9. z \in Seq(Elems(q))
      BY <3>2, <3>8, ConcatProperties DEF RemoveAt
    <3> QED  BY <3>9, SequenceOf
  <2>2. CASE ~\E i \in 1..Len(q) : q[i] = c
    BY <1>2, <2>2 DEF RemoveFirst
  <2> QED  BY <2>1, <2>2
<1> HIDE DEF z
<1>4. pool' = pool \/ pool' = [pool EXCEPT !.conns = z, !.keys = @ \ {c}]
  BY DEF MarkedDead, z, q
<1>5. pool'.conns \in {q, z} /\ pool'.dialing = pool.dialing /\ DOMAIN pool' = DOMAIN pool
  BY <1>1, <1>4 DEF q
<1> QED  BY <1>1, <1>2, <1>3, <1>5 DEF PoolInv, PoolTame, q

LEMMA ProcessGoAwayCalm == ASSUME IInv, NEW c \in Conns, ProcessGoAway(c)  PROVE Calm
<1> DEFINE k == cc[c]
           f == Head(net[c].down)
           d == [k EXCEPT !.rd = "goaway", !.on = f.n]
<1>1. Reads(c, "GOAWAY") /\ Taken(c) /\ pool' = MarkedDead(c) /\ Set(c, d) /\ UNCHANGED <<cas, rt, body>>
  BY DEF ProcessGoAway
<1>2. NetTame /\ net[c].last # -1 /\ f.n \in Int /\ f.n >= net[c].last
  BY <1>1, TakenTame DEF Reads, FrameTrue
<1>3. Shaped(k) /\ Tame(c, k)
  BY ConnShaped, LikeIsReflexive, LikeIsTame
<1> HIDE DEF f
<1>4. DOMAIN d = ConnFields /\ d.s = k.s /\ d.at = k.at /\ d.next = k.next /\ d.held = k.held
      /\ d.open = k.open /\ d.out = k.out /\ d.rd = "goaway" /\ d.on = f.n
  BY <1>3 DEF Shaped, ConnShape, ConnFields
<1> HIDE DEF d
<1>5. ReaderTrue(d, net[c])
  BY <1>2, <1>4 DEF ReaderTrue
<1>6. Tame(c, d)
  BY <1>3, <1>4, <1>5 DEF Tame, WriterTame, ConnShape
<1> QED  BY <1>1, <1>2, <1>6, SetTame, MarkedTame, StillTame DEF Calm

\* What a server that has gone away has not processed, it never will.
LEMMA SetGoAwayCalm == ASSUME IInv, NEW c \in Conns, SetGoAway(c)  PROVE Calm
<1> DEFINE k == cc[c]
           told(i) == IF Unprocessed(k, i) /\ k.s[i].resc = "" THEN [k.s[i] EXCEPT !.resc = "goaway"] ELSE k.s[i]
           d == [k EXCEPT !.rd = "run", !.goAway = k.on, !.s = [i \in StreamIds |-> told(i)]]
<1>1. k.rd = "goaway" /\ Set(c, Iterate(d)) /\ UNCHANGED <<cas, pool, rt, body, net>>
  BY DEF SetGoAway
<1>2. Shaped(k) /\ Tame(c, k) /\ ConnInv(c)
  BY ConnShaped, LikeIsReflexive, LikeIsTame DEF IInv
<1>3. net[c].last # -1 /\ k.on \in Int /\ k.on >= net[c].last /\ net[c].last \in Int
  BY <1>1, <1>2 DEF ConnInv, ReaderTrue, ServerInv
<1>4. ASSUME NEW i \in StreamIds, i > k.on  PROVE Spared(net[c], i)
  BY <1>3, <1>4, HTTP2ClientAssumption, <1>2 DEF HTTP2ClientAssumption, ConnInv, ServerInv, Spared
<1>5. DOMAIN d = ConnFields /\ d.s = [i \in StreamIds |-> told(i)] /\ d.at = k.at /\ d.next = k.next /\ d.held = k.held
      /\ d.open = k.open /\ d.out = k.out /\ d.rd = "run"
  BY <1>2 DEF Shaped, ConnShape, ConnFields
<1> HIDE DEF d
<1>6. ASSUME NEW i \in StreamIds
      PROVE  /\ DOMAIN told(i) = StreamFields /\ told(i).r = k.s[i].r /\ told(i).bw = k.s[i].bw
             /\ \A v \in Answers(told(i)) : v \in Answers(k.s[i]) \/ (v = "goaway" /\ i > k.on)
  BY <1>2 DEF Shaped, ConnShape, StreamFields, Answers, Unprocessed
<1> HIDE DEF told
<1>7. \A i \in StreamIds : d.s[i] = told(i)
  BY <1>5
<1>8. ConnShape(d)
  BY <1>5, <1>6, <1>7 DEF ConnShape
<1>9. \A i \in StreamIds : \A v \in Answers(d.s[i]) : True(net[c], i, v)
  BY <1>2, <1>4, <1>6, <1>7 DEF ConnInv, AnswersInv, True
<1>10. Tame(c, d)
  BY <1>5, <1>6, <1>7, <1>2, <1>8, <1>9 DEF ReaderTrue, WriterTame, Tame
<1>11. Shaped(d)
  BY <1>2, <1>5, <1>8 DEF Shaped
<1>12. Tame(c, Iterate(d))
  BY <1>10, <1>11, IterateLike, TameLike
<1> QED  BY <1>1, <1>12, SetTame, StillTame DEF Calm

LEMMA ProcessSettingsCalm == ASSUME IInv, NEW c \in Conns, ProcessSettings(c)  PROVE Calm
<1> DEFINE k == cc[c]
           f == Head(net[c].down)
           b == Broadcast(k)
           s2(i) == IF i \in k.streams THEN [k.s[i] EXCEPT !.flow = @ + f.n - k.win] ELSE k.s[i]
           d == [b EXCEPT !.max = IF f.what = "max" THEN cas.max ELSE @, !.win = f.n, !.s = [i \in StreamIds |-> s2(i)]]
           ack == F("SETTINGSACK", 0, 0, FALSE, "")
<1>1. Reads(c, "SETTINGS") /\ Taken(c) /\ Set(c, Put(d, ack)) /\ UNCHANGED <<cas, pool, rt, body>>
  BY DEF ProcessSettings
<1>2. NetTame
  BY <1>1, TakenTame DEF Reads
<1>3. Shaped(k) /\ Like(k, b) /\ Shaped(b)
  BY ConnShaped, BroadcastLike, LikeShaped
<1>4. \A i \in StreamIds : StreamLike(k.s[i], s2(i))
  <2> HIDE DEF f
  <2> QED  BY <1>3 DEF Shaped, ConnShape, StreamFields, StreamLike, Answers
<1>5. b.s = k.s
  BY <1>3 DEF Broadcast, Shaped, ConnShape, ConnFields
<1> HIDE DEF b, s2
<1>6. DOMAIN d = ConnFields /\ d.s = [i \in StreamIds |-> s2(i)] /\ d.at = b.at /\ d.next = b.next /\ d.held = b.held
      /\ d.open = b.open /\ d.out = b.out /\ d.rd = b.rd /\ d.on = b.on /\ d.val = b.val
  BY <1>3 DEF Shaped, ConnShape, ConnFields
<1> HIDE DEF d
<1>7. DOMAIN d.s = StreamIds /\ \A i \in StreamIds : StreamLike(b.s[i], d.s[i])
  BY <1>4, <1>5, <1>6
<1>8. Like(b, d)
  BY <1>3, <1>6, <1>7, LikeStreams
<1>9. Like(k, d) /\ Shaped(d)
  BY <1>3, <1>8, FromLike, LikeShaped
<1>10. ack.t = "SETTINGSACK" /\ ~ack.end
  BY DEF F
<1> HIDE DEF ack
<1>11. Like(k, Put(d, ack))
  BY <1>9, <1>10, PutLike, FromLike
<1> QED  BY <1>1, <1>2, <1>11, SetLike, StillTame DEF Calm

LEMMA ProcessWindowUpdateCalm == ASSUME IInv, NEW c \in Conns, ProcessWindowUpdate(c)  PROVE Calm
<1> DEFINE k == cc[c]
           f == Head(net[c].down)
           b == Broadcast(k)
           d1 == [b EXCEPT !.flow = @ + f.n]
           d2 == [b EXCEPT !.s[f.id].flow = @ + f.n]
<1>1. Reads(c, "WINDOW") /\ Taken(c) /\ UNCHANGED <<cas, pool, rt, body>> /\ (Set(c, d1) \/ Set(c, d2) \/ Set(c, k))
  BY DEF ProcessWindowUpdate
<1>2. NetTame
  BY <1>1, TakenTame DEF Reads
<1>3. Shaped(k) /\ Like(k, b) /\ Shaped(b) /\ Like(k, k)
  BY ConnShaped, BroadcastLike, LikeShaped, LikeIsReflexive
<1> HIDE DEF f, b
<1>4. Like(b, d1)
  <2>1. DOMAIN d1 = ConnFields /\ d1.s = b.s /\ d1.at = b.at /\ d1.next = b.next /\ d1.held = b.held
        /\ d1.open = b.open /\ d1.out = b.out /\ d1.rd = b.rd /\ d1.on = b.on /\ d1.val = b.val
    BY <1>3 DEF Shaped, ConnShape, ConnFields
  <2> HIDE DEF d1
  <2> QED  BY <1>3, <2>1, LikeSame
<1>5. Like(b, d2)
  <2>1. PICK s2 : s2 = [b.s[f.id] EXCEPT !.flow = @ + f.n]
    OBVIOUS
  <2>2. DOMAIN d2 = ConnFields /\ d2.s = [b.s EXCEPT ![f.id] = s2] /\ d2.at = b.at /\ d2.next = b.next
        /\ d2.held = b.held /\ d2.open = b.open /\ d2.out = b.out /\ d2.rd = b.rd /\ d2.on = b.on /\ d2.val = b.val
    BY <1>3, <2>1 DEF Shaped, ConnShape, ConnFields
  <2>3. f.id \in StreamIds => StreamLike(b.s[f.id], s2)
    BY <1>3, <2>1 DEF Shaped, ConnShape, StreamFields, StreamLike, Answers
  <2> HIDE DEF d2
  <2> QED  BY <1>3, <2>2, <2>3, LikeStream
<1> HIDE DEF d1, d2
<1>6. Like(k, d1) /\ Like(k, d2)
  BY <1>3, <1>4, <1>5, FromLike
<1> QED  BY <1>1, <1>2, <1>3, <1>6, SetLike, StillTame DEF Calm

LEMMA ProcessStreamErrorCalm == ASSUME IInv, NEW c \in Conns, ProcessStreamError(c)  PROVE Calm
<1> DEFINE k == cc[c]
           i == Head(net[c].down).id
           a == WriteReset(k, i)
           b == Forget(a, i)
           d == EndStreamError(b, i, "error")
<1>1. Reads(c, "ERROR") /\ Taken(c) /\ UNCHANGED <<cas, pool, rt, body>> /\ (Set(c, d) \/ Set(c, k))
  BY DEF ProcessStreamError
<1>2. NetTame
  BY <1>1, TakenTame DEF Reads
<1>3. Shaped(k) /\ Like(k, k) /\ Like(k, a) /\ Shaped(a)
  BY ConnShaped, WriteResetLike, LikeShaped, LikeIsReflexive
<1> HIDE DEF i, a
<1>4. Like(k, b) /\ Shaped(b)
  BY <1>3, ForgetLike, FromLike, LikeShaped
<1> HIDE DEF b
<1>5. Like(k, d)
  BY <1>4, EndStreamErrorLike, FromLike
<1> QED  BY <1>1, <1>2, <1>3, <1>5, SetLike, StillTame DEF Calm

LEMMA DiesLike == ASSUME NEW k, Shaped(k)  PROVE Like(k, Dies(k))
<1> DEFINE d == Dies(k)
<1>1. DOMAIN d = ConnFields /\ d.s = k.s /\ d.at = k.at /\ d.next = k.next /\ d.held = k.held
      /\ d.open = k.open /\ d.out = k.out /\ d.rd = "cleanup"
  BY DEF Dies, Shaped, ConnShape, ConnFields
<1> HIDE DEF d
<1>2. Like(k, d)
  BY <1>1, LikeSame DEF Bringing
<1> QED  BY <1>2 DEF d

LEMMA ReaderEndsCalm ==
  ASSUME IInv, NEW c \in Conns, ProcessConnectionError(c) \/ ReadFails(c)  PROVE Calm
<1>1. ConnsTame
  <2>1. Set(c, Dies(cc[c]))
    BY DEF ProcessConnectionError, ReadFails
  <2> QED  BY <2>1, ConnShaped, DiesLike, SetLike
<1>2. NetTame /\ UNCHANGED <<cas, pool, rt>>
  BY TakenTame, StillTame DEF ProcessConnectionError, ReadFails, Reads
<1> QED  BY <1>1, <1>2, StillTame DEF Calm

LEMMA CleanupCalm == ASSUME IInv, NEW c \in Conns, Cleanup(c)  PROVE Calm
<1> DEFINE k == cc[c]
           over == Over(k)
           s2(i) == IF i \in k.streams THEN [over.s[i] EXCEPT !.done = TRUE] ELSE over.s[i]
           d == [over EXCEPT !.rd = "dead", !.idle = FALSE, !.s = [i \in StreamIds |-> s2(i)]]
<1>1. Set(c, d) /\ UNCHANGED <<cas, pool, rt, body, net>>
  BY DEF Cleanup
<1>2. Shaped(k) /\ Like(k, over) /\ Shaped(over)
  BY ConnShaped, OverLike, LikeShaped
<1> HIDE DEF over
<1>3. \A i \in StreamIds : StreamLike(over.s[i], s2(i))
  BY <1>2 DEF Shaped, ConnShape, StreamFields, StreamLike, Answers
<1> HIDE DEF s2
<1>4. DOMAIN d = ConnFields /\ d.s = [i \in StreamIds |-> s2(i)] /\ d.at = over.at /\ d.next = over.next
      /\ d.held = over.held /\ d.open = over.open /\ d.out = over.out /\ d.rd = "dead"
  BY <1>2 DEF Shaped, ConnShape, ConnFields
<1> HIDE DEF d
<1>5. DOMAIN d.s = StreamIds /\ \A i \in StreamIds : StreamLike(over.s[i], d.s[i])
  BY <1>3, <1>4
<1>6. Like(over, d)
  BY <1>2, <1>4, <1>5, LikeStreams DEF Bringing
<1>7. Like(k, d)
  BY <1>2, <1>6, FromLike
<1> QED  BY <1>1, <1>7, SetLike, StillTame DEF Calm

LEMMA ClosedCalm == ASSUME IInv, NEW c \in Conns, Closed(c)  PROVE Calm
<1> DEFINE k == cc[c]
           d == [k EXCEPT !.rd = "off", !.open = "closed"]
<1>1. Set(c, d) /\ pool' = MarkedDead(c) /\ UNCHANGED <<cas, rt, body, net>>
  BY DEF Closed
<1>2. Shaped(k)
  BY ConnShaped
<1>3. DOMAIN d = ConnFields /\ d.s = k.s /\ d.at = k.at /\ d.next = k.next
      /\ d.held = k.held /\ d.open # "open" /\ d.out = k.out /\ d.rd = "off"
  BY <1>2 DEF Shaped, ConnShape, ConnFields
<1> HIDE DEF d
<1>4. Like(k, d)
  BY <1>2, <1>3, LikeSame DEF Bringing
<1> QED  BY <1>1, <1>4, SetLike, MarkedTame, StillTame DEF Calm

-----------------------------------------------------------------------------
(* The calm steps of the goroutines of a stream.                           *)

\* A writer that has begun has its HEADERS on the wire and has not ended the stream.
LEMMA WriterAt ==
  ASSUME IInv, NEW c \in Conns, NEW i \in StreamIds, cc[c].s[i].bw \in Writes
  PROVE  /\ ~Headed(c, i)
         /\ cc[c].open = "open" => i \in WireOpened(cc[c], net[c]) \ WireEnded(cc[c], net[c])
BY DEF Headed, IInv, TripInv, TripGood, Writes, WriterInv

\* The writer's next step, or its end.
LEMMA WriterGoes ==
  ASSUME IInv, NEW c \in Conns, NEW i \in StreamIds, cc[c].s[i].bw \in Writes,
         NEW k, Like(cc[c], k), NEW k2, DOMAIN k2 = ConnFields, NEW s2, k2.s = [k.s EXCEPT ![i] = s2],
         k2.at = k.at, k2.next = k.next, k2.held = k.held, k2.open = k.open, k2.out = k.out, k2.rd = k.rd,
         k2.on = k.on, k2.val = k.val, DOMAIN s2 = StreamFields, s2.r = k.s[i].r, s2.bw # "delay",
         \A v \in Answers(s2) : v \in Answers(k.s[i]) \/ True(net[c], i, v)
  PROVE  Tame(c, k2)
<1>1. Tame(c, k) /\ Shaped(k)
  BY LikeIsTame, LikeShaped
<1>2. ConnShape(k2)
  BY <1>1 DEF Shaped, ConnShape
<1>3. ReaderTrue(k2, net[c])
  BY <1>1 DEF Tame, ReaderTrue
<1>4. \A v \in Answers(s2) : True(net[c], i, v)
  BY <1>1 DEF Tame
<1>5. s2.r = cc[c].s[i].r
  BY <1>1 DEF Tame
<1>6. ~Headed(c, i) /\ (k2.open = "open" => i \in WireOpened(cc[c], net[c]) \ WireEnded(cc[c], net[c]))
  BY <1>1, WriterAt DEF Tame
<1> QED  BY <1>2, <1>3, <1>4, <1>5, <1>6, StreamTame

LEMMA EndsTame ==
  ASSUME IInv, NEW c \in Conns, NEW i \in StreamIds, cc[c].s[i].bw \in Writes,
         NEW k, Like(cc[c], k), NEW res, True(net[c], i, res)
  PROVE  Tame(c, Ends(k, i, res))
<1> DEFINE k2 == Ends(k, i, res)
<1>1. Shaped(k)
  BY LikeShaped
<1>2. PICK s2 : s2 = [k.s[i] EXCEPT !.bw = "close", !.res = res]
  OBVIOUS
<1>3. DOMAIN k2 = ConnFields /\ k2.s = [k.s EXCEPT ![i] = s2] /\ k2.at = k.at /\ k2.next = k.next
      /\ k2.held = k.held /\ k2.open = k.open /\ k2.out = k.out /\ k2.rd = k.rd /\ k2.on = k.on /\ k2.val = k.val
  BY <1>1, <1>2 DEF Shaped, ConnShape, ConnFields, Ends
<1>4. DOMAIN s2 = StreamFields /\ s2.r = k.s[i].r /\ s2.bw = "close"
      /\ \A v \in Answers(s2) : v \in Answers(k.s[i]) \/ v = res
  BY <1>1, <1>2 DEF Shaped, ConnShape, StreamFields, Answers
<1> HIDE DEF k2
<1>5. Tame(c, k2)
  BY <1>3, <1>4, WriterGoes
<1> QED  BY <1>5 DEF k2

LEMMA FireCalm == ASSUME IInv, NEW c \in Conns, NEW i \in StreamIds, Fire(c, i)  PROVE Calm
<1> DEFINE k == cc[c]
           d == [k EXCEPT !.s[i].bw = "go"]
<1>1. k.s[i].bw = "delay" /\ rt[k.s[i].r].at # "headers" /\ Set(c, d) /\ UNCHANGED <<cas, pool, rt, body, net>>
  BY DEF Fire
<1>2. Shaped(k) /\ ConnInv(c) /\ WriterInv(c) /\ Like(k, k)
  BY ConnShaped, LikeIsReflexive DEF IInv
<1>3. PICK s2 : s2 = [k.s[i] EXCEPT !.bw = "go"]
  OBVIOUS
<1>4. DOMAIN d = ConnFields /\ d.s = [k.s EXCEPT ![i] = s2] /\ d.at = k.at /\ d.next = k.next
      /\ d.held = k.held /\ d.open = k.open /\ d.out = k.out /\ d.rd = k.rd /\ d.on = k.on /\ d.val = k.val
  BY <1>2, <1>3 DEF Shaped, ConnShape, ConnFields
<1> HIDE DEF d
<1>5. DOMAIN s2 = StreamFields /\ s2.r = k.s[i].r /\ s2.bw = "go" /\ Answers(s2) = Answers(k.s[i])
  BY <1>2, <1>3 DEF Shaped, ConnShape, StreamFields, Answers
<1>6. ConnShape(d)
  BY <1>2, <1>4, <1>5 DEF Shaped, ConnShape
<1>7. ReaderTrue(d, net[c]) /\ \A v \in Answers(s2) : True(net[c], i, v)
  BY <1>2, <1>4, <1>5 DEF ConnInv, ReaderTrue, AnswersInv
<1>8. ~Headed(c, i)
  BY <1>1 DEF Headed, IInv, TripInv, TripGood, OnStream
<1>9. d.open = "open" => i \in WireOpened(k, net[c]) \ WireEnded(k, net[c])
  BY <1>1, <1>2, <1>4 DEF WriterInv
<1>10. Tame(c, d)
  BY <1>2, <1>4, <1>5, <1>6, <1>7, <1>8, <1>9, StreamTame
<1> QED  BY <1>1, <1>10, SetTame, StillTame DEF Calm

LEMMA StartWriteCalm == ASSUME IInv, NEW c \in Conns, NEW i \in StreamIds, StartWrite(c, i)  PROVE Calm
<1> DEFINE k == cc[c]
           d == [k EXCEPT !.s[i].bw = "read", !.s[i].started = TRUE]
<1>1. k.s[i].bw = "go" /\ Set(c, d) /\ UNCHANGED <<cas, pool, rt, body, net>>
  BY DEF StartWrite
<1>2. Shaped(k) /\ Like(k, k)
  BY ConnShaped, LikeIsReflexive
<1>3. PICK s2 : s2 = [k.s[i] EXCEPT !.bw = "read", !.started = TRUE]
  OBVIOUS
<1>4. DOMAIN d = ConnFields /\ d.s = [k.s EXCEPT ![i] = s2] /\ d.at = k.at /\ d.next = k.next
      /\ d.held = k.held /\ d.open = k.open /\ d.out = k.out /\ d.rd = k.rd /\ d.on = k.on /\ d.val = k.val
  BY <1>2, <1>3 DEF Shaped, ConnShape, ConnFields
<1> HIDE DEF d
<1>5. DOMAIN s2 = StreamFields /\ s2.r = k.s[i].r /\ s2.bw = "read" /\ Answers(s2) = Answers(k.s[i])
  BY <1>2, <1>3 DEF Shaped, ConnShape, StreamFields, Answers
<1>6. Tame(c, d)
  BY <1>1, <1>2, <1>4, <1>5, WriterGoes DEF Writes
<1> QED  BY <1>1, <1>6, SetTame, StillTame DEF Calm

LEMMA ReadBodyCalm == ASSUME IInv, NEW c \in Conns, NEW i \in StreamIds, ReadBody(c, i)  PROVE Calm
<1> DEFINE k == cc[c]
           a == [k EXCEPT !.s[i].bw = "end"]
           b(eof) == [k EXCEPT !.s[i].bw = "flow", !.s[i].eof = eof]
<1>1. /\ k.s[i].bw = "read" /\ UNCHANGED <<cas, pool, rt, net>>
      /\ Set(c, Ends(WriteReset(k, i), i, "body")) \/ Set(c, a) \/ \E eof : Set(c, b(eof))
  BY DEF ReadBody
<1>2. Shaped(k) /\ Like(k, k) /\ k.s[i].bw \in Writes
  BY <1>1, ConnShaped, LikeIsReflexive DEF Writes
<1>3. Tame(c, Ends(WriteReset(k, i), i, "body"))
  BY <1>2, WriteResetLike, EndsTame DEF True
<1>4. Tame(c, a)
  <2>1. PICK s2 : s2 = [k.s[i] EXCEPT !.bw = "end"]
    OBVIOUS
  <2>2. DOMAIN a = ConnFields /\ a.s = [k.s EXCEPT ![i] = s2] /\ a.at = k.at /\ a.next = k.next
        /\ a.held = k.held /\ a.open = k.open /\ a.out = k.out /\ a.rd = k.rd /\ a.on = k.on /\ a.val = k.val
    BY <1>2, <2>1 DEF Shaped, ConnShape, ConnFields
  <2> HIDE DEF a
  <2>3. DOMAIN s2 = StreamFields /\ s2.r = k.s[i].r /\ s2.bw = "end" /\ Answers(s2) = Answers(k.s[i])
    BY <1>2, <2>1 DEF Shaped, ConnShape, StreamFields, Answers
  <2> QED  BY <1>2, <2>2, <2>3, WriterGoes
<1>5. ASSUME NEW eof  PROVE Tame(c, b(eof))
  <2>1. PICK s2 : s2 = [k.s[i] EXCEPT !.bw = "flow", !.eof = eof]
    OBVIOUS
  <2>2. PICK d : d = b(eof)
    OBVIOUS
  <2>3. DOMAIN d = ConnFields /\ d.s = [k.s EXCEPT ![i] = s2] /\ d.at = k.at /\ d.next = k.next
        /\ d.held = k.held /\ d.open = k.open /\ d.out = k.out /\ d.rd = k.rd /\ d.on = k.on /\ d.val = k.val
    BY <1>2, <2>1, <2>2 DEF Shaped, ConnShape, ConnFields
  <2>4. DOMAIN s2 = StreamFields /\ s2.r = k.s[i].r /\ s2.bw = "flow" /\ Answers(s2) = Answers(k.s[i])
    BY <1>2, <2>1 DEF Shaped, ConnShape, StreamFields, Answers
  <2>5. Tame(c, d)
    BY <1>2, <2>3, <2>4, WriterGoes
  <2> QED  BY <2>2, <2>5
<1>6. ConnsTame
  BY <1>1, <1>3, <1>4, <1>5, SetTame
<1> QED  BY <1>1, <1>6, StillTame DEF Calm

LEMMA AwaitFlowControlCalm ==
  ASSUME IInv, NEW c \in Conns, NEW i \in StreamIds, AwaitFlowControl(c, i)  PROVE Calm
<1> DEFINE k == cc[c]
           s == k.s[i]
           a == [k EXCEPT !.flow = @ - 1, !.s[i].flow = @ - 1, !.s[i].bw = "data"]
           b == [k EXCEPT !.asleep = @ \cup {i}]
<1>1. /\ s.bw = "flow" /\ UNCHANGED <<cas, pool, rt, body, net>>
      /\ \/ Set(c, Ends(k, i, "closed")) \/ Set(c, Ends(k, i, "stopped")) \/ Set(c, Ends(WriteReset(k, i), i, "stopped"))
         \/ Set(c, Ends(k, i, s.reset)) \/ Set(c, Ends(k, i, "done")) \/ Set(c, a) \/ Set(c, b)
  <2> HIDE DEF a, b
  <2>1. /\ s.bw = "flow" /\ UNCHANGED <<cas, pool, rt, body, net>>
        /\ Set(c, CASE k.closed -> Ends(k, i, "closed")
              [] ~k.closed /\ s.stop = "stop" -> Ends(k, i, "stopped")
              [] ~k.closed /\ s.stop = "cancel" -> Ends(WriteReset(k, i), i, "stopped")
              [] ~k.closed /\ s.stop = "" /\ s.reset # "" -> Ends(k, i, s.reset)
              [] ~k.closed /\ s.stop = "" /\ s.reset = "" /\ s.done -> Ends(k, i, "done")
              [] OTHER -> IF Available(k, i) > 0 THEN a ELSE b)
    BY DEF AwaitFlowControl, a, b
  <2> QED  BY <2>1
<1>2. Shaped(k) /\ Like(k, k) /\ ConnInv(c) /\ s.bw \in Writes
  BY <1>1, ConnShaped, LikeIsReflexive DEF IInv, Writes
<1>3. True(net[c], i, "closed") /\ True(net[c], i, "stopped") /\ True(net[c], i, "done")
  BY DEF True
<1>4. True(net[c], i, s.reset)
  BY <1>2 DEF ConnInv, AnswersInv, Answers
<1>5. Like(k, WriteReset(k, i))
  BY <1>2, WriteResetLike
<1>6. Tame(c, a)
  <2>1. PICK s2 : s2 = [k.s[i] EXCEPT !.flow = @ - 1, !.bw = "data"]
    OBVIOUS
  <2>2. DOMAIN a = ConnFields /\ a.s = [k.s EXCEPT ![i] = s2] /\ a.at = k.at /\ a.next = k.next
        /\ a.held = k.held /\ a.open = k.open /\ a.out = k.out /\ a.rd = k.rd /\ a.on = k.on /\ a.val = k.val
    BY <1>2, <2>1 DEF Shaped, ConnShape, ConnFields
  <2> HIDE DEF a
  <2>3. DOMAIN s2 = StreamFields /\ s2.r = k.s[i].r /\ s2.bw = "data" /\ Answers(s2) = Answers(k.s[i])
    BY <1>2, <2>1 DEF Shaped, ConnShape, StreamFields, Answers
  <2> QED  BY <1>2, <2>2, <2>3, WriterGoes
<1>7. Like(k, b)
  <2>1. DOMAIN b = ConnFields /\ b.s = k.s /\ b.at = k.at /\ b.next = k.next /\ b.held = k.held
        /\ b.open = k.open /\ b.out = k.out /\ b.rd = k.rd /\ b.on = k.on /\ b.val = k.val
    BY <1>2 DEF Shaped, ConnShape, ConnFields
  <2> HIDE DEF b
  <2> QED  BY <1>2, <2>1, LikeSame
<1> HIDE DEF a, b
<1>8. ConnsTame
  BY <1>1, <1>2, <1>3, <1>4, <1>5, <1>6, <1>7, EndsTame, SetTame, SetLike
<1> QED  BY <1>1, <1>8, StillTame DEF Calm

LEMMA CloseBodyCalm == ASSUME IInv, NEW c \in Conns, NEW i \in StreamIds, CloseBody(c, i)  PROVE Calm
<1> DEFINE k == cc[c]
           d == [k EXCEPT !.s[i].bw = "off", !.s[i].bres = k.s[i].res]
<1>1. Set(c, d) /\ UNCHANGED <<cas, pool, rt, net>>
  BY DEF CloseBody
<1>2. Shaped(k)
  BY ConnShaped
<1>3. PICK s2 : s2 = [k.s[i] EXCEPT !.bw = "off", !.bres = k.s[i].res]
  OBVIOUS
<1>4. DOMAIN d = ConnFields /\ d.s = [k.s EXCEPT ![i] = s2] /\ d.at = k.at /\ d.next = k.next
      /\ d.held = k.held /\ d.open = k.open /\ d.out = k.out /\ d.rd = k.rd /\ d.on = k.on /\ d.val = k.val
  BY <1>2, <1>3 DEF Shaped, ConnShape, ConnFields
<1> HIDE DEF d
<1>5. StreamLike(k.s[i], s2)
  BY <1>2, <1>3 DEF Shaped, ConnShape, StreamFields, StreamLike, Answers
<1>6. Like(k, d)
  BY <1>2, <1>4, <1>5, LikeStream
<1> QED  BY <1>1, <1>6, SetLike, StillTame DEF Calm

LEMMA WatchCalm == ASSUME IInv, NEW c \in Conns, NEW i \in StreamIds, Watch(c, i)  PROVE Calm
<1> DEFINE k == cc[c]
           s == k.s[i]
           watched(k1, w) == [k1 EXCEPT !.s[i].watch = w]
<1>1. /\ UNCHANGED <<cas, pool, rt, body, net>>
      /\ \/ Set(c, watched(WriteReset(k, i), "forget")) \/ Set(c, watched(Forget(k, i), "pipe"))
         \/ Set(c, EndPipe(watched(k, "off"), i, "cancelled"))
  BY DEF Watch
<1>2. Shaped(k) /\ Like(k, k)
  BY ConnShaped, LikeIsReflexive
<1>3. ASSUME NEW k1, NEW w, Shaped(k1)  PROVE Like(k1, watched(k1, w))
  <2>1. PICK s2 : s2 = [k1.s[i] EXCEPT !.watch = w]
    OBVIOUS
  <2>2. PICK d : d = watched(k1, w)
    OBVIOUS
  <2>3. DOMAIN d = ConnFields /\ d.s = [k1.s EXCEPT ![i] = s2] /\ d.at = k1.at /\ d.next = k1.next
        /\ d.held = k1.held /\ d.open = k1.open /\ d.out = k1.out /\ d.rd = k1.rd /\ d.on = k1.on /\ d.val = k1.val
    BY <1>3, <2>1, <2>2 DEF Shaped, ConnShape, ConnFields
  <2>4. StreamLike(k1.s[i], s2)
    BY <1>3, <2>1 DEF Shaped, ConnShape, StreamFields, StreamLike, Answers
  <2>5. Like(k1, d)
    BY <1>3, <2>3, <2>4, LikeStream
  <2> QED  BY <2>2, <2>5
<1> HIDE DEF watched
<1>4. Like(k, WriteReset(k, i)) /\ Shaped(WriteReset(k, i)) /\ Like(k, Forget(k, i)) /\ Shaped(Forget(k, i))
  BY <1>2, WriteResetLike, ForgetLike, LikeShaped
<1>5. Like(k, watched(WriteReset(k, i), "forget")) /\ Like(k, watched(Forget(k, i), "pipe"))
  BY <1>3, <1>4, FromLike
<1>6. Like(k, watched(k, "off")) /\ Shaped(watched(k, "off"))
  BY <1>2, <1>3, LikeShaped
<1>7. Like(k, EndPipe(watched(k, "off"), i, "cancelled"))
  BY <1>6, EndPipeLike, FromLike
<1> QED  BY <1>1, <1>5, <1>7, SetLike, StillTame DEF Calm

LEMMA WatchWakesCalm == ASSUME IInv, NEW c \in Conns, NEW i \in StreamIds, WatchWakes(c, i)  PROVE Calm
<1> DEFINE k == cc[c]
<1>1. PICK x, w : /\ Set(c, [k EXCEPT !.s[i].didReset = x, !.s[i].watch = w]) \/ Set(c, [k EXCEPT !.s[i].watch = w])
                  /\ UNCHANGED <<cas, pool, rt, body, net>>
  BY DEF WatchWakes
<1>2. Shaped(k)
  BY ConnShaped
<1>3. PICK s2 : s2 = [k.s[i] EXCEPT !.didReset = x, !.watch = w]
  OBVIOUS
<1>4. PICK s3 : s3 = [k.s[i] EXCEPT !.watch = w]
  OBVIOUS
<1>5. PICK d, e : d = [k EXCEPT !.s[i].didReset = x, !.s[i].watch = w] /\ e = [k EXCEPT !.s[i].watch = w]
  OBVIOUS
<1>6. DOMAIN d = ConnFields /\ d.s = [k.s EXCEPT ![i] = s2] /\ d.at = k.at /\ d.next = k.next
      /\ d.held = k.held /\ d.open = k.open /\ d.out = k.out /\ d.rd = k.rd /\ d.on = k.on /\ d.val = k.val
  BY <1>2, <1>3, <1>5 DEF Shaped, ConnShape, ConnFields
<1>7. DOMAIN e = ConnFields /\ e.s = [k.s EXCEPT ![i] = s3] /\ e.at = k.at /\ e.next = k.next
      /\ e.held = k.held /\ e.open = k.open /\ e.out = k.out /\ e.rd = k.rd /\ e.on = k.on /\ e.val = k.val
  BY <1>2, <1>4, <1>5 DEF Shaped, ConnShape, ConnFields
<1>8. StreamLike(k.s[i], s2) /\ StreamLike(k.s[i], s3)
  BY <1>2, <1>3, <1>4 DEF Shaped, ConnShape, StreamFields, StreamLike, Answers
<1>9. Like(k, d) /\ Like(k, e)
  BY <1>2, <1>6, <1>7, <1>8, LikeStream
<1> QED  BY <1>1, <1>5, <1>9, SetLike, StillTame DEF Calm

-----------------------------------------------------------------------------
(* The calm steps of a request.                                            *)

LEMMA TripAt ==
  ASSUME IInv, NEW r \in Reqs
  PROVE  /\ rt[r].at \in OnConn => rt[r].c \in Conns
         /\ rt[r].at \in OnStream => rt[r].id \in StreamIds
         /\ rt[r].at \in {"start", "dial", "got", "trip", "slot", "slotcancelled"} => rt[r].id = 0
         /\ rt[r].at \in OnConn =>
              /\ Shaped(cc[rt[r].c]) /\ Like(cc[rt[r].c], cc[rt[r].c])
              /\ \A i \in StreamIds : \A v \in Answers(cc[rt[r].c].s[i]) : True(net[rt[r].c], i, v)
<1>1. TripGood(r, rt[r])
  BY DEF IInv, TripInv
<1>2. ASSUME rt[r].at \in OnConn
      PROVE  /\ Shaped(cc[rt[r].c]) /\ Like(cc[rt[r].c], cc[rt[r].c])
             /\ \A i \in StreamIds : \A v \in Answers(cc[rt[r].c].s[i]) : True(net[rt[r].c], i, v)
  <2>1. rt[r].c \in Conns
    BY <1>1, <1>2 DEF TripGood
  <2> QED  BY <2>1, ConnShaped, LikeIsReflexive DEF IInv, ConnInv, AnswersInv
<1> QED  BY <1>1, <1>2 DEF TripGood

LEMMA StepTame ==
  ASSUME IInv, NEW r \in Reqs, NEW a, Step(r, a), rt[r].at # "headers",
         a \notin {"headers", "dial", "start", "forget", "decide"},
         a \in OnConn => rt[r].at \in OnConn,
         a \in {"got", "trip", "slot", "slotcancelled"} => rt[r].id = 0,
         a \in OnStream => rt[r].at \in OnStream
  PROVE  TripsTame
<1>1. PICK e : e = rt[r].err
  OBVIOUS
<1> QED  BY <1>1, MoveTame

LEMMA StopIdleTimerCalm == ASSUME IInv, NEW r \in Reqs, StopIdleTimer(r)  PROVE Calm
<1> DEFINE c == rt[r].c
           k == cc[c]
           d == [k EXCEPT !.idle = FALSE]
<1>1. rt[r].at = "got" /\ Set(c, d) /\ Step(r, "trip") /\ UNCHANGED <<cas, pool, body, net>>
  BY DEF StopIdleTimer
<1>2. c \in Conns /\ Shaped(k) /\ rt[r].id = 0
  BY <1>1, TripAt DEF OnConn
<1>3. DOMAIN d = ConnFields /\ d.s = k.s /\ d.at = k.at /\ d.next = k.next /\ d.held = k.held
      /\ d.open = k.open /\ d.out = k.out /\ d.rd = k.rd /\ d.on = k.on /\ d.val = k.val
  BY <1>2 DEF Shaped, ConnShape, ConnFields
<1> HIDE DEF d
<1>4. ConnsTame
  BY <1>1, <1>2, <1>3, LikeSame, SetLike
<1>5. TripsTame
  BY <1>1, <1>2, MoveTame DEF OnConn, OnStream
<1> QED  BY <1>1, <1>4, <1>5, StillTame DEF Calm

LEMMA SlotCancelCalm == ASSUME IInv, NEW r \in Reqs, SlotCancel(r)  PROVE Calm
<1>1. rt[r].at = "slot" /\ Set(rt[r].c, Broadcast(cc[rt[r].c])) /\ Step(r, "slotcancelled")
      /\ UNCHANGED <<cas, pool, body, net>>
  BY DEF SlotCancel
<1>2. rt[r].c \in Conns /\ Shaped(cc[rt[r].c]) /\ rt[r].id = 0
  BY <1>1, TripAt DEF OnConn
<1>3. ConnsTame
  BY <1>1, <1>2, BroadcastLike, SetLike
<1>4. TripsTame
  BY <1>1, <1>2, MoveTame DEF OnConn, OnStream
<1> QED  BY <1>1, <1>3, <1>4, StillTame DEF Calm

\* handleReadLoopResponse, when the answer is of the request's stream.
LEMMA AnsweredTame ==
  ASSUME IInv, NEW r \in Reqs, rt[r].at = "wait", NEW k, Like(cc[rt[r].c], k), NEW v,
         True(net[rt[r].c], rt[r].id, v), Answered(r, rt[r].c, k, v)
  PROVE  ConnsTame /\ TripsTame
<1> DEFINE i == rt[r].id
           taken == [k EXCEPT !.s[i].resc = ""]
<1>1. rt[r].c \in Conns /\ Shaped(k) /\ i \in StreamIds
  BY TripAt, LikeShaped DEF OnConn, OnStream
<1>2. Like(k, taken)
  <2>1. PICK s2 : s2 = [k.s[i] EXCEPT !.resc = ""]
    OBVIOUS
  <2>2. DOMAIN taken = ConnFields /\ taken.s = [k.s EXCEPT ![i] = s2] /\ taken.at = k.at /\ taken.next = k.next
        /\ taken.held = k.held /\ taken.open = k.open /\ taken.out = k.out /\ taken.rd = k.rd /\ taken.on = k.on
        /\ taken.val = k.val
    BY <1>1, <2>1 DEF Shaped, ConnShape, ConnFields
  <2> HIDE DEF taken
  <2>3. StreamLike(k.s[i], s2)
    BY <1>1, <2>1 DEF Shaped, ConnShape, StreamFields, StreamLike, Answers, Retriable
  <2> QED  BY <1>1, <2>2, <2>3, LikeStream
<1>3. /\ Set(rt[r].c, taken) \/ Set(rt[r].c, Abort(taken, i, "stop"))
      /\ Step(r, "body") \/ Fails(r, "forget", v)
  BY DEF Answered
<1> HIDE DEF taken
<1>4. Like(cc[rt[r].c], taken) /\ Shaped(taken)
  BY <1>1, <1>2, FromLike, LikeShaped
<1>5. Like(cc[rt[r].c], Abort(taken, i, "stop"))
  BY <1>1, <1>4, AbortLike, FromLike
<1>6. ConnsTame
  BY <1>1, <1>3, <1>4, <1>5, SetLike
<1>7. TripsTame
  BY MoveTame, <1>3 DEF OnConn, OnStream, True
<1> QED  BY <1>6, <1>7

LEMMA SelectResponseCalm == ASSUME IInv, NEW r \in Reqs, SelectResponse(r)  PROVE Calm
<1> DEFINE v == cc[rt[r].c].s[rt[r].id].resc
<1>1. rt[r].at = "wait" /\ Answered(r, rt[r].c, cc[rt[r].c], v) /\ UNCHANGED <<cas, pool, body, net>>
  BY DEF SelectResponse
<1>2. rt[r].id \in StreamIds /\ Like(cc[rt[r].c], cc[rt[r].c])
  BY <1>1, TripAt DEF OnConn, OnStream
<1>3. True(net[rt[r].c], rt[r].id, v)
  BY <1>1, <1>2, TripAt DEF OnConn, Answers
<1> HIDE DEF v
<1> QED  BY <1>1, <1>2, <1>3, AnsweredTame, StillTame DEF Calm

LEMMA SelectCancelCalm == ASSUME IInv, NEW r \in Reqs, SelectCancel(r)  PROVE Calm
<1> DEFINE c == rt[r].c
           i == rt[r].id
<1>1. /\ rt[r].at = "wait" /\ Fails(r, "forget", "cancelled") /\ UNCHANGED <<cas, pool, body, net>>
      /\ Set(c, WriteReset(cc[c], i)) \/ Set(c, Abort(cc[c], i, "cancel"))
  BY DEF SelectCancel
<1>2. c \in Conns /\ Shaped(cc[c])
  BY <1>1, TripAt DEF OnConn
<1>3. ConnsTame
  BY <1>1, <1>2, WriteResetLike, AbortLike, SetLike
<1>4. TripsTame
  BY <1>1, MoveTame DEF OnConn, OnStream
<1> QED  BY <1>1, <1>3, <1>4, StillTame DEF Calm

LEMMA SelectTimeoutCalm == ASSUME IInv, NEW r \in Reqs, SelectTimeout(r)  PROVE Calm
<1> DEFINE c == rt[r].c
<1>1. /\ rt[r].at = "wait" /\ Fails(r, "forget", "timeout") /\ UNCHANGED <<cas, pool, body, net>>
      /\ Set(c, WriteReset(cc[c], rt[r].id))
  BY DEF SelectTimeout
<1>2. c \in Conns /\ Shaped(cc[c])
  BY <1>1, TripAt DEF OnConn
<1>3. ConnsTame
  BY <1>1, <1>2, WriteResetLike, SetLike
<1>4. TripsTame
  BY <1>1, MoveTame DEF OnConn, OnStream
<1> QED  BY <1>1, <1>3, <1>4, StillTame DEF Calm

LEMMA SelectPeerResetCalm == ASSUME IInv, NEW r \in Reqs, SelectPeerReset(r)  PROVE Calm
<1> DEFINE v == cc[rt[r].c].s[rt[r].id].reset
<1>1. rt[r].at = "wait" /\ Fails(r, "decide", v) /\ UNCHANGED <<cas, pool, cc, body, net>>
  BY DEF SelectPeerReset
<1>2. rt[r].id \in StreamIds
  BY <1>1, TripAt DEF OnStream
<1>3. True(net[rt[r].c], rt[r].id, v)
  BY <1>1, <1>2, TripAt DEF OnConn, Answers
<1> HIDE DEF v
<1>4. TripsTame
  BY <1>1, <1>3, MoveTame DEF OnConn, OnStream, True
<1> QED  BY <1>1, <1>4, StillTame DEF Calm

LEMMA SelectBodyWrittenCalm == ASSUME IInv, NEW r \in Reqs, SelectBodyWritten(r)  PROVE Calm
<1> DEFINE c == rt[r].c
           s == cc[c].s[rt[r].id]
           k == [cc[c] EXCEPT !.s[rt[r].id].bres = ""]
           t == [rt[r] EXCEPT !.written = TRUE]
<1>1. /\ rt[r].at = "wait" /\ UNCHANGED <<cas, pool, body, net>>
      /\ \/ Answered(r, c, k, s.resc)
         \/ Set(c, k) /\ Fails(r, "forget", s.bres)
         \/ Set(c, k) /\ rt' = [rt EXCEPT ![r] = t]
  BY DEF SelectBodyWritten
<1>2. c \in Conns /\ Shaped(cc[c]) /\ rt[r].id \in StreamIds
  BY <1>1, TripAt DEF OnConn, OnStream
<1>3. True(net[c], rt[r].id, s.resc) /\ True(net[c], rt[r].id, s.bres)
  BY <1>1, <1>2, TripAt DEF OnConn, Answers
<1>4. Like(cc[c], k)
  <2>1. PICK s2 : s2 = [s EXCEPT !.bres = ""]
    OBVIOUS
  <2>2. DOMAIN k = ConnFields /\ k.s = [cc[c].s EXCEPT ![rt[r].id] = s2] /\ k.at = cc[c].at /\ k.next = cc[c].next
        /\ k.held = cc[c].held /\ k.open = cc[c].open /\ k.out = cc[c].out /\ k.rd = cc[c].rd /\ k.on = cc[c].on
        /\ k.val = cc[c].val
    BY <1>2, <2>1 DEF Shaped, ConnShape, ConnFields
  <2> HIDE DEF k
  <2>3. StreamLike(cc[c].s[rt[r].id], s2)
    BY <1>2, <2>1 DEF Shaped, ConnShape, StreamFields, StreamLike, Answers, Retriable
  <2> QED  BY <1>2, <2>2, <2>3, LikeStream
<1> HIDE DEF k
<1>5. CASE Answered(r, c, k, s.resc)
  BY <1>1, <1>3, <1>4, <1>5, AnsweredTame, StillTame DEF Calm
<1>6. CASE Set(c, k) /\ Fails(r, "forget", s.bres)
  <2>1. PICK e : e = s.bres
    OBVIOUS
  <2>2. rt[r].at = "wait" /\ True(net[c], rt[r].id, e) /\ Fails(r, "forget", e)
    BY <1>1, <1>3, <1>6, <2>1
  <2>3. e # "unusable" /\ (e \in {"goaway", "refused"} => Spared(net[rt[r].c], rt[r].id))
    BY <2>2 DEF True
  <2>4. TripsTame
    BY <2>2, <2>3, MoveTame DEF OnConn, OnStream
  <2> QED  BY <1>1, <1>2, <1>4, <1>6, <2>4, SetLike, StillTame DEF Calm
<1>7. CASE Set(c, k) /\ rt' = [rt EXCEPT ![r] = t]
  <2>1. DOMAIN rt = Reqs /\ \A q \in Reqs : DOMAIN rt[q] = TripFields /\ TripGood(q, rt[q])
    BY DEF IInv, Shape, TripInv, TripFields
  <2>2. DOMAIN t = TripFields /\ t.at = rt[r].at /\ t.err = rt[r].err /\ t.c = rt[r].c /\ t.id = rt[r].id
    BY <2>1 DEF TripFields
  <2> HIDE DEF t
  <2>3. TripGood(r, t)
    <3>1. TripGood(r, rt[r])
      BY <2>1
    <3> QED  BY <2>2, <3>1 DEF TripGood
  <2>4. DOMAIN rt' = Reqs /\ \A q \in Reqs : rt'[q] = IF q = r THEN t ELSE rt[q]
    BY <1>7, <2>1
  <2>5. TripsTame
    BY <2>1, <2>2, <2>3, <2>4 DEF TripsTame
  <2> QED  BY <1>1, <1>2, <1>4, <1>7, <2>5, SetLike, StillTame DEF Calm
<1> QED  BY <1>1, <1>5, <1>6, <1>7

LEMMA ForgetStreamCalm == ASSUME IInv, NEW r \in Reqs, ForgetStream(r)  PROVE Calm
<1>1. rt[r].at = "forget" /\ Set(rt[r].c, Forget(cc[rt[r].c], rt[r].id)) /\ Step(r, "decide")
      /\ UNCHANGED <<cas, pool, body, net>>
  BY DEF ForgetStream
<1>2. rt[r].c \in Conns /\ Shaped(cc[rt[r].c])
  BY <1>1, TripAt DEF OnConn
<1>3. ConnsTame
  BY <1>1, <1>2, ForgetLike, SetLike
<1>4. TripGood(r, rt[r])
  BY DEF IInv, TripInv
<1>5. TripsTame
  <2>1. PICK e : e = rt[r].err
    OBVIOUS
  <2>2. rt[r].at = "forget" /\ Step(r, "decide")
    BY <1>1
  <2>3. (e = "unusable" => rt[r].id = 0) /\ (e \in {"goaway", "refused"} => Spared(net[rt[r].c], rt[r].id))
    BY <1>4, <2>1, <2>2 DEF TripGood
  <2> QED  BY <2>1, <2>2, <2>3, MoveTame DEF OnConn, OnStream
<1> QED  BY <1>1, <1>3, <1>5, StillTame DEF Calm

\* A request is repeated when the server is done with all its streams.
LEMMA DecideCalm == ASSUME IInv, NEW r \in Reqs, Decide(r)  PROVE Calm
<1> DEFINE t == [NewTrip EXCEPT !.try = rt[r].try + 1]
<1>1. /\ rt[r].at = "decide" /\ UNCHANGED <<cas, pool, cc, body, net>>
      /\ (Retriable(rt[r].err) /\ rt' = [rt EXCEPT ![r] = t]) \/ Step(r, "done")
  BY DEF Decide
<1>2. DOMAIN rt = Reqs /\ \A q \in Reqs : DOMAIN rt[q] = TripFields /\ TripGood(q, rt[q])
  BY DEF IInv, Shape, TripInv, TripFields
<1>3. CASE Retriable(rt[r].err) /\ rt' = [rt EXCEPT ![r] = t]
  <2>1. DOMAIN t = TripFields /\ t.at = "start" /\ t.id = 0
    BY DEF NewTrip, TripFields
  <2> HIDE DEF t
  <2>2. \A i \in StreamIds : i # 0
    BY HTTP2ClientAssumption DEF HTTP2ClientAssumption
  <2>3. \A c \in Conns : \A i \in StreamIds : i < cc[c].next /\ cc[c].s[i].r = r => Spared(net[c], i)
    <3>1. TripGood(r, rt[r])
      BY <1>2
    <3> QED  BY <1>1, <1>3, <2>2, <3>1 DEF TripGood, Retriable
  <2>4. TripGood(r, t)
    BY <2>1, <2>3 DEF TripGood, OnConn, OnStream
  <2>5. DOMAIN rt' = Reqs /\ \A q \in Reqs : rt'[q] = IF q = r THEN t ELSE rt[q]
    BY <1>2, <1>3
  <2>6. TripsTame
    BY <1>1, <1>2, <2>1, <2>4, <2>5 DEF TripsTame
  <2> QED  BY <1>1, <2>6, StillTame DEF Calm
<1>4. CASE Step(r, "done")
  <2>1. TripsTame
    BY <1>1, <1>4, MoveTame DEF OnConn, OnStream
  <2> QED  BY <1>1, <2>1, StillTame DEF Calm
<1> QED  BY <1>1, <1>3, <1>4

LEMMA BackoffCancelCalm == ASSUME IInv, NEW r \in Reqs, BackoffCancel(r)  PROVE Calm
BY MoveTame, StillTame DEF BackoffCancel, OnConn, OnStream, Calm

LEMMA DialDoneCalm == ASSUME IInv, NEW r \in Reqs, DialDone(r)  PROVE Calm
<1>1. /\ rt[r].at = "dial" /\ UNCHANGED <<cas, pool, cc, body, net>>
      /\ (cc[rt[r].c].at = "up" /\ Step(r, "got")) \/ Fails(r, "done", "dial")
  BY DEF DialDone
<1>2. DOMAIN rt = Reqs /\ \A q \in Reqs : DOMAIN rt[q] = TripFields /\ TripGood(q, rt[q])
  BY DEF IInv, Shape, TripInv, TripFields
<1>3. CASE cc[rt[r].c].at = "up" /\ Step(r, "got")
  <2>1. PICK t : t = [rt[r] EXCEPT !.at = "got"]
    OBVIOUS
  <2>2. DOMAIN t = TripFields /\ t.at = "got" /\ t.c = rt[r].c /\ t.id = rt[r].id
    BY <1>2, <2>1 DEF TripFields
  <2>3. TripGood(r, t)
    <3>1. TripGood(r, rt[r])
      BY <1>2
    <3> QED  BY <1>1, <1>3, <2>2, <3>1 DEF TripGood, OnConn, OnStream
  <2>4. DOMAIN rt' = Reqs /\ \A q \in Reqs : rt'[q] = IF q = r THEN t ELSE rt[q]
    BY <1>2, <1>3, <2>1 DEF Step
  <2>5. TripsTame
    BY <1>1, <1>2, <2>2, <2>3, <2>4 DEF TripsTame
  <2> QED  BY <1>1, <2>5, StillTame DEF Calm
<1>4. CASE Fails(r, "done", "dial")
  <2>1. TripsTame
    BY <1>1, <1>4, MoveTame DEF OnConn, OnStream
  <2> QED  BY <1>1, <2>1, StillTame DEF Calm
<1> QED  BY <1>1, <1>3, <1>4

LEMMA BreakResponseCalm == ASSUME IInv, NEW r \in Reqs, BreakResponse(r)  PROVE Calm
<1> DEFINE c == rt[r].c
           i == rt[r].id
           k == cc[c]
           d == [k EXCEPT !.s[i].perr = "broken", !.s[i].pipe = 0]
<1>1. rt[r].at = "closing" /\ Set(c, Forget(d, i)) /\ Step(r, "done") /\ UNCHANGED <<cas, pool, body, net>>
  BY DEF BreakResponse
<1>2. c \in Conns /\ Shaped(k) /\ i \in StreamIds
  BY <1>1, TripAt DEF OnConn, OnStream
<1>3. PICK s2 : s2 = [k.s[i] EXCEPT !.perr = "broken", !.pipe = 0]
  OBVIOUS
<1>4. DOMAIN d = ConnFields /\ d.s = [k.s EXCEPT ![i] = s2] /\ d.at = k.at /\ d.next = k.next
      /\ d.held = k.held /\ d.open = k.open /\ d.out = k.out /\ d.rd = k.rd /\ d.on = k.on /\ d.val = k.val
  BY <1>2, <1>3 DEF Shaped, ConnShape, ConnFields
<1> HIDE DEF d
<1>5. StreamLike(k.s[i], s2)
  BY <1>2, <1>3 DEF Shaped, ConnShape, StreamFields, StreamLike, Answers
<1>6. Like(k, d) /\ Shaped(d)
  BY <1>2, <1>4, <1>5, LikeStream, LikeShaped
<1>7. ConnsTame
  BY <1>1, <1>2, <1>6, ForgetLike, FromLike, SetLike
<1>8. TripsTame
  BY <1>1, StepTame DEF OnConn, OnStream
<1> QED  BY <1>1, <1>7, <1>8, StillTame DEF Calm

LEMMA ReadResponseCalm == ASSUME IInv, NEW r \in Reqs, ReadResponse(r)  PROVE Calm
<1> DEFINE c == rt[r].c
           i == rt[r].id
           k == [cc[c] EXCEPT !.s[i].pipe = @ - 1]
           k2(n) == Refund(k, n)
           d(n, add) == [k2(n) EXCEPT !.s[i].inflow = @ + add]
<1>1. /\ rt[r].at = "body" /\ UNCHANGED <<cas, pool, body, net>>
      /\ \/ UNCHANGED rt /\ \E n, add : Set(c, k2(n)) \/ Set(c, Put(d(n, add), F("WINDOW", i, add, FALSE, "")))
         \/ UNCHANGED cc /\ Step(r, "done")
  BY DEF ReadResponse
<1>2. c \in Conns /\ Shaped(cc[c]) /\ i \in StreamIds
  BY <1>1, TripAt DEF OnConn, OnStream
<1>3. CASE UNCHANGED rt /\ \E n, add : Set(c, k2(n)) \/ Set(c, Put(d(n, add), F("WINDOW", i, add, FALSE, "")))
  <2>1. PICK n, add : Set(c, k2(n)) \/ Set(c, Put(d(n, add), F("WINDOW", i, add, FALSE, "")))
    BY <1>3
  <2>2. Like(cc[c], k)
    <3>1. PICK s2 : s2 = [cc[c].s[i] EXCEPT !.pipe = @ - 1]
      OBVIOUS
    <3>2. DOMAIN k = ConnFields /\ k.s = [cc[c].s EXCEPT ![i] = s2] /\ k.at = cc[c].at /\ k.next = cc[c].next
          /\ k.held = cc[c].held /\ k.open = cc[c].open /\ k.out = cc[c].out /\ k.rd = cc[c].rd /\ k.on = cc[c].on
          /\ k.val = cc[c].val
      BY <1>2, <3>1 DEF Shaped, ConnShape, ConnFields
    <3> HIDE DEF k
    <3>3. StreamLike(cc[c].s[i], s2)
      BY <1>2, <3>1 DEF Shaped, ConnShape, StreamFields, StreamLike, Answers
    <3> QED  BY <1>2, <3>2, <3>3, LikeStream
  <2>3. PICK b : b = k2(n)
    OBVIOUS
  <2>4. Like(cc[c], b) /\ Shaped(b)
    BY <1>2, <2>2, <2>3, LikeShaped, RefundLike, FromLike
  <2>5. PICK e : e = [b EXCEPT !.s[i].inflow = @ + add]
    OBVIOUS
  <2>6. Like(b, e)
    <3>1. PICK s2 : s2 = [b.s[i] EXCEPT !.inflow = @ + add]
      OBVIOUS
    <3>2. DOMAIN e = ConnFields /\ e.s = [b.s EXCEPT ![i] = s2] /\ e.at = b.at /\ e.next = b.next
          /\ e.held = b.held /\ e.open = b.open /\ e.out = b.out /\ e.rd = b.rd /\ e.on = b.on /\ e.val = b.val
      BY <2>4, <2>5, <3>1 DEF Shaped, ConnShape, ConnFields
    <3>3. StreamLike(b.s[i], s2)
      BY <1>2, <2>4, <3>1 DEF Shaped, ConnShape, StreamFields, StreamLike, Answers
    <3> QED  BY <2>4, <3>2, <3>3, LikeStream
  <2>7. Like(cc[c], e) /\ Shaped(e)
    BY <1>2, <2>4, <2>6, FromLike, LikeShaped
  <2>8. Like(cc[c], Put(e, F("WINDOW", i, add, FALSE, "")))
    BY <1>2, <2>7, WindowLike, FromLike
  <2>9. ConnsTame
    BY <1>2, <2>1, <2>3, <2>4, <2>5, <2>8, SetLike
  <2> QED  BY <1>1, <1>3, <2>9, StillTame DEF Calm
<1>4. CASE UNCHANGED cc /\ Step(r, "done")
  BY <1>1, <1>4, StepTame, StillTame DEF OnConn, OnStream, Calm
<1> QED  BY <1>1, <1>3, <1>4

LEMMA CloseResponseCalm == ASSUME IInv, NEW r \in Reqs, CloseResponse(r)  PROVE Calm
<1> DEFINE c == rt[r].c
           i == rt[r].id
           k == cc[c]
           a == WriteReset(k, i)
           b == [a EXCEPT !.s[i].didReset = TRUE]
<1>1. /\ rt[r].at = "body" /\ Step(r, "closing") /\ UNCHANGED <<cas, pool, body, net>>
      /\ Set(c, Refund(k, k.s[i].pipe)) \/ Set(c, Refund(b, k.s[i].pipe))
  BY DEF CloseResponse
<1>2. c \in Conns /\ Shaped(k) /\ i \in StreamIds
  BY <1>1, TripAt DEF OnConn, OnStream
<1>3. Like(k, a) /\ Shaped(a)
  BY <1>2, WriteResetLike, LikeShaped
<1> HIDE DEF a
<1>4. PICK s2 : s2 = [a.s[i] EXCEPT !.didReset = TRUE]
  OBVIOUS
<1>5. DOMAIN b = ConnFields /\ b.s = [a.s EXCEPT ![i] = s2] /\ b.at = a.at /\ b.next = a.next
      /\ b.held = a.held /\ b.open = a.open /\ b.out = a.out /\ b.rd = a.rd /\ b.on = a.on /\ b.val = a.val
  BY <1>3, <1>4 DEF Shaped, ConnShape, ConnFields
<1> HIDE DEF b
<1>6. StreamLike(a.s[i], s2)
  BY <1>2, <1>3, <1>4 DEF Shaped, ConnShape, StreamFields, StreamLike, Answers
<1>7. Like(a, b)
  BY <1>3, <1>5, <1>6, LikeStream
<1>8. Like(k, b) /\ Shaped(b)
  BY <1>2, <1>3, <1>7, FromLike, LikeShaped
<1>9. PICK n : n = k.s[i].pipe
  OBVIOUS
<1>10. Like(k, Refund(k, n)) /\ Like(k, Refund(b, n))
  BY <1>2, <1>8, RefundLike, FromLike
<1>11. ConnsTame
  BY <1>1, <1>2, <1>9, <1>10, SetLike
<1>12. TripsTame
  BY <1>1, StepTame DEF OnConn, OnStream
<1> QED  BY <1>1, <1>11, <1>12, StillTame DEF Calm

-----------------------------------------------------------------------------
(* The calm steps of the pool, of the user and of the server.              *)

\* A request without a stream has had only streams that the server is done with.
LEMMA NoStreamYet ==
  ASSUME IInv, NEW r \in Reqs, rt[r].at \in {"start", "dial", "got", "trip", "slot", "slotcancelled"}
  PROVE  \A c \in Conns : \A i \in StreamIds : i < cc[c].next /\ cc[c].s[i].r = r => Spared(net[c], i)
BY HTTP2ClientAssumption DEF HTTP2ClientAssumption, IInv, TripInv, TripGood

LEMMA ChosenTame ==
  ASSUME IInv, NEW r \in Reqs, rt[r].at = "start", NEW a \in {"got", "dial"}, NEW c \in Conns,
         cc[c].at # "none", a = "got" => cc[c].at = "up", rt' = [rt EXCEPT ![r].at = a, ![r].c = c]
  PROVE  TripsTame
<1>1. DOMAIN rt = Reqs /\ \A q \in Reqs : DOMAIN rt[q] = TripFields /\ TripGood(q, rt[q])
  BY DEF IInv, Shape, TripInv, TripFields
<1>2. PICK t : t = [rt[r] EXCEPT !.at = a, !.c = c]
  OBVIOUS
<1>3. DOMAIN t = TripFields /\ t.at = a /\ t.c = c /\ t.id = rt[r].id
  BY <1>1, <1>2 DEF TripFields
<1>4. DOMAIN rt' = Reqs /\ \A q \in Reqs : rt'[q] = IF q = r THEN t ELSE rt[q]
  BY <1>1, <1>2
<1>5. rt[r].id = 0
  BY <1>1 DEF TripGood
<1>6. \A d \in Conns : \A i \in StreamIds : i < cc[d].next /\ cc[d].s[i].r = r => Spared(net[d], i)
  BY NoStreamYet
<1>7. TripGood(r, t)
  BY <1>3, <1>5, <1>6 DEF TripGood, OnConn, OnStream
<1> QED  BY <1>1, <1>3, <1>4, <1>7 DEF TripsTame

LEMMA DialCalm == ASSUME IInv, NEW c \in Conns, Dial(c)  PROVE Calm
<1> DEFINE k == cc[c]
           a == [k EXCEPT !.at = "up", !.rd = "run", !.whenIdle = k.single, !.idle = "idle" \in cas.user]
           b == [k EXCEPT !.at = "failed"]
           f == F("SETTINGS", 0, cas.win, FALSE, "max")
<1>1. /\ k.at = "dialing" /\ UNCHANGED <<cas, pool, rt, body>>
      /\ \/ Set(c, a) /\ net' = [net EXCEPT ![c].down = <<f>>, ![c].init = cas.win]
         \/ Set(c, b) /\ UNCHANGED net
  BY DEF Dial
<1>2. Shaped(k) /\ Tame(c, k) /\ ConnInv(c)
  BY ConnShaped, LikeIsTame, LikeIsReflexive DEF IInv
<1>3. DOMAIN a = ConnFields /\ a.s = k.s /\ a.at = "up" /\ a.next = k.next /\ a.held = k.held
      /\ a.open = k.open /\ a.out = k.out /\ a.rd = "run"
  BY <1>2 DEF Shaped, ConnShape, ConnFields
<1>4. DOMAIN b = ConnFields /\ b.s = k.s /\ b.at = "failed" /\ b.next = k.next /\ b.held = k.held
      /\ b.open = k.open /\ b.out = k.out /\ b.rd = k.rd /\ b.on = k.on /\ b.val = k.val
  BY <1>2 DEF Shaped, ConnShape, ConnFields
<1> HIDE DEF a, b
<1>5. Tame(c, a)
  BY <1>2, <1>3, <1>1 DEF Shaped, ConnShape, ReaderTrue, WriterTame, Tame
<1>6. Tame(c, b)
  BY <1>2, <1>4, <1>1 DEF Shaped, ConnShape, ReaderTrue, Tame, WriterTame
<1>7. ConnsTame
  BY <1>1, <1>5, <1>6, SetTame
<1>8. NetTame
  <2>1. CASE net' = [net EXCEPT ![c].down = <<f>>, ![c].init = cas.win]
    <3>1. DOMAIN net = Conns /\ \A d \in Conns : DOMAIN net[d] = ServerFields /\ ServerInv(net[d])
      BY DEF IInv, Shape, ConnInv
    <3>2. PICK m : m = [net[c] EXCEPT !.down = <<f>>, !.init = cas.win]
      OBVIOUS
    <3>3. f.t = "SETTINGS"
      BY DEF F
    <3> HIDE DEF f
    <3>4. DOMAIN m = ServerFields /\ SameServer(net[c], m) /\ m.down = <<f>>
      BY <3>1, <3>2 DEF ServerFields, SameServer
    <3>5. IsSequence(m.down) /\ Elems(m.down) = {f}
      BY <3>4, ShortSequences
    <3>6. FrameTrue(net[c], f)
      BY <3>3 DEF FrameTrue
    <3>7. DOMAIN net' = Conns /\ \A d \in Conns : net'[d] = IF d = c THEN m ELSE net[d]
      BY <2>1, <3>1, <3>2
    <3>8. \A d \in Conns : SameServer(net[d], net[d])
      BY DEF SameServer
    <3> QED  BY <3>1, <3>4, <3>5, <3>6, <3>7, <3>8 DEF NetTame, ServerInv
  <2>2. CASE UNCHANGED net
    BY <2>2, StillTame
  <2> QED  BY <1>1, <2>1, <2>2
<1> QED  BY <1>1, <1>7, <1>8, StillTame DEF Calm

LEMMA AddConnCalm == ASSUME IInv, NEW c \in Conns, AddConn(c)  PROVE Calm
<1> DEFINE q == IF cc[c].at = "up" /\ c \notin Range(pool.conns) THEN Append(pool.conns, c) ELSE pool.conns
           y == IF cc[c].at = "up" THEN pool.keys \cup {c} ELSE pool.keys
<1>1. /\ pool' = [pool EXCEPT !.dialing = 0, !.conns = q, !.keys = y]
      /\ UNCHANGED <<cas, cc, rt, body, net>>
  BY DEF AddConn
<1>2. DOMAIN pool = {"conns", "keys", "dialing"} /\ PoolInv
  BY DEF IInv, Shape
<1>3. IsSequence(q) /\ \A d \in Elems(q) : d \in Conns /\ cc[d].at = "up"
  BY <1>2, Appended DEF PoolInv
<1> HIDE DEF q, y
<1>4. DOMAIN pool' = {"conns", "keys", "dialing"} /\ pool'.conns = q /\ pool'.dialing = 0
  BY <1>1, <1>2
<1>5. PoolTame
  BY <1>3, <1>4 DEF PoolTame
<1> QED  BY <1>1, <1>5, StillTame DEF Calm

LEMMA ShutdownWaitsCalm == ASSUME IInv, NEW c \in Conns, ShutdownWaits(c)  PROVE Calm
<1> DEFINE k == cc[c]
           a == [k EXCEPT !.closed = TRUE, !.open = "closed", !.shut = FALSE]
           b == [k EXCEPT !.asleep = @ \cup {0}]
<1>1. (Set(c, a) \/ Set(c, b)) /\ UNCHANGED <<cas, pool, rt, body, net>>
  BY DEF ShutdownWaits
<1>2. Shaped(k)
  BY ConnShaped
<1>3. DOMAIN a = ConnFields /\ a.s = k.s /\ a.at = k.at /\ a.next = k.next /\ a.held = k.held
      /\ a.open = "closed" /\ a.out = k.out /\ a.rd = k.rd /\ a.on = k.on /\ a.val = k.val
  BY <1>2 DEF Shaped, ConnShape, ConnFields
<1>4. DOMAIN b = ConnFields /\ b.s = k.s /\ b.at = k.at /\ b.next = k.next /\ b.held = k.held
      /\ b.open = k.open /\ b.out = k.out /\ b.rd = k.rd /\ b.on = k.on /\ b.val = k.val
  BY <1>2 DEF Shaped, ConnShape, ConnFields
<1> HIDE DEF a, b
<1>5. Like(k, a) /\ Like(k, b)
  BY <1>2, <1>3, <1>4, LikeSame
<1> QED  BY <1>1, <1>5, SetLike, StillTame DEF Calm

LEMMA OnIdleTimeoutCalm == ASSUME IInv, NEW c \in Conns, OnIdleTimeout(c)  PROVE Calm
<1> DEFINE k == cc[c]
           d == [k EXCEPT !.idle = FALSE]
<1>1. Set(c, CloseIfIdle(d)) /\ UNCHANGED <<cas, pool, rt, body, net>>
  BY DEF OnIdleTimeout
<1>2. Shaped(k)
  BY ConnShaped
<1>3. DOMAIN d = ConnFields /\ d.s = k.s /\ d.at = k.at /\ d.next = k.next /\ d.held = k.held
      /\ d.open = k.open /\ d.out = k.out /\ d.rd = k.rd /\ d.on = k.on /\ d.val = k.val
  BY <1>2 DEF Shaped, ConnShape, ConnFields
<1> HIDE DEF d
<1>4. Like(k, d) /\ Shaped(d)
  BY <1>2, <1>3, LikeSame, LikeShaped
<1>5. Like(k, CloseIfIdle(d))
  BY <1>4, CloseIfIdleLike, FromLike
<1> QED  BY <1>1, <1>5, SetLike, StillTame DEF Calm

LEMMA CloseIdleConnectionsCalm == ASSUME IInv, NEW c \in Conns, CloseIdleConnections(c)  PROVE Calm
BY ConnShaped, CloseIfIdleLike, SetLike, StillTame DEF CloseIdleConnections, Calm

LEMMA SendGoAwayCalm == ASSUME IInv, NEW c \in Conns, SendGoAway(c)  PROVE Calm
<1> DEFINE k == cc[c]
           d == [k EXCEPT !.closing = TRUE, !.shut = TRUE]
           f == F("GOAWAY", 0, cc[c].next, FALSE, "")
<1>1. Put(k, f) = k
  BY DEF Put, F
<1>2. Set(c, d) /\ UNCHANGED <<cas, pool, rt, body, net>>
  BY <1>1 DEF SendGoAway
<1>3. Shaped(k)
  BY ConnShaped
<1>4. DOMAIN d = ConnFields /\ d.s = k.s /\ d.at = k.at /\ d.next = k.next /\ d.held = k.held
      /\ d.open = k.open /\ d.out = k.out /\ d.rd = k.rd /\ d.on = k.on /\ d.val = k.val
  BY <1>3 DEF Shaped, ConnShape, ConnFields
<1> HIDE DEF d, f
<1>5. Like(k, d)
  BY <1>3, <1>4, LikeSame
<1> QED  BY <1>2, <1>5, SetLike, StillTame DEF Calm

LEMMA CloseCalm == ASSUME IInv, NEW c \in Conns, Close(c)  PROVE Calm
<1> DEFINE k == cc[c]
           o == Over(k)
           d == [o EXCEPT !.open = "closed", !.streams = {}]
<1>1. Set(c, d) /\ UNCHANGED <<cas, pool, rt, body, net>>
  BY DEF Close
<1>2. Shaped(k) /\ Like(k, o) /\ Shaped(o)
  BY ConnShaped, OverLike, LikeShaped
<1> HIDE DEF o
<1>3. DOMAIN d = ConnFields /\ d.s = o.s /\ d.at = o.at /\ d.next = o.next /\ d.held = o.held
      /\ d.open = "closed" /\ d.out = o.out /\ d.rd = o.rd /\ d.on = o.on /\ d.val = o.val
  BY <1>2 DEF Shaped, ConnShape, ConnFields
<1> HIDE DEF d
<1>4. Like(o, d)
  BY <1>2, <1>3, LikeSame
<1>5. Like(k, d)
  BY <1>2, <1>4, FromLike
<1> QED  BY <1>1, <1>5, SetLike, StillTame DEF Calm

LEMMA TellsCalm ==
  ASSUME IInv, NEW c \in Conns, NEW n, NEW f, Tells(c, n, f), ServerOnly, UNCHANGED cc,
         DOMAIN n = ServerFields, SameServer(net[c], n), n.down = net[c].down, FrameTrue(net[c], f)
  PROVE  Calm
BY ToldTame, StillTame DEF Calm, ServerOnly

LEMMA ServerRepliesCalm == ASSUME IInv, NEW c \in Conns, NEW i \in StreamIds, ServerReplies(c, i)  PROVE Calm
<1> DEFINE n == [net[c] EXCEPT !.replied = @ \cup {i}]
           m == [n EXCEPT !.open = Left(n, i)]
           p == [net[c] EXCEPT !.turns = 1]
<1>1. /\ ServerOnly /\ UNCHANGED cc
      /\ \/ \E what \in {"2xx", "4xx"} : Tells(c, m, F("HEADERS", i, 0, cas.resp = 0, what))
         \/ Tells(c, p, F("HEADERS", i, 0, FALSE, "100"))
  BY DEF ServerReplies
<1>2. DOMAIN net[c] = ServerFields
  BY DEF IInv, Shape
<1>3. DOMAIN m = ServerFields /\ SameServer(net[c], m) /\ m.down = net[c].down
  BY <1>2 DEF ServerFields, SameServer
<1>4. DOMAIN p = ServerFields /\ SameServer(net[c], p) /\ p.down = net[c].down
  BY <1>2 DEF ServerFields, SameServer
<1>5. \A end, what : what \in {"2xx", "4xx", "100"} => FrameTrue(net[c], F("HEADERS", i, 0, end, what))
  BY DEF F, FrameTrue
<1> HIDE DEF n, m, p
<1>6. CASE \E what \in {"2xx", "4xx"} : Tells(c, m, F("HEADERS", i, 0, cas.resp = 0, what))
  BY <1>6, <1>5, <1>1, <1>3, TellsCalm
<1>7. CASE Tells(c, p, F("HEADERS", i, 0, FALSE, "100"))
  BY <1>5, <1>7, <1>1, <1>4, TellsCalm
<1> QED  BY <1>1, <1>6, <1>7

LEMMA ServerDataCalm == ASSUME IInv, NEW c \in Conns, NEW i \in StreamIds, ServerData(c, i)  PROVE Calm
<1> DEFINE n(pad) == [net[c] EXCEPT !.sent[i] = @ + 1, !.rwin[i] = @ - 1 - pad, !.rconn = @ - 1 - pad]
<1>1. PICK pad : /\ ServerOnly /\ UNCHANGED cc
                 /\ Tells(c, [n(pad) EXCEPT !.open = Left(n(pad), i)],
                          F("DATA", i, 1, n(pad).sent[i] = cas.resp, IF pad = 1 THEN "pad" ELSE ""))
  BY DEF ServerData
<1>2. DOMAIN net[c] = ServerFields
  BY DEF IInv, Shape
<1>3. PICK m : m = [n(pad) EXCEPT !.open = Left(n(pad), i)]
  OBVIOUS
<1>4. DOMAIN m = ServerFields /\ SameServer(net[c], m) /\ m.down = net[c].down
  BY <1>2, <1>3 DEF ServerFields, SameServer
<1>5. PICK f : f = F("DATA", i, 1, n(pad).sent[i] = cas.resp, IF pad = 1 THEN "pad" ELSE "")
  OBVIOUS
<1>6. Tells(c, m, f)
  BY <1>1, <1>3, <1>5
<1>7. FrameTrue(net[c], f)
  BY <1>5 DEF F, FrameTrue
<1> QED  BY <1>1, <1>4, <1>6, <1>7, TellsCalm

LEMMA ServerResetsCalm == ASSUME IInv, NEW c \in Conns, NEW i \in StreamIds, ServerResets(c, i)  PROVE Calm
<1>1. PICK m : m = [net[c] EXCEPT !.open = @ \ {i}]
  OBVIOUS
<1>2. PICK f : /\ ServerOnly /\ UNCHANGED cc /\ Tells(c, m, f)
               /\ f = F("RST", i, 0, FALSE, "cancel") \/ f = F("ERROR", i, 0, FALSE, "")
  BY <1>1 DEF ServerResets
<1>3. DOMAIN net[c] = ServerFields
  BY DEF IInv, Shape
<1>4. DOMAIN m = ServerFields /\ SameServer(net[c], m) /\ m.down = net[c].down
  BY <1>1, <1>3 DEF ServerFields, SameServer
<1>5. FrameTrue(net[c], f)
  <2>1. CASE f = F("RST", i, 0, FALSE, "cancel")
    BY <2>1 DEF F, FrameTrue, True
  <2>2. CASE f = F("ERROR", i, 0, FALSE, "")
    BY <2>2 DEF F, FrameTrue
  <2> QED  BY <1>2, <2>1, <2>2
<1> QED  BY <1>2, <1>4, <1>5, TellsCalm

LEMMA ServerGivesCalm ==
  ASSUME IInv, NEW c \in Conns, NEW i \in StreamIds \cup {0}, ServerGives(c, i)  PROVE Calm
<1>1. PICK m : m = [net[c] EXCEPT !.gave[i] = @ + 1]
  OBVIOUS
<1>2. PICK f : f = F("WINDOW", i, 1, FALSE, "")
  OBVIOUS
<1>3. ServerOnly /\ UNCHANGED cc /\ Tells(c, m, f)
  BY <1>1, <1>2 DEF ServerGives
<1>4. DOMAIN net[c] = ServerFields
  BY DEF IInv, Shape
<1>5. DOMAIN m = ServerFields /\ SameServer(net[c], m) /\ m.down = net[c].down
  BY <1>1, <1>4 DEF ServerFields, SameServer
<1>6. FrameTrue(net[c], f)
  BY <1>2 DEF F, FrameTrue
<1> QED  BY <1>3, <1>5, <1>6, TellsCalm

LEMMA ServerSettingsCalm == ASSUME IInv, NEW c \in Conns, ServerSettings(c)  PROVE Calm
<1>1. PICK w : /\ ServerOnly /\ UNCHANGED cc
               /\ Tells(c, [net[c] EXCEPT !.turns = 1, !.init = w], F("SETTINGS", 0, w, FALSE, "win"))
  BY DEF ServerSettings
<1>2. PICK m : m = [net[c] EXCEPT !.turns = 1, !.init = w]
  OBVIOUS
<1>3. PICK f : f = F("SETTINGS", 0, w, FALSE, "win")
  OBVIOUS
<1>4. DOMAIN net[c] = ServerFields
  BY DEF IInv, Shape
<1>5. DOMAIN m = ServerFields /\ SameServer(net[c], m) /\ m.down = net[c].down
  BY <1>2, <1>4 DEF ServerFields, SameServer
<1>6. FrameTrue(net[c], f)
  BY <1>3 DEF F, FrameTrue
<1>7. Tells(c, m, f)
  BY <1>1, <1>2, <1>3
<1> QED  BY <1>1, <1>5, <1>6, <1>7, TellsCalm

LEMMA ServerBreaksCalm == ASSUME IInv, NEW c \in Conns, ServerBreaks(c)  PROVE Calm
<1> DEFINE k == cc[c]
           d == [k EXCEPT !.open = "gone"]
<1>1. PICK m : m = [net[c] EXCEPT !.turns = 1]
  OBVIOUS
<1>2. PICK f : f = F("BAD", 0, 0, FALSE, "")
  OBVIOUS
<1>3. ServerOnly /\ ((Set(c, d) /\ UNCHANGED net) \/ (UNCHANGED cc /\ Tells(c, m, f)))
  BY <1>1, <1>2 DEF ServerBreaks
<1>4. Shaped(k)
  BY ConnShaped
<1>5. DOMAIN d = ConnFields /\ d.s = k.s /\ d.at = k.at /\ d.next = k.next /\ d.held = k.held
      /\ d.open = "gone" /\ d.out = k.out /\ d.rd = k.rd /\ d.on = k.on /\ d.val = k.val
  BY <1>4 DEF Shaped, ConnShape, ConnFields
<1> HIDE DEF d
<1>6. CASE Set(c, d) /\ UNCHANGED net
  BY <1>3, <1>4, <1>5, <1>6, LikeSame, SetLike, StillTame DEF Calm, ServerOnly
<1>7. CASE UNCHANGED cc /\ Tells(c, m, f)
  <2>1. DOMAIN net[c] = ServerFields
    BY DEF IInv, Shape
  <2>2. DOMAIN m = ServerFields /\ SameServer(net[c], m) /\ m.down = net[c].down
    BY <1>1, <2>1 DEF ServerFields, SameServer
  <2>3. FrameTrue(net[c], f)
    BY <1>2 DEF F, FrameTrue
  <2> QED  BY <1>3, <1>7, <2>2, <2>3, TellsCalm
<1> QED  BY <1>3, <1>6, <1>7

\* awaitOpenSlotForRequest when it opens no stream.
LEMMA NoSlotCalm ==
  ASSUME IInv, NEW r \in Reqs, rt[r].at \in {"trip", "slot"}, NEW k, Like(cc[rt[r].c], k),
         \/ Set(rt[r].c, k) /\ Fails(r, "decide", "unusable")
         \/ Set(rt[r].c, [k EXCEPT !.pending = @ + 1, !.asleep = @ \cup {r}]) /\ Step(r, "slot"),
         UNCHANGED <<cas, pool, body, net>>
  PROVE  Calm
<1> DEFINE c == rt[r].c
           d == [k EXCEPT !.pending = @ + 1, !.asleep = @ \cup {r}]
<1>1. c \in Conns /\ Shaped(k) /\ rt[r].id = 0
  BY TripAt, LikeShaped DEF OnConn
<1>2. DOMAIN d = ConnFields /\ d.s = k.s /\ d.at = k.at /\ d.next = k.next /\ d.held = k.held
      /\ d.open = k.open /\ d.out = k.out /\ d.rd = k.rd /\ d.on = k.on /\ d.val = k.val
  BY <1>1 DEF Shaped, ConnShape, ConnFields
<1> HIDE DEF d
<1>3. Like(cc[c], d)
  BY <1>1, <1>2, LikeSame, FromLike
<1>4. CASE Set(c, k) /\ Fails(r, "decide", "unusable")
  <2>1. TripsTame
    BY <1>1, <1>4, MoveTame DEF OnConn, OnStream
  <2> QED  BY <1>1, <1>4, <2>1, SetLike, StillTame DEF Calm
<1>5. CASE Set(c, d) /\ Step(r, "slot")
  <2>1. TripsTame
    BY <1>1, <1>5, StepTame DEF OnConn, OnStream
  <2> QED  BY <1>1, <1>3, <1>5, <2>1, SetLike, StillTame DEF Calm
<1> QED  BY <1>4, <1>5 DEF d

\* The failing write of DATA, and what is written to a server that has gone.
LEMMA WriteLostCalm ==
  ASSUME IInv, NEW c \in Conns, NEW i \in StreamIds, cc[c].s[i].bw \in {"data", "end"},
         UNCHANGED <<cas, pool, rt, body, net>>, NEW k2,
         k2 \in {Ends(cc[c], i, "ok"), Ends(cc[c], i, "write"), [cc[c] EXCEPT !.s[i].bw = "read"]}, Set(c, k2)
  PROVE  Calm
<1> DEFINE k == cc[c]
           d == [k EXCEPT !.s[i].bw = "read"]
<1>1. Shaped(k) /\ Like(k, k) /\ k.s[i].bw \in Writes
  BY ConnShaped, LikeIsReflexive DEF Writes
<1>2. True(net[c], i, "ok") /\ True(net[c], i, "write")
  BY DEF True
<1>3. Tame(c, d)
  <2>1. PICK s2 : s2 = [k.s[i] EXCEPT !.bw = "read"]
    OBVIOUS
  <2>2. DOMAIN d = ConnFields /\ d.s = [k.s EXCEPT ![i] = s2] /\ d.at = k.at /\ d.next = k.next
        /\ d.held = k.held /\ d.open = k.open /\ d.out = k.out /\ d.rd = k.rd /\ d.on = k.on /\ d.val = k.val
    BY <1>1, <2>1 DEF Shaped, ConnShape, ConnFields
  <2> HIDE DEF d
  <2>3. DOMAIN s2 = StreamFields /\ s2.r = k.s[i].r /\ s2.bw = "read" /\ Answers(s2) = Answers(k.s[i])
    BY <1>1, <2>1 DEF Shaped, ConnShape, StreamFields, Answers
  <2> QED  BY <1>1, <2>2, <2>3, WriterGoes
<1> HIDE DEF d
<1>4. Tame(c, k2)
  BY <1>1, <1>2, <1>3, EndsTame DEF d
<1> QED  BY <1>4, SetTame, StillTame DEF Calm

-----------------------------------------------------------------------------
(* The other steps change one connection, and its server.                  *)

Moves(c, k2, m) ==
  /\ DOMAIN cc' = Conns /\ DOMAIN net' = Conns /\ cc'[c] = k2 /\ net'[c] = m
  /\ \A d \in Conns \ {c} : cc'[d] = cc[d] /\ net'[d] = net[d]
ConnGood(k, n) ==
  /\ k.next \in Nat /\ (k.at = "none" => k.next = 1)
  /\ \A i \in WireOpened(k, n) : i < k.next
  /\ ServerInv(n) /\ AnswersInv(k, n) /\ ReaderTrue(k, n) /\ OutInv(k, n)

LEMMA SetMoves ==
  ASSUME IInv, NEW c \in Conns, NEW k2, Set(c, k2), NEW m, UNCHANGED net /\ m = net[c]  PROVE Moves(c, k2, m)
BY DEF IInv, Shape, Set, Moves

LEMMA ConnIsGood ==
  ASSUME IInv, NEW c \in Conns
  PROVE  ConnGood(cc[c], net[c]) /\ DOMAIN net[c] = ServerFields /\ Shaped(cc[c]) /\ IsSequence(cc[c].out)
BY ConnShaped DEF IInv, Shape, ConnInv, ConnGood, Shaped

LEMMA MovesKeep ==
  ASSUME IInv, NEW c \in Conns, NEW k2, NEW m, Moves(c, k2, m), ConnShape(k2), DOMAIN m = ServerFields,
         ConnGood(k2, m), k2.at = cc[c].at \/ (cc[c].at = "none" /\ k2.at # "none")
  PROVE  /\ \A d \in Conns : ConnShape(cc'[d]) /\ DOMAIN net'[d] = ServerFields /\ ConnInv(d)'
         /\ \A d \in Conns : (cc[d].at = "up" => cc'[d].at = "up") /\ (cc[d].at # "none" => cc'[d].at # "none")
BY DEF IInv, Shape, Moves, ConnGood, ConnInv

\* A request that takes no part in the step.
LEMMA OthersTrip ==
  ASSUME IInv, NEW c \in Conns, NEW k2, NEW m, Moves(c, k2, m), cas' = cas,
         k2.at = cc[c].at \/ (cc[c].at = "none" /\ k2.at # "none"),
         \A i : Spared(net[c], i) => Spared(m, i),
         NEW q \in Reqs, rt'[q] = rt[q],
         rt[q].at \in OnStream /\ rt[q].c = c =>
           rt[q].id < k2.next /\ k2.s[rt[q].id].r = cc[c].s[rt[q].id].r,
         rt[q].at = "headers" /\ rt[q].c = c =>
           /\ k2.held /\ k2.next = cc[c].next /\ rt[q].id \notin WireOpened(k2, m)
           /\ k2.s[rt[q].id].bw = cc[c].s[rt[q].id].bw,
         \A i \in StreamIds : i < k2.next /\ k2.s[i].r = q => i < cc[c].next /\ cc[c].s[i].r = q
  PROVE  TripInv(q)'
<1> DEFINE t == rt[q]
<1>1. TripGood(q, t)
  BY DEF IInv, TripInv
<1>2. HasBody(q)' <=> HasBody(q)
  BY DEF HasBody, Req
<1> HIDE DEF t
<1>3. \A d \in Conns : (d = c /\ cc'[d] = k2 /\ net'[d] = m) \/ (d # c /\ cc'[d] = cc[d] /\ net'[d] = net[d])
  BY DEF Moves
<1>4. /\ t.at \in OnConn => t.c \in Conns /\ cc'[t.c].at = "up"
      /\ t.at = "dial" => t.c \in Conns /\ cc'[t.c].at # "none"
      /\ t.at \in {"start", "dial", "got", "trip", "slot", "slotcancelled"} => t.id = 0
  BY <1>1, <1>3 DEF TripGood
<1>5. t.at \in OnStream => t.id \in StreamIds /\ t.id < cc'[t.c].next /\ cc'[t.c].s[t.id].r = q
  BY <1>1, <1>3 DEF TripGood, OnStream, OnConn, t
<1>6. t.at = "headers" =>
        /\ cc'[t.c].held /\ t.id + 2 = cc'[t.c].next /\ t.id \notin WireOpened(cc'[t.c], net'[t.c])
        /\ cc'[t.c].s[t.id].bw \in {"off", "delay"} /\ (~HasBody(q) => cc'[t.c].s[t.id].bw = "off")
  <2> SUFFICES ASSUME t.at = "headers"
               PROVE  /\ cc'[t.c].held /\ t.id + 2 = cc'[t.c].next
                      /\ t.id \notin WireOpened(cc'[t.c], net'[t.c])
                      /\ cc'[t.c].s[t.id].bw \in {"off", "delay"}
                      /\ (~HasBody(q) => cc'[t.c].s[t.id].bw = "off")
    OBVIOUS
  <2>1. t.c \in Conns
    BY <1>1 DEF TripGood, OnConn
  <2>2. /\ cc[t.c].held /\ t.id + 2 = cc[t.c].next /\ t.id \notin WireOpened(cc[t.c], net[t.c])
        /\ cc[t.c].s[t.id].bw \in {"off", "delay"} /\ (~HasBody(q) => cc[t.c].s[t.id].bw = "off")
    BY <1>1 DEF TripGood
  <2> QED  BY <1>3, <2>1, <2>2 DEF t
<1>7. \A d \in Conns : \A i : Spared(net[d], i) => Spared(net'[d], i)
  BY <1>3
<1>8. t.at \in {"forget", "decide"} =>
        (t.err = "unusable" => t.id = 0) /\ (t.err \in {"goaway", "refused"} => Spared(net'[t.c], t.id))
  BY <1>1, <1>7 DEF TripGood, OnConn
<1>9. \A d \in Conns : \A i \in StreamIds :
        i < cc'[d].next /\ cc'[d].s[i].r = q => (d = t.c /\ i = t.id) \/ Spared(net'[d], i)
  BY <1>1, <1>3, <1>7 DEF TripGood
<1>10. rt'[q] = t
  BY DEF t
<1> QED  BY <1>2, <1>4, <1>5, <1>6, <1>8, <1>9, <1>10 DEF TripInv, TripGood

\* The writers of other connections.
LEMMA WritersElsewhere ==
  ASSUME IInv, NEW c \in Conns, NEW k2, NEW m, Moves(c, k2, m),
         \A q \in Reqs : rt[q].at = "headers" /\ rt[q].c # c => rt'[q] = rt[q]
  PROVE  \A d \in Conns \ {c} : WriterInv(d)'
BY DEF Moves, IInv, WriterInv

\* The pool, when it is left alone, and the fields of the trips.
LEMMA PoolStill ==
  ASSUME IInv, UNCHANGED pool,
         \A d \in Conns : (cc[d].at = "up" => cc'[d].at = "up") /\ (cc[d].at # "none" => cc'[d].at # "none")
  PROVE  PoolInv' /\ DOMAIN pool' = {"conns", "keys", "dialing"}
BY DEF IInv, Shape, PoolInv

LEMMA OneTrip ==
  ASSUME IInv, NEW r \in Reqs, NEW t, DOMAIN t = TripFields, rt' = [rt EXCEPT ![r] = t]
  PROVE  /\ DOMAIN rt' = Reqs /\ \A q \in Reqs : DOMAIN rt'[q] = TripFields
         /\ rt'[r] = t /\ \A q \in Reqs : q # r => rt'[q] = rt[q]
BY DEF IInv, Shape, TripFields

LEMMA ShapeOf ==
  ASSUME DOMAIN cc' = Conns, DOMAIN net' = Conns,
         \A d \in Conns : ConnShape(cc'[d]) /\ DOMAIN net'[d] = ServerFields,
         DOMAIN rt' = Reqs, \A q \in Reqs : DOMAIN rt'[q] = TripFields, DOMAIN pool' = {"conns", "keys", "dialing"}
  PROVE  Shape'
BY DEF Shape, TripFields

LEMMA NoStreamShape == DOMAIN NoStream = StreamFields /\ NoStream.bw = "off" /\ NoStream.r = 0 /\ Answers(NoStream) = {""}
BY DEF NoStream, StreamFields, Answers

\* getClientConn when it dials: nothing has happened on the new connection.
LEMMA FreshKeeps ==
  ASSUME IInv, NEW r \in Reqs, rt[r].at = "start", NEW c \in Conns, cc[c].at = "none",
         NEW k2, k2 \in {[NewConn EXCEPT !.at = "dialing", !.single = TRUE], [NewConn EXCEPT !.at = "dialing"]},
         Set(c, k2), rt' = [rt EXCEPT ![r].at = "dial", ![r].c = c],
         UNCHANGED pool \/ pool' = [pool EXCEPT !.dialing = c], UNCHANGED <<cas, body, net>>
  PROVE  IInv'
<1>1. PICK n : n = net[c]
  OBVIOUS
<1>2. Moves(c, k2, n)
  BY <1>1, SetMoves
<1>3. DOMAIN k2 = ConnFields /\ k2.at = "dialing" /\ k2.next = 1 /\ k2.s = [i \in StreamIds |-> NoStream]
      /\ k2.out = <<>> /\ k2.rd = "off"
  <2>1. CASE k2 = [NewConn EXCEPT !.at = "dialing", !.single = TRUE]
    BY <2>1 DEF NewConn, ConnFields
  <2>2. CASE k2 = [NewConn EXCEPT !.at = "dialing"]
    BY <2>2 DEF NewConn, ConnFields
  <2> QED  BY <2>1, <2>2
<1>4. ConnShape(k2)
  BY <1>3, NoStreamShape DEF ConnShape
<1>5. ConnGood(cc[c], n) /\ DOMAIN n = ServerFields /\ cc[c].next = 1
  BY <1>1, ConnIsGood DEF ConnGood
<1>6. \A i \in StreamIds : ~(i < 1)
  BY HTTP2ClientAssumption DEF HTTP2ClientAssumption
<1>7. WireOpened(cc[c], n) = {} /\ n.seen = {} /\ n.ended = {}
  BY <1>5, <1>6 DEF ConnGood, ServerInv, OutInv, WireOpened, Elems, WireEnded
<1>8. ConnGood(k2, n)
  <2>1. IsSequence(k2.out) /\ Elems(k2.out) = {} /\ DOMAIN k2.out = {}
    BY <1>3, ShortSequences
  <2>2. WireOpened(k2, n) = {} /\ WireEnded(k2, n) = {}
    BY <1>7, <2>1 DEF WireOpened, WireEnded
  <2>3. OutInv(k2, n)
    BY <2>1, <2>2 DEF OutInv
  <2>4. AnswersInv(k2, n)
    <3>1. \A i : True(n, i, "")
      BY DEF True
    <3> QED  BY <1>3, <3>1, NoStreamShape DEF AnswersInv
  <2>5. ReaderTrue(k2, n)
    BY <1>3 DEF ReaderTrue
  <2> QED  BY <1>3, <1>5, <2>2, <2>3, <2>4, <2>5 DEF ConnGood
<1>9. /\ \A d \in Conns : ConnShape(cc'[d]) /\ DOMAIN net'[d] = ServerFields /\ ConnInv(d)'
      /\ \A d \in Conns : (cc[d].at = "up" => cc'[d].at = "up") /\ (cc[d].at # "none" => cc'[d].at # "none")
  BY <1>2, <1>3, <1>4, <1>5, <1>8, MovesKeep
<1>10. PICK t : t = [rt[r] EXCEPT !.at = "dial", !.c = c]
  OBVIOUS
<1>11. \A q \in Reqs : DOMAIN rt[q] = TripFields /\ TripGood(q, rt[q])
  BY DEF IInv, Shape, TripInv, TripFields
<1>12. DOMAIN t = TripFields /\ t.at = "dial" /\ t.c = c /\ t.id = rt[r].id /\ rt[r].id = 0
  BY <1>10, <1>11 DEF TripFields, TripGood
<1>13. rt' = [rt EXCEPT ![r] = t]
  BY <1>10
<1>14. DOMAIN rt' = Reqs /\ (\A q \in Reqs : DOMAIN rt'[q] = TripFields) /\ rt'[r] = t
       /\ \A q \in Reqs : q # r => rt'[q] = rt[q]
  BY <1>12, <1>13, OneTrip
<1>15. \A q \in Reqs : rt[q].c = c => rt[q].at \notin OnConn
  BY <1>11 DEF TripGood
<1>16. ASSUME NEW q \in Reqs, q # r  PROVE TripInv(q)'
  BY <1>14, <1>15, <1>16, <1>1, <1>2, <1>3, <1>6, OthersTrip DEF OnConn, OnStream
<1>17. TripInv(r)'
  BY NoStreamYet, <1>2, <1>3, <1>6, <1>12, <1>14 DEF Moves, TripInv, TripGood, OnConn, OnStream
<1>18. PoolInv' /\ DOMAIN pool' = {"conns", "keys", "dialing"}
  BY <1>9, PoolStill, <1>2, <1>3 DEF IInv, Shape, Moves, PoolInv
<1>19. \A d \in Conns : WriterInv(d)'
  <2>1. WriterInv(c)'
    BY <1>2, <1>3, NoStreamShape DEF Moves, WriterInv, Writes
  <2>2. \A q \in Reqs : rt[q].at = "headers" /\ rt[q].c # c => rt'[q] = rt[q]
    BY <1>14
  <2> QED  BY <1>2, <2>1, <2>2, WritersElsewhere
<1>20. Shape'
  BY <1>2, <1>9, <1>14, <1>18, ShapeOf DEF Moves
<1> QED  BY <1>9, <1>16, <1>17, <1>18, <1>19, <1>20 DEF IInv

LEMMA GetClientConnKeeps == ASSUME IInv, NEW r \in Reqs, GetClientConn(r)  PROVE IInv'
<1> DEFINE usable == {a \in DOMAIN pool.conns : CanTake(cc[pool.conns[a]])}
           fresh == Min(Fresh)
           A == /\ Fresh # {} /\ rt' = [rt EXCEPT ![r].at = "dial", ![r].c = fresh]
                /\ Set(fresh, [NewConn EXCEPT !.at = "dialing", !.single = TRUE]) /\ UNCHANGED pool
           B == /\ usable # {} /\ rt' = [rt EXCEPT ![r].at = "got", ![r].c = pool.conns[Min(usable)]]
                /\ UNCHANGED <<cc, pool>>
           C == /\ pool.dialing # 0 /\ rt' = [rt EXCEPT ![r].at = "dial", ![r].c = pool.dialing]
                /\ UNCHANGED <<cc, pool>>
           D == /\ Fresh # {} /\ rt' = [rt EXCEPT ![r].at = "dial", ![r].c = fresh]
                /\ Set(fresh, [NewConn EXCEPT !.at = "dialing"]) /\ pool' = [pool EXCEPT !.dialing = fresh]
<1>1. rt[r].at = "start" /\ UNCHANGED <<cas, body, net>> /\ (A \/ B \/ C \/ D)
  <2>1. /\ rt[r].at = "start" /\ UNCHANGED <<cas, body, net>>
        /\ IF Req(r).close THEN A
           ELSE IF usable # {}
                THEN rt' = [rt EXCEPT ![r].at = "got", ![r].c = pool.conns[Min(usable)]] /\ UNCHANGED <<cc, pool>>
                ELSE IF pool.dialing # 0
                     THEN rt' = [rt EXCEPT ![r].at = "dial", ![r].c = pool.dialing] /\ UNCHANGED <<cc, pool>>
                     ELSE D
    BY Zenon DEF GetClientConn
  <2> HIDE DEF A, D, usable
  <2> QED  BY <2>1 DEF B, C
<1>2. PoolInv
  BY DEF IInv
<1>3. ASSUME Fresh # {}  PROVE fresh \in Conns /\ cc[fresh].at = "none"
  BY HTTP2ClientAssumption, <1>3, LeastIn DEF HTTP2ClientAssumption, Fresh
<1>4. CASE A
  BY <1>3, <1>4, <1>1, FreshKeeps
<1>5. CASE B
  <2>1. IsSequence(pool.conns) /\ \A d \in Elems(pool.conns) : d \in Conns /\ cc[d].at = "up"
    BY <1>2 DEF PoolInv
  <2>2. DOMAIN pool.conns \subseteq Nat
    BY <2>1, SequenceLength
  <2>3. Min(usable) \in usable
    BY <1>5, <2>2, LeastIn
  <2>4. PICK c : c = pool.conns[Min(usable)]
    OBVIOUS
  <2>5. c \in Conns /\ cc[c].at = "up"
    BY <2>1, <2>3, <2>4 DEF Elems
  <2>6. UNCHANGED <<cc, pool>> /\ rt' = [rt EXCEPT ![r].at = "got", ![r].c = c]
    BY <1>5, <2>4
  <2>7. TripsTame
    BY <1>1, <2>5, <2>6, ChosenTame
  <2>8. Calm
    BY <1>1, <2>6, <2>7, StillTame DEF Calm
  <2> QED  BY <2>8, CalmKeeps
<1>6. CASE C
  BY <1>2, <1>6, <1>1, ChosenTame, StillTame, CalmKeeps DEF PoolInv, Calm
<1>7. CASE D
  BY <1>3, <1>7, <1>1, FreshKeeps
<1> QED  BY <1>1, <1>4, <1>5, <1>6, <1>7

\* Only the frames that wait decide whether they are in order.
LEMMA OutOf ==
  ASSUME NEW k, NEW k2, NEW n, k2.out = k.out, OutInv(k, n)
  PROVE  OutInv(k2, n)
<1>1. PICK f : f = k.out
  OBVIOUS
<1> QED  BY <1>1 DEF OutInv, WireOpened, WireEnded

\* newStream, while nobody writes HEADERS on the connection.
LEMMA NewStreamKeeps ==
  ASSUME IInv, NEW r \in Reqs, rt[r].at \in {"trip", "slot"}, NEW k, Like(cc[rt[r].c], k), k.s = cc[rt[r].c].s,
         k.out = cc[rt[r].c].out, k.rd = cc[rt[r].c].rd, k.on = cc[rt[r].c].on, k.val = cc[rt[r].c].val,
         Free(rt[r].c), k.next \in StreamIds, Set(rt[r].c, NewStreamFor(k, r)),
         rt' = [rt EXCEPT ![r].at = "headers", ![r].id = k.next, ![r].written = FALSE],
         UNCHANGED <<cas, pool, body, net>>
  PROVE  IInv'
<1>1. PICK c, n, i : c = rt[r].c /\ n = net[c] /\ i = k.next
  OBVIOUS
<1>2. PICK s2 : s2 = [NoStream EXCEPT !.r = r, !.flow = k.win, !.inflow = StreamFlow,
                        !.b = IF Req(r).body = "getbody" THEN rt[r].try ELSE 0,
                        !.bw = IF HasBody(r) /\ Req(r).delay THEN "delay" ELSE "off"]
  OBVIOUS
<1>3. PICK k2 : k2 = NewStreamFor(k, r)
  OBVIOUS
<1>4. c \in Conns /\ rt[r].id = 0 /\ Shaped(k)
  BY <1>1, TripAt, LikeShaped DEF OnConn
<1>5. /\ DOMAIN s2 = StreamFields /\ s2.r = r /\ s2.bw \in {"off", "delay"} /\ (~HasBody(r) => s2.bw = "off")
      /\ Answers(s2) = {""}
  BY <1>2 DEF NoStream, StreamFields, Answers
<1>6. DOMAIN k2 = ConnFields /\ k2.s = [k.s EXCEPT ![i] = s2] /\ k2.at = k.at /\ k2.next = i + 2 /\ k2.held
      /\ k2.out = k.out /\ k2.rd = k.rd /\ k2.on = k.on /\ k2.val = k.val /\ k2.open = k.open
  BY <1>1, <1>2, <1>3, <1>4 DEF Shaped, ConnShape, ConnFields, NewStreamFor
<1>7. /\ k.at = cc[c].at /\ cc[c].next = i /\ ~cc[c].held /\ k.s = cc[c].s /\ k.out = cc[c].out
      /\ k.rd = cc[c].rd /\ k.on = cc[c].on /\ k.val = cc[c].val /\ (k.open = "open" => cc[c].open = "open")
  BY <1>1 DEF Like, Free
<1>8. i \in StreamIds /\ Set(c, k2) /\ rt' = [rt EXCEPT ![r].at = "headers", ![r].id = i, ![r].written = FALSE]
  BY <1>1, <1>3
<1>9. Moves(c, k2, n)
  BY <1>1, <1>4, <1>8, SetMoves
<1>10. DOMAIN k2.s = StreamIds /\ \A j \in StreamIds : k2.s[j] = IF j = i THEN s2 ELSE cc[c].s[j]
  BY <1>4, <1>6, <1>7, <1>8 DEF Shaped, ConnShape
<1>11. ConnShape(k2)
  BY <1>4, <1>5, <1>6, <1>7, <1>10 DEF Shaped, ConnShape
<1>12. ConnGood(cc[c], n) /\ DOMAIN n = ServerFields
  BY <1>1, <1>4, ConnIsGood
<1>13. WireOpened(k2, n) = WireOpened(cc[c], n) /\ WireEnded(k2, n) = WireEnded(cc[c], n)
  BY <1>6, <1>7 DEF WireOpened, WireEnded
<1>14. WireOpened(cc[c], n) \subseteq StreamIds
  BY <1>12 DEF ConnGood, ServerInv, OutInv, Elems, WireOpened
<1>15. i \in Nat /\ \A j \in StreamIds : j \in Nat /\ j % 2 = 1
  BY <1>8, HTTP2ClientAssumption DEF HTTP2ClientAssumption
<1>16. ConnGood(k2, n)
  <2>1. \A j \in WireOpened(cc[c], n) : j < i + 2
    BY <1>7, <1>12, <1>14, <1>15 DEF ConnGood
  <2>2. OutInv(k2, n)
    BY <1>6, <1>7, <1>12, OutOf DEF ConnGood
  <2>3. AnswersInv(k2, n)
    <3>1. \A j : True(n, j, "")
      BY DEF True
    <3> QED  BY <1>5, <1>10, <1>12, <3>1 DEF ConnGood, AnswersInv
  <2>4. ReaderTrue(k2, n)
    BY <1>6, <1>7, <1>12 DEF ConnGood, ReaderTrue
  <2>5. k2.next \in Nat /\ k2.at # "none"
    <3>1. cc[c].at = "up"
      BY <1>1 DEF IInv, TripInv, TripGood, OnConn
    <3> QED  BY <1>6, <1>7, <1>15, <3>1
  <2> QED  BY <1>6, <1>12, <1>13, <2>1, <2>2, <2>3, <2>4, <2>5 DEF ConnGood
<1>17. /\ \A d \in Conns : ConnShape(cc'[d]) /\ DOMAIN net'[d] = ServerFields /\ ConnInv(d)'
       /\ \A d \in Conns : (cc[d].at = "up" => cc'[d].at = "up") /\ (cc[d].at # "none" => cc'[d].at # "none")
  BY <1>4, <1>6, <1>7, <1>9, <1>11, <1>12, <1>16, MovesKeep
<1>18. PICK t : t = [rt[r] EXCEPT !.at = "headers", !.id = i, !.written = FALSE]
  OBVIOUS
<1>19. \A q \in Reqs : DOMAIN rt[q] = TripFields /\ TripGood(q, rt[q])
  BY DEF IInv, Shape, TripInv, TripFields
<1>20. DOMAIN t = TripFields /\ t.at = "headers" /\ t.c = c /\ t.id = i
  BY <1>1, <1>18, <1>19 DEF TripFields
<1>21. rt' = [rt EXCEPT ![r] = t]
  BY <1>8, <1>18
<1>22. DOMAIN rt' = Reqs /\ (\A q \in Reqs : DOMAIN rt'[q] = TripFields) /\ rt'[r] = t
       /\ \A q \in Reqs : q # r => rt'[q] = rt[q]
  BY <1>20, <1>21, OneTrip
<1>23. \A j \in StreamIds : j < i + 2 /\ j # i => j < i
  BY <1>8, <1>15
<1>24. \A q \in Reqs : ~(rt[q].at = "headers" /\ rt[q].c = c)
  BY <1>7, <1>19 DEF TripGood
<1>25. ASSUME NEW q \in Reqs, q # r  PROVE TripInv(q)'
  <2>1. rt'[q] = rt[q] /\ ~(rt[q].at = "headers" /\ rt[q].c = c) /\ cas' = cas
    BY <1>22, <1>24, <1>25
  <2>2. rt[q].at \in OnStream /\ rt[q].c = c =>
          rt[q].id < k2.next /\ k2.s[rt[q].id].r = cc[c].s[rt[q].id].r
    <3>1. SUFFICES ASSUME rt[q].at \in OnStream, rt[q].c = c
                   PROVE  rt[q].id < k2.next /\ k2.s[rt[q].id].r = cc[c].s[rt[q].id].r
      OBVIOUS
    <3>2. rt[q].id \in StreamIds /\ rt[q].id < i
      BY <1>7, <1>19, <3>1 DEF TripGood
    <3>3. rt[q].id # i /\ rt[q].id < i + 2
      BY <1>15, <3>2
    <3>4. k2.s[rt[q].id] = cc[c].s[rt[q].id]
      BY <1>10, <3>2, <3>3
    <3>5. k2.next = i + 2
      BY <1>6
    <3> QED  BY <3>3, <3>4, <3>5
  <2>3. \A j \in StreamIds : j < k2.next /\ k2.s[j].r = q => j < cc[c].next /\ cc[c].s[j].r = q
    <3>1. k2.next = i + 2 /\ cc[c].next = i /\ s2.r = r
      BY <1>5, <1>6, <1>7
    <3>2. ASSUME NEW j \in StreamIds, j < i + 2, k2.s[j].r = q  PROVE j < i /\ cc[c].s[j].r = q
      <4>1. j # i
        BY <1>10, <1>25, <3>1, <3>2
      <4> QED  BY <1>10, <1>23, <3>2, <4>1
    <3> QED  BY <3>1, <3>2
  <2>4. k2.at = cc[c].at /\ \A j : Spared(net[c], j) => Spared(n, j)
    BY <1>1, <1>6, <1>7
  <2> QED  BY <1>4, <1>9, <2>1, <2>2, <2>3, <2>4, OthersTrip
<1>26. TripInv(r)'
  <2>1. cc'[c] = k2 /\ net'[c] = n /\ (\A d \in Conns \ {c} : cc'[d] = cc[d]) /\ net' = net
    BY <1>9 DEF Moves
  <2>2. cc[c].at = "up"
    BY <1>1 DEF IInv, TripInv, TripGood, OnConn
  <2>3. i \notin WireOpened(k2, n)
    BY <1>7, <1>12, <1>13, <1>15 DEF ConnGood
  <2>4. HasBody(r)' <=> HasBody(r)
    BY DEF HasBody, Req
  <2>5. k2.s[i] = s2 /\ i < i + 2
    BY <1>8, <1>10, <1>15
  <2>6. \A d \in Conns : \A j \in StreamIds : j < cc[d].next /\ cc[d].s[j].r = r => Spared(net[d], j)
    BY NoStreamYet
  <2>7. \A d \in Conns : \A j \in StreamIds :
          j < cc'[d].next /\ cc'[d].s[j].r = r => (d = c /\ j = i) \/ Spared(net'[d], j)
    BY <1>6, <1>7, <1>10, <1>23, <2>1, <2>6
  <2>8. /\ t.at \in OnConn => t.c \in Conns /\ cc'[t.c].at = "up"
        /\ t.at \in OnStream => t.id \in StreamIds /\ t.id < cc'[t.c].next /\ cc'[t.c].s[t.id].r = r
    <3>1. t.c = c /\ t.id = i /\ i \in StreamIds /\ c \in Conns
      BY <1>4, <1>8, <1>20
    <3>2. k2.at = "up" /\ k2.next = i + 2 /\ k2.s[i].r = r
      BY <1>5, <1>6, <1>7, <2>2, <2>5
    <3> QED  BY <2>1, <2>5, <3>1, <3>2
  <2>9. /\ cc'[t.c].held /\ t.id + 2 = cc'[t.c].next /\ t.id \notin WireOpened(cc'[t.c], net'[t.c])
        /\ cc'[t.c].s[t.id].bw \in {"off", "delay"} /\ (~HasBody(r)' => cc'[t.c].s[t.id].bw = "off")
    BY <1>5, <1>6, <1>20, <2>1, <2>3, <2>4, <2>5
  <2>10. rt'[r] = t /\ t.c = c /\ t.id = i /\ t.at \notin {"dial", "start", "got", "trip", "slot", "slotcancelled", "forget", "decide"}
    BY <1>20, <1>22
  <2> QED  BY <2>7, <2>8, <2>9, <2>10 DEF TripInv, TripGood
<1>27. PoolInv' /\ DOMAIN pool' = {"conns", "keys", "dialing"}
  BY <1>17, PoolStill
<1>28. \A d \in Conns : WriterInv(d)'
  <2>1. \A q \in Reqs : rt[q].at = "headers" /\ rt[q].c # c => rt'[q] = rt[q]
    BY <1>22
  <2>2. WriterInv(c)'
    <3>1. cc'[c] = k2 /\ net'[c] = n
      BY <1>9 DEF Moves
    <3>2. SUFFICES ASSUME k2.open = "open", NEW j \in StreamIds
                   PROVE  /\ k2.s[j].bw \in Writes => j \in WireOpened(k2, n) \ WireEnded(k2, n)
                          /\ k2.s[j].bw = "delay" =>
                               \/ j \in WireOpened(k2, n) \ WireEnded(k2, n)
                               \/ /\ k2.s[j].r \in Reqs /\ rt'[k2.s[j].r].at = "headers"
                                  /\ rt'[k2.s[j].r].c = c /\ rt'[k2.s[j].r].id = j
      BY <3>1 DEF WriterInv
    <3>3. CASE j = i
      <4>1. k2.s[j].bw \notin Writes /\ k2.s[j].r = r
        BY <1>5, <1>10, <3>2, <3>3 DEF Writes
      <4>2. rt'[r].at = "headers" /\ rt'[r].c = c /\ rt'[r].id = j
        BY <1>20, <1>22, <3>3
      <4> QED  BY <4>1, <4>2
    <3>4. CASE j # i
      <4>1. cc[c].open = "open" /\ k2.s[j] = cc[c].s[j]
        BY <1>6, <1>7, <1>10, <3>2, <3>4
      <4>2. /\ cc[c].s[j].bw \in Writes => j \in WireOpened(cc[c], n) \ WireEnded(cc[c], n)
            /\ cc[c].s[j].bw = "delay" =>
                 \/ j \in WireOpened(cc[c], n) \ WireEnded(cc[c], n)
                 \/ cc[c].s[j].r \in Reqs /\ rt[cc[c].s[j].r].at = "headers" /\ rt[cc[c].s[j].r].c = c
        BY <1>1, <1>4, <4>1 DEF IInv, WriterInv
      <4> QED  BY <1>13, <1>24, <4>1, <4>2
    <3> QED  BY <3>3, <3>4
  <2> QED  BY <1>4, <1>9, <2>1, <2>2, WritersElsewhere
<1>29. Shape'
  BY <1>9, <1>17, <1>22, <1>27, ShapeOf DEF Moves
<1> QED  BY <1>17, <1>22, <1>25, <1>26, <1>27, <1>28, <1>29 DEF IInv

\* What is put on the wire comes last.
Gains(k, k2, f) == k2.out = Append(k.out, f)

LEMMA OpensOne ==
  ASSUME NEW k, NEW k2, NEW n, NEW f, Elems(k2.out) = Elems(k.out) \cup {f}, f.t = "HEADERS"
  PROVE  WireOpened(k2, n) = WireOpened(k, n) \cup {f.id}
BY DEF WireOpened

LEMMA OpensNone ==
  ASSUME NEW k, NEW k2, NEW n, NEW f, Elems(k2.out) = Elems(k.out) \cup {f}, f.t # "HEADERS"
  PROVE  WireOpened(k2, n) = WireOpened(k, n)
BY DEF WireOpened

LEMMA EndsOne ==
  ASSUME NEW k, NEW k2, NEW n, NEW f, Elems(k2.out) = Elems(k.out) \cup {f}
  PROVE  WireEnded(k2, n) \subseteq WireEnded(k, n) \cup {f.id}
BY DEF WireEnded

LEMMA EndsNone ==
  ASSUME NEW k, NEW k2, NEW n, NEW f, Elems(k2.out) = Elems(k.out) \cup {f}, ~f.end
  PROVE  WireEnded(k2, n) = WireEnded(k, n)
BY DEF WireEnded

LEMMA HeadersInOrder ==
  ASSUME NEW k, NEW k2, NEW n, NEW f, OutInv(k, n), Gains(k, k2, f), f.t = "HEADERS", f.id \in StreamIds,
         \A i \in WireOpened(k, n) : i < f.id
  PROVE  OutInv(k2, n)
<1> DEFINE o == k.out
           p == k2.out
<1>1. IsSequence(p) /\ Len(p) = Len(o) + 1 /\ p[Len(o) + 1] = f /\ \A b \in 1..Len(o) : p[b] = o[b]
  BY Appended DEF OutInv, Gains
<1>2. Len(o) \in Nat /\ DOMAIN o = 1..Len(o) /\ DOMAIN p = 1..(Len(o) + 1) /\ IsSequence(o)
  BY <1>1, SequenceLength DEF OutInv
<1>3. WireOpened(k2, n) = WireOpened(k, n) \cup {f.id} /\ WireEnded(k2, n) \subseteq WireEnded(k, n) \cup {f.id}
  <2>1. Elems(k2.out) = Elems(k.out) \cup {f}
    BY Appended DEF OutInv, Gains
  <2> HIDE DEF o, p
  <2>2. WireOpened(k2, n) = WireOpened(k, n) \cup {f.id}
    BY <2>1, OpensOne
  <2>3. WireEnded(k2, n) \subseteq WireEnded(k, n) \cup {f.id}
    BY <2>1, EndsOne
  <2> QED  BY <2>2, <2>3
<1>4. \A b \in DOMAIN p : b = Len(o) + 1 \/ (b \in DOMAIN o /\ p[b] = o[b])
  BY <1>1, <1>2
<1>5. \A b \in DOMAIN p : \A a \in 1..(b - 1) : a \in DOMAIN o /\ p[a] = o[a]
  BY <1>1, <1>2
<1>6. \A a \in DOMAIN o : o[a].t = "HEADERS" => o[a].id < f.id
  BY DEF WireOpened, Elems
<1>7. \A i \in n.seen : i < f.id
  BY DEF WireOpened
<1> HIDE DEF o, p
<1>8. \A b \in DOMAIN p : p[b].t = "HEADERS" =>
        /\ p[b].id \in StreamIds /\ \A i \in n.seen : i < p[b].id
        /\ \A a \in 1..(b - 1) : p[a].t = "HEADERS" => p[a].id < p[b].id
  BY <1>1, <1>4, <1>5, <1>6, <1>7 DEF OutInv, o
<1>9. ASSUME NEW b \in DOMAIN p, p[b].t = "DATA"
      PROVE  /\ p[b].id \in n.seen \/ \E a \in 1..(b - 1) : p[a].t = "HEADERS" /\ p[a].id = p[b].id
             /\ p[b].id \notin n.ended /\ \A a \in 1..(b - 1) : p[a].id = p[b].id => ~p[a].end
  BY <1>1, <1>4, <1>9, <1>5 DEF OutInv, o
<1>10. WireEnded(k2, n) \subseteq WireOpened(k2, n)
  BY <1>3 DEF OutInv
<1> QED  BY <1>1, <1>8, <1>9, <1>10 DEF OutInv, p

LEMMA DataInOrder ==
  ASSUME NEW k, NEW k2, NEW n, NEW f, OutInv(k, n), Gains(k, k2, f), f.t = "DATA",
         f.id \in WireOpened(k, n) \ WireEnded(k, n)
  PROVE  OutInv(k2, n)
<1> DEFINE o == k.out
           p == k2.out
<1>1. IsSequence(p) /\ Len(p) = Len(o) + 1 /\ p[Len(o) + 1] = f /\ \A b \in 1..Len(o) : p[b] = o[b]
  BY Appended DEF OutInv, Gains
<1>2. Len(o) \in Nat /\ DOMAIN o = 1..Len(o) /\ DOMAIN p = 1..(Len(o) + 1) /\ IsSequence(o)
  BY <1>1, SequenceLength DEF OutInv
<1>3. WireOpened(k2, n) = WireOpened(k, n) /\ WireEnded(k2, n) \subseteq WireEnded(k, n) \cup {f.id}
  <2>1. Elems(k2.out) = Elems(k.out) \cup {f}
    BY Appended DEF OutInv, Gains
  <2> HIDE DEF o, p
  <2>2. WireOpened(k2, n) = WireOpened(k, n)
    BY <2>1, OpensNone
  <2>3. WireEnded(k2, n) \subseteq WireEnded(k, n) \cup {f.id}
    BY <2>1, EndsOne
  <2> QED  BY <2>2, <2>3
<1>4. \A b \in DOMAIN p : b = Len(o) + 1 \/ (b \in DOMAIN o /\ p[b] = o[b])
  BY <1>1, <1>2
<1>5. \A b \in DOMAIN p : \A a \in 1..(b - 1) : a \in DOMAIN o /\ p[a] = o[a]
  BY <1>1, <1>2
<1>6. f.id \in n.seen \/ \E a \in DOMAIN o : o[a].t = "HEADERS" /\ o[a].id = f.id
  BY DEF WireOpened, Elems
<1>7. f.id \notin n.ended /\ \A a \in DOMAIN o : o[a].id = f.id => ~o[a].end
  BY DEF WireEnded, Elems
<1>8. (Len(o) + 1) - 1 = Len(o)
  BY <1>2
<1> HIDE DEF o, p
<1>9. \A b \in DOMAIN p : p[b].t = "HEADERS" =>
        /\ p[b].id \in StreamIds /\ \A i \in n.seen : i < p[b].id
        /\ \A a \in 1..(b - 1) : p[a].t = "HEADERS" => p[a].id < p[b].id
  BY <1>1, <1>4, <1>5 DEF OutInv, o
<1>10. ASSUME NEW b \in DOMAIN p, p[b].t = "DATA"
       PROVE  /\ p[b].id \in n.seen \/ \E a \in 1..(b - 1) : p[a].t = "HEADERS" /\ p[a].id = p[b].id
              /\ p[b].id \notin n.ended /\ \A a \in 1..(b - 1) : p[a].id = p[b].id => ~p[a].end
  <2>1. CASE b = Len(o) + 1
    BY <1>1, <1>2, <1>8, <2>1, <1>6, <1>7
  <2>2. CASE b \in DOMAIN o /\ p[b] = o[b]
    BY <1>10, <2>2, <1>5 DEF OutInv, o
  <2> QED  BY <1>4, <1>10, <2>1, <2>2
<1>11. WireEnded(k2, n) \subseteq WireOpened(k2, n)
  BY <1>3 DEF OutInv
<1> QED  BY <1>1, <1>9, <1>10, <1>11 DEF OutInv, p

\* The server takes the oldest frame.
LEMMA ReadInOrder ==
  ASSUME NEW k, NEW k2, NEW n, NEW m, OutInv(k, n), k.out # <<>>, k2.out = Tail(k.out),
         m.seen = n.seen \cup (IF Head(k.out).t = "HEADERS" THEN {Head(k.out).id} ELSE {}),
         m.ended \subseteq n.ended \cup (IF Head(k.out).end THEN {Head(k.out).id} ELSE {})
  PROVE  /\ OutInv(k2, m)
         /\ WireOpened(k2, m) = WireOpened(k, n) /\ WireEnded(k2, m) \subseteq WireEnded(k, n)
         /\ Head(k.out).t = "HEADERS" => /\ Head(k.out).id \in StreamIds
                                        /\ \A i \in n.seen : i < Head(k.out).id
<1> DEFINE o == k.out
           p == k2.out
           f == Head(k.out)
<1>1. IsSequence(p) /\ Elems(o) = {f} \cup Elems(p) /\ f = o[1] /\ Len(o) \in Nat \ {0} /\ Len(p) = Len(o) - 1
      /\ \A b \in 1..(Len(o) - 1) : p[b] = o[b + 1]
  BY Shorter DEF OutInv
<1>2. IsSequence(o) /\ DOMAIN o = 1..Len(o) /\ DOMAIN p = 1..(Len(o) - 1)
  BY <1>1, SequenceLength DEF OutInv
<1> HIDE DEF o, p, f
<1>3. {g \in Elems(o) : g.t = "HEADERS"} = {g \in Elems(p) : g.t = "HEADERS"} \cup (IF f.t = "HEADERS" THEN {f} ELSE {})
  BY <1>1
<1>4. {g \in Elems(o) : g.end} = {g \in Elems(p) : g.end} \cup (IF f.end THEN {f} ELSE {})
  BY <1>1
<1>5. WireOpened(k2, m) = WireOpened(k, n) /\ WireEnded(k2, m) \subseteq WireEnded(k, n)
  BY <1>3, <1>4 DEF WireOpened, WireEnded, o, p, f
<1>6. \A b \in DOMAIN p : b + 1 \in DOMAIN o /\ p[b] = o[b + 1] /\ 1 \in 1..((b + 1) - 1)
  BY <1>1, <1>2
<1>7. \A b \in DOMAIN p : \A a \in 1..(b - 1) : a + 1 \in 1..((b + 1) - 1) /\ p[a] = o[a + 1]
  BY <1>1, <1>2
<1>8. \A b \in DOMAIN p : \A a \in 1..((b + 1) - 1) : a = 1 \/ (a - 1 \in 1..(b - 1) /\ o[a] = p[a - 1])
  BY <1>1, <1>2
<1>9. \A b \in DOMAIN o : o[b].t = "HEADERS" =>
        /\ o[b].id \in StreamIds /\ \A i \in n.seen : i < o[b].id
        /\ \A a \in 1..(b - 1) : o[a].t = "HEADERS" => o[a].id < o[b].id
  BY DEF OutInv, o
<1>10. \A b \in DOMAIN o : o[b].t = "DATA" =>
        /\ o[b].id \in n.seen \/ \E a \in 1..(b - 1) : o[a].t = "HEADERS" /\ o[a].id = o[b].id
        /\ o[b].id \notin n.ended /\ \A a \in 1..(b - 1) : o[a].id = o[b].id => ~o[a].end
  BY DEF OutInv, o
<1>11. /\ m.seen = n.seen \cup (IF f.t = "HEADERS" THEN {f.id} ELSE {})
       /\ m.ended \subseteq n.ended \cup (IF f.end THEN {f.id} ELSE {})
  BY DEF f
<1>12. ASSUME NEW b \in DOMAIN p, p[b].t = "HEADERS"
       PROVE  /\ p[b].id \in StreamIds /\ \A i \in m.seen : i < p[b].id
              /\ \A a \in 1..(b - 1) : p[a].t = "HEADERS" => p[a].id < p[b].id
  BY <1>6, <1>12, <1>9, <1>1, <1>11, <1>7
<1>13. ASSUME NEW b \in DOMAIN p, p[b].t = "DATA"
       PROVE  /\ p[b].id \in m.seen \/ \E a \in 1..(b - 1) : p[a].t = "HEADERS" /\ p[a].id = p[b].id
              /\ p[b].id \notin m.ended /\ \A a \in 1..(b - 1) : p[a].id = p[b].id => ~p[a].end
  <2>1. PICK y : y = b + 1
    OBVIOUS
  <2>2. y \in DOMAIN o /\ p[b] = o[y] /\ 1 \in 1..(y - 1)
    BY <1>6, <1>13, <2>1
  <2>3. /\ o[y].id \in n.seen \/ \E a \in 1..(y - 1) : o[a].t = "HEADERS" /\ o[a].id = o[y].id
        /\ o[y].id \notin n.ended /\ \A a \in 1..(y - 1) : o[a].id = o[y].id => ~o[a].end
    BY <1>10, <1>13, <2>2
  <2>4. p[b].id \in m.seen \/ \E a \in 1..(b - 1) : p[a].t = "HEADERS" /\ p[a].id = p[b].id
    BY <1>11, <2>2, <1>1, <1>8, <1>13, <2>1, <2>3
  <2>5. p[b].id \notin m.ended
    BY <1>1, <1>11, <2>2, <2>3
  <2>6. \A a \in 1..(b - 1) : p[a].id = p[b].id => ~p[a].end
    BY <1>7, <1>13, <2>1, <2>2, <2>3
  <2> QED  BY <2>4, <2>5, <2>6
<1>14. OutInv(k2, m)
  BY <1>1, <1>5, <1>12, <1>13 DEF OutInv, p
<1>15. f.t = "HEADERS" => f.id \in StreamIds /\ \A i \in n.seen : i < f.id
  BY <1>1, <1>2, <1>9
<1> QED  BY <1>5, <1>14, <1>15 DEF f

\* A request has written its HEADERS, or could not.
HeadersAt(r, c, i, n) == rt[r].at = "headers" /\ c = rt[r].c /\ i = rt[r].id /\ n = net[c]
HeadersGo(r, c, i, k2, s2, f) ==
  /\ DOMAIN k2 = ConnFields /\ k2.s = [cc[c].s EXCEPT ![i] = s2]
  /\ k2.at = cc[c].at /\ k2.next = cc[c].next /\ k2.open = cc[c].open
  /\ k2.rd = cc[c].rd /\ k2.on = cc[c].on /\ k2.val = cc[c].val
  /\ DOMAIN s2 = StreamFields /\ s2.r = cc[c].s[i].r /\ Answers(s2) = Answers(cc[c].s[i])
  /\ f.t = "HEADERS" /\ f.id = i /\ f.end = ~HasBody(r)
  /\ \/ k2.open # "open" /\ k2.out = cc[c].out
     \/ Gains(cc[c], k2, f) /\ s2.bw \in {"off", "delay", "go"} /\ (~HasBody(r) => s2.bw = "off")
HeadersLeave(c, i, t) ==
  DOMAIN t = TripFields /\ t.c = c /\ t.id = i /\ (t.at = "wait" \/ (t.at = "forget" /\ t.err = "write"))

LEMMA HeadersKeep ==
  ASSUME IInv, NEW r \in Reqs, NEW c, NEW i, NEW n, HeadersAt(r, c, i, n),
         NEW k2, NEW s2, NEW f, HeadersGo(r, c, i, k2, s2, f), Set(c, k2), UNCHANGED <<cas, pool, net>>,
         NEW t, HeadersLeave(c, i, t), rt' = [rt EXCEPT ![r] = t]
  PROVE  IInv'
<1>1. \A q \in Reqs : TripGood(q, rt[q])
  BY DEF IInv, TripInv
<1>2. /\ c \in Conns /\ cc[c].at = "up" /\ i \in StreamIds /\ i < cc[c].next /\ cc[c].s[i].r = r
      /\ i + 2 = cc[c].next /\ i \notin WireOpened(cc[c], n)
  <2>1. TripGood(r, rt[r])
    BY <1>1
  <2> QED  BY <2>1 DEF TripGood, OnConn, OnStream, HeadersAt
<1>3. ConnGood(cc[c], n) /\ DOMAIN n = ServerFields /\ Shaped(cc[c]) /\ IsSequence(cc[c].out)
  <2>1. n = net[c]
    BY DEF HeadersAt
  <2> QED  BY <1>2, <2>1, ConnIsGood
<1>4. Moves(c, k2, n)
  <2>1. n = net[c]
    BY DEF HeadersAt
  <2> QED  BY <1>2, <2>1, SetMoves
<1>5. DOMAIN k2.s = StreamIds /\ \A j \in StreamIds : k2.s[j] = IF j = i THEN s2 ELSE cc[c].s[j]
  BY <1>2, <1>3 DEF Shaped, ConnShape, HeadersGo
<1>6. ConnShape(k2)
  BY <1>3, <1>5 DEF Shaped, ConnShape, HeadersGo
<1>7. i \in Nat /\ \A j \in StreamIds : j \in Nat /\ j % 2 = 1
  BY <1>2, HTTP2ClientAssumption DEF HTTP2ClientAssumption
<1>8. WireOpened(cc[c], n) \subseteq StreamIds
  BY <1>3 DEF ConnGood, ServerInv, OutInv, WireOpened, Elems
<1>9. \A j \in WireOpened(cc[c], n) : j < i
  <2>1. \A p, q \in Nat : p % 2 = 1 /\ q % 2 = 1 /\ p < q + 2 /\ p # q => p < q
    OBVIOUS
  <2>2. \A j \in WireOpened(cc[c], n) : j \in StreamIds /\ j < i + 2 /\ j # i
    BY <1>2, <1>3, <1>8 DEF ConnGood
  <2> QED  BY <1>2, <1>7, <2>1, <2>2
<1>30. f.t = "HEADERS" /\ f.id = i /\ (HasBody(r) => ~f.end)
  BY DEF HeadersGo
<1>10. /\ OutInv(k2, n)
       /\ WireOpened(cc[c], n) \subseteq WireOpened(k2, n) /\ WireOpened(k2, n) \subseteq WireOpened(cc[c], n) \cup {i}
       /\ WireEnded(k2, n) \subseteq WireEnded(cc[c], n) \cup {i}
       /\ Gains(cc[c], k2, f) => i \in WireOpened(k2, n) /\ (HasBody(r) => i \notin WireEnded(k2, n))
  <2>1. OutInv(cc[c], n) /\ i \notin WireEnded(cc[c], n)
    BY <1>2, <1>3 DEF ConnGood, OutInv
  <2>2. CASE Gains(cc[c], k2, f)
    <3>1. OutInv(k2, n)
      BY <1>2, <1>9, <1>30, <2>1, <2>2, HeadersInOrder
    <3>2. Elems(k2.out) = Elems(cc[c].out) \cup {f}
      BY <1>3, <2>2, Appended DEF Gains
    <3>3. WireOpened(k2, n) = WireOpened(cc[c], n) \cup {i}
      BY <1>30, <3>2, OpensOne
    <3>4. WireEnded(k2, n) \subseteq WireEnded(cc[c], n) \cup {i}
      BY <1>30, <3>2, EndsOne
    <3>5. HasBody(r) => WireEnded(k2, n) = WireEnded(cc[c], n)
      BY <1>30, <3>2, EndsNone
    <3> QED  BY <2>1, <3>1, <3>3, <3>4, <3>5
  <2>3. CASE ~Gains(cc[c], k2, f)
    BY <2>3, <2>1 DEF HeadersGo, WireOpened, WireEnded, OutInv
  <2> QED  BY <2>2, <2>3
<1>11. ConnGood(k2, n)
  BY <1>2, <1>3, <1>10, <1>5 DEF ConnGood, HeadersGo, AnswersInv, ReaderTrue
<1>31. k2.next = cc[c].next /\ k2.at = cc[c].at /\ k2.open = cc[c].open
  BY DEF HeadersGo
<1>12. /\ \A d \in Conns : ConnShape(cc'[d]) /\ DOMAIN net'[d] = ServerFields /\ ConnInv(d)'
       /\ \A d \in Conns : (cc[d].at = "up" => cc'[d].at = "up") /\ (cc[d].at # "none" => cc'[d].at # "none")
  BY <1>2, <1>3, <1>4, <1>6, <1>11, <1>31, MovesKeep
<1>13. DOMAIN rt' = Reqs /\ (\A q \in Reqs : DOMAIN rt'[q] = TripFields) /\ rt'[r] = t
       /\ \A q \in Reqs : q # r => rt'[q] = rt[q]
  BY OneTrip DEF HeadersLeave
\* Nobody else writes HEADERS here.
<1>14. \A q \in Reqs : rt[q].at = "headers" /\ rt[q].c = c => q = r
  <2>1. SUFFICES ASSUME NEW q \in Reqs, rt[q].at = "headers", rt[q].c = c  PROVE q = r
    OBVIOUS
  <2>2. rt[q].id \in StreamIds /\ cc[c].s[rt[q].id].r = q /\ rt[q].id + 2 = cc[c].next
    BY <1>1, <2>1 DEF TripGood, OnStream
  <2>3. rt[q].id = i
    <3>1. \A x, y \in Nat : x + 2 = y + 2 => x = y
      OBVIOUS
    <3>2. rt[q].id \in Nat /\ rt[q].id + 2 = i + 2
      BY <1>2, <1>7, <2>2
    <3> QED  BY <1>7, <3>1, <3>2
  <2> QED  BY <1>2, <2>2, <2>3
<1>15. \A j \in StreamIds : k2.s[j].r = cc[c].s[j].r
  BY <1>5 DEF HeadersGo
<1>16. ASSUME NEW q \in Reqs, q # r  PROVE TripInv(q)'
  <2>1. rt'[q] = rt[q] /\ ~(rt[q].at = "headers" /\ rt[q].c = c)
    BY <1>13, <1>14, <1>16
  <2>2. rt[q].at \in OnStream /\ rt[q].c = c =>
          rt[q].id < k2.next /\ k2.s[rt[q].id].r = cc[c].s[rt[q].id].r
    BY <1>1, <1>15, <1>31 DEF TripGood
  <2>3. \A j : Spared(net[c], j) => Spared(n, j)
    BY DEF HeadersAt
  <2>4. cas' = cas
    OBVIOUS
  <2>5. \A j \in StreamIds : j < k2.next /\ k2.s[j].r = q => j < cc[c].next /\ cc[c].s[j].r = q
    BY <1>15, <1>31
  <2> QED  BY <1>2, <1>4, <1>31, <2>1, <2>2, <2>3, <2>4, <2>5, OthersTrip
<1>17. TripInv(r)'
  BY <1>4, <1>1, <1>15, <1>31, <1>2, <1>13 DEF Moves, HeadersAt, HeadersLeave, TripGood, TripInv
<1>18. PoolInv' /\ DOMAIN pool' = {"conns", "keys", "dialing"}
  BY <1>12, PoolStill
<1>19. \A d \in Conns : WriterInv(d)'
  <2>1. \A q \in Reqs : rt[q].at = "headers" /\ rt[q].c # c => rt'[q] = rt[q]
    BY <1>13 DEF HeadersAt
  <2>2. WriterInv(c)'
    <3>1. cc'[c] = k2 /\ net'[c] = n
      BY <1>4 DEF Moves
    <3>2. SUFFICES ASSUME k2.open = "open", NEW j \in StreamIds
                   PROVE  k2.s[j].bw \in Writes \cup {"delay"} => j \in WireOpened(k2, n) \ WireEnded(k2, n)
      BY <3>1 DEF WriterInv
    <3>3. Gains(cc[c], k2, f) /\ s2.bw \in {"off", "delay", "go"} /\ (~HasBody(r) => s2.bw = "off")
      BY <3>2 DEF HeadersGo
    <3>4. CASE j = i
      BY <1>5, <3>3, <3>4, <1>10 DEF Writes
    <3>5. CASE j # i
      <4>1. cc[c].open = "open" /\ k2.s[j] = cc[c].s[j]
        BY <1>5, <1>31, <3>2, <3>5
      <4>2. /\ cc[c].s[j].bw \in Writes => j \in WireOpened(cc[c], n) \ WireEnded(cc[c], n)
            /\ cc[c].s[j].bw = "delay" =>
                 \/ j \in WireOpened(cc[c], n) \ WireEnded(cc[c], n)
                 \/ /\ cc[c].s[j].r \in Reqs /\ rt[cc[c].s[j].r].at = "headers"
                    /\ rt[cc[c].s[j].r].c = c /\ rt[cc[c].s[j].r].id = j
        BY <1>2, <4>1 DEF IInv, HeadersAt, WriterInv
      <4>3. cc[c].s[j].bw \in Writes \cup {"delay"} => j \in WireOpened(cc[c], n) \ WireEnded(cc[c], n)
        BY <1>14, <3>5, <4>2 DEF HeadersAt
      <4> QED  BY <1>10, <3>5, <4>1, <4>3
    <3> QED  BY <3>4, <3>5
  <2> QED  BY <1>2, <1>4, <2>1, <2>2, WritersElsewhere
<1>20. Shape'
  BY <1>4, <1>12, <1>13, <1>18, ShapeOf DEF Moves
<1> QED  BY <1>12, <1>13, <1>16, <1>17, <1>18, <1>19, <1>20 DEF IInv

LEMMA WriteHeadersKeeps == ASSUME IInv, NEW r \in Reqs, WriteHeaders(r)  PROVE IInv'
<1> DEFINE k == [cc[rt[r].c] EXCEPT !.held = FALSE]
<1>1. PICK c, i, n, f : c = rt[r].c /\ i = rt[r].id /\ n = net[c] /\ f = F("HEADERS", i, 0, ~HasBody(r), r)
  OBVIOUS
<1>2. TripGood(r, rt[r]) /\ DOMAIN rt[r] = TripFields
  BY DEF IInv, TripInv, Shape, TripFields
<1>3. rt[r].at = "headers" /\ UNCHANGED <<cas, pool, net>>
  BY DEF WriteHeaders
<1>4. c \in Conns /\ i \in StreamIds /\ Shaped(cc[c]) /\ cc[c].s[i].bw \in {"off", "delay"}
      /\ (~HasBody(r) => cc[c].s[i].bw = "off")
  BY <1>1, <1>3, TripAt, <1>2, ConnShaped DEF OnConn, OnStream, TripGood
<1>5. /\ DOMAIN k = ConnFields /\ k.s = cc[c].s /\ k.at = cc[c].at /\ k.next = cc[c].next /\ k.open = cc[c].open
      /\ k.out = cc[c].out /\ k.rd = cc[c].rd /\ k.on = cc[c].on /\ k.val = cc[c].val
  BY <1>1, <1>4 DEF Shaped, ConnShape, ConnFields
<1>6. f.t = "HEADERS" /\ f.id = i /\ f.end = ~HasBody(r)
  BY <1>1 DEF F
<1>7. \/ /\ k.open # "closed" /\ Step(r, "wait")
         /\ Set(c, [Put(k, f) EXCEPT !.s[i].bw = IF HasBody(r) /\ @ = "off" THEN "go" ELSE @])
      \/ /\ k.open # "open" /\ Fails(r, "forget", "write")
         /\ Set(c, [k EXCEPT !.s[i].bw = "off"])
  BY <1>1 DEF WriteHeaders
<1> HIDE DEF k
<1>8. Shaped(k)
  BY <1>4, <1>5 DEF Shaped, ConnShape
<1>9. ASSUME k.open # "closed", Step(r, "wait"),
             Set(c, [Put(k, f) EXCEPT !.s[i].bw = IF HasBody(r) /\ @ = "off" THEN "go" ELSE @])
      PROVE  IInv'
  <2>1. PICK p : p = Put(k, f)
    OBVIOUS
  <2>2. PICK w : w = IF HasBody(r) /\ p.s[i].bw = "off" THEN "go" ELSE p.s[i].bw
    OBVIOUS
  <2>3. /\ DOMAIN p = ConnFields /\ p.s = k.s /\ p.at = k.at /\ p.next = k.next /\ p.open = k.open
        /\ p.rd = k.rd /\ p.on = k.on /\ p.val = k.val
        /\ p.out = IF k.open = "open" THEN Append(k.out, f) ELSE k.out
    BY <1>6, <1>8, <2>1 DEF Put, Shaped, ConnShape, ConnFields
  <2>4. PICK s2 : s2 = [cc[c].s[i] EXCEPT !.bw = w]
    OBVIOUS
  <2>5. DOMAIN s2 = StreamFields /\ s2.r = cc[c].s[i].r /\ s2.bw = w /\ Answers(s2) = Answers(cc[c].s[i])
    BY <1>4, <2>4 DEF Shaped, ConnShape, StreamFields, Answers
  <2>6. PICK k2 : k2 = [p EXCEPT !.s = [p.s EXCEPT ![i] = s2]]
    OBVIOUS
  <2>7. Set(c, k2)
    BY <1>5, <2>3, <2>4, <1>9, <2>1, <2>2, <2>6
  <2>8. /\ DOMAIN k2 = ConnFields /\ k2.s = [cc[c].s EXCEPT ![i] = s2] /\ k2.at = cc[c].at /\ k2.next = cc[c].next
        /\ k2.open = cc[c].open /\ k2.rd = cc[c].rd /\ k2.on = cc[c].on /\ k2.val = cc[c].val /\ k2.out = p.out
    BY <1>5, <2>3, <2>6 DEF ConnFields
  <2>9. \/ k2.open # "open" /\ k2.out = cc[c].out
        \/ Gains(cc[c], k2, f) /\ s2.bw \in {"off", "delay", "go"} /\ (~HasBody(r) => s2.bw = "off")
    BY <1>4, <1>5, <2>2, <2>3, <2>5, <2>8 DEF Gains
  <2>10. PICK t : t = [rt[r] EXCEPT !.at = "wait"]
    OBVIOUS
  <2>11. DOMAIN t = TripFields /\ t.c = c /\ t.id = i /\ t.at = "wait" /\ rt' = [rt EXCEPT ![r] = t]
    BY <1>1, <1>2, <1>9, <2>10 DEF TripFields, Step
  <2>12. HeadersAt(r, c, i, n) /\ HeadersLeave(c, i, t)
    BY <1>1, <1>3, <2>11 DEF HeadersAt, HeadersLeave
  <2>13. HeadersGo(r, c, i, k2, s2, f)
    BY <1>6, <2>5, <2>8, <2>9 DEF HeadersGo
  <2> QED  BY <1>3, <2>7, <2>11, <2>12, <2>13, HeadersKeep
<1>10. ASSUME k.open # "open", Fails(r, "forget", "write"), Set(c, [k EXCEPT !.s[i].bw = "off"])
       PROVE  IInv'
  <2>1. PICK s2 : s2 = [cc[c].s[i] EXCEPT !.bw = "off"]
    OBVIOUS
  <2>2. DOMAIN s2 = StreamFields /\ s2.r = cc[c].s[i].r /\ Answers(s2) = Answers(cc[c].s[i])
    BY <1>4, <2>1 DEF Shaped, ConnShape, StreamFields, Answers
  <2>3. PICK k2 : k2 = [k EXCEPT !.s[i].bw = "off"]
    OBVIOUS
  <2>4. /\ DOMAIN k2 = ConnFields /\ k2.s = [cc[c].s EXCEPT ![i] = s2] /\ k2.at = cc[c].at /\ k2.next = cc[c].next
        /\ k2.open = cc[c].open /\ k2.rd = cc[c].rd /\ k2.on = cc[c].on /\ k2.val = cc[c].val /\ k2.out = cc[c].out
    BY <1>5, <2>1, <2>3 DEF ConnFields
  <2>5. Set(c, k2) /\ k2.open # "open"
    BY <1>5, <1>10, <2>3, <2>4
  <2>6. PICK t : t = [rt[r] EXCEPT !.at = "forget", !.err = "write"]
    OBVIOUS
  <2>7. DOMAIN t = TripFields /\ t.c = c /\ t.id = i /\ t.at = "forget" /\ t.err = "write" /\ rt' = [rt EXCEPT ![r] = t]
    BY <1>1, <1>2, <1>10, <2>6 DEF TripFields, Fails
  <2>8. HeadersAt(r, c, i, n) /\ HeadersLeave(c, i, t)
    BY <1>1, <1>3, <2>7 DEF HeadersAt, HeadersLeave
  <2>9. HeadersGo(r, c, i, k2, s2, f)
    BY <1>6, <2>2, <2>4, <2>5 DEF HeadersGo
  <2> QED  BY <1>3, <2>5, <2>7, <2>8, <2>9, HeadersKeep
<1> QED  BY <1>7, <1>9, <1>10

\* DATA goes out on a stream that is open.
DataGo(c, i, k2, s2, f) ==
  /\ DOMAIN k2 = ConnFields /\ k2.s = [cc[c].s EXCEPT ![i] = s2]
  /\ k2.at = cc[c].at /\ k2.next = cc[c].next /\ k2.open = cc[c].open /\ k2.held = cc[c].held
  /\ k2.rd = cc[c].rd /\ k2.on = cc[c].on /\ k2.val = cc[c].val
  /\ DOMAIN s2 = StreamFields /\ s2.r = cc[c].s[i].r /\ \A v \in Answers(s2) : v \in Answers(cc[c].s[i]) \/ v = "ok"
  /\ f.t = "DATA" /\ f.id = i /\ Gains(cc[c], k2, f)
  /\ s2.bw = "close" \/ (s2.bw = "read" /\ ~f.end)

LEMMA DataKeeps ==
  ASSUME IInv, NEW c \in Conns, NEW i \in StreamIds, cc[c].s[i].bw \in Writes, cc[c].open = "open",
         NEW k2, NEW s2, NEW f, DataGo(c, i, k2, s2, f), Set(c, k2), UNCHANGED <<cas, pool, rt, body, net>>
  PROVE  IInv'
<1>1. PICK n : n = net[c]
  OBVIOUS
<1>2. ConnGood(cc[c], n) /\ DOMAIN n = ServerFields /\ Shaped(cc[c]) /\ IsSequence(cc[c].out)
  BY <1>1, ConnIsGood
<1>3. Moves(c, k2, n)
  BY <1>1, SetMoves
<1>4. ~Headed(c, i) /\ i \in WireOpened(cc[c], n) \ WireEnded(cc[c], n)
  BY <1>1, WriterAt
<1>5. DOMAIN k2.s = StreamIds /\ \A j \in StreamIds : k2.s[j] = IF j = i THEN s2 ELSE cc[c].s[j]
  BY <1>2 DEF Shaped, ConnShape, DataGo
<1>6. ConnShape(k2)
  BY <1>2, <1>5 DEF Shaped, ConnShape, DataGo
<1>7. k2.next = cc[c].next /\ k2.at = cc[c].at /\ k2.open = cc[c].open /\ k2.held = cc[c].held
      /\ f.t = "DATA" /\ f.id = i /\ Gains(cc[c], k2, f)
  BY DEF DataGo
<1>8. WireOpened(k2, n) = WireOpened(cc[c], n) /\ WireEnded(k2, n) \subseteq WireEnded(cc[c], n) \cup {i}
      /\ (~f.end => WireEnded(k2, n) = WireEnded(cc[c], n))
  <2>1. Elems(k2.out) = Elems(cc[c].out) \cup {f}
    BY <1>2, <1>7, Appended DEF Gains
  <2> QED  BY <1>7, <2>1, OpensNone, EndsOne, EndsNone
<1>9. OutInv(k2, n)
  BY <1>2, <1>4, <1>7, DataInOrder DEF ConnGood
<1>10. ConnGood(k2, n)
  BY <1>5, <1>2, <1>7, <1>8, <1>9 DEF DataGo, True, ConnGood, AnswersInv, ReaderTrue
<1>11. /\ \A d \in Conns : ConnShape(cc'[d]) /\ DOMAIN net'[d] = ServerFields /\ ConnInv(d)'
       /\ \A d \in Conns : (cc[d].at = "up" => cc'[d].at = "up") /\ (cc[d].at # "none" => cc'[d].at # "none")
  BY <1>2, <1>3, <1>6, <1>7, <1>10, MovesKeep
<1>12. \A j \in StreamIds : k2.s[j].r = cc[c].s[j].r
  BY <1>5 DEF DataGo
<1>13. ASSUME NEW q \in Reqs  PROVE TripInv(q)'
  <2>1. TripGood(q, rt[q])
    BY DEF IInv, TripInv
  <2>2. rt[q].at \in OnStream /\ rt[q].c = c => rt[q].id < k2.next /\ k2.s[rt[q].id].r = cc[c].s[rt[q].id].r
    BY <2>1, <1>7, <1>12 DEF TripGood
  <2>3. rt[q].at = "headers" /\ rt[q].c = c =>
          /\ k2.held /\ k2.next = cc[c].next /\ rt[q].id \notin WireOpened(k2, n)
          /\ k2.s[rt[q].id].bw = cc[c].s[rt[q].id].bw
    BY <1>1, <2>1, <1>4, <1>5, <1>7, <1>8 DEF TripGood, OnStream, Headed
  <2>4. rt'[q] = rt[q] /\ cas' = cas /\ \A j : Spared(net[c], j) => Spared(n, j)
    BY <1>1
  <2>5. \A j \in StreamIds : j < k2.next /\ k2.s[j].r = q => j < cc[c].next /\ cc[c].s[j].r = q
    BY <1>7, <1>12
  <2> QED  BY <1>3, <1>7, <2>2, <2>3, <2>4, <2>5, OthersTrip
<1>14. PoolInv' /\ DOMAIN pool' = {"conns", "keys", "dialing"}
  BY <1>11, PoolStill
<1>15. \A d \in Conns : WriterInv(d)'
  <2>1. \A q \in Reqs : rt'[q] = rt[q]
    OBVIOUS
  <2>2. WriterInv(c)'
    BY <1>3, <1>5, <1>4, <1>8, <1>1, <2>1 DEF Moves, WriterInv, DataGo, Writes, IInv
  <2> QED  BY <1>3, <2>1, <2>2, WritersElsewhere
<1>16. DOMAIN rt' = Reqs /\ \A q \in Reqs : DOMAIN rt'[q] = TripFields
  BY DEF IInv, Shape, TripFields
<1>17. Shape'
  BY <1>3, <1>11, <1>14, <1>16, ShapeOf DEF Moves
<1> QED  BY <1>11, <1>13, <1>14, <1>15, <1>17 DEF IInv

LEMMA WriteDataKeeps == ASSUME IInv, NEW c \in Conns, NEW i \in StreamIds, WriteData(c, i)  PROVE IInv'
<1>1. PICK k, end, f : /\ k = cc[c] /\ end = (k.s[i].bw = "end" \/ k.s[i].eof)
                       /\ f = F("DATA", i, IF k.s[i].bw = "data" THEN 1 ELSE 0, end, "")
  OBVIOUS
<1>2. PICK p : p = Put(k, f)
  OBVIOUS
<1>3. /\ k.s[i].bw \in {"data", "end"} /\ UNCHANGED <<cas, pool, rt, body, net>>
      /\ \/ k.open # "closed" /\ Set(c, IF end THEN Ends(p, i, "ok") ELSE [p EXCEPT !.s[i].bw = "read"])
         \/ k.open # "open" /\ Set(c, Ends(k, i, "write"))
  BY <1>1, <1>2 DEF WriteData
<1>4. Shaped(k)
  BY <1>1, ConnShaped
<1>5. f.t = "DATA" /\ f.id = i /\ f.end = end
  BY <1>1 DEF F
<1>6. CASE k.open # "open"
  BY <1>2, <1>6, <1>3, <1>1, WriteLostCalm, CalmKeeps DEF Put
<1>7. CASE k.open = "open"
  <2>1. /\ DOMAIN p = ConnFields /\ p.s = k.s /\ p.at = k.at /\ p.next = k.next /\ p.open = k.open /\ p.held = k.held
        /\ p.rd = k.rd /\ p.on = k.on /\ p.val = k.val /\ p.out = Append(k.out, f)
    BY <1>2, <1>4, <1>5, <1>7 DEF Put, Shaped, ConnShape, ConnFields
  <2>2. CASE end
    <3>1. PICK s2 : s2 = [k.s[i] EXCEPT !.bw = "close", !.res = "ok"]
      OBVIOUS
    <3>2. PICK k2 : k2 = Ends(p, i, "ok")
      OBVIOUS
    <3>3. DOMAIN s2 = StreamFields /\ s2.r = k.s[i].r /\ s2.bw = "close"
          /\ \A v \in Answers(s2) : v \in Answers(k.s[i]) \/ v = "ok"
      BY <1>4, <3>1 DEF Shaped, ConnShape, StreamFields, Answers
    <3>4. /\ DOMAIN k2 = ConnFields /\ k2.s = [k.s EXCEPT ![i] = s2] /\ k2.at = k.at /\ k2.next = k.next
          /\ k2.open = k.open /\ k2.held = k.held /\ k2.rd = k.rd /\ k2.on = k.on /\ k2.val = k.val
          /\ k2.out = Append(k.out, f)
      BY <2>1, <3>1, <3>2 DEF Ends, ConnFields
    <3>5. DataGo(c, i, k2, s2, f)
      BY <1>1, <1>5, <3>3, <3>4 DEF DataGo, Gains
    <3>6. Set(c, k2)
      BY <1>3, <1>7, <2>2, <3>2
    <3> QED  BY <1>1, <1>3, <1>7, <3>5, <3>6, DataKeeps DEF Writes
  <2>3. CASE ~end
    <3>1. PICK s2 : s2 = [k.s[i] EXCEPT !.bw = "read"]
      OBVIOUS
    <3>2. PICK k2 : k2 = [p EXCEPT !.s[i].bw = "read"]
      OBVIOUS
    <3>3. DOMAIN s2 = StreamFields /\ s2.r = k.s[i].r /\ s2.bw = "read" /\ Answers(s2) = Answers(k.s[i])
      BY <1>4, <3>1 DEF Shaped, ConnShape, StreamFields, Answers
    <3>4. /\ DOMAIN k2 = ConnFields /\ k2.s = [k.s EXCEPT ![i] = s2] /\ k2.at = k.at /\ k2.next = k.next
          /\ k2.open = k.open /\ k2.held = k.held /\ k2.rd = k.rd /\ k2.on = k.on /\ k2.val = k.val
          /\ k2.out = Append(k.out, f)
      BY <2>1, <3>1, <3>2 DEF ConnFields
    <3>5. DataGo(c, i, k2, s2, f)
      BY <1>1, <1>5, <2>3, <3>3, <3>4 DEF DataGo, Gains
    <3>6. Set(c, k2)
      BY <1>3, <1>7, <2>3, <3>2
    <3> QED  BY <1>1, <1>3, <1>7, <3>5, <3>6, DataKeeps DEF Writes
  <2> QED  BY <2>2, <2>3
<1> QED  BY <1>6, <1>7

\* awaitOpenSlotForRequest, from a record that differs from the connection's in its count of waiters at most.
LEMMA SlotKeeps ==
  ASSUME IInv, NEW r \in Reqs, rt[r].at \in {"trip", "slot"}, NEW k, Like(cc[rt[r].c], k), k.s = cc[rt[r].c].s,
         k.out = cc[rt[r].c].out, k.rd = cc[rt[r].c].rd, k.on = cc[rt[r].c].on, k.val = cc[rt[r].c].val,
         Free(rt[r].c), k.next \in StreamIds, AwaitOpenSlot(r, rt[r].c, k), UNCHANGED <<cas, pool, body, net>>
  PROVE  IInv'
<1> DEFINE d == [k EXCEPT !.pending = @ + 1, !.asleep = @ \cup {r}]
           t == [rt EXCEPT ![r].at = "headers", ![r].id = k.next, ![r].written = FALSE]
<1>1. \/ Set(rt[r].c, k) /\ Fails(r, "decide", "unusable")
      \/ Set(rt[r].c, NewStreamFor(k, r)) /\ rt' = t
      \/ Set(rt[r].c, d) /\ Step(r, "slot")
  BY DEF AwaitOpenSlot
<1>2. CASE Set(rt[r].c, NewStreamFor(k, r)) /\ rt' = t
  BY <1>2, NewStreamKeeps
<1>3. CASE (Set(rt[r].c, k) /\ Fails(r, "decide", "unusable")) \/ (Set(rt[r].c, d) /\ Step(r, "slot"))
  <2>1. Calm
    BY <1>3, NoSlotCalm
  <2> QED  BY <2>1, CalmKeeps
<1> QED  BY <1>1, <1>2, <1>3

LEMMA OpenSlotKeeps == ASSUME IInv, NEW r \in Reqs, OpenSlot(r)  PROVE IInv'
BY TripAt, SlotKeeps DEF OpenSlot, OnConn

LEMMA SlotWakesKeeps == ASSUME IInv, NEW r \in Reqs, SlotWakes(r)  PROVE IInv'
<1>1. PICK k : k = [cc[rt[r].c] EXCEPT !.pending = @ - 1]
  OBVIOUS
<1>2. /\ rt[r].at \in {"slot", "slotcancelled"} /\ Free(rt[r].c) /\ k.next \in StreamIds
      /\ IF rt[r].at = "slotcancelled" THEN Set(rt[r].c, k) /\ Fails(r, "done", "cancelled")
         ELSE AwaitOpenSlot(r, rt[r].c, k)
      /\ UNCHANGED <<cas, pool, body, net>>
  BY <1>1 DEF SlotWakes
<1>3. rt[r].c \in Conns /\ Shaped(cc[rt[r].c]) /\ rt[r].id = 0
  BY <1>2, TripAt DEF OnConn
<1>4. DOMAIN k = ConnFields /\ k.s = cc[rt[r].c].s /\ k.at = cc[rt[r].c].at /\ k.next = cc[rt[r].c].next
      /\ k.held = cc[rt[r].c].held /\ k.open = cc[rt[r].c].open /\ k.out = cc[rt[r].c].out
      /\ k.rd = cc[rt[r].c].rd /\ k.on = cc[rt[r].c].on /\ k.val = cc[rt[r].c].val
  BY <1>1, <1>3 DEF Shaped, ConnShape, ConnFields
<1>5. Like(cc[rt[r].c], k)
  BY <1>3, <1>4, LikeSame
<1>6. CASE rt[r].at = "slotcancelled"
  BY <1>2, <1>6, <1>3, <1>5, SetLike, MoveTame, StillTame, CalmKeeps DEF OnConn, OnStream, Calm
<1>7. CASE rt[r].at = "slot"
  BY <1>2, <1>7, <1>4, <1>5, SlotKeeps
<1> QED  BY <1>2, <1>6, <1>7

-----------------------------------------------------------------------------
(* The server's own steps.                                                 *)

\* What has been spared stays spared, and a later GOAWAY names an earlier stream.
Later(n, m) ==
  /\ \A i : Spared(n, i) => Spared(m, i)
  /\ n.last # -1 => n.last \in Int /\ m.last \in Int /\ m.last # -1 /\ m.last <= n.last

LEMMA LaterTruth ==
  ASSUME NEW n, NEW m, Later(n, m)
  PROVE  /\ \A i, v : True(n, i, v) => True(m, i, v)
         /\ \A f : FrameTrue(n, f) => FrameTrue(m, f)
         /\ \A k : ReaderTrue(k, n) => ReaderTrue(k, m)
BY DEF Later, True, FrameTrue, ReaderTrue

ServerGo(c, k2, m) ==
  /\ DOMAIN k2 = ConnFields /\ k2.s = cc[c].s
  /\ k2.at = cc[c].at /\ k2.next = cc[c].next /\ k2.open = cc[c].open /\ k2.held = cc[c].held
  /\ k2.rd = cc[c].rd /\ k2.on = cc[c].on /\ k2.val = cc[c].val
  /\ DOMAIN m = ServerFields /\ ServerInv(m) /\ Later(net[c], m) /\ OutInv(k2, m)
  /\ WireOpened(k2, m) = WireOpened(cc[c], net[c]) /\ WireEnded(k2, m) \subseteq WireEnded(cc[c], net[c])

LEMMA ServerGoes ==
  ASSUME IInv, NEW c \in Conns, NEW k2, NEW m, Moves(c, k2, m), ServerGo(c, k2, m), UNCHANGED <<cas, pool, rt, body>>
  PROVE  IInv'
<1>1. ConnGood(cc[c], net[c]) /\ Shaped(cc[c])
  BY ConnIsGood
<1>2. ConnShape(k2) /\ DOMAIN m = ServerFields
  BY <1>1 DEF Shaped, ConnShape, ServerGo
<1>3. /\ k2.s = cc[c].s /\ k2.at = cc[c].at /\ k2.next = cc[c].next /\ k2.open = cc[c].open /\ k2.held = cc[c].held
      /\ Later(net[c], m) /\ WireOpened(k2, m) = WireOpened(cc[c], net[c])
      /\ WireEnded(k2, m) \subseteq WireEnded(cc[c], net[c])
  BY DEF ServerGo
<1>4. ConnGood(k2, m)
  BY <1>1, <1>3, LaterTruth DEF AnswersInv, ConnGood, ReaderTrue, ServerGo
<1>5. /\ \A d \in Conns : ConnShape(cc'[d]) /\ DOMAIN net'[d] = ServerFields /\ ConnInv(d)'
      /\ \A d \in Conns : (cc[d].at = "up" => cc'[d].at = "up") /\ (cc[d].at # "none" => cc'[d].at # "none")
  BY <1>2, <1>3, <1>4, MovesKeep
<1>6. ASSUME NEW q \in Reqs  PROVE TripInv(q)'
  <2>1. TripGood(q, rt[q])
    BY DEF IInv, TripInv
  <2>2. rt[q].at \in OnStream /\ rt[q].c = c => rt[q].id < k2.next /\ k2.s[rt[q].id].r = cc[c].s[rt[q].id].r
    BY <2>1, <1>3 DEF TripGood
  <2>3. rt[q].at = "headers" /\ rt[q].c = c =>
          /\ k2.held /\ k2.next = cc[c].next /\ rt[q].id \notin WireOpened(k2, m)
          /\ k2.s[rt[q].id].bw = cc[c].s[rt[q].id].bw
    BY <2>1, <1>3 DEF TripGood
  <2>4. rt'[q] = rt[q] /\ cas' = cas /\ \A j : Spared(net[c], j) => Spared(m, j)
    BY <1>3 DEF Later
  <2>5. \A j \in StreamIds : j < k2.next /\ k2.s[j].r = q => j < cc[c].next /\ cc[c].s[j].r = q
    BY <1>3
  <2> QED  BY <1>3, <2>2, <2>3, <2>4, <2>5, OthersTrip
<1>7. PoolInv' /\ DOMAIN pool' = {"conns", "keys", "dialing"}
  BY <1>5, PoolStill
<1>8. \A d \in Conns : WriterInv(d)'
  BY <1>3, WritersElsewhere DEF Moves, IInv, WriterInv
<1>9. DOMAIN rt' = Reqs /\ \A q \in Reqs : DOMAIN rt'[q] = TripFields
  BY DEF IInv, Shape, TripFields
<1>10. Shape'
  BY <1>5, <1>7, <1>9, ShapeOf DEF Moves
<1> QED  BY <1>5, <1>6, <1>7, <1>8, <1>10 DEF IInv

\* The frame f that the server takes.
ServerTakes(n, m, f) ==
  /\ DOMAIN m = ServerFields /\ m.last = n.last
  /\ m.seen = n.seen \cup (IF f.t = "HEADERS" THEN {f.id} ELSE {})
  /\ m.ended \subseteq n.ended \cup (IF f.end THEN {f.id} ELSE {})
  /\ \/ m.took = n.took /\ m.top = n.top /\ m.down = n.down
     \/ /\ f.t = "HEADERS" /\ m.took = n.took /\ m.top = n.top
        /\ m.down = Append(n.down, F("RST", f.id, 0, FALSE, "refused"))
     \/ /\ f.t = "HEADERS" /\ m.took = n.took \cup {f.id} /\ m.top = f.id /\ m.down = n.down
        /\ ~(n.last # -1 /\ f.id > n.last)

LEMMA ServerTakesLater ==
  ASSUME NEW n, NEW m, NEW f, ServerInv(n), ServerTakes(n, m, f),
         f.t = "HEADERS" => f.id \in StreamIds /\ \A i \in n.seen : i < f.id
  PROVE  ServerInv(m) /\ Later(n, m)
<1>1. \A i \in StreamIds : i \in Nat
  BY HTTP2ClientAssumption DEF HTTP2ClientAssumption
<1>2. f.t = "HEADERS" => f.id \notin n.seen /\ f.id \notin n.took
  BY <1>1 DEF ServerInv
<1>3. m.last = n.last /\ n.last \in Int
  BY DEF ServerTakes, ServerInv
<1>4. ASSUME NEW i, Spared(n, i)  PROVE Spared(m, i)
  BY <1>2, <1>4 DEF Spared, ServerTakes
<1>5. \A p \in Int : p <= p
  OBVIOUS
<1>6. Later(n, m)
  BY <1>3, <1>4, <1>5 DEF Later
<1>7. m.seen \subseteq StreamIds /\ m.took \subseteq m.seen
  BY DEF ServerTakes, ServerInv
<1>8. m.top \in Nat
  BY <1>1 DEF ServerTakes, ServerInv
<1>9. \A i \in m.took : i <= m.top /\ (m.last # -1 => i <= m.last)
  <2>1. CASE m.took = n.took /\ m.top = n.top
    BY <1>3, <2>1 DEF ServerInv
  <2>2. CASE f.t = "HEADERS" /\ m.took = n.took \cup {f.id} /\ m.top = f.id /\ ~(n.last # -1 /\ f.id > n.last)
    BY <1>1, <2>2, <1>3 DEF ServerInv
  <2> QED  BY <2>1, <2>2 DEF ServerTakes
<1>10. IsSequence(m.down) /\ \A g \in Elems(m.down) : FrameTrue(m, g)
  <2>1. IsSequence(n.down) /\ \A g \in Elems(n.down) : FrameTrue(m, g)
    BY <1>6, LaterTruth DEF ServerInv
  <2>2. CASE f.t = "HEADERS" /\ m.took = n.took /\ m.down = Append(n.down, F("RST", f.id, 0, FALSE, "refused"))
    BY <1>2, <2>2, <2>1, Appended DEF Spared, ServerTakes, F, FrameTrue, True
  <2>3. CASE m.down = n.down
    BY <2>1, <2>3
  <2> QED  BY <2>2, <2>3 DEF ServerTakes
<1> QED  BY <1>3, <1>6, <1>7, <1>8, <1>9, <1>10 DEF ServerInv

\* One frame less for the server to read.
LEMMA ServerReadsOne ==
  ASSUME IInv, NEW c \in Conns, ServerReads(c)
  PROVE  \E m : net' = [net EXCEPT ![c] = m] /\ ServerTakes(net[c], m, Head(cc[c].out))
<1> DEFINE f == Head(cc[c].out)
           i == f.id
           n == [net[c] EXCEPT !.seen = IF f.t = "HEADERS" THEN @ \cup {i} ELSE @]
           ended == IF f.end THEN [n EXCEPT !.ended = @ \cup {i}] ELSE n
           refused == Cardinality(n.open) >= cas.max
           accepted == [ended EXCEPT !.open = @ \cup {i}, !.top = i, !.took = @ \cup {i}]
           told == F("RST", i, 0, FALSE, "refused")
<1>1. \/ /\ f.t = "HEADERS"
         /\ IF n.last # -1 /\ i > n.last THEN net' = [net EXCEPT ![c] = ended]
            ELSE \/ net' = [net EXCEPT ![c] = accepted]
                 \/ Tells(c, ended, told)
      \/ f.t = "DATA" /\ net' = [net EXCEPT ![c] = [ended EXCEPT !.got[i] = @ + f.n, !.open = Left(ended, i)]]
      \/ f.t = "RST" /\ net' = [net EXCEPT ![c] = [n EXCEPT !.open = @ \ {i}]]
      \/ f.t = "WINDOW" /\ net' = [net EXCEPT ![c] = IF i = 0 THEN [n EXCEPT !.rconn = @ + f.n] ELSE [n EXCEPT !.rwin[i] = @ + f.n]]
      \/ f.t \notin {"HEADERS", "DATA", "RST", "WINDOW"} /\ net' = [net EXCEPT ![c] = n]
  BY DEF ServerReads
<1>2. DOMAIN net[c] = ServerFields
  BY DEF IInv, Shape
<1>3. /\ DOMAIN n = ServerFields /\ n.last = net[c].last /\ n.top = net[c].top /\ n.took = net[c].took
      /\ n.ended = net[c].ended /\ n.down = net[c].down
      /\ n.seen = net[c].seen \cup (IF f.t = "HEADERS" THEN {i} ELSE {})
  BY <1>2 DEF ServerFields
<1> HIDE DEF n
<1>4. /\ DOMAIN ended = ServerFields /\ ended.last = net[c].last /\ ended.top = net[c].top /\ ended.took = net[c].took
      /\ ended.ended \subseteq net[c].ended \cup (IF f.end THEN {i} ELSE {}) /\ ended.down = net[c].down
      /\ ended.seen = n.seen
  <2>1. CASE f.end
    <3>1. ended = [n EXCEPT !.ended = n.ended \cup {i}]
      BY <2>1
    <3> HIDE DEF ended
    <3> QED  BY <1>3, <2>1, <3>1 DEF ServerFields
  <2>2. CASE ~f.end
    BY <1>3, <2>2
  <2> QED  BY <2>1, <2>2
<1> HIDE DEF ended, f
<1>5. CASE f.t = "HEADERS"
  <2>1. CASE net' = [net EXCEPT ![c] = ended]
    BY <1>3, <1>4, <2>1 DEF ServerTakes, f
  <2>2. CASE ~(n.last # -1 /\ i > n.last) /\ net' = [net EXCEPT ![c] = accepted]
    <3>1. /\ DOMAIN accepted = ServerFields /\ accepted.last = ended.last /\ accepted.top = i
          /\ accepted.took = ended.took \cup {i} /\ accepted.ended = ended.ended /\ accepted.down = ended.down
          /\ accepted.seen = ended.seen
      BY <1>4 DEF ServerFields
    <3> HIDE DEF accepted
    <3>2. ServerTakes(net[c], accepted, f)
      BY <1>3, <1>4, <1>5, <2>2, <3>1 DEF ServerTakes
    <3> QED  BY <2>2, <3>2 DEF f
  <2>3. CASE Tells(c, ended, told)
    <3>1. PICK m : m = [ended EXCEPT !.down = Append(ended.down, told)]
      OBVIOUS
    <3>2. net' = [net EXCEPT ![c] = m]
      BY <2>3, <3>1 DEF Tells
    <3>3. /\ DOMAIN m = ServerFields /\ m.last = ended.last /\ m.top = ended.top /\ m.took = ended.took
          /\ m.ended = ended.ended /\ m.down = Append(ended.down, told) /\ m.seen = ended.seen
      BY <1>4, <3>1 DEF ServerFields
    <3>4. ServerTakes(net[c], m, f)
      BY <1>3, <1>4, <1>5, <3>3 DEF ServerTakes
    <3> QED  BY <3>2, <3>4 DEF f
  <2> QED  BY <1>1, <1>5, <2>1, <2>2, <2>3
<1>6. CASE f.t # "HEADERS"
  <2>1. ASSUME NEW m, net' = [net EXCEPT ![c] = m], DOMAIN m = ServerFields, m.last = net[c].last, m.top = net[c].top,
               m.took = net[c].took, m.down = net[c].down, m.seen = n.seen,
               m.ended \in {ended.ended, n.ended}
        PROVE  \E x : net' = [net EXCEPT ![c] = x] /\ ServerTakes(net[c], x, f)
    BY <1>3, <1>4, <1>6, <2>1 DEF ServerTakes
  <2>2. CASE f.t = "DATA"
    BY <1>4, <1>1, <2>2, <2>1 DEF ServerFields, f
  <2>3. CASE f.t = "RST"
    BY <1>3, <1>1, <2>3, <2>1 DEF ServerFields, f
  <2>4. CASE f.t = "WINDOW"
    BY <1>3, <1>1, <2>4, <2>1 DEF ServerFields, f
  <2>5. CASE f.t \notin {"HEADERS", "DATA", "RST", "WINDOW"}
    BY <1>1, <1>3, <2>1, <2>5 DEF f
  <2> QED  BY <1>6, <2>2, <2>3, <2>4, <2>5
<1> QED  BY <1>5, <1>6

LEMMA ServerReadsKeeps == ASSUME IInv, NEW c \in Conns, ServerReads(c)  PROVE IInv'
<1>1. PICK m : net' = [net EXCEPT ![c] = m] /\ ServerTakes(net[c], m, Head(cc[c].out))
  BY ServerReadsOne
<1>2. PICK k2 : k2 = [cc[c] EXCEPT !.out = Tail(@)]
  OBVIOUS
<1>3. cc[c].out # <<>> /\ Set(c, k2) /\ UNCHANGED <<cas, pool, rt, body>>
  BY <1>2 DEF ServerReads
<1>4. ConnGood(cc[c], net[c]) /\ Shaped(cc[c])
  BY ConnIsGood
<1>5. /\ DOMAIN k2 = ConnFields /\ k2.s = cc[c].s
      /\ k2.at = cc[c].at /\ k2.next = cc[c].next /\ k2.open = cc[c].open /\ k2.held = cc[c].held
      /\ k2.rd = cc[c].rd /\ k2.on = cc[c].on /\ k2.val = cc[c].val /\ k2.out = Tail(cc[c].out)
  BY <1>2, <1>4 DEF Shaped, ConnShape, ConnFields
<1>6. /\ OutInv(k2, m)
      /\ WireOpened(k2, m) = WireOpened(cc[c], net[c]) /\ WireEnded(k2, m) \subseteq WireEnded(cc[c], net[c])
      /\ Head(cc[c].out).t = "HEADERS" => /\ Head(cc[c].out).id \in StreamIds
                                         /\ \A i \in net[c].seen : i < Head(cc[c].out).id
  <2>1. OutInv(cc[c], net[c])
    BY <1>4 DEF ConnGood
  <2>2. /\ m.seen = net[c].seen \cup (IF Head(cc[c].out).t = "HEADERS" THEN {Head(cc[c].out).id} ELSE {})
        /\ m.ended \subseteq net[c].ended \cup (IF Head(cc[c].out).end THEN {Head(cc[c].out).id} ELSE {})
    BY <1>1 DEF ServerTakes
  <2>3. k2.out = Tail(cc[c].out)
    BY <1>5
  <2> QED  BY <1>3, <2>1, <2>2, <2>3, ReadInOrder
<1>7. ServerInv(m) /\ Later(net[c], m)
  BY <1>1, <1>4, <1>6, ServerTakesLater DEF ConnGood
<1>8. DOMAIN m = ServerFields
  BY <1>1 DEF ServerTakes
<1>9. Moves(c, k2, m)
  BY <1>1, <1>3 DEF Moves, Set, IInv, Shape
<1>10. ServerGo(c, k2, m)
  BY <1>5, <1>6, <1>7, <1>8 DEF ServerGo
<1> QED  BY <1>3, <1>9, <1>10, ServerGoes

\* There is a last stream.
LEMMA LastStream == Max(StreamIds) \in StreamIds /\ \A i \in StreamIds : i <= Max(StreamIds)
BY HTTP2ClientAssumption DEF HTTP2ClientAssumption, Max

LEMMA ServerGoesAwayKeeps == ASSUME IInv, NEW c \in Conns, ServerGoesAway(c)  PROVE IInv'
<1>1. PICK last \in {net[c].top, Max(StreamIds)} :
        /\ net[c].last = -1 \/ last < net[c].last
        /\ Tells(c, [net[c] EXCEPT !.last = last], F("GOAWAY", 0, last, FALSE, ""))
  BY DEF ServerGoesAway
<1>2. UNCHANGED <<cas, pool, rt, body, cc>>
  BY DEF ServerGoesAway, ServerOnly
<1>3. PICK n : n = net[c]
  OBVIOUS
<1>4. PICK f : f = F("GOAWAY", 0, last, FALSE, "")
  OBVIOUS
<1>5. PICK m : m = [n EXCEPT !.last = last, !.down = Append(n.down, f)]
  OBVIOUS
<1>6. DOMAIN n = ServerFields /\ ConnGood(cc[c], n) /\ Shaped(cc[c])
  BY <1>3, ConnIsGood
<1>7. net' = [net EXCEPT ![c] = m]
  BY <1>5, <1>6, <1>1, <1>3, <1>4 DEF ServerFields, Tells
<1>8. /\ DOMAIN m = ServerFields /\ m.last = last /\ m.down = Append(n.down, f)
      /\ m.seen = n.seen /\ m.took = n.took /\ m.top = n.top /\ m.ended = n.ended
  BY <1>5, <1>6 DEF ServerFields
<1>9. ServerInv(n) /\ OutInv(cc[c], n)
  BY <1>6 DEF ConnGood
<1>10. \A i \in StreamIds : i \in Nat
  BY HTTP2ClientAssumption DEF HTTP2ClientAssumption
<1>11. last \in Nat /\ n.last \in Int /\ (n.last = -1 \/ last < n.last)
  BY <1>1, <1>3, <1>9, <1>10, LastStream DEF ServerInv
<1>12. \A i \in n.took : i <= last
  BY <1>9, LastStream, <1>1, <1>3 DEF ServerInv
<1>13. Later(n, m)
  BY <1>8, <1>10, <1>11 DEF Spared, Later
<1>14. ServerInv(m)
  <2>1. FrameTrue(m, f)
    <3>1. f.t = "GOAWAY" /\ f.n = last
      BY <1>4 DEF F
    <3>2. last # -1 /\ last \in Int /\ last >= last
      BY <1>11
    <3> QED  BY <1>8, <3>1, <3>2 DEF FrameTrue
  <2>2. IsSequence(m.down) /\ Elems(m.down) = Elems(n.down) \cup {f}
    BY <1>8, <1>9, Appended DEF ServerInv
  <2>3. \A g \in Elems(n.down) : FrameTrue(m, g)
    BY <1>9, <1>13, LaterTruth DEF ServerInv
  <2>4. \A i \in m.took : i <= m.top /\ (m.last # -1 => i <= m.last)
    BY <1>8, <1>9, <1>12 DEF ServerInv
  <2> QED  BY <1>8, <1>9, <1>11, <2>1, <2>2, <2>3, <2>4 DEF ServerInv
<1>15. OutInv(cc[c], m) /\ WireOpened(cc[c], m) = WireOpened(cc[c], n) /\ WireEnded(cc[c], m) = WireEnded(cc[c], n)
  BY <1>8, <1>9 DEF OutInv, WireOpened, WireEnded
<1>16. Moves(c, cc[c], m)
  BY <1>2, <1>7 DEF Moves, IInv, Shape
<1>17. ServerGo(c, cc[c], m)
  BY <1>3, <1>6, <1>8, <1>13, <1>14, <1>15 DEF ServerGo, Shaped, ConnShape
<1> QED  BY <1>2, <1>16, <1>17, ServerGoes

-----------------------------------------------------------------------------
(* The invariant is inductive.                                             *)

LEMMA InitIInv == Init => IInv
<1> SUFFICES ASSUME Init  PROVE IInv
  OBVIOUS
<1> DEFINE k == NewConn
           n == NewServer
           t == NewTrip
<1>1. /\ cc = [c \in Conns |-> k] /\ net = [c \in Conns |-> n] /\ rt = [r \in Reqs |-> t]
      /\ pool = [conns |-> <<>>, keys |-> {}, dialing |-> 0]
  BY DEF Init
<1>2. /\ DOMAIN k = ConnFields /\ k.at = "none" /\ k.next = 1 /\ k.s = [i \in StreamIds |-> NoStream]
      /\ k.out = <<>> /\ k.rd = "off"
  BY DEF NewConn, ConnFields
<1>3. /\ DOMAIN n = ServerFields /\ n.down = <<>> /\ n.last = -1 /\ n.top = 0 /\ n.ended = {} /\ n.seen = {} /\ n.took = {}
  BY DEF NewServer, ServerFields
<1>4. DOMAIN t = TripFields /\ t.at = "start" /\ t.id = 0
  BY DEF NewTrip, TripFields
<1> HIDE DEF k, n, t
<1>5. ConnShape(k) /\ \A i \in StreamIds : k.s[i] = NoStream
  BY <1>2, NoStreamShape DEF ConnShape
<1>6. IsSequence(<<>>) /\ Elems(<<>>) = {} /\ DOMAIN <<>> = {}
  BY ShortSequences
<1>7. WireOpened(k, n) = {} /\ WireEnded(k, n) = {}
  BY <1>2, <1>3, <1>6 DEF WireOpened, WireEnded
<1>8. \A i \in StreamIds : ~(i < 1)
  BY HTTP2ClientAssumption DEF HTTP2ClientAssumption
<1>9. ConnGood(k, n)
  <2>1. OutInv(k, n)
    BY <1>2, <1>6, <1>7 DEF OutInv
  <2>2. ServerInv(n)
    BY <1>3, <1>6 DEF ServerInv
  <2>3. AnswersInv(k, n)
    <3>1. \A i : True(n, i, "")
      BY DEF True
    <3> QED  BY <1>5, <3>1, NoStreamShape DEF AnswersInv
  <2>4. ReaderTrue(k, n)
    BY <1>2 DEF ReaderTrue
  <2> QED  BY <1>2, <1>7, <2>1, <2>2, <2>3, <2>4 DEF ConnGood
<1>10. \A c \in Conns : ConnInv(c)
  BY <1>1, <1>9 DEF ConnInv, ConnGood
<1>11. \A r \in Reqs : TripInv(r)
  BY <1>1, <1>2, <1>4, <1>8 DEF TripInv, TripGood, OnConn, OnStream
<1>12. \A c \in Conns : WriterInv(c)
  BY <1>1, <1>5, NoStreamShape DEF WriterInv, Writes
<1>13. PoolInv
  BY <1>1, <1>6 DEF PoolInv
<1>14. Shape
  BY <1>1, <1>3, <1>4, <1>5 DEF Shape, TripFields
<1> QED  BY <1>10, <1>11, <1>12, <1>13, <1>14 DEF IInv

LEMMA TrippingKeeps == ASSUME IInv, NEW r \in Reqs, Tripping(r)  PROVE IInv'
<1>1. CASE GetClientConn(r)
  BY <1>1, GetClientConnKeeps
<1>2. CASE OpenSlot(r)
  BY <1>2, OpenSlotKeeps
<1>3. CASE SlotWakes(r)
  BY <1>3, SlotWakesKeeps
<1>4. CASE WriteHeaders(r)
  BY <1>4, WriteHeadersKeeps
<1>5. CASE \/ StopIdleTimer(r) \/ SelectResponse(r) \/ SelectPeerReset(r) \/ SelectBodyWritten(r)
           \/ ForgetStream(r) \/ Decide(r) \/ BreakResponse(r)
  <2>1. Calm
    BY <1>5, StopIdleTimerCalm, SelectResponseCalm, SelectPeerResetCalm, SelectBodyWrittenCalm, ForgetStreamCalm,
       DecideCalm, BreakResponseCalm
  <2> QED  BY <2>1, CalmKeeps
<1> QED  BY <1>1, <1>2, <1>3, <1>4, <1>5 DEF Tripping

LEMMA WriterStepsCalm == ASSUME IInv, NEW c \in Conns, NEW i \in StreamIds, WriterSteps(c, i)  PROVE Calm
BY StartWriteCalm, ReadBodyCalm, CloseBodyCalm DEF WriterSteps

LEMMA WritingKeeps == ASSUME IInv, NEW c \in Conns, NEW i \in StreamIds, Writing(c, i)  PROVE IInv'
<1>1. CASE WriteData(c, i)
  BY <1>1, WriteDataKeeps
<1>2. CASE WriterSteps(c, i) \/ AwaitFlowControl(c, i)
  <2>1. Calm
    BY <1>2, WriterStepsCalm, AwaitFlowControlCalm
  <2> QED  BY <2>1, CalmKeeps
<1> QED  BY <1>1, <1>2 DEF Writing

LEMMA ReadingCalm == ASSUME IInv, NEW c \in Conns, Reading(c)  PROVE Calm
BY ProcessHeadersCalm, SendResponseCalm, ProcessDataCalm, ProcessResetCalm, TellResetCalm, ProcessGoAwayCalm,
   SetGoAwayCalm, ProcessSettingsCalm, ProcessWindowUpdateCalm, ProcessStreamErrorCalm, ReaderEndsCalm, CleanupCalm,
   ClosedCalm DEF Reading

LEMMA HiddenKeeps == ASSUME IInv, Hidden  PROVE IInv'
<1>1. CASE \E r \in Reqs : DialDone(r) \/ StopIdleTimer(r)
  <2>1. Calm
    BY <1>1, DialDoneCalm, StopIdleTimerCalm
  <2> QED  BY <2>1, CalmKeeps
<1>2. CASE \E c \in Conns : ServerReads(c)
  BY <1>2, ServerReadsKeeps
<1>3. CASE \E c \in Conns : Dial(c) \/ \E i \in StreamIds : WriterSteps(c, i)
  <2>1. Calm
    BY <1>3, DialCalm, WriterStepsCalm
  <2> QED  BY <2>1, CalmKeeps
<1> QED  BY <1>1, <1>2, <1>3 DEF Hidden

LEMMA OwnKeeps == ASSUME IInv, Own  PROVE IInv'
<1>1. CASE Hidden
  BY <1>1, HiddenKeeps
<1>2. CASE \E r \in Reqs : Tripping(r)
  BY <1>2, TrippingKeeps
<1>3. CASE \E c \in Conns : \E i \in StreamIds : Writing(c, i)
  BY <1>3, WritingKeeps
<1>4. CASE \E c \in Conns : \/ Dial(c) \/ AddConn(c) \/ Reading(c) \/ ShutdownWaits(c)
                            \/ \E i \in StreamIds : Watch(c, i)
  <2>1. Calm
    BY <1>4, DialCalm, AddConnCalm, ReadingCalm, ShutdownWaitsCalm, WatchCalm
  <2> QED  BY <2>1, CalmKeeps
<1> QED  BY <1>1, <1>2, <1>3, <1>4 DEF Own

LEMMA OthersKeep == ASSUME IInv, Others  PROVE IInv'
<1>1. CASE \E r \in Reqs : \/ SlotCancel(r) \/ BackoffCancel(r) \/ SelectCancel(r) \/ SelectTimeout(r)
                           \/ ReadResponse(r) \/ CloseResponse(r)
  <2>1. Calm
    BY <1>1, SlotCancelCalm, BackoffCancelCalm, SelectCancelCalm, SelectTimeoutCalm, ReadResponseCalm, CloseResponseCalm
  <2> QED  BY <2>1, CalmKeeps
<1>2. CASE \E c \in Conns : ServerReads(c) \/ ServerGoesAway(c)
  BY <1>2, ServerReadsKeeps, ServerGoesAwayKeeps
<1>3. CASE \E c \in Conns : \/ OnIdleTimeout(c) \/ CloseIdleConnections(c) \/ SendGoAway(c) \/ Close(c)
                            \/ ServerSettings(c) \/ ServerBreaks(c)
  <2>1. Calm
    BY <1>3, OnIdleTimeoutCalm, CloseIdleConnectionsCalm, SendGoAwayCalm, CloseCalm, ServerSettingsCalm, ServerBreaksCalm
  <2> QED  BY <2>1, CalmKeeps
<1>4. CASE \E c \in Conns : \E i \in StreamIds :
             Fire(c, i) \/ WatchWakes(c, i) \/ ServerReplies(c, i) \/ ServerData(c, i) \/ ServerResets(c, i)
  <2>1. Calm
    BY <1>4, FireCalm, WatchWakesCalm, ServerRepliesCalm, ServerDataCalm, ServerResetsCalm
  <2> QED  BY <2>1, CalmKeeps
<1>5. CASE \E c \in Conns : \E i \in StreamIds \cup {0} : ServerGives(c, i)
  <2>1. Calm
    BY <1>5, ServerGivesCalm
  <2> QED  BY <2>1, CalmKeeps
<1> QED  BY <1>1, <1>2, <1>3, <1>4, <1>5 DEF Others

LEMMA NextIInv == IInv /\ [Next]_vars => IInv'
<1> SUFFICES ASSUME IInv, [Next]_vars  PROVE IInv'
  OBVIOUS
<1>1. CASE Own
  BY <1>1, OwnKeeps
<1>2. CASE Others
  BY <1>2, OthersKeep
<1>3. CASE UNCHANGED vars
  <2>1. Calm
    BY <1>3, StillTame DEF vars, Calm
  <2> QED  BY <2>1, CalmKeeps
<1> QED  BY <1>1, <1>2, <1>3 DEF Next

LEMMA AlwaysIInv == Spec => []IInv
BY InitIInv, NextIInv, PTL DEF Spec

-----------------------------------------------------------------------------
(* The theorems.                                                           *)

LEMMA TakenOnce == IInv => RetrySafe
<1> SUFFICES ASSUME IInv, NEW r \in Reqs
             PROVE  Cardinality({p \in Conns \X StreamIds : p[2] \in net[p[1]].took /\ cc[p[1]].s[p[2]].r = r}) <= 1
  BY DEF RetrySafe
<1> DEFINE S == {p \in Conns \X StreamIds : p[2] \in net[p[1]].took /\ cc[p[1]].s[p[2]].r = r}
           now == <<rt[r].c, rt[r].id>>
<1>1. ASSUME NEW p \in S  PROVE p = now
  BY DEF IInv, ConnInv, ServerInv, WireOpened, TripInv, TripGood, Spared
<1> HIDE DEF S, now
<1>2. S = {} \/ S = {now}
  BY <1>1
<1>3. Cardinality(S) \in {0, 1}
  BY <1>2, FS_EmptySet, FS_Singleton
<1>4. Cardinality(S) <= 1
  BY <1>3
<1> QED  BY <1>4 DEF S

\* A request that RoundTripOpt sends again, on this connection or on another, was processed by no
\* server before, for any number of requests, connections and streams and whatever the server
\* refuses, resets or leaves out by its GOAWAYs (shouldRetryRequest and setGoAway).
THEOREM RetriesAreSafe == Spec => []RetrySafe
BY AlwaysIInv, TakenOnce, PTL

LEMMA OutIsOrdered == IInv => WireOrder
<1> SUFFICES ASSUME IInv, NEW c \in Conns
             PROVE  LET out == cc[c].out
                        opens(b) == {out[a].id : a \in {x \in 1..(b - 1) : out[x].t = "HEADERS"}} \cup net[c].seen
                        ends(b) == {out[a].id : a \in {x \in 1..(b - 1) : out[x].end}} \cup net[c].ended
                    IN \A b \in DOMAIN out :
                         /\ out[b].t = "HEADERS" => \A i \in opens(b) : i < out[b].id
                         /\ out[b].t = "DATA" => out[b].id \in opens(b) \ ends(b)
  BY DEF WireOrder
<1> DEFINE out == cc[c].out
           opens(b) == {out[a].id : a \in {x \in 1..(b - 1) : out[x].t = "HEADERS"}} \cup net[c].seen
           ends(b) == {out[a].id : a \in {x \in 1..(b - 1) : out[x].end}} \cup net[c].ended
<1>1. OutInv(cc[c], net[c])
  BY DEF IInv, ConnInv
<1>2. ASSUME NEW b \in DOMAIN out, out[b].t = "HEADERS"  PROVE \A i \in opens(b) : i < out[b].id
  BY <1>1, <1>2 DEF OutInv
<1>3. ASSUME NEW b \in DOMAIN out, out[b].t = "DATA"  PROVE out[b].id \in opens(b) \ ends(b)
  BY <1>1, <1>3 DEF OutInv
<1> QED  BY <1>2, <1>3

\* The frames of every connection that wait for the server are in the order HTTP/2 asks for, after
\* those it has read: ascending streams, DATA after its HEADERS, nothing after END_STREAM
\* (roundTrip under cc.mu and cc.wmu, writeRequestBody under cc.wmu).
THEOREM FramesAreOrdered == Spec => []WireOrder
BY AlwaysIInv, OutIsOrdered, PTL
=============================================================================
