-------------------------- MODULE HTTP2ServerProofs --------------------------
(***************************************************************************)
(* Proofs about HTTP2Server for any streams, limits, clients and handlers. *)
(***************************************************************************)
EXTENDS HTTP2Server, SequenceTheorems, TLAPS

-----------------------------------------------------------------------------
(* The inductive invariant.                                                *)

Elems(q) == {q[k] : k \in DOMAIN q}
IsSequence(q) == q \in Seq(Elems(q))

ConnFields == {"at", "flow", "inflow", "initSend", "push", "clientMax", "nClient", "nPushed", "maxClient", "maxPush",
               "sawSettings", "unacked", "needAck", "goAway", "needGoAway", "queued", "writing", "needFlush",
               "timer", "idle", "first", "once", "down", "werr", "panicked"}
StreamFields == {"state", "resetQueued", "trailer", "wroteHeaders", "flow", "inflow", "pipe", "len", "err", "broken",
                 "decl", "bytes", "cw", "deadline"}
HandlerFields == {"at", "calls", "head", "hdrs", "trailers", "cont", "buf", "n", "werr", "sent", "done", "dirty",
                  "seq", "waits", "res", "acked", "closes", "eof"}
WrFields == {"t", "id", "n", "end", "done"}

\* The fields there are, and the types of those that are counted with.
ConnInv ==
  /\ cas \in Cases /\ DOMAIN sc = ConnFields
  /\ sc.flow \in Int /\ sc.initSend \in Int /\ sc.maxClient \in Nat /\ sc.maxPush \in Nat
  /\ DOMAIN net.data = Ids /\ \A i \in Ids : net.data[i] \in Nat
  /\ DOMAIN net = {"sends", "gone", "failed", "deaf", "conn", "win", "got", "gave", "log", "data"}

\* No stream has had this number yet.
Unused(i) == i > IF i % 2 = 1 THEN sc.maxClient ELSE sc.maxPush

\* A stream that has been closed is about to be unhooked from its handler, or has been.
Unhooking(i) == \E t \in Elems(work) : t.op = "unhook" /\ t.id = i
StreamInv ==
  /\ DOMAIN st = Ids /\ \A i \in Ids : DOMAIN st[i] = StreamFields /\ st[i].flow \in Int /\ st[i].len \in Nat
  /\ \A i \in Ids : /\ st[i].state \in {"idle", "open", "hcl", "hcr", "closed"}
                    /\ st[i].state = "closed" => st[i].cw \/ Unhooking(i) \/ Ended
                    /\ hnd[i].at # "off" => st[i].state # "idle" /\ ~Unused(i)

\* A handler waits only where it has sent a frame, and has been told of no more DATA than were written.
HandlerInv ==
  /\ DOMAIN hnd = Ids
  /\ \A i \in Ids :
       LET h == hnd[i]
       IN /\ DOMAIN h = HandlerFields /\ h.seq \in Nat /\ h.n \in Nat /\ h.buf \in Nat /\ h.acked \in Nat
          /\ h.at = "off" => ~h.waits /\ h.seq = 0
          /\ h.waits => h.at \in {"header", "data", "trailer", "push"} /\ h.seq # 0
          /\ h.acked <= net.data[i]
          /\ h.waits /\ h.at = "data" /\ h.res = "ok" => h.acked + h.n <= net.data[i]

\* The serve goroutine starts no frame while another is being written, and its loop does not run twice.
Loops(q) == {k \in DOMAIN q : q[k].op = "loop"}
AtMostOne(S) == \A x, y \in S : x = y
Messages(q) == IsSequence(q) /\ \A m \in Elems(q) : m.t \in {"settings", "shutdown", "idle", "graceful", "push"}
NoEndStream(q) == \A t \in Elems(q) : t.op # "endstream"
ServeInv ==
  /\ IsSequence(work) /\ IsSequence(want) /\ Messages(msgs) /\ IsSequence(zero)
  /\ DOMAIN sq = Ids /\ \A i \in Ids : IsSequence(sq[i])
  /\ AtMostOne(Loops(work)) /\ (Loops(work) # {} => ~sc.writing)
  /\ DOMAIN wr = {"frame", "at"} /\ wr.at \in {"none", "writing", "written", "failed"}
  /\ sc.writing <=> wr.at # "none"
  /\ wr.at = "none" => wr.frame = NoWr
  /\ sc.at = "closed" => work = <<>>
  /\ Ended => NoEndStream(work)
  /\ net.failed => net.gone

\* A write has failed: those that follow will fail.
Lost == sc.werr \/ wr.at = "failed"
LostInv == Lost => net.failed \/ sc.at = "closed"

\* The DATA of a stream that are on the wire or in the hands of the writer.
Written(i) == net.data[i] + IF wr.at = "writing" /\ wr.frame.t = "DATA" /\ wr.frame.id = i THEN wr.frame.n ELSE 0

\* The handler h waits for DATA and its frame is w.
AwaitsData(w) == /\ hnd[w.id].waits /\ hnd[w.id].at = "data" /\ hnd[w.id].seq = w.done
\* With d octets on the wire and n to come, the one that waits for w has its data.
Covers(w, d) == AwaitsData(w) => hnd[w.id].acked + hnd[w.id].n <= d
Waited(w) == w.done # 0 => w.id \in Ids /\ w.done <= hnd[w.id].seq

\* A frame on its way: what is left of it, with what was sent, is all the handler waits for.
IsWr(w) == DOMAIN w = WrFields /\ w.done \in Nat /\ (w.t = "DATA" => w.n \in Nat /\ w.id \in Ids)
Pending(w, d) ==
  /\ IsWr(w) /\ Waited(w)
  /\ w.done # 0 => /\ w.t \in {"HEADERS", "DATA", "PUSH"}
                   /\ AwaitsData(w) => w.t = "DATA"
                   /\ w.t = "DATA" /\ ~Lost => Covers(w, d + w.n)
\* The answer e to a frame.
Answer(w, e) == w.done \in Nat /\ Waited(w) /\ (w.done # 0 /\ e = 0 => Covers(w, net.data[w.id]))

\* What a panic leaves of a frame cannot be written any more: its stream has ended.
Halted == {"hcl", "closed"}
Held(w) == IsWr(w) /\ Waited(w) /\ w.done # 0 /\ w.t = "DATA"
Queued(w, i) == w.id = i /\ (Pending(w, Written(i)) \/ (Held(w) /\ Ended /\ st[i].state \in Halted))

Writes(q) == {t \in Elems(q) : t.op = "write"}
Replies(q) == {t \in Elems(q) : t.op = "reply"}
FrameInv ==
  /\ \A w \in Elems(want) : Pending(w, Written(w.id))
  /\ \A w \in Elems(zero) : Pending(w, 0) /\ w.done = 0
  /\ \A i \in Ids : \A w \in Elems(sq[i]) : Queued(w, i)
  /\ \A t \in Writes(work) : Pending(t.w, Written(t.w.id))
  /\ \A t \in Replies(work) : Answer(t.w, t.n)
  /\ wr.at = "writing" => Pending(wr.frame, net.data[wr.frame.id])
  /\ wr.at = "written" => Answer(wr.frame, 0)
  /\ wr.at = "failed" => Answer(wr.frame, 1)
  /\ \A m \in Elems(msgs) : m.t = "push" => /\ m.id \in Ids /\ m.seq \in Nat \ {0} /\ m.seq <= hnd[m.id].seq
                                            /\ hnd[m.id].waits /\ hnd[m.id].seq = m.seq => hnd[m.id].at # "data"

\* The frame s of stream i is on its way, or its answer is.
Is(w, i, s) == w.id = i /\ w.done = s
Carried(i, s) ==
  \/ \E w \in Elems(want) : Is(w, i, s)
  \/ \E m \in Elems(msgs) : m.t = "push" /\ m.id = i /\ m.seq = s
  \/ \E w \in Elems(sq[i]) : Is(w, i, s)
  \/ \E t \in Writes(work) \cup Replies(work) : Is(t.w, i, s)
  \/ Is(wr.frame, i, s)
WaitInv == \A i \in Ids :
  hnd[i].waits => hnd[i].res # "none" \/ st[i].cw \/ Ended \/ Unhooking(i) \/ Carried(i, hnd[i].seq)

IInv == ConnInv /\ StreamInv /\ HandlerInv /\ ServeInv /\ LostInv /\ FrameInv /\ WaitInv

-----------------------------------------------------------------------------
(* Sequences.                                                              *)

LEMMA SequenceOf ==
  ASSUME NEW S, NEW q \in Seq(S)
  PROVE  IsSequence(q) /\ Elems(q) \subseteq S
BY LenProperties, IsASeq DEF Elems, IsSequence

LEMMA SequenceLength ==
  ASSUME NEW q, IsSequence(q)  PROVE Len(q) \in Nat /\ DOMAIN q = 1..Len(q)
BY LenProperties DEF IsSequence

LEMMA ShortSequences ==
  /\ IsSequence(<<>>) /\ Elems(<<>>) = {} /\ Loops(<<>>) = {}
  /\ \A a : IsSequence(<<a>>) /\ Elems(<<a>>) = {a} /\ AtMostOne(Loops(<<a>>)) /\ (a.op # "loop" => Loops(<<a>>) = {})
BY DEF IsSequence, Elems, Loops, AtMostOne

LEMMA Appended ==
  ASSUME NEW q, NEW a, IsSequence(q)
  PROVE  IsSequence(Append(q, a)) /\ Elems(Append(q, a)) = Elems(q) \cup {a}
<1> DEFINE S == Elems(q) \cup {a}
           z == Append(q, a)
<1>1. q \in Seq(S)
  BY SeqMonotonic DEF IsSequence
<1>2. z \in Seq(S) /\ Len(z) = Len(q) + 1 /\ z[Len(q) + 1] = a /\ \A b \in 1..Len(q) : z[b] = q[b]
  BY <1>1, AppendProperties
<1>3. IsSequence(z) /\ Elems(z) \subseteq S
  BY <1>2, SequenceOf
<1> HIDE DEF z, S
<1>4. Len(q) \in Nat /\ DOMAIN q = 1..Len(q) /\ DOMAIN z = 1..Len(z)
  BY <1>3, SequenceLength
<1>5. S \subseteq Elems(z)
  BY <1>2, <1>4 DEF Elems, S
<1> QED  BY <1>2, <1>3, <1>5 DEF S, z

LEMMA Shorter ==
  ASSUME NEW q, IsSequence(q), q # <<>>
  PROVE  /\ IsSequence(Tail(q)) /\ Elems(q) = {Head(q)} \cup Elems(Tail(q))
         /\ AtMostOne(Loops(q)) => /\ AtMostOne(Loops(Tail(q)))
                                   /\ Head(q).op = "loop" => Loops(Tail(q)) = {}
         /\ Loops(q) = {} => Loops(Tail(q)) = {}
<1> DEFINE z == Tail(q)
<1>1. Head(q) \in Elems(q) /\ z \in Seq(Elems(q)) /\ Len(z) = Len(q) - 1
      /\ \A b \in 1..Len(z) : z[b] = q[b + 1]
  BY HeadTailProperties DEF IsSequence
<1>2. IsSequence(z) /\ Elems(z) \subseteq Elems(q)
  BY <1>1, SequenceOf
<1>3. Head(q) = q[1]
  BY HeadTailProperties DEF IsSequence
<1> HIDE DEF z
<1>4. Len(q) \in Nat /\ DOMAIN q = 1..Len(q) /\ DOMAIN z = 1..Len(z)
  BY <1>2, SequenceLength
<1>5. Len(q) # 0
  BY EmptySeq DEF IsSequence
<1>6. \A b \in DOMAIN q : b = 1 \/ (b - 1 \in DOMAIN z /\ z[b - 1] = q[b])
  BY <1>1, <1>4
<1>7. Elems(q) \subseteq {q[1]} \cup Elems(z)
  BY <1>6 DEF Elems
<1>8. \A b \in Loops(z) : b \in Int /\ b >= 1 /\ b + 1 \in Loops(q)
  BY <1>1, <1>4, <1>5 DEF Loops
<1>9. Head(q).op = "loop" => 1 \in Loops(q)
  BY <1>3, <1>4, <1>5 DEF Loops
<1>10. ASSUME AtMostOne(Loops(q))
       PROVE  AtMostOne(Loops(z)) /\ (Head(q).op = "loop" => Loops(z) = {})
  BY <1>8, <1>10, <1>9 DEF AtMostOne
<1>11. Loops(q) = {} => Loops(z) = {}
  BY <1>8
<1> QED  BY <1>1, <1>2, <1>3, <1>7, <1>10, <1>11 DEF z

LEMMA Joined ==
  ASSUME NEW p, NEW q, IsSequence(p), IsSequence(q)
  PROVE  /\ IsSequence(p \o q) /\ Elems(p \o q) = Elems(p) \cup Elems(q)
         /\ Loops(p) = {} /\ AtMostOne(Loops(q)) => AtMostOne(Loops(p \o q))
         /\ Loops(q) = {} /\ AtMostOne(Loops(p)) => AtMostOne(Loops(p \o q))
         /\ Loops(p) = {} /\ Loops(q) = {} => Loops(p \o q) = {}
<1> DEFINE S == Elems(p) \cup Elems(q)
           z == p \o q
<1>1. p \in Seq(S) /\ q \in Seq(S)
  BY SeqMonotonic DEF IsSequence
<1>2. z \in Seq(S) /\ Len(z) = Len(p) + Len(q)
      /\ \A b \in 1..Len(z) : z[b] = IF b <= Len(p) THEN p[b] ELSE q[b - Len(p)]
  BY <1>1, ConcatProperties
<1>3. IsSequence(z) /\ Elems(z) \subseteq S
  BY <1>2, SequenceOf
<1> HIDE DEF z, S
<1>4. /\ Len(p) \in Nat /\ DOMAIN p = 1..Len(p) /\ Len(q) \in Nat /\ DOMAIN q = 1..Len(q)
      /\ DOMAIN z = 1..Len(z)
  BY <1>3, SequenceLength
<1>5. \A b \in DOMAIN p : b \in DOMAIN z /\ z[b] = p[b]
  BY <1>2, <1>4
<1>6. \A b \in DOMAIN q : b + Len(p) \in DOMAIN z /\ z[b + Len(p)] = q[b]
  BY <1>2, <1>4
<1>7. S \subseteq Elems(z)
  BY <1>5, <1>6 DEF Elems, S
<1>8. \A b \in Loops(z) : b \in Int /\ (b \in Loops(p) \/ b - Len(p) \in Loops(q))
  BY <1>4, <1>2 DEF Loops
<1>9. Loops(p) = {} /\ AtMostOne(Loops(q)) => AtMostOne(Loops(z))
  BY <1>8, <1>4 DEF AtMostOne
<1>10. Loops(q) = {} /\ AtMostOne(Loops(p)) => AtMostOne(Loops(z))
  BY <1>8 DEF AtMostOne
<1>11. Loops(p) = {} /\ Loops(q) = {} => Loops(z) = {}
  BY <1>8
<1> QED  BY <1>3, <1>7, <1>9, <1>10, <1>11 DEF S, z

-----------------------------------------------------------------------------
(* The calls of the serve goroutine.                                       *)

\* A call that carries no frame a handler waits for, and a list of such calls.
Meek(t) == t.op # "reply" /\ (t.op = "write" => IsWr(t.w) /\ t.w.done = 0) /\ (t.op = "endstream" => ~Ended')
Simple(calls) == IsSequence(calls) /\ Loops(calls) = {} /\ \A t \in Elems(calls) : Meek(t)

LEMMA SimpleOne == ASSUME NEW t, t.op # "loop", Meek(t)  PROVE Simple(<<t>>)
BY ShortSequences DEF Simple

LEMMA SimpleJoined == ASSUME NEW p, NEW q, Simple(p), Simple(q)  PROVE Simple(p \o q)
BY Joined DEF Simple

LEMMA SimpleTwo == ASSUME NEW t, NEW u, Simple(<<t>>), Simple(<<u>>)  PROVE Simple(<<t, u>>)
BY DEF Elems, Simple, Loops, IsSequence

LEMMA PlainFrames ==
  /\ \A y, i, n, e : y # "DATA" => IsWr(Wr(y, i, n, e, 0)) /\ Wr(y, i, n, e, 0).done = 0
  /\ IsWr(NoWr) /\ NoWr.done = 0
BY DEF Wr, NoWr, IsWr, WrFields

LEMMA SimpleWrite == ASSUME NEW w, IsWr(w), w.done = 0  PROVE Simple(<<Write(w)>>)
BY SimpleOne DEF Write, Task, Meek

LEMMA SimpleCalls ==
  /\ Simple(<<>>) /\ Simple(<<Sched>>) /\ Simple(<<CloseAll>>) /\ Simple(<<AfterEvent>>)
  /\ \A i : /\ Simple(ResetStream(i)) /\ Simple(<<CloseStream(i)>>) /\ Simple(<<Unhook(i)>>)
            /\ Simple(<<GoAway(i)>>)
  /\ \A i, n : Simple(SendWindow(i, n))
<1>1. Simple(<<>>)
  BY ShortSequences DEF Simple
<1>2. /\ Sched.op = "sched" /\ CloseAll.op = "closeall" /\ AfterEvent.op = "after"
      /\ \A i : /\ CloseStream(i).op = "close" /\ Unhook(i).op = "unhook"
                /\ GoAway(i).op = "goaway" /\ MarkReset(i).op = "mark"
      /\ \A i, n : AddInflow(i, n).op = "inflow"
  BY DEF Sched, CloseAll, AfterEvent, CloseStream, Unhook, GoAway, MarkReset, AddInflow, Task
<1>3. \A t : t.op \in {"sched", "closeall", "after", "close", "unhook", "goaway", "mark", "inflow"} =>
        Simple(<<t>>)
  BY SimpleOne DEF Meek
<1>4. \A i, n : /\ Simple(<<Write(Wr("RST", i, 0, FALSE, 0))>>)
                /\ Simple(<<Write(Wr("WINDOW", i, n, FALSE, 0))>>)
  BY PlainFrames, SimpleWrite
<1>5. \A i : Simple(ResetStream(i))
  <2> SUFFICES ASSUME NEW i  PROVE Simple(<<Write(Wr("RST", i, 0, FALSE, 0)), MarkReset(i)>>)
    BY DEF ResetStream
  <2>1. Simple(<<MarkReset(i)>>)
    BY <1>2, <1>3
  <2>2. Simple(<<Write(Wr("RST", i, 0, FALSE, 0))>>)
    BY <1>4
  <2> QED  BY <2>1, <2>2, SimpleTwo
<1>6. \A i, n : Simple(SendWindow(i, n))
  <2> SUFFICES ASSUME NEW i, NEW n  PROVE Simple(SendWindow(i, n))
    OBVIOUS
  <2>1. Simple(<<AddInflow(i, n)>>)
    BY <1>2, <1>3
  <2>2. Simple(<<Write(Wr("WINDOW", i, n, FALSE, 0))>>)
    BY <1>4
  <2>3. Simple(<<Write(Wr("WINDOW", i, n, FALSE, 0)), AddInflow(i, n)>>)
    BY <2>1, <2>2, SimpleTwo
  <2> QED  BY <1>1, <2>3 DEF SendWindow
<1> QED  BY <1>1, <1>2, <1>3, <1>5, <1>6

LEMMA EndStreamSimple == ASSUME NEW i, ~Ended'  PROVE Simple(<<EndStream(i)>>)
<1>1. EndStream(i).op = "endstream"
  BY DEF EndStream, Task
<1> QED  BY <1>1, SimpleOne DEF Meek

LEMMA ScheduleIs ==
  ASSUME ServeInv
  PROVE  /\ IsSequence(Schedule) /\ AtMostOne(Loops(Schedule)) /\ \A t \in Elems(Schedule) : Meek(t)
         /\ Schedule = <<>> \/ (~sc.writing /\ Loops(work) = {})
BY SequenceLength, ShortSequences DEF Schedule, Meek, Loop, Task, ServeInv, AtMostOne, Loops

\* The calls still to be made, after a step that brings no answer to a handler and takes none away.
WorkCalm ==
  /\ IsSequence(work') /\ AtMostOne(Loops(work')) /\ (Loops(work') # {} => ~sc.writing)
  /\ \A t \in Elems(work') : t \in Elems(work) \/ Meek(t)
  /\ Ended' \/ \A t \in Elems(work) : t.op \in {"write", "reply", "unhook"} => t \in Elems(work')

\* What a call of serve's loop may make next.
Calls(calls) == Simple(calls) \/ calls = Schedule

LEMMA ThenCalm ==
  ASSUME ServeInv, work # <<>>, Top.op \notin {"write", "reply", "unhook"}, NEW calls, Calls(calls), Then(calls)
  PROVE  WorkCalm
<1>1. /\ IsSequence(Tail(work)) /\ Elems(work) = {Top} \cup Elems(Tail(work)) /\ AtMostOne(Loops(Tail(work)))
      /\ Loops(work) = {} => Loops(Tail(work)) = {}
  BY Shorter DEF ServeInv, Top
<1>2. /\ IsSequence(calls) /\ AtMostOne(Loops(calls)) /\ \A t \in Elems(calls) : Meek(t)
      /\ Loops(calls) = {} \/ (~sc.writing /\ Loops(work) = {})
  BY ScheduleIs, ShortSequences DEF Simple, AtMostOne, Calls
<1>3. PICK z : z = calls \o Tail(work)
  OBVIOUS
<1>4. IsSequence(z) /\ Elems(z) = Elems(calls) \cup Elems(Tail(work)) /\ AtMostOne(Loops(z))
      /\ (Loops(calls) = {} /\ Loops(Tail(work)) = {} => Loops(z) = {})
  BY <1>1, <1>2, <1>3, Joined
<1>5. work' = z
  BY <1>3 DEF Then
<1>6. Loops(z) # {} => ~sc.writing
  BY <1>1, <1>2, <1>4 DEF ServeInv
<1> QED  BY <1>1, <1>2, <1>4, <1>5, <1>6 DEF WorkCalm

LEMMA EventCalm ==
  ASSUME ServeInv, work = <<>>, NEW calls, Calls(calls), Event(calls)
  PROVE  WorkCalm
<1>1. /\ IsSequence(calls) /\ AtMostOne(Loops(calls)) /\ \A t \in Elems(calls) : Meek(t)
      /\ Loops(calls) = {} \/ ~sc.writing
  BY ScheduleIs, ShortSequences DEF Simple, AtMostOne, Calls
<1>2. IsSequence(<<AfterEvent>>) /\ Loops(<<AfterEvent>>) = {} /\ \A t \in Elems(<<AfterEvent>>) : Meek(t)
  BY SimpleCalls DEF Simple
<1>3. PICK z : z = calls \o <<AfterEvent>>
  OBVIOUS
<1>4. IsSequence(z) /\ Elems(z) = Elems(calls) \cup Elems(<<AfterEvent>>) /\ AtMostOne(Loops(z))
      /\ (Loops(calls) = {} => Loops(z) = {})
  BY <1>1, <1>2, <1>3, Joined
<1>5. work' = z /\ Elems(work) = {}
  BY <1>3, ShortSequences DEF Event
<1> QED  BY <1>1, <1>2, <1>4, <1>5 DEF WorkCalm

LEMMA ExitCalm == ASSUME Ended', work' = <<CloseAll>>  PROVE WorkCalm
BY SimpleCalls DEF WorkCalm, Simple, AtMostOne

LEMMA StaysCalm == ASSUME ServeInv, UNCHANGED work  PROVE WorkCalm
BY DEF WorkCalm, ServeInv

-----------------------------------------------------------------------------
(* Calm steps: no frame that a handler waits for moves.                    *)

NetFields == {"sends", "gone", "failed", "deaf", "conn", "win", "got", "gave", "log", "data"}

ConnCalm ==
  /\ cas' = cas /\ DOMAIN sc' = ConnFields /\ sc'.flow \in Int /\ sc'.initSend \in Int
  /\ sc'.maxClient \in Nat /\ sc'.maxClient >= sc.maxClient /\ sc'.maxPush = sc.maxPush
  /\ sc'.writing = sc.writing /\ sc'.werr = sc.werr
  /\ Ended => Ended'
  /\ sc.at = "closed" => sc'.at = "closed"
  /\ sc'.at = "closed" => work' = <<>>
  /\ Ended' => Ended \/ work' \in {<<>>, <<CloseAll>>}
NetCalm ==
  /\ DOMAIN net' = NetFields /\ net'.data = net.data
  /\ net.failed => net'.failed
  /\ net'.failed => net'.gone
QueuesCalm ==
  /\ wr' = wr
  /\ IsSequence(want') /\ \A w \in Elems(want') : w \in Elems(want) \/ (IsWr(w) /\ w.done = 0)
  /\ \A w \in Elems(want) : w.done # 0 => w \in Elems(want')
  /\ Messages(msgs') /\ \A m : m.t = "push" => (m \in Elems(msgs') <=> m \in Elems(msgs))
  /\ IsSequence(zero') /\ Elems(zero') \subseteq Elems(zero)
  /\ DOMAIN sq' = Ids
  /\ \A i \in Ids : IsSequence(sq'[i]) /\ Elems(sq'[i]) \subseteq Elems(sq[i]) /\ (sq'[i] = sq[i] \/ Ended')
IsStream(s) == DOMAIN s = StreamFields /\ s.flow \in Int /\ s.len \in Nat
               /\ s.state \in {"idle", "open", "hcl", "hcr", "closed"}
StreamsCalm ==
  /\ DOMAIN st' = Ids
  /\ \A i \in Ids :
       /\ IsStream(st'[i])
       /\ st'[i].state = "closed" => st[i].state = "closed" \/ Unhooking(i)'
       /\ st[i].state # "idle" => st'[i].state # "idle"
       /\ Ended /\ st[i].state \in Halted => st'[i].state \in Halted \/ Unused(i)
       /\ (st[i].cw => st'[i].cw) \/ (Unused(i) /\ st'[i].state # "closed")
\* A handler that no longer waits, or does so as before.
Calmer(h, g, d) ==
  /\ DOMAIN g = HandlerFields /\ g.seq = h.seq /\ g.n \in Nat /\ g.buf \in Nat /\ g.acked \in Nat /\ g.acked <= d
  /\ g.at = "off" => h.at = "off"
  /\ g.waits => h.waits /\ g.at = h.at /\ g.n = h.n /\ g.acked = h.acked /\ g.res = h.res
HandlersCalm ==
  /\ DOMAIN hnd' = Ids
  /\ \A i \in Ids : /\ Calmer(hnd[i], hnd'[i], net.data[i])
                    /\ hnd'[i].at # "off" => hnd[i].at # "off" \/ (st'[i].state # "idle" /\ ~Unused(i)')
Calm == ConnCalm /\ NetCalm /\ QueuesCalm /\ StreamsCalm /\ HandlersCalm /\ WorkCalm

LEMMA CalmConn == ASSUME IInv, Calm  PROVE ConnInv'
BY DEF IInv, ConnInv, Calm, ConnCalm, NetCalm, NetFields

LEMMA CalmUnused == ASSUME IInv, Calm, NEW i \in Ids, ~Unused(i)  PROVE ~Unused(i)'
<1>1. i \in Nat
  BY HTTP2ServerAssumption DEF Ids
<1> QED  BY <1>1 DEF IInv, ConnInv, Calm, ConnCalm, Unused

LEMMA CalmUnhooking == ASSUME IInv, Calm, NEW i \in Ids, Unhooking(i)  PROVE Unhooking(i)' \/ Ended'
BY DEF Calm, WorkCalm, Unhooking

LEMMA CalmStreams == ASSUME IInv, Calm  PROVE StreamInv'
BY CalmUnhooking, CalmUnused DEF StreamInv, IsStream, Calm, StreamsCalm, IInv, ConnCalm, HandlersCalm

LEMMA CalmHandlers == ASSUME IInv, Calm  PROVE HandlerInv'
<1> SUFFICES ASSUME NEW i \in Ids
             PROVE  LET h == hnd'[i]
                    IN /\ DOMAIN h = HandlerFields /\ h.seq \in Nat /\ h.n \in Nat /\ h.buf \in Nat /\ h.acked \in Nat
                       /\ h.at = "off" => ~h.waits /\ h.seq = 0
                       /\ h.waits => h.at \in {"header", "data", "trailer", "push"} /\ h.seq # 0
                       /\ h.acked <= net'.data[i]
                       /\ h.waits /\ h.at = "data" /\ h.res = "ok" => h.acked + h.n <= net'.data[i]
  BY DEF HandlerInv, Calm, HandlersCalm
<1> DEFINE h == hnd[i]
           g == hnd'[i]
<1>1. Calmer(h, g, net.data[i]) /\ net'.data = net.data
  BY DEF Calm, HandlersCalm, NetCalm
<1>2. /\ DOMAIN h = HandlerFields /\ h.seq \in Nat /\ h.n \in Nat /\ h.buf \in Nat /\ h.acked \in Nat
      /\ h.at = "off" => ~h.waits /\ h.seq = 0
      /\ h.waits => h.at \in {"header", "data", "trailer", "push"} /\ h.seq # 0
      /\ h.waits /\ h.at = "data" /\ h.res = "ok" => h.acked + h.n <= net.data[i]
  BY DEF IInv, HandlerInv
<1> HIDE DEF h, g
<1>3. /\ DOMAIN g = HandlerFields /\ g.seq \in Nat /\ g.n \in Nat /\ g.buf \in Nat /\ g.acked \in Nat
      /\ g.at = "off" => ~g.waits /\ g.seq = 0
      /\ g.waits => g.at \in {"header", "data", "trailer", "push"} /\ g.seq # 0
      /\ g.acked <= net'.data[i]
      /\ g.waits /\ g.at = "data" /\ g.res = "ok" => g.acked + g.n <= net'.data[i]
  BY <1>1, <1>2 DEF Calmer
<1> QED  BY <1>3 DEF g

LEMMA CalmServe == ASSUME IInv, Calm  PROVE ServeInv' /\ LostInv'
<1>1. ASSUME Ended', NEW t \in Elems(work')  PROVE t.op # "endstream"
  <2>1. CASE Meek(t)
    BY <1>1, <2>1 DEF Meek
  <2>2. CASE Ended /\ t \in Elems(work)
    BY <2>2 DEF IInv, ServeInv, NoEndStream
  <2>3. CASE work' \in {<<>>, <<CloseAll>>}
    <3>1. t = CloseAll
      BY <1>1, <2>3, ShortSequences
    <3> QED  BY <3>1 DEF CloseAll, Task
  <2> QED  BY <1>1, <2>1, <2>2, <2>3 DEF Calm, ConnCalm, WorkCalm
<1>2. ServeInv'
  BY <1>1 DEF IInv, ServeInv, NoEndStream, Calm, ConnCalm, NetCalm, QueuesCalm, WorkCalm
<1>3. LostInv'
  BY DEF IInv, LostInv, Lost, Calm, ConnCalm, NetCalm, QueuesCalm
<1> QED  BY <1>2, <1>3

\* What a step does to the frames that stay where they are.
LEMMA CalmFrames ==
  ASSUME IInv, Calm
  PROVE  /\ \A w : /\ Pending(w, Written(w.id)) => Pending(w, Written(w.id))'
                   /\ \A i : Pending(w, Written(i)) => Pending(w, Written(i))'
                   /\ Pending(w, 0) => Pending(w, 0)'
                   /\ Pending(w, net.data[w.id]) => Pending(w, net.data[w.id])'
                   /\ \A e : Answer(w, e) => Answer(w, e)'
<1>1. net'.data = net.data /\ wr' = wr /\ sc'.werr = sc.werr
  BY DEF Calm, NetCalm, QueuesCalm, ConnCalm
<1>2. (Lost' <=> Lost) /\ \A i : Written(i)' = Written(i)
  BY <1>1 DEF Lost, Written
<1>3. \A w : Waited(w) => Waited(w)'
  BY DEF Waited, Calm, HandlersCalm, Calmer
<1>4. \A w : Waited(w) /\ w.done # 0 /\ AwaitsData(w)' =>
        AwaitsData(w) /\ hnd'[w.id].acked = hnd[w.id].acked /\ hnd'[w.id].n = hnd[w.id].n
  BY DEF Waited, AwaitsData, Calm, HandlersCalm, Calmer
<1>5. \A w, d : Waited(w) /\ w.done # 0 /\ Covers(w, d) =>
        (AwaitsData(w)' => hnd'[w.id].acked + hnd'[w.id].n <= d)
  BY <1>4 DEF Covers
<1>6. \A w, d : Pending(w, d) =>
        /\ IsWr(w) /\ Waited(w)'
        /\ w.done # 0 => /\ w.t \in {"HEADERS", "DATA", "PUSH"}
                         /\ AwaitsData(w)' => w.t = "DATA"
                         /\ w.t = "DATA" /\ ~Lost' => (AwaitsData(w)' => hnd'[w.id].acked + hnd'[w.id].n <= d + w.n)
  BY <1>2, <1>3, <1>4, <1>5 DEF Pending
<1>7. ASSUME NEW w, NEW i  PROVE Pending(w, Written(i)) => Pending(w, Written(i))'
  BY <1>2, <1>6 DEF Pending, Covers
<1>8. ASSUME NEW w  PROVE Pending(w, Written(w.id)) => Pending(w, Written(w.id))'
  BY <1>2, <1>6 DEF Pending, Covers
<1>9. ASSUME NEW w  PROVE Pending(w, 0) => Pending(w, 0)'
  BY <1>6 DEF Pending, Covers
<1>10. ASSUME NEW w  PROVE Pending(w, net.data[w.id]) => Pending(w, net.data[w.id])'
  BY <1>1, <1>6 DEF Pending, Covers
<1>11. ASSUME NEW w, NEW e  PROVE Answer(w, e) => Answer(w, e)'
  BY <1>1, <1>3, <1>5 DEF Answer, Covers
<1> QED  BY <1>7, <1>8, <1>9, <1>10, <1>11

LEMMA HeldUsed == ASSUME IInv, NEW w, Held(w)  PROVE w.id \in Ids /\ ~Unused(w.id)
BY DEF Held, Waited, IsWr, IInv, HandlerInv, StreamInv

\* What is queued for a stream stays so, if it is to be written or if its stream has ended.
LEMMA CalmQueued == ASSUME IInv, Calm, NEW i \in Ids, NEW w, Queued(w, i)  PROVE Queued(w, i)'
BY CalmFrames, HeldUsed DEF Queued, Held, Waited, Calm, HandlersCalm, Calmer, ConnCalm, StreamsCalm

LEMMA PlainPending == ASSUME NEW w, IsWr(w), w.done = 0  PROVE \A i : Pending(w, Written(i))' /\ Waited(w)'
BY DEF Pending, Waited

LEMMA CalmFrameInv == ASSUME IInv, Calm  PROVE FrameInv'
<1>0. FrameInv
  BY DEF IInv
<1>1. \A w \in Elems(want') : Pending(w, Written(w.id))'
  BY <1>0, CalmFrames, PlainPending DEF Calm, QueuesCalm, FrameInv
<1>2. \A w \in Elems(zero') : Pending(w, 0)' /\ w.done = 0
  BY <1>0, CalmFrames DEF FrameInv, Calm, QueuesCalm
<1>3. \A i \in Ids : \A w \in Elems(sq'[i]) : Queued(w, i)'
  BY <1>0, CalmQueued DEF Calm, QueuesCalm, FrameInv
<1>4. \A t \in Writes(work') : Pending(t.w, Written(t.w.id))'
  BY <1>0, CalmFrames, PlainPending DEF Writes, Calm, WorkCalm, Meek, FrameInv
<1>5. \A t \in Replies(work') : Answer(t.w, t.n)'
  BY <1>0, CalmFrames DEF Replies, Calm, WorkCalm, Meek, FrameInv
<1>6. /\ wr'.at = "writing" => Pending(wr.frame, net.data[wr.frame.id])'
      /\ wr'.at = "written" => Answer(wr.frame, 0)'
      /\ wr'.at = "failed" => Answer(wr.frame, 1)'
  BY <1>0, CalmFrames DEF Calm, QueuesCalm, FrameInv, Pending, Answer, Covers, Waited, AwaitsData
<1>7. ASSUME NEW m \in Elems(msgs'), m.t = "push"
      PROVE  /\ m.id \in Ids /\ m.seq \in Nat \ {0} /\ m.seq <= hnd'[m.id].seq
             /\ hnd'[m.id].waits /\ hnd'[m.id].seq = m.seq => hnd'[m.id].at # "data"
  BY <1>7, <1>0 DEF Calm, QueuesCalm, FrameInv, HandlersCalm, Calmer
<1> QED  BY <1>1, <1>2, <1>3, <1>4, <1>5, <1>6, <1>7 DEF FrameInv

LEMMA CalmCarried ==
  ASSUME IInv, Calm, NEW i \in Ids, NEW s \in Nat, s # 0, Carried(i, s)
  PROVE  Carried(i, s)' \/ Ended'
<1>1. ASSUME NEW w \in Elems(want), Is(w, i, s)  PROVE Carried(i, s)'
  BY <1>1 DEF Calm, QueuesCalm, Is, Carried
<1>2. ASSUME NEW m \in Elems(msgs), m.t = "push" /\ m.id = i /\ m.seq = s  PROVE Carried(i, s)'
  <2>1. m \in Elems(msgs')
    BY <1>2 DEF Calm, QueuesCalm
  <2> QED  BY <1>2, <2>1 DEF Carried
<1>3. ASSUME NEW w \in Elems(sq[i]), Is(w, i, s)  PROVE Carried(i, s)' \/ Ended'
  <2>1. sq'[i] = sq[i] \/ Ended'
    BY DEF Calm, QueuesCalm
  <2> QED  BY <1>3, <2>1 DEF Carried, Is
<1>4. ASSUME NEW t \in Writes(work) \cup Replies(work), Is(t.w, i, s)  PROVE Carried(i, s)' \/ Ended'
  BY <1>4 DEF Writes, Replies, Calm, WorkCalm, Carried, Is
<1>5. Is(wr.frame, i, s) => Carried(i, s)'
  BY DEF Calm, QueuesCalm, Carried, Is
<1> QED  BY <1>1, <1>2, <1>3, <1>4, <1>5 DEF Carried

LEMMA CalmWait == ASSUME IInv, Calm  PROVE WaitInv'
<1> SUFFICES ASSUME NEW i \in Ids, hnd'[i].waits
             PROVE  hnd'[i].res # "none" \/ st'[i].cw \/ Ended' \/ Unhooking(i)' \/ Carried(i, hnd[i].seq)'
  BY DEF Calm, HandlersCalm, Calmer, WaitInv, Carried, Is
<1>1. Calmer(hnd[i], hnd'[i], net.data[i])
  BY DEF Calm, HandlersCalm
<1>2. hnd[i].waits /\ hnd'[i].res = hnd[i].res /\ hnd[i].seq \in Nat \ {0} /\ hnd[i].at # "off"
  BY <1>1 DEF Calmer, IInv, HandlerInv
<1>3. hnd[i].res # "none" \/ st[i].cw \/ Ended \/ Unhooking(i) \/ Carried(i, hnd[i].seq)
  BY <1>2 DEF IInv, WaitInv
<1>4. st[i].cw => st'[i].cw
  BY <1>2 DEF IInv, StreamInv, Calm, StreamsCalm
<1>5. Ended => Ended'
  BY DEF Calm, ConnCalm
<1>6. PICK s \in Nat : s = hnd[i].seq /\ s # 0
  BY <1>2
<1>7. Carried(i, s) => Carried(i, s)' \/ Ended'
  BY <1>6, CalmCarried
<1>8. Carried(i, hnd[i].seq) => Carried(i, s)
  BY <1>6
<1>9. Carried(i, s)' => Carried(i, hnd[i].seq)'
  BY <1>1, <1>6 DEF Carried, Is, Calmer
<1> QED  BY <1>2, <1>3, <1>4, <1>5, <1>7, <1>8, <1>9, CalmUnhooking

LEMMA CalmKeeps == ASSUME IInv, Calm  PROVE IInv'
BY CalmConn, CalmStreams, CalmHandlers, CalmServe, CalmFrameInv, CalmWait DEF IInv

-----------------------------------------------------------------------------
(* How the parts of a calm step are found.                                 *)

LEMMA SameParts ==
  ASSUME IInv
  PROVE  /\ UNCHANGED hnd => HandlersCalm
         /\ UNCHANGED st => StreamsCalm
         /\ UNCHANGED net => NetCalm
         /\ UNCHANGED <<want, msgs, zero, sq, wr>> => QueuesCalm
         /\ UNCHANGED <<cas, sc>> /\ (sc.at = "closed" => work' = <<>>) => ConnCalm
<1>1. ASSUME UNCHANGED hnd  PROVE HandlersCalm
  BY <1>1 DEF IInv, HandlerInv, HandlersCalm, Calmer
<1>2. ASSUME UNCHANGED st  PROVE StreamsCalm
  BY <1>2 DEF IInv, StreamInv, IsStream, StreamsCalm
<1>3. ASSUME UNCHANGED net  PROVE NetCalm
  BY <1>3 DEF IInv, ConnInv, ServeInv, NetCalm, NetFields
<1>4. ASSUME UNCHANGED <<want, msgs, zero, sq, wr>>  PROVE QueuesCalm
  BY <1>4 DEF IInv, ServeInv, QueuesCalm
<1>5. ASSUME UNCHANGED <<cas, sc>>, sc.at = "closed" => work' = <<>>  PROVE ConnCalm
  BY <1>5 DEF IInv, ConnInv, ConnCalm, Ended
<1> QED  BY <1>1, <1>2, <1>3, <1>4, <1>5

\* A function that is changed at one point.
LEMMA Except ==
  ASSUME NEW f, NEW i \in DOMAIN f, NEW a, NEW g, g = [f EXCEPT ![i] = a]
  PROVE  DOMAIN g = DOMAIN f /\ g[i] = a /\ \A j \in DOMAIN f : j # i => g[j] = f[j]
OBVIOUS

LEMMA OneHandler ==
  ASSUME IInv, NEW i \in Ids, NEW g, hnd' = [hnd EXCEPT ![i] = g], Calmer(hnd[i], g, net.data[i]),
         hnd[i].at # "off" \/ (st'[i].state # "idle" /\ ~Unused(i)')
  PROVE  HandlersCalm
BY Except DEF IInv, HandlerInv, Calmer, HandlersCalm

LEMMA OneStream ==
  ASSUME IInv, NEW i \in Ids, NEW s, st' = [st EXCEPT ![i] = s], IsStream(s),
         s.state = "closed" => st[i].state = "closed" \/ Unhooking(i)',
         st[i].state # "idle" => s.state # "idle", Ended /\ st[i].state \in Halted => s.state \in Halted,
         (st[i].cw => s.cw) \/ (Unused(i) /\ s.state # "closed")
  PROVE  StreamsCalm
BY Except DEF IInv, StreamInv, IsStream, StreamsCalm

\* A step of serve that makes calls, and moves nothing.
LEMMA CallsCalm ==
  ASSUME IInv, work # <<>>, Top.op \notin {"write", "reply", "unhook"}, NEW calls, Calls(calls), Then(calls),
         ConnCalm, StreamsCalm, UNCHANGED <<zero, sq, want, wr, msgs, hnd, net>>
  PROVE  Calm
<1>1. WorkCalm
  BY ThenCalm DEF IInv
<1> QED  BY <1>1, SameParts DEF Calm

\* A closed connection has no call to make.
LEMMA OpenAt == ASSUME IInv, work # <<>>  PROVE sc.at # "closed"
BY DEF IInv, ServeInv

\* serve returns or panics.
LEMMA ExitsCalm ==
  ASSUME IInv, work # <<>> \/ sc.at # "closed", NEW s, DOMAIN s = ConnFields, s.flow = sc.flow, s.initSend = sc.initSend, s.maxClient = sc.maxClient,
         s.maxPush = sc.maxPush, s.writing = sc.writing, s.werr = sc.werr, Exits(s), cas' = cas
  PROVE  ConnCalm /\ WorkCalm /\ Ended'
BY OpenAt, ExitCalm DEF Exits, ConnFields, Ended, IInv, ConnInv, ConnCalm

LEMMA PanicsCalm ==
  ASSUME IInv, work # <<>> \/ sc.at # "closed", Panics, cas' = cas
  PROVE  ConnCalm /\ WorkCalm /\ Ended'
BY ExitsCalm DEF IInv, ConnInv, ConnFields, Panics

-----------------------------------------------------------------------------
(* The calm calls of serve.                                                *)

\* The connection's state, after a step that leaves alone what the other parts of the invariant tell of it.
LEMMA ConnIsCalm ==
  ASSUME IInv, cas' = cas, DOMAIN sc' = ConnFields, sc'.flow = sc.flow, sc'.initSend = sc.initSend,
         sc'.maxClient = sc.maxClient, sc'.maxPush = sc.maxPush, sc'.writing = sc.writing, sc'.werr = sc.werr,
         sc'.at = sc.at, sc.at = "closed" => work' = <<>>
  PROVE  ConnCalm
BY DEF IInv, ConnInv, ConnCalm, Ended

LEMMA ScheduleCalm == ASSUME IInv, scheduleFrameWrite  PROVE Calm
BY OpenAt, SameParts, CallsCalm DEF scheduleFrameWrite, Running, Top, Calls

LEMMA MarkCalm == ASSUME IInv, MarkResetQueued  PROVE Calm
BY OpenAt, SameParts, CallsCalm, SimpleCalls DEF MarkResetQueued, Running, Top, IInv, StreamInv, StreamsCalm,
   IsStream, StreamFields, Calls

LEMMA EndStreamCalm == ASSUME IInv, endStream  PROVE Calm
<1>1. /\ work # <<>> /\ Top.op = "endstream" /\ Then(<<>>) /\ UNCHANGED <<cas, sc, zero, sq, want, wr, msgs, hnd, net>>
      /\ st' = [st EXCEPT ![Top.id] = EndBody(@)]
  BY DEF endStream, Running, Top
<1>2. ConnCalm
  BY <1>1, OpenAt, SameParts
<1>3. ~Ended
  BY <1>1, Shorter DEF IInv, ServeInv, Top, NoEndStream
<1>4. StreamsCalm
  BY <1>1, <1>3 DEF IInv, StreamInv, StreamsCalm, IsStream, StreamFields, EndBody
<1> QED  BY <1>1, <1>2, <1>4, CallsCalm, SimpleCalls DEF Calls

LEMMA goAwayCalm == ASSUME IInv, goAway  PROVE Calm
BY OpenAt, ConnIsCalm, CallsCalm, SimpleCalls, SameParts DEF goAway, Running, Top, IInv, ConnInv, ConnFields,
   Calls

LEMMA InflowCalm == ASSUME IInv, InflowGrows  PROVE Calm
<1>1. work # <<>> /\ Top.op = "inflow" /\ UNCHANGED <<cas, zero, sq, want, wr, msgs, hnd, net>>
  BY DEF InflowGrows, Running, Top
<1>2. DOMAIN sc = ConnFields /\ sc.at # "closed"
  BY <1>1, OpenAt DEF IInv, ConnInv
<1>3. CASE Panics /\ UNCHANGED st
  BY <1>1, <1>3, PanicsCalm, SameParts DEF Calm
<1>4. CASE /\ Then(<<>>)
           /\ sc' = IF Top.id = 0 THEN [sc EXCEPT !.inflow = @ + Top.n] ELSE sc
           /\ st' = IF Top.id = 0 THEN st ELSE [st EXCEPT ![Top.id].inflow = @ + Top.n]
  BY <1>1, <1>2, <1>4, ConnIsCalm, SameParts, CallsCalm, SimpleCalls DEF ConnFields, IInv, StreamInv,
     StreamsCalm, IsStream, StreamFields, Calls
<1> QED  BY <1>3, <1>4 DEF InflowGrows

LEMMA AfterCalm == ASSUME IInv, AfterSelect  PROVE Calm
<1>1. work # <<>> /\ Top.op = "after" /\ UNCHANGED <<cas, st, zero, sq, want, wr, msgs, hnd, net>>
  BY DEF AfterSelect, Running, Top
<1>2. DOMAIN sc = ConnFields /\ sc.at # "closed"
  BY <1>1, OpenAt DEF IInv, ConnInv
<1>3. CASE Exits(sc)
  BY <1>1, <1>2, <1>3, ExitsCalm, SameParts DEF Calm
<1>4. CASE Then(<<>>) /\ sc' \in {sc, [sc EXCEPT !.timer = "armed"]}
  <2>1. ConnCalm
    BY <1>1, <1>2, <1>4, ConnIsCalm DEF ConnFields
  <2> QED  BY <1>1, <1>4, <2>1, CallsCalm, SimpleCalls, SameParts DEF Calls
<1> QED  BY <1>3, <1>4 DEF AfterSelect

LEMMA CloseAllCalm == ASSUME IInv, CloseAllStreams  PROVE Calm
<1>1. work # <<>> /\ Top.op = "closeall" /\ UNCHANGED <<cas, st, zero, sq, want, wr, msgs, hnd, net>>
  BY DEF CloseAllStreams, Running, Top
<1>2. DOMAIN sc = ConnFields /\ sc.at # "closed"
  BY <1>1, OpenAt DEF IInv, ConnInv
<1>3. CASE work' = <<>> /\ sc' = [sc EXCEPT !.at = "closed"]
  BY <1>2, <1>3, <1>1, ShortSequences, SameParts DEF Ended, ConnFields, IInv, ConnInv, ConnCalm, WorkCalm,
     AtMostOne, Calm
<1>4. ASSUME NEW i \in Ids, Then(<<CloseStream(i), CloseAll>>), UNCHANGED sc  PROVE Calm
  BY SimpleCalls, SimpleTwo, <1>1, <1>2, <1>4, SameParts, CallsCalm DEF Calls
<1>5. \/ work' = <<>> /\ sc' = [sc EXCEPT !.at = "closed"]
      \/ \E i \in Opened(Ids) : Then(<<CloseStream(i), CloseAll>>) /\ UNCHANGED sc
  BY DEF CloseAllStreams
<1>6. Opened(Ids) \subseteq Ids
  BY DEF Opened
<1> QED  BY <1>3, <1>4, <1>5, <1>6

LEMMA CloseStreamCalm == ASSUME IInv, closeStream  PROVE Calm
<1>0. PICK i : i = Top.id
  OBVIOUS
<1> DEFINE s == [sc EXCEPT !.nClient = IF i % 2 = 1 THEN @ - 1 ELSE @, !.nPushed = IF i % 2 = 0 THEN @ - 1 ELSE @]
           last == Opened(Ids) = {i}
           first == IF last /\ sc.down THEN <<GoAway("NO")>> ELSE <<>>
           back == IF st[i].pipe THEN SendWindow(0, st[i].len) ELSE <<>>
<1>1. work # <<>> /\ Top.op = "close" /\ UNCHANGED <<cas, zero, sq, want, wr, msgs, hnd, net>>
  BY DEF closeStream, Running, Top
<1>2. DOMAIN sc = ConnFields /\ sc.at # "closed"
  BY <1>1, OpenAt DEF IInv, ConnInv
<1>3. CASE Panics /\ UNCHANGED st
  BY <1>1, <1>3, PanicsCalm, SameParts DEF Calm
<1>4. CASE /\ InMap(i) /\ sc' = [s EXCEPT !.idle = IF last /\ "idle" \in cas.timers /\ ~Ended THEN "armed" ELSE @]
           /\ st' = [st EXCEPT ![i].state = "closed", ![i].deadline = IF @ = "armed" THEN "off" ELSE @]
           /\ Then(first \o back \o <<Unhook(i)>>)
  <2>1. ConnCalm
    <3>1. DOMAIN s = ConnFields /\ s.flow = sc.flow /\ s.initSend = sc.initSend /\ s.maxClient = sc.maxClient
          /\ s.maxPush = sc.maxPush /\ s.writing = sc.writing /\ s.werr = sc.werr /\ s.at = sc.at
      BY <1>2 DEF ConnFields
    <3> HIDE DEF s
    <3> QED  BY <1>1, <1>2, <1>4, <3>1, ConnIsCalm DEF ConnFields
  <2>2. Simple(first) /\ Simple(back) /\ Simple(<<Unhook(i)>>)
    BY SimpleCalls
  <2> HIDE DEF first, back, s, last
  <2>3. PICK calls : calls = first \o back \o <<Unhook(i)>>
    OBVIOUS
  <2>4. Simple(calls) /\ Unhook(i) \in Elems(calls)
    BY <2>2, SimpleJoined, ShortSequences, <2>3, Joined DEF Simple
  <2>5. Then(calls)
    BY <1>4, <2>3
  <2>6. Unhooking(i)'
    BY <1>1, <2>4, Shorter, <2>5, Joined DEF IInv, ServeInv, Simple, Then, Unhook, Task, Unhooking
  <2>7. StreamsCalm
    <3>1. st' = [st EXCEPT ![i].state = "closed", ![i].deadline = IF @ = "armed" THEN "off" ELSE @]
      BY <1>4
    <3>2. DOMAIN st = Ids /\ \A j \in Ids : IsStream(st[j])
      BY DEF IInv, StreamInv, IsStream
    <3>3. CASE i \in Ids
      <4>1. PICK g : g = [st[i] EXCEPT !.state = "closed", !.deadline = IF @ = "armed" THEN "off" ELSE @]
        OBVIOUS
      <4>2. st' = [st EXCEPT ![i] = g]
        BY <3>1, <3>2, <3>3, <4>1
      <4>3. IsStream(g) /\ g.state = "closed" /\ g.cw = st[i].cw /\ g.state \in Halted
        BY <3>2, <3>3, <4>1 DEF IsStream, StreamFields, Halted
      <4> QED  BY <2>6, <3>3, <4>2, <4>3, OneStream
    <3>4. CASE i \notin Ids
      BY <3>1, <3>2, <3>4 DEF IInv, StreamInv, StreamsCalm
    <3> QED  BY <3>3, <3>4
  <2> QED  BY <1>1, <2>1, <2>4, <2>5, <2>7, CallsCalm DEF Calls
<1>5. closeStream => (Panics /\ UNCHANGED st) \/
        /\ InMap(i) /\ sc' = [s EXCEPT !.idle = IF last /\ "idle" \in cas.timers /\ ~Ended THEN "armed" ELSE @]
        /\ st' = [st EXCEPT ![i].state = "closed", ![i].deadline = IF @ = "armed" THEN "off" ELSE @]
        /\ Then(first \o back \o <<Unhook(i)>>)
  BY <1>0 DEF closeStream
<1> QED  BY <1>3, <1>4, <1>5
-----------------------------------------------------------------------------
(* The events of serve, as long as they move no frame.                     *)

LEMMA EventIsCalm ==
  ASSUME IInv, Serving, NEW calls, Calls(calls), Event(calls), ConnCalm, NetCalm, QueuesCalm, StreamsCalm, HandlersCalm
  PROVE  Calm
BY EventCalm DEF IInv, Serving, Calm

\* What only makes calls.
LEMMA PlainEvent ==
  ASSUME IInv, Serving, NEW calls, Calls(calls), Event(calls), ConnCalm, NetCalm,
         UNCHANGED <<st, zero, sq, want, wr, msgs, hnd>>
  PROVE  Calm
BY EventIsCalm, SameParts

LEMMA ServingConn ==
  ASSUME IInv, Serving, cas' = cas, DOMAIN sc' = ConnFields, sc'.flow \in Int, sc'.initSend \in Int,
         sc'.maxClient \in Nat, sc'.maxClient >= sc.maxClient, sc'.maxPush = sc.maxPush,
         sc'.writing = sc.writing, sc'.werr = sc.werr, sc'.at = "serving"
  PROVE  ConnCalm
BY DEF IInv, ConnInv, ConnCalm, Ended, Serving

LEMMA SameConn == ASSUME IInv, Serving, UNCHANGED <<cas, sc>>  PROVE ConnCalm
BY SameParts DEF Serving

LEMMA ClientNet ==
  ASSUME IInv, NEW nt, DOMAIN nt = NetFields, nt.data = net.data, nt.failed = net.failed, nt.gone = net.gone, NextClient(nt)
  PROVE  NetCalm
BY DEF IInv, ServeInv, NetCalm, NextClient, NetFields

LEMMA NextNet == ASSUME IInv, NextClient(net)  PROVE NetCalm
BY ClientNet DEF IInv, ConnInv, NetFields

\* A stream that changes, if it is one.
LEMMA AnyStream ==
  ASSUME IInv, NEW i, NEW s, st' = [st EXCEPT ![i] = s],
         i \in Ids => /\ IsStream(s) /\ (s.state = "closed" => st[i].state = "closed")
                      /\ st[i].state # "idle" => s.state # "idle"
                      /\ Ended /\ st[i].state \in Halted => s.state \in Halted
                      /\ (st[i].cw => s.cw) \/ (Unused(i) /\ s.state # "closed")
  PROVE  StreamsCalm
BY OneStream DEF IInv, StreamInv, IsStream, StreamsCalm

LEMMA StartCalm == ASSUME IInv, Start  PROVE Calm
<1>1. PICK calls : calls = <<Write(Wr("SETTINGS", 0, 0, FALSE, 0))>> \o SendWindow(0, ConnWin - DefaultWin)
  OBVIOUS
<1>2. Simple(calls)
  BY PlainFrames, SimpleWrite, SimpleCalls, <1>1, SimpleJoined
<1>3. work' = calls /\ Elems(work) = {} /\ UNCHANGED <<cas, st, zero, sq, want, wr, msgs, hnd>>
      /\ sc.at = "start" /\ sc' = [sc EXCEPT !.at = "preface", !.unacked = 1]
      /\ net' = [net EXCEPT !.win = [i \in Ids |-> StreamWin]]
  BY <1>1, ShortSequences DEF Start
<1>4. WorkCalm
  BY <1>2, <1>3 DEF WorkCalm, Simple, AtMostOne
<1>5. ConnCalm
  BY <1>3, ConnIsCalm DEF IInv, ConnInv, ConnCalm, ConnFields, Ended
<1>6. NetCalm
  BY <1>3 DEF IInv, ConnInv, ServeInv, NetCalm, NetFields
<1> QED  BY <1>3, <1>4, <1>5, <1>6, SameParts DEF Calm

LEMMA PrefaceCalm == ASSUME IInv, readPreface  PROVE Calm
<1>1. sc.at = "preface" /\ UNCHANGED <<cas, st, zero, sq, want, wr, msgs, hnd, net>> /\ DOMAIN sc = ConnFields
  BY DEF readPreface, IInv, ConnInv
<1>2. CASE Exits(sc)
  BY <1>1, <1>2, ExitsCalm, SameParts DEF Calm
<1>3. CASE /\ sc' = [sc EXCEPT !.at = "serving", !.idle = IF "idle" \in cas.timers THEN "armed" ELSE "off",
                               !.first = IF "settings" \in cas.timers THEN "armed" ELSE "off"]
           /\ UNCHANGED work
  BY <1>1, <1>3, StaysCalm, SameParts DEF IInv, ConnInv, ConnCalm, ConnFields, Ended, Calm
<1> QED  BY <1>2, <1>3 DEF readPreface

LEMMA BodyReadCalm == ASSUME IInv, RecvBodyRead  PROVE Calm
<1>1. PICK i \in Ids :
        /\ hnd[i].at = "note" /\ hnd' = [hnd EXCEPT ![i].at = "run", ![i].n = 0]
        /\ Event(SendWindow(0, hnd[i].n) \o
                 IF st[i].state \in {"hcr", "closed"} THEN <<>> ELSE SendWindow(i, hnd[i].n))
  BY DEF RecvBodyRead
<1>2. Serving /\ UNCHANGED <<cas, sc, st, zero, sq, want, wr, msgs, net>>
  BY DEF RecvBodyRead
<1>3. PICK calls : calls = SendWindow(0, hnd[i].n) \o
                           IF st[i].state \in {"hcr", "closed"} THEN <<>> ELSE SendWindow(i, hnd[i].n)
  OBVIOUS
<1>4. Simple(calls)
  BY SimpleCalls, <1>3, SimpleJoined
<1>5. HandlersCalm
  <2>1. DOMAIN hnd = Ids /\ DOMAIN hnd[i] = HandlerFields /\ hnd[i].buf \in Nat /\ hnd[i].acked \in Nat
        /\ hnd[i].acked <= net.data[i] /\ ~hnd[i].waits
    BY <1>1 DEF IInv, HandlerInv
  <2>2. PICK g : g = [hnd[i] EXCEPT !.at = "run", !.n = 0]
    OBVIOUS
  <2>3. hnd' = [hnd EXCEPT ![i] = g]
    BY <1>1, <2>1, <2>2
  <2>4. Calmer(hnd[i], g, net.data[i])
    BY <1>1, <2>1, <2>2 DEF Calmer, HandlerFields
  <2> QED  BY <1>1, <2>3, <2>4, OneHandler
<1> QED  BY <1>1, <1>2, <1>3, <1>4, <1>5, EventIsCalm, SameConn, SameParts DEF Calls

LEMMA ReadErrorCalm == ASSUME IInv, RecvReadError  PROVE Calm
<1>1. Serving /\ UNCHANGED <<cas, st, zero, sq, want, wr, msgs, hnd>> /\ DOMAIN sc = ConnFields
  BY DEF RecvReadError, IInv, ConnInv
<1>2. CASE Exits(sc) /\ UNCHANGED net
  BY <1>1, <1>2, ExitsCalm, SameParts DEF Calm, Serving
<1>3. CASE net' = [net EXCEPT !.sends = 0, !.deaf = TRUE] /\ Event(<<GoAway("FRAME_SIZE")>>) /\ UNCHANGED sc
  <2>1. NetCalm
    BY <1>3 DEF IInv, ConnInv, ServeInv, NetCalm, NetFields
  <2> QED  BY <1>1, <1>3, <2>1, PlainEvent, SameConn, SimpleCalls DEF Calls
<1> QED  BY <1>2, <1>3 DEF RecvReadError

LEMMA FirstCalm == ASSUME IInv, FirstNotSettings  PROVE Calm
<1>1. /\ Serving /\ UNCHANGED <<cas, st, zero, sq, want, wr, msgs, hnd>> /\ DOMAIN sc = ConnFields
      /\ sc' = [sc EXCEPT !.first = "off"] /\ Event(<<GoAway("PROTOCOL")>>) /\ NextClient(net)
  BY DEF FirstNotSettings, IInv, ConnInv
<1>2. ConnCalm
  BY <1>1, ServingConn DEF IInv, ConnInv, ConnFields, Serving
<1> QED  BY <1>1, <1>2, PlainEvent, NextNet, SimpleCalls DEF Calls

LEMMA SettingsAckCalm == ASSUME IInv, SettingsAck  PROVE Calm
<1>1. /\ Serving /\ UNCHANGED <<cas, st, zero, sq, want, wr, msgs, hnd>> /\ DOMAIN sc = ConnFields
      /\ sc' = [sc EXCEPT !.unacked = @ - 1] /\ NextClient(net)
      /\ Event(IF sc.unacked = 0 THEN <<GoAway("PROTOCOL")>> ELSE <<>>)
  BY DEF SettingsAck, IInv, ConnInv, Recv
<1>2. ConnCalm
  BY <1>1, ServingConn DEF IInv, ConnInv, ConnFields, Serving
<1>3. Simple(IF sc.unacked = 0 THEN <<GoAway("PROTOCOL")>> ELSE <<>>)
  BY SimpleCalls
<1> QED  BY <1>1, <1>2, <1>3, PlainEvent, NextNet DEF Calls

LEMMA PingCalm == ASSUME IInv, processPing  PROVE Calm
BY SimpleCalls, PlainFrames, SimpleWrite, PlainEvent, NextNet, SameConn DEF processPing, Recv, Calls

LEMMA PeerGoAwayCalm == ASSUME IInv, processGoAway  PROVE Calm
<1>1. /\ Serving /\ UNCHANGED <<cas, st, zero, sq, want, wr, msgs, hnd>> /\ DOMAIN sc = ConnFields
      /\ sc' = [sc EXCEPT !.push = FALSE] /\ Event(<<GoAway("NO")>>) /\ NextClient(net)
  BY DEF processGoAway, IInv, ConnInv, Recv
<1>2. ConnCalm
  BY <1>1, ServingConn DEF IInv, ConnInv, ConnFields, Serving
<1> QED  BY <1>1, <1>2, PlainEvent, NextNet, SimpleCalls DEF Calls

LEMMA ResetCalm == ASSUME IInv, processResetStream  PROVE Calm
BY SimpleCalls, PlainEvent, NextNet, SameConn DEF processResetStream, Recv, Calls
\* A frame of the client's.
LEMMA ClientFrames ==
  ASSUME IInv, NEW f \in cas.frames
  PROVE  f.id \in Nat /\ (f.id \in Ids \/ f.id = 0) /\ f.n \in Nat /\ f.pad \in Nat /\ (f.id % 2 = 1 => f.id \in Ids)
BY HTTP2ServerAssumption DEF Ids, IInv, ConnInv, IsFrame

LEMMA WrapsToInt == \A x \in Int : Wrap(x) \in Int
BY HTTP2ServerAssumption DEF Wrap

LEMMA SettingsCalm == ASSUME IInv, processSettings  PROVE Calm
<1>1. PICK f \in cas.frames :
       /\ Recv(f, "SETTINGS") /\ NextClient(net)
       /\ LET s == [sc EXCEPT !.sawSettings = TRUE, !.first = "off"]
              growth == f.n - sc.initSend
              bad == {i \in Opened(Ids) : ~FlowAdds(st[i].flow, growth)}
          IN \E moved \in IF bad = {} THEN {Opened(Ids)} ELSE SUBSET (Opened(Ids) \ bad) :
               /\ st' = [i \in Ids |-> IF i \in moved THEN [st[i] EXCEPT !.flow = Wrap(@ + growth)] ELSE st[i]]
               /\ sc' = [s EXCEPT !.initSend = f.n, !.push = ~f.bad, !.needAck = @ \/ bad = {}]
               /\ Event(IF bad = {} THEN Schedule ELSE <<GoAway("FLOW_CONTROL")>>)
  BY DEF processSettings
<1>2. Serving /\ UNCHANGED <<cas, zero, sq, want, wr, msgs, hnd>> /\ DOMAIN sc = ConnFields
  BY <1>1 DEF processSettings, IInv, ConnInv, Recv
<1>3. PICK s : s = [sc EXCEPT !.sawSettings = TRUE, !.first = "off"]
  OBVIOUS
<1>4. PICK bad : bad = {i \in Opened(Ids) : ~FlowAdds(st[i].flow, f.n - sc.initSend)}
  OBVIOUS
<1>5. PICK moved :
         /\ st' = [i \in Ids |-> IF i \in moved THEN [st[i] EXCEPT !.flow = Wrap(@ + (f.n - sc.initSend))] ELSE st[i]]
         /\ sc' = [s EXCEPT !.initSend = f.n, !.push = ~f.bad, !.needAck = @ \/ bad = {}]
         /\ Event(IF bad = {} THEN Schedule ELSE <<GoAway("FLOW_CONTROL")>>)
  BY <1>1, <1>3, <1>4
<1>6. f.n \in Int
  BY ClientFrames
<1>7. ConnCalm
  BY <1>2, <1>3, <1>5, <1>6, ServingConn DEF ConnFields, IInv, ConnInv, Serving
<1>8. StreamsCalm
  BY <1>5, <1>6, WrapsToInt DEF IInv, StreamInv, IsStream, ConnInv, StreamFields, StreamsCalm
<1>9. NetCalm
  BY <1>1, NextNet
<1>10. Calls(Schedule) /\ Calls(<<GoAway("FLOW_CONTROL")>>)
  BY SimpleCalls DEF Calls
<1> QED  BY <1>2, <1>7, <1>8, <1>9, <1>10, <1>5, EventIsCalm, SameParts

LEMMA WindowUpdateCalm == ASSUME IInv, processWindowUpdate  PROVE Calm
<1>1. PICK f \in cas.frames :
       /\ Recv(f, "WINDOW")
       /\ NextClient([net EXCEPT !.gave = IF f.id = 0 /\ FlowAdds(sc.flow, f.n) THEN @ + f.n ELSE @])
       /\ IF f.id = 0
          THEN /\ sc' = IF FlowAdds(sc.flow, f.n) THEN [sc EXCEPT !.flow = @ + f.n] ELSE sc
               /\ Event(IF FlowAdds(sc.flow, f.n) THEN Schedule ELSE <<GoAway("FLOW_CONTROL")>>)
               /\ UNCHANGED st
          ELSE /\ LET ok == FlowAdds(st[f.id].flow, f.n)
                  IN /\ st' = IF InMap(f.id) /\ ok THEN [st EXCEPT ![f.id].flow = @ + f.n] ELSE st
                     /\ Event(CASE StateOf(f.id) = "idle" -> <<GoAway("PROTOCOL")>>
                                [] ~InMap(f.id) /\ StateOf(f.id) = "closed" -> <<>>
                                [] OTHER -> IF ok THEN Schedule ELSE ResetStream(f.id))
               /\ UNCHANGED sc
  BY DEF processWindowUpdate
<1>2. Serving /\ UNCHANGED <<cas, zero, sq, want, wr, msgs, hnd>> /\ DOMAIN sc = ConnFields /\ sc.flow \in Int
  BY <1>1 DEF processWindowUpdate, IInv, ConnInv, Recv
<1>3. f.n \in Int
  BY ClientFrames
<1>4. NetCalm
  BY <1>1, ClientNet DEF IInv, ConnInv, NetFields
<1>5. CASE f.id = 0
  <2>1. sc' \in {sc, [sc EXCEPT !.flow = @ + f.n]} /\ UNCHANGED st
        /\ (Event(Schedule) \/ Event(<<GoAway("FLOW_CONTROL")>>))
    BY <1>1, <1>5
  <2>2. ConnCalm
    BY <1>2, <1>3, <2>1, ServingConn DEF IInv, ConnInv, ConnFields, Serving
  <2>3. Calls(Schedule) /\ Calls(<<GoAway("FLOW_CONTROL")>>)
    BY SimpleCalls DEF Calls
  <2> QED  BY <1>2, <1>4, <2>1, <2>2, <2>3, PlainEvent
<1>6. CASE f.id # 0
  <2>1. /\ UNCHANGED sc /\ st' \in {st, [st EXCEPT ![f.id].flow = @ + f.n]}
        /\ Event(CASE StateOf(f.id) = "idle" -> <<GoAway("PROTOCOL")>>
                                [] ~InMap(f.id) /\ StateOf(f.id) = "closed" -> <<>>
                                [] OTHER -> IF FlowAdds(st[f.id].flow, f.n) THEN Schedule ELSE ResetStream(f.id))
    BY <1>1, <1>6
  <2>2. PICK calls : /\ calls = CASE StateOf(f.id) = "idle" -> <<GoAway("PROTOCOL")>>
                                [] ~InMap(f.id) /\ StateOf(f.id) = "closed" -> <<>>
                                [] OTHER -> IF FlowAdds(st[f.id].flow, f.n) THEN Schedule ELSE ResetStream(f.id)
                     /\ Event(calls)
    BY <2>1
  <2>3. calls \in {<<GoAway("PROTOCOL")>>, <<>>, Schedule, ResetStream(f.id)}
    BY <2>2
  <2>4. Calls(calls)
    BY <2>3, SimpleCalls DEF Calls
  <2>5. StreamsCalm
    <3>1. DOMAIN st = Ids /\ \A j \in Ids : IsStream(st[j])
      BY DEF IInv, StreamInv, IsStream
    <3>2. CASE st' = [st EXCEPT ![f.id].flow = @ + f.n]
      <4>1. PICK g : g = [st[f.id] EXCEPT !.flow = @ + f.n]
        OBVIOUS
      <4>2. st' = [st EXCEPT ![f.id] = g]
        BY <3>2, <4>1
      <4>3. f.id \in Ids => IsStream(g) /\ g.state = st[f.id].state /\ g.cw = st[f.id].cw
        BY <1>3, <3>1, <4>1 DEF IsStream, StreamFields
      <4> QED  BY <4>2, <4>3, AnyStream
    <3> QED  BY <2>1, <3>2, SameParts
  <2> QED  BY <1>2, <1>4, <2>1, <2>2, <2>4, <2>5, EventIsCalm, SameParts, SameConn
<1> QED  BY <1>5, <1>6

LEMMA DataCalm == ASSUME IInv, processData  PROVE Calm
<1>1. UNCHANGED <<cas, zero, sq, want, wr, msgs, hnd>> /\ DOMAIN sc = ConnFields /\ sc.flow \in Int
      /\ DOMAIN st = Ids /\ \A j \in Ids : IsStream(st[j])
  BY DEF processData, IInv, ConnInv, StreamInv, IsStream
<1>2. PICK f \in cas.frames :
       LET i == f.id
           s == st[i]
           length == f.n + f.pad
           unwanted == s.state # "open" \/ s.trailer \/ s.resetQueued
           tooMuch == s.decl # -1 /\ s.bytes + f.n > s.decl
           refused == length > 0 /\ Available(s.inflow, sc.inflow) < length
           closed == f.n > 0 /\ s.err # "none"
           taken == [s EXCEPT !.inflow = @ - length]
           filled == [taken EXCEPT !.bytes = @ + f.n, !.len = IF s.broken THEN 0 ELSE @ + f.n]
       IN /\ Recv(f, "DATA")
          /\ NextClient([net EXCEPT !.conn = @ - length, !.win[i] = @ - length])
          /\ IF Failing THEN Event(<<>>) /\ UNCHANGED <<sc, st>>
             ELSE IF StateOf(i) = "idle" THEN Event(<<GoAway("PROTOCOL")>>) /\ UNCHANGED <<sc, st>>
             ELSE IF unwanted
             THEN /\ IF sc.inflow < length THEN Event(ResetStream(i)) /\ UNCHANGED sc
                     ELSE /\ sc' = [sc EXCEPT !.inflow = @ - length]
                          /\ Event(SendWindow(0, length) \o
                                   IF InMap(i) /\ s.resetQueued THEN <<>> ELSE ResetStream(i))
                  /\ UNCHANGED st
             ELSE IF ~s.pipe THEN Panics /\ UNCHANGED st
             ELSE IF tooMuch THEN /\ st' = [st EXCEPT ![i].err = IF @ = "none" THEN "long" ELSE @]
                                  /\ Event(ResetStream(i)) /\ UNCHANGED sc
             ELSE IF refused THEN Event(ResetStream(i)) /\ UNCHANGED <<sc, st>>
             ELSE /\ sc' = [sc EXCEPT !.inflow = @ - length]
                  /\ st' = [st EXCEPT ![i] = IF closed THEN taken ELSE filled]
                  /\ Event(IF closed THEN ResetStream(i)
                           ELSE SendWindow(0, f.pad) \o SendWindow(i, f.pad) \o
                                IF f.end THEN <<EndStream(i)>> ELSE <<>>)
  BY DEF processData
<1> DEFINE i == f.id
           length == f.n + f.pad
           taken == [st[i] EXCEPT !.inflow = @ - length]
           filled == [taken EXCEPT !.bytes = @ + f.n, !.len = IF st[i].broken THEN 0 ELSE @ + f.n]
           back == SendWindow(0, length) \o IF InMap(i) /\ st[i].resetQueued THEN <<>> ELSE ResetStream(i)
           padding == SendWindow(0, f.pad) \o SendWindow(i, f.pad) \o IF f.end THEN <<EndStream(i)>> ELSE <<>>
<1>3. Serving /\ f.n \in Nat /\ f.pad \in Nat
  BY <1>2, ClientFrames DEF Recv
<1>4. NetCalm
  BY <1>2, ClientNet DEF IInv, ConnInv, NetFields
<1>5. Calls(back) /\ (~Ended' => Calls(padding))
  BY SimpleCalls, SimpleJoined, EndStreamSimple DEF Calls
<1>6. Calls(<<>>) /\ Calls(<<GoAway("PROTOCOL")>>) /\ Calls(ResetStream(i))
  BY SimpleCalls DEF Calls
<1>7. i \in Ids => /\ IsStream(taken) /\ taken.state = st[i].state /\ taken.cw = st[i].cw
                   /\ IsStream(filled) /\ filled.state = st[i].state /\ filled.cw = st[i].cw
  BY <1>1, <1>3 DEF IsStream, StreamFields
<1> HIDE DEF back, padding, taken, filled, length, i
<1>8. \/ Panics /\ UNCHANGED st
      \/ /\ sc' = sc \/ sc' = [sc EXCEPT !.inflow = @ - length]
         /\ \/ st' = st \/ st' = [st EXCEPT ![i].err = IF @ = "none" THEN "long" ELSE @]
            \/ st' = [st EXCEPT ![i] = taken] \/ st' = [st EXCEPT ![i] = filled]
         /\ \/ Event(<<>>) \/ Event(<<GoAway("PROTOCOL")>>) \/ Event(ResetStream(i)) \/ Event(back) \/ Event(padding)
  BY <1>2 DEF back, padding, taken, filled, length, i
<1>9. ASSUME sc' = sc \/ sc' = [sc EXCEPT !.inflow = @ - length]  PROVE ConnCalm /\ ~Ended'
  BY <1>1, <1>3, <1>9, SameConn, ServingConn DEF ConnFields, Serving, Ended, IInv, ConnInv
<1>10. ASSUME \/ st' = st \/ st' = [st EXCEPT ![i].err = IF @ = "none" THEN "long" ELSE @]
              \/ st' = [st EXCEPT ![i] = taken] \/ st' = [st EXCEPT ![i] = filled]
       PROVE  StreamsCalm
  <2>1. CASE st' = [st EXCEPT ![i].err = IF @ = "none" THEN "long" ELSE @]
    BY <2>1, <1>1, AnyStream DEF IsStream, StreamFields
  <2>2. CASE st' = [st EXCEPT ![i] = taken]
    BY <1>7, <2>2, AnyStream
  <2>3. CASE st' = [st EXCEPT ![i] = filled]
    BY <1>7, <2>3, AnyStream
  <2> QED  BY <1>10, <2>1, <2>2, <2>3, SameParts
<1>11. CASE Panics /\ UNCHANGED st
  BY <1>1, <1>3, <1>4, <1>11, PanicsCalm, SameParts DEF Calm, Serving
<1> QED  BY <1>1, <1>3, <1>4, <1>5, <1>6, <1>8, <1>9, <1>10, <1>11, EventIsCalm, SameParts

LEMMA HeadersCalm == ASSUME IInv, processHeaders  PROVE Calm
<1>1. UNCHANGED <<cas, zero, sq, want, wr, msgs>> /\ DOMAIN sc = ConnFields /\ sc.flow \in Int /\ sc.initSend \in Int
      /\ DOMAIN st = Ids /\ \A j \in Ids : IsStream(st[j])
  BY DEF processHeaders, IInv, ConnInv, StreamInv, IsStream
<1>2. PICK f \in cas.frames :
       /\ Recv(f, "HEADERS") /\ NextClient(net)
       /\ LET i == f.id
              s == st[i]
          IN IF sc.goAway # "none" THEN Event(<<>>) /\ UNCHANGED <<sc, st, hnd>>
             ELSE IF InMap(i)
             THEN /\ IF s.resetQueued THEN Event(<<>>) /\ UNCHANGED st
                     ELSE IF s.state = "hcr" THEN Event(ResetStream(i)) /\ UNCHANGED st
                     ELSE IF s.trailer THEN Event(<<GoAway("PROTOCOL")>>) /\ UNCHANGED st
                     ELSE /\ Event(IF ~f.end \/ f.bad THEN ResetStream(i) ELSE <<>>)
                          /\ st' = [st EXCEPT ![i] = IF ~f.end \/ f.bad THEN [s EXCEPT !.trailer = TRUE]
                                                     ELSE EndBody([s EXCEPT !.trailer = TRUE])]
                  /\ UNCHANGED <<sc, hnd>>
             ELSE IF i % 2 = 0 \/ i <= sc.maxClient THEN Event(<<GoAway("PROTOCOL")>>) /\ UNCHANGED <<sc, st, hnd>>
             ELSE IF sc.nClient + 1 > AdvMax
             THEN /\ sc' = [sc EXCEPT !.maxClient = i, !.idle = IF @ = "armed" THEN "off" ELSE @]
                  /\ Event(ResetStream(i)) /\ UNCHANGED <<st, hnd>>
             ELSE \E shape \in cas.shapes :
                  LET malformed == f.bad \/ (shape.head /\ ~f.end)
                      opened == Opens(i, IF f.end THEN "hcr" ELSE "open")
                  IN /\ sc' = [sc EXCEPT !.maxClient = i, !.idle = IF @ = "armed" THEN "off" ELSE @, !.nClient = @ + 1]
                     /\ st' = [st EXCEPT ![i] = IF f.end \/ malformed THEN opened
                                                ELSE [opened EXCEPT !.pipe = TRUE, !.decl = f.n - 1]]
                     /\ IF malformed THEN Event(ResetStream(i)) /\ UNCHANGED hnd
                        ELSE Event(<<>>) /\ hnd' = [hnd EXCEPT ![i] = runHandler(shape)]
  BY DEF processHeaders
<1>3. Serving /\ NetCalm
  BY <1>2, NextNet DEF Recv
<1>4. Calls(<<>>) /\ Calls(<<GoAway("PROTOCOL")>>) /\ Calls(ResetStream(f.id))
  BY SimpleCalls DEF Calls
<1>5. CASE /\ Event(<<>>) \/ Event(ResetStream(f.id)) \/ Event(<<GoAway("PROTOCOL")>>)
           /\ UNCHANGED <<sc, hnd>>
           /\ st' \in {st, [st EXCEPT ![f.id] = [st[f.id] EXCEPT !.trailer = TRUE]],
                           [st EXCEPT ![f.id] = EndBody([st[f.id] EXCEPT !.trailer = TRUE])]}
  <2>1. ASSUME NEW g \in {[st[f.id] EXCEPT !.trailer = TRUE], EndBody([st[f.id] EXCEPT !.trailer = TRUE])},
               st' = [st EXCEPT ![f.id] = g]
        PROVE  StreamsCalm
    <3>1. f.id \in Ids => IsStream(g) /\ g.state \in {"hcr", st[f.id].state} /\ g.cw = st[f.id].cw
      BY <1>1 DEF IsStream, StreamFields, EndBody
    <3>2. ~Ended
      BY <1>3 DEF Serving, Ended
    <3> QED  BY <2>1, <3>1, <3>2, AnyStream
  <2> QED  BY <1>1, <1>3, <1>4, <1>5, <2>1, EventIsCalm, SameParts, SameConn
<1>6. CASE /\ ~(f.id % 2 = 0 \/ f.id <= sc.maxClient) /\ ~InMap(f.id) /\ sc.nClient + 1 > AdvMax
           /\ sc' = [sc EXCEPT !.maxClient = f.id, !.idle = IF @ = "armed" THEN "off" ELSE @]
           /\ Event(ResetStream(f.id)) /\ UNCHANGED <<st, hnd>>
  BY <1>6, ClientFrames, <1>1, <1>3, ServingConn, <1>4, PlainEvent DEF IInv, ConnInv, ConnFields, Serving
<1>7. ASSUME /\ ~(f.id % 2 = 0 \/ f.id <= sc.maxClient) /\ ~InMap(f.id),
             NEW shape \in cas.shapes, NEW opened, opened = Opens(f.id, IF f.end THEN "hcr" ELSE "open"),
             sc' = [sc EXCEPT !.maxClient = f.id, !.idle = IF @ = "armed" THEN "off" ELSE @, !.nClient = @ + 1],
             NEW g \in {opened, [opened EXCEPT !.pipe = TRUE, !.decl = f.n - 1]}, st' = [st EXCEPT ![f.id] = g],
             \/ Event(ResetStream(f.id)) /\ UNCHANGED hnd
             \/ Event(<<>>) /\ hnd' = [hnd EXCEPT ![f.id] = runHandler(shape)]
      PROVE  Calm
  <2>1. f.id \in Nat /\ f.id > sc.maxClient /\ f.id % 2 = 1 /\ f.id \in Ids
    BY <1>7, ClientFrames DEF IInv, ConnInv
  <2>2. ConnCalm
    BY <1>1, <1>3, <1>7, <2>1, ServingConn DEF ConnFields, Serving, IInv, ConnInv
  <2>3. Unused(f.id) /\ ~Unused(f.id)'
    BY <1>1, <1>7, <2>1 DEF Unused, ConnFields
  <2>4. IsStream(g) /\ g.state \in {"hcr", "open"}
    <3>1. IsStream(opened) /\ opened.state \in {"hcr", "open"}
      BY <1>1, <1>7 DEF Opens, NewStream, IsStream, StreamFields
    <3> QED  BY <1>7, <3>1 DEF IsStream, StreamFields
  <2>5. StreamsCalm
    <3>1. ~Ended
      BY <1>3 DEF Serving, Ended
    <3> QED  BY <1>7, <2>1, <2>3, <2>4, <3>1, AnyStream
  <2>6. st'[f.id] = g
    BY <1>1, <1>7, <2>1
  <2>7. ASSUME hnd' = [hnd EXCEPT ![f.id] = runHandler(shape)]  PROVE HandlersCalm
    <3>1. hnd[f.id].at = "off" /\ hnd[f.id].seq = 0 /\ net.data[f.id] \in Nat
      BY <2>1, <2>3 DEF IInv, StreamInv, HandlerInv, ConnInv
    <3>2. Calmer(hnd[f.id], runHandler(shape), net.data[f.id])
      BY <3>1 DEF Calmer, runHandler, NewHandler, HandlerFields
    <3>3. st'[f.id].state # "idle"
      BY <2>4, <2>6
    <3>4. PICK h : h = runHandler(shape)
      OBVIOUS
    <3>5. hnd' = [hnd EXCEPT ![f.id] = h] /\ Calmer(hnd[f.id], h, net.data[f.id])
      BY <2>7, <3>2, <3>4
    <3> QED  BY <2>1, <2>3, <3>3, <3>5, OneHandler
  <2> QED  BY <1>1, <1>3, <1>4, <1>7, <2>2, <2>5, <2>7, EventIsCalm, SameParts
<1>8. CASE sc.goAway # "none"
  BY <1>2, <1>5, <1>8
<1>9. CASE sc.goAway = "none" /\ InMap(f.id)
  BY <1>2, <1>5, <1>9
<1>10. CASE sc.goAway = "none" /\ ~InMap(f.id) /\ (f.id % 2 = 0 \/ f.id <= sc.maxClient)
  BY <1>2, <1>5, <1>10
<1>11. CASE sc.goAway = "none" /\ ~InMap(f.id) /\ ~(f.id % 2 = 0 \/ f.id <= sc.maxClient)
  BY <1>2, <1>6, <1>7, <1>11
<1> QED  BY <1>8, <1>9, <1>10, <1>11
-----------------------------------------------------------------------------
(* The handlers, as long as they neither wait for a frame nor begin to.    *)

IsHandler(h) == DOMAIN h = HandlerFields /\ h.seq \in Nat /\ h.n \in Nat /\ h.buf \in Nat /\ h.acked \in Nat
\* The handler h has become g, which waits for nothing.
Idle(h, g) == IsHandler(g) /\ g.seq = h.seq /\ g.acked = h.acked /\ g.at # "off" /\ ~g.waits

LEMMA HandlerIs ==
  ASSUME IInv, NEW i \in Ids
  PROVE  IsHandler(hnd[i]) /\ hnd[i].acked <= net.data[i] /\ DOMAIN hnd = Ids /\ net.data[i] \in Nat
BY DEF IInv, HandlerInv, ConnInv, IsHandler

LEMMA FinishIdle == ASSUME NEW h, IsHandler(h), NEW ok  PROVE Idle(h, Finish(h, ok))
BY DEF Idle, IsHandler, HandlerFields, Finish

LEMMA FailedIdle == ASSUME NEW h, IsHandler(h)  PROVE Idle(h, Failed(h))
<1>1. PICK g : g = [h EXCEPT !.dirty = TRUE]
  OBVIOUS
<1>2. IsHandler(g) /\ g.seq = h.seq /\ g.acked = h.acked
  BY <1>1 DEF IsHandler, HandlerFields
<1> QED  BY <1>1, <1>2, FinishIdle DEF Failed, Idle

LEMMA MovedIdle ==
  ASSUME NEW h, IsHandler(h), ~h.waits, NEW a, a # "off"
  PROVE  Idle(h, [h EXCEPT !.at = a])
BY DEF Idle, IsHandler, HandlerFields

LEMMA AfterHeadIdle == ASSUME NEW h, IsHandler(h), ~h.waits  PROVE Idle(h, AfterHead(h))
BY MovedIdle, FinishIdle DEF AfterHead

LEMMA AfterDataIdle == ASSUME NEW h, IsHandler(h), ~h.waits  PROVE Idle(h, AfterData(h))
BY MovedIdle, FinishIdle DEF AfterData

LEMMA HeaderSentIdle == ASSUME NEW h, IsHandler(h)  PROVE Idle(h, HeaderSent(h))
<1>1. PICK g : g = [h EXCEPT !.res = "none", !.waits = FALSE]
  OBVIOUS
<1>2. IsHandler(g) /\ g.seq = h.seq /\ g.acked = h.acked /\ ~g.waits
  BY <1>1 DEF IsHandler, HandlerFields
<1>3. Idle(h, AfterHead(g))
  BY <1>2, AfterHeadIdle DEF Idle
<1>4. HeaderSent(h) \in {Finish(h, h.n = 0), AfterHead(g)}
  BY <1>1 DEF HeaderSent
<1> QED  BY <1>3, <1>4, FinishIdle

LEMMA ChunkIdle == ASSUME NEW h, IsHandler(h), ~h.waits, NEW n \in Nat  PROVE Idle(h, writeChunk(h, n))
BY AfterHeadIdle DEF IsHandler, HandlerFields, Idle, writeChunk

LEMMA FlushIdle == ASSUME NEW h, IsHandler(h), ~h.waits  PROVE Idle(h, Flush(h))
BY FinishIdle, ChunkIdle DEF Flush, IsHandler

LEMMA CalledIs ==
  ASSUME IInv, NEW i \in Ids, ~hnd[i].waits
  PROVE  IsHandler(Called(i)) /\ Called(i).seq = hnd[i].seq /\ Called(i).acked = hnd[i].acked /\ ~Called(i).waits
         /\ Called(i).at = hnd[i].at
BY HandlerIs DEF Called, IsHandler, HandlerFields

\* A handler that moves alone.
LEMMA HandlerAlone ==
  ASSUME IInv, NEW i \in Ids, NEW g, hnd' = [hnd EXCEPT ![i] = g], hnd[i].at # "off", Idle(hnd[i], g)
  PROVE  HandlersCalm
<1>1. Calmer(hnd[i], g, net.data[i])
  BY HandlerIs DEF Calmer, Idle, IsHandler
<1> QED  BY <1>1, OneHandler

LEMMA AloneCalm ==
  ASSUME IInv, HandlersCalm, UNCHANGED <<cas, sc, work, st, zero, sq, want, wr, msgs, net>>
  PROVE  Calm
BY SameParts, StaysCalm DEF IInv, ServeInv, Calm

LEMMA MayIs == ASSUME IInv, NEW i \in Ids, hnd[i].at \in {"run", "reading", "note", "graceful", "continue", "panic"}
               PROVE ~hnd[i].waits /\ hnd[i].at # "off"
BY DEF IInv, HandlerInv

LEMMA CallsOfHandlersCalm == ASSUME IInv, HandlerCalls  PROVE Calm
<1>1. CASE HandlerWrites
  <2>1. PICK i \in Ids : hnd[i].at = "run" /\ hnd' = [hnd EXCEPT ![i] = [Called(i) EXCEPT !.buf = @ + 1]]
    BY <1>1 DEF HandlerWrites, May, Set
  <2>2. Idle(hnd[i], [Called(i) EXCEPT !.buf = @ + 1])
    BY <2>1, MayIs, CalledIs DEF Idle, IsHandler, HandlerFields
  <2> QED  BY <1>1, <2>1, <2>2, HandlerAlone, AloneCalm DEF HandlerWrites
<1>2. CASE HandlerFlushes
  <2>1. PICK i \in Ids : hnd[i].at = "run" /\ hnd' = [hnd EXCEPT ![i] = Flush(Called(i))]
    BY <1>2 DEF HandlerFlushes, May, Set
  <2>2. Idle(hnd[i], Flush(Called(i)))
    BY <2>1, MayIs, CalledIs, FlushIdle DEF Idle
  <2> QED  BY <1>2, <2>1, <2>2, HandlerAlone, AloneCalm DEF HandlerFlushes
<1>3. CASE HandlerSetsClose
  <2>1. PICK i \in Ids : hnd[i].at = "run" /\ hnd' = [hnd EXCEPT ![i] = [Called(i) EXCEPT !.closes = TRUE]]
    BY <1>3 DEF HandlerSetsClose, May, Set
  <2>2. Idle(hnd[i], [Called(i) EXCEPT !.closes = TRUE])
    BY <2>1, MayIs, CalledIs DEF Idle, IsHandler, HandlerFields
  <2> QED  BY <1>3, <2>1, <2>2, HandlerAlone, AloneCalm DEF HandlerSetsClose
<1>4. CASE HandlerReads
  <2>1. PICK i \in Ids : hnd[i].at = "run" /\ hnd' = [hnd EXCEPT ![i] =
                           [Called(i) EXCEPT !.at = IF hnd[i].cont THEN "continue" ELSE "reading", !.cont = FALSE]]
    BY <1>4 DEF HandlerReads, May, Set
  <2>2. PICK h : h = Called(i)
    OBVIOUS
  <2>3. IsHandler(h) /\ h.seq = hnd[i].seq /\ h.acked = hnd[i].acked /\ ~h.waits
    BY <2>1, <2>2, MayIs, CalledIs
  <2>4. \A b : Idle(hnd[i], [h EXCEPT !.at = IF b THEN "continue" ELSE "reading", !.cont = FALSE])
    BY <2>3 DEF Idle, IsHandler, HandlerFields
  <2>5. PICK b : b = hnd[i].cont
    OBVIOUS
  <2>6. hnd' = [hnd EXCEPT ![i] = [h EXCEPT !.at = IF b THEN "continue" ELSE "reading", !.cont = FALSE]]
    BY <2>1, <2>2, <2>5
  <2> QED  BY <1>4, <2>1, <2>4, <2>6, HandlerAlone, AloneCalm DEF HandlerReads
<1>5. CASE HandlerClosesBody
  <2>1. PICK i \in Ids : /\ hnd[i].at = "run" /\ hnd' = [hnd EXCEPT ![i] = Called(i)]
                         /\ st' = [st EXCEPT ![i].broken = st[i].pipe, ![i].len = 0]
    BY <1>5 DEF HandlerClosesBody, May, Set
  <2>2. Idle(hnd[i], Called(i))
    BY <2>1, MayIs, CalledIs DEF Idle
  <2>3. DOMAIN st = Ids /\ IsStream(st[i])
    BY DEF IInv, StreamInv, IsStream
  <2>4. PICK g : g = [st[i] EXCEPT !.broken = st[i].pipe, !.len = 0]
    OBVIOUS
  <2>5. st' = [st EXCEPT ![i] = g]
    BY <2>1, <2>3, <2>4
  <2>6. IsStream(g) /\ g.state = st[i].state /\ g.cw = st[i].cw
    BY <2>3, <2>4 DEF IsStream, StreamFields
  <2>7. StreamsCalm
    BY <2>5, <2>6, AnyStream
  <2>8. UNCHANGED <<cas, sc, work, zero, sq, want, wr, msgs, net>> /\ (sc.at = "closed" => work' = <<>>)
    BY <1>5 DEF HandlerClosesBody, IInv, ServeInv
  <2>9. HandlersCalm
    BY <2>1, <2>2, HandlerAlone
  <2> QED  BY <2>7, <2>8, <2>9, SameParts, StaysCalm DEF IInv, Calm
<1>6. CASE HandlerPanics
  <2>1. PICK i \in Ids : hnd[i].at = "run" /\ hnd' = [hnd EXCEPT ![i] = [Called(i) EXCEPT !.at = "panic"]]
    BY <1>6 DEF HandlerPanics, May, Set
  <2>2. Idle(hnd[i], [Called(i) EXCEPT !.at = "panic"])
    BY <2>1, MayIs, CalledIs, MovedIdle DEF Idle
  <2> QED  BY <1>6, <2>1, <2>2, HandlerAlone, AloneCalm DEF HandlerPanics
<1>7. CASE HandlerPushes
  <2>1. PICK i \in Ids : hnd[i].at = "run" /\ hnd' = [hnd EXCEPT ![i] = [Called(i) EXCEPT !.at = "push"]]
    BY <1>7 DEF HandlerPushes, May, Set, Ids
  <2>2. Idle(hnd[i], [Called(i) EXCEPT !.at = "push"])
    BY <2>1, MayIs, CalledIs, MovedIdle DEF Idle
  <2> QED  BY <1>7, <2>1, <2>2, HandlerAlone, AloneCalm DEF HandlerPushes
<1> QED  BY <1>1, <1>2, <1>3, <1>4, <1>5, <1>6, <1>7 DEF HandlerCalls

LEMMA DoneCalm == ASSUME IInv, handlerDone  PROVE Calm
<1>1. PICK i \in Ids : hnd[i].at = "run" /\ hnd' = [hnd EXCEPT ![i] = Flush([hnd[i] EXCEPT !.done = TRUE])]
  BY DEF handlerDone, Set
<1>2. PICK h : h = [hnd[i] EXCEPT !.done = TRUE]
  OBVIOUS
<1>3. IsHandler(hnd[i]) /\ ~hnd[i].waits
  BY <1>1, MayIs, HandlerIs
<1>4. IsHandler(h) /\ h.seq = hnd[i].seq /\ h.acked = hnd[i].acked /\ ~h.waits
  BY <1>2, <1>3 DEF IsHandler, HandlerFields
<1>5. Idle(hnd[i], Flush(h))
  BY <1>4, FlushIdle DEF Idle
<1> QED  BY <1>1, <1>2, <1>5, HandlerAlone, AloneCalm DEF handlerDone

LEMMA AwaitCalm == ASSUME IInv, AwaitFrame  PROVE Calm
<1>1. PICK i \in Ids :
       LET h == [hnd[i] EXCEPT !.waits = FALSE, !.res = "none"]
       IN /\ hnd[i].waits /\ h.at # "push"
          /\ \/ /\ hnd[i].res = "ok"
                /\ Set(i, CASE h.at = "header"  -> HeaderSent(h)
                            [] h.at = "data"    -> AfterData([h EXCEPT !.acked = @ + h.n])
                            [] h.at = "trailer" -> Finish(h, TRUE))
             \/ Set(i, Failed(h))
  BY DEF AwaitFrame
<1>2. PICK h : h = [hnd[i] EXCEPT !.waits = FALSE, !.res = "none"]
  OBVIOUS
<1>3. /\ IsHandler(hnd[i]) /\ hnd[i].waits /\ hnd[i].at \in {"header", "data", "trailer", "push"} /\ hnd[i].at # "off"
      /\ hnd[i].acked <= net.data[i] /\ net.data[i] \in Nat
      /\ hnd[i].at = "data" /\ hnd[i].res = "ok" => hnd[i].acked + hnd[i].n <= net.data[i]
  BY <1>1, HandlerIs DEF IInv, HandlerInv
<1>4. IsHandler(h) /\ h.seq = hnd[i].seq /\ h.acked = hnd[i].acked /\ h.n = hnd[i].n /\ h.at = hnd[i].at /\ ~h.waits
  BY <1>2, <1>3 DEF IsHandler, HandlerFields
<1>5. PICK d : d = [h EXCEPT !.acked = @ + h.n]
  OBVIOUS
<1>6. IsHandler(d) /\ d.seq = hnd[i].seq /\ d.acked = hnd[i].acked + hnd[i].n /\ ~d.waits
  BY <1>4, <1>5 DEF IsHandler, HandlerFields
<1>7. PICK g : hnd' = [hnd EXCEPT ![i] = g]
               /\ (g \in {HeaderSent(h), Finish(h, TRUE), Failed(h)}
                   \/ (hnd[i].res = "ok" /\ hnd[i].at = "data" /\ g = AfterData(d)))
  BY <1>1, <1>2, <1>3, <1>4, <1>5 DEF Set
<1>8. HandlersCalm
  <2>1. CASE g \in {HeaderSent(h), Finish(h, TRUE), Failed(h)}
    <3>1. Idle(h, g)
      BY <1>4, <2>1, HeaderSentIdle, FinishIdle, FailedIdle
    <3> QED  BY <1>3, <1>4, <1>7, <3>1, HandlerAlone DEF Idle
  <2>2. CASE hnd[i].res = "ok" /\ hnd[i].at = "data" /\ g = AfterData(d)
    BY <1>6, <2>2, AfterDataIdle, <1>3, <1>7, OneHandler DEF Idle, IsHandler, Calmer
  <2> QED  BY <1>7, <2>1, <2>2
<1> QED  BY <1>8, AloneCalm DEF AwaitFrame

LEMMA PipeCalm == ASSUME IInv, PipeRead  PROVE Calm
<1>1. PICK i \in Ids :
       /\ hnd[i].at = "reading"
       /\ \/ Set(i, [hnd[i] EXCEPT !.at = "run", !.eof = @ \/ (~st[i].broken /\ st[i].err = "eof")]) /\ UNCHANGED st
          \/ /\ st[i].len # 0
             /\ \E n \in {1, st[i].len} :
                  st' = [st EXCEPT ![i].len = @ - n] /\ Set(i, [hnd[i] EXCEPT !.at = "note", !.n = n])
  BY DEF PipeRead
<1>2. /\ UNCHANGED <<cas, sc, work, zero, sq, want, wr, msgs, net>> /\ (sc.at = "closed" => work' = <<>>)
  BY DEF PipeRead, IInv, ServeInv
<1>3. IsHandler(hnd[i]) /\ ~hnd[i].waits /\ DOMAIN st = Ids /\ IsStream(st[i])
  BY <1>1, MayIs, HandlerIs DEF IInv, StreamInv, IsStream
<1>4. CASE Set(i, [hnd[i] EXCEPT !.at = "run", !.eof = @ \/ (~st[i].broken /\ st[i].err = "eof")]) /\ UNCHANGED st
  <2>1. PICK b : b = (~st[i].broken /\ st[i].err = "eof")
    OBVIOUS
  <2>2. PICK g : g = [hnd[i] EXCEPT !.at = "run", !.eof = @ \/ b]
    OBVIOUS
  <2>3. Idle(hnd[i], g)
    BY <1>3, <2>2 DEF Idle, IsHandler, HandlerFields
  <2>4. hnd' = [hnd EXCEPT ![i] = g]
    BY <1>4, <2>1, <2>2 DEF Set
  <2> QED  BY <1>1, <1>2, <1>4, <2>3, <2>4, HandlerAlone, AloneCalm
<1>5. CASE /\ st[i].len # 0
           /\ \E n \in {1, st[i].len} :
                st' = [st EXCEPT ![i].len = @ - n] /\ Set(i, [hnd[i] EXCEPT !.at = "note", !.n = n])
  <2>1. PICK n \in {1, st[i].len} : st' = [st EXCEPT ![i].len = @ - n] /\ hnd' = [hnd EXCEPT ![i] = [hnd[i] EXCEPT !.at = "note", !.n = n]]
    BY <1>5 DEF Set
  <2>2. n \in Nat /\ st[i].len - n \in Nat
    BY <1>3, <1>5, <2>1 DEF IsStream
  <2>3. Idle(hnd[i], [hnd[i] EXCEPT !.at = "note", !.n = n])
    BY <1>3, <2>2 DEF Idle, IsHandler, HandlerFields
  <2>4. PICK g : g = [st[i] EXCEPT !.len = @ - n]
    OBVIOUS
  <2>5. st' = [st EXCEPT ![i] = g]
    BY <2>1, <2>4
  <2>6. IsStream(g) /\ g.state = st[i].state /\ g.cw = st[i].cw
    BY <1>3, <2>2, <2>4 DEF IsStream, StreamFields
  <2>7. StreamsCalm
    BY <2>5, <2>6, AnyStream
  <2>8. HandlersCalm
    BY <1>1, <2>1, <2>3, HandlerAlone
  <2> QED  BY <1>2, <2>7, <2>8, SameParts, StaysCalm DEF IInv, Calm
<1> QED  BY <1>1, <1>4, <1>5

LEMMA NoteCalm == ASSUME IInv, NoteGivesUp  PROVE Calm
<1>1. PICK i \in Ids : hnd[i].at = "note" /\ hnd' = [hnd EXCEPT ![i] = [hnd[i] EXCEPT !.at = "run", !.n = 0]]
  BY DEF NoteGivesUp, Set
<1>2. IsHandler(hnd[i]) /\ ~hnd[i].waits
  BY <1>1, MayIs, HandlerIs
<1>3. Idle(hnd[i], [hnd[i] EXCEPT !.at = "run", !.n = 0])
  BY <1>2 DEF Idle, IsHandler, HandlerFields
<1> QED  BY <1>1, <1>3, HandlerAlone, AloneCalm DEF NoteGivesUp

LEMMA PushReturnsCalm == ASSUME IInv, PushReturns  PROVE Calm
<1>1. PICK i \in Ids : hnd[i].at = "push" /\ hnd' = [hnd EXCEPT ![i] = [hnd[i] EXCEPT !.at = "run", !.waits = FALSE, !.res = "none"]]
  BY DEF PushReturns, Set, Ids
<1>2. IsHandler(hnd[i])
  BY HandlerIs
<1>3. Idle(hnd[i], [hnd[i] EXCEPT !.at = "run", !.waits = FALSE, !.res = "none"])
  BY <1>2 DEF Idle, IsHandler, HandlerFields
<1> QED  BY <1>1, <1>3, HandlerAlone, AloneCalm DEF PushReturns

\* A message that is no push.
LEMMA MessageCalm ==
  ASSUME IInv, NEW m, m.t \in {"settings", "shutdown", "idle", "graceful"}, msgs' = Append(msgs, m), UNCHANGED <<want, zero, sq, wr>>
  PROVE  QueuesCalm
BY Appended DEF IInv, ServeInv, Messages, QueuesCalm

LEMMA QuietCalm ==
  ASSUME IInv, DOMAIN sc' = ConnFields, sc'.flow = sc.flow, sc'.initSend = sc.initSend,
         sc'.maxClient = sc.maxClient, sc'.maxPush = sc.maxPush, sc'.writing = sc.writing, sc'.werr = sc.werr,
         sc'.at = sc.at, UNCHANGED <<cas, work>>
  PROVE  ConnCalm /\ WorkCalm
BY ConnIsCalm, StaysCalm DEF IInv, ServeInv

LEMMA GracefulCalm == ASSUME IInv, startGracefulShutdown  PROVE Calm
<1>1. PICK i \in Ids :
       /\ hnd[i].at = "graceful"
       /\ IF Ended \/ sc.once THEN UNCHANGED <<sc, msgs>>
          ELSE Len(msgs) < ChanCap /\ msgs' = Append(msgs, [t |-> "graceful", id |-> 0, seq |-> 0])
               /\ sc' = [sc EXCEPT !.once = TRUE]
       /\ Set(i, [hnd[i] EXCEPT !.at = "header"])
  BY DEF startGracefulShutdown
<1>2. UNCHANGED <<cas, work, st, zero, sq, want, wr, net>> /\ DOMAIN sc = ConnFields
  BY DEF startGracefulShutdown, IInv, ConnInv
<1>3. HandlersCalm
  BY <1>1, MayIs, HandlerIs, MovedIdle, HandlerAlone DEF Set
<1>4. ConnCalm /\ WorkCalm
  BY <1>1, <1>2, QuietCalm DEF ConnFields
<1>5. QueuesCalm
  BY <1>2, SameParts, MessageCalm, <1>1
<1> QED  BY <1>2, <1>3, <1>4, <1>5, SameParts DEF Calm

LEMMA TimerCalm == ASSUME IInv, TimerFires  PROVE Calm
BY MessageCalm, QuietCalm, SameParts DEF TimerFires, IInv, ConnInv, SendsMessage, ConnFields, Calm

LEMMA ShutdownCalm == ASSUME IInv, Shutdown  PROVE Calm
BY SameParts, MessageCalm, QuietCalm DEF Shutdown, SendsMessage, IInv, ConnInv, ConnFields, Calm

LEMMA LeavesCalm == ASSUME IInv, ClientLeaves  PROVE Calm
BY QuietCalm, SameParts DEF ClientLeaves, IInv, ConnInv, ServeInv, NetCalm, NetFields, Calm

LEMMA WriteTimeoutCalm == ASSUME IInv, WriteTimeout  PROVE Calm
<1>1. PICK i \in Ids, a \in {"fired", "off"} : /\ st' = [st EXCEPT ![i].deadline = a]
                                               /\ (UNCHANGED want \/ want' = Append(want, Wr("RST", i, 0, FALSE, 0)))
  BY DEF WriteTimeout
<1>2. UNCHANGED <<cas, sc, work, zero, sq, wr, msgs, hnd, net>>
  BY DEF WriteTimeout
<1>3. StreamsCalm
  BY <1>1, AnyStream DEF IInv, StreamInv, IsStream, StreamFields
<1>4. QueuesCalm
  <2>1. CASE UNCHANGED want
    BY <1>2, <2>1, SameParts
  <2>2. CASE want' = Append(want, Wr("RST", i, 0, FALSE, 0))
    <3>1. PICK w : w = Wr("RST", i, 0, FALSE, 0)
      OBVIOUS
    <3>2. IsWr(w) /\ w.done = 0
      BY <3>1, PlainFrames
    <3>3. IsSequence(want') /\ Elems(want') = Elems(want) \cup {w}
      BY <2>2, <3>1, Appended DEF IInv, ServeInv
    <3> QED  BY <1>2, <3>2, <3>3 DEF IInv, ServeInv, QueuesCalm
  <2> QED  BY <1>1, <2>1, <2>2
<1>5. ConnCalm /\ WorkCalm
  BY <1>2, QuietCalm DEF IInv, ConnInv
<1> QED  BY <1>2, <1>3, <1>4, <1>5, SameParts DEF Calm

-----------------------------------------------------------------------------
(* Steps that move the frames a handler waits for.                         *)

NewlyWaits(h, g) == g.seq > h.seq /\ g.at \in {"header", "data", "trailer", "push"} /\ g.res = "none"
StillWaits(h, g, d) ==
  /\ h.waits /\ g.seq = h.seq /\ g.at = h.at /\ g.n = h.n /\ g.acked = h.acked
  /\ g.res = h.res \/ (g.res # "none" /\ (g.at = "data" /\ g.res = "ok" => g.acked + g.n <= d))
Mover(h, g, d) ==
  /\ DOMAIN g = HandlerFields /\ g.seq \in Nat /\ g.seq >= h.seq /\ g.n \in Nat /\ g.buf \in Nat /\ g.acked \in Nat /\ g.acked <= d
  /\ g.at = "off" => h.at = "off" /\ g.seq = h.seq /\ ~g.waits
  /\ g.waits => StillWaits(h, g, d) \/ NewlyWaits(h, g)
HandlersMove ==
  /\ DOMAIN hnd' = Ids
  /\ \A i \in Ids : /\ Mover(hnd[i], hnd'[i], net'.data[i])
                    /\ hnd'[i].at # "off" => hnd[i].at # "off" \/ (st'[i].state # "idle" /\ ~Unused(i)')
ConnMoves ==
  /\ cas' = cas /\ DOMAIN sc' = ConnFields /\ sc'.flow \in Int /\ sc'.initSend \in Int
  /\ sc'.maxClient \in Nat /\ sc'.maxClient >= sc.maxClient /\ sc'.maxPush \in Nat /\ sc'.maxPush >= sc.maxPush
  /\ Ended => Ended'
NetMoves ==
  /\ DOMAIN net' = NetFields /\ DOMAIN net'.data = Ids
  /\ \A i \in Ids : net'.data[i] \in Nat /\ net'.data[i] >= net.data[i]
  /\ Lost => Lost'
  /\ \A i \in Ids : Written(i)' \in Nat /\ (Lost' \/ Written(i)' >= Written(i))
Moves ==
  /\ ConnMoves /\ NetMoves /\ StreamsCalm /\ HandlersMove
  /\ \A i \in Ids : Unhooking(i) => Unhooking(i)' \/ Ended' \/ st'[i].cw
  /\ ServeInv' /\ LostInv'

LEMMA MovesConn == ASSUME IInv, Moves  PROVE ConnInv'
BY DEF IInv, ConnInv, Moves, ConnMoves, NetMoves, NetFields

LEMMA MovesUnused == ASSUME IInv, Moves, NEW i \in Ids, ~Unused(i)  PROVE ~Unused(i)'
<1>1. i \in Nat
  BY HTTP2ServerAssumption DEF Ids
<1> QED  BY <1>1 DEF IInv, ConnInv, Moves, ConnMoves, Unused

LEMMA MovesStreams == ASSUME IInv, Moves  PROVE StreamInv'
BY MovesUnused DEF StreamInv, IsStream, Moves, StreamsCalm, IInv, ConnMoves, HandlersMove

LEMMA MovesHandlers == ASSUME IInv, Moves  PROVE HandlerInv'
<1> SUFFICES ASSUME NEW i \in Ids
             PROVE  LET h == hnd'[i]
                    IN /\ DOMAIN h = HandlerFields /\ h.seq \in Nat /\ h.n \in Nat /\ h.buf \in Nat /\ h.acked \in Nat
                       /\ h.at = "off" => ~h.waits /\ h.seq = 0
                       /\ h.waits => h.at \in {"header", "data", "trailer", "push"} /\ h.seq # 0
                       /\ h.acked <= net'.data[i]
                       /\ h.waits /\ h.at = "data" /\ h.res = "ok" => h.acked + h.n <= net'.data[i]
  BY DEF HandlerInv, Moves, HandlersMove
<1> DEFINE h == hnd[i]
           g == hnd'[i]
           d == net.data[i]
           e == net'.data[i]
<1>1. Mover(h, g, e) /\ e \in Nat /\ e >= d
  BY DEF Moves, HandlersMove, NetMoves
<1>2. /\ DOMAIN h = HandlerFields /\ h.seq \in Nat /\ h.n \in Nat /\ h.buf \in Nat /\ h.acked \in Nat
      /\ h.at = "off" => ~h.waits /\ h.seq = 0
      /\ h.waits => h.at \in {"header", "data", "trailer", "push"} /\ h.seq # 0
      /\ h.waits /\ h.at = "data" /\ h.res = "ok" => h.acked + h.n <= d
      /\ d \in Nat
  BY DEF IInv, HandlerInv, ConnInv
<1> HIDE DEF h, g, d, e
<1>3. /\ DOMAIN g = HandlerFields /\ g.seq \in Nat /\ g.n \in Nat /\ g.buf \in Nat /\ g.acked \in Nat /\ g.acked <= e
      /\ g.at = "off" => ~g.waits /\ g.seq = 0
  BY <1>1, <1>2 DEF Mover
<1>4. g.waits => g.at \in {"header", "data", "trailer", "push"} /\ g.seq # 0
  BY <1>1, <1>2 DEF Mover, StillWaits, NewlyWaits
<1>5. g.waits /\ g.at = "data" /\ g.res = "ok" => g.acked + g.n <= e
  BY <1>1, <1>2 DEF Mover, StillWaits, NewlyWaits
<1> QED  BY <1>3, <1>4, <1>5 DEF g, e

\* What was written of a stream, so far and after the step.
LEMMA WrittenIs == ASSUME IInv, NEW i \in Ids  PROVE Written(i) \in Nat /\ Written(i) >= net.data[i]
BY DEF IInv, ConnInv, FrameInv, Pending, IsWr, Written

LEMMA MovesPending ==
  ASSUME IInv, Moves, NEW w, NEW d \in Nat, NEW e \in Nat, Lost' \/ d <= e, Pending(w, d)
  PROVE  Pending(w, e)'
<1>1. CASE w.done = 0
  BY <1>1 DEF Pending, Waited
<1>2. CASE w.done # 0
  <2>1. /\ IsWr(w) /\ w.done \in Nat /\ w.t \in {"HEADERS", "DATA", "PUSH"} /\ (AwaitsData(w) => w.t = "DATA")
        /\ (w.t = "DATA" /\ ~Lost => Covers(w, d + w.n)) /\ (w.t = "DATA" => w.n \in Nat)
        /\ w.id \in Ids /\ w.done <= hnd[w.id].seq
    BY <1>2 DEF Pending, IsWr, Waited
  <2>2. PICK i \in Ids : i = w.id
    BY <2>1
  <2>3. Mover(hnd[i], hnd'[i], net'.data[i]) /\ hnd[i].seq \in Nat /\ hnd[i].acked \in Nat /\ hnd[i].n \in Nat
        /\ (Lost => Lost')
    BY DEF Moves, NetMoves, HandlersMove, IInv, HandlerInv
  <2>4. Waited(w)'
    BY <2>1, <2>2, <2>3 DEF Mover, Waited
  <2>5. AwaitsData(w)' => AwaitsData(w) /\ hnd'[i].acked = hnd[i].acked /\ hnd'[i].n = hnd[i].n
    BY <2>1, <2>2, <2>3 DEF AwaitsData, Mover, StillWaits, NewlyWaits
  <2>6. ASSUME w.t = "DATA", ~Lost'  PROVE Covers(w, e + w.n)'
    BY <2>1, <2>3, <2>6, <2>2, <2>5 DEF Covers
  <2> QED  BY <2>1, <2>4, <2>5, <2>6 DEF Pending
<1> QED  BY <1>1, <1>2

LEMMA MovesAnswer ==
  ASSUME IInv, Moves, NEW w, NEW e, Answer(w, e)
  PROVE  Answer(w, e)'
<1>1. CASE w.done = 0
  BY <1>1 DEF Answer, Waited
<1>2. CASE w.done # 0
  <2>1. w.done \in Nat /\ w.id \in Ids /\ w.done <= hnd[w.id].seq /\ (e = 0 => Covers(w, net.data[w.id]))
    BY <1>2 DEF Answer, Waited
  <2>2. PICK i \in Ids : i = w.id
    BY <2>1
  <2>3. Mover(hnd[i], hnd'[i], net'.data[i]) /\ hnd[i].seq \in Nat /\ hnd[i].acked \in Nat /\ hnd[i].n \in Nat
        /\ net.data[i] \in Nat /\ net'.data[i] \in Nat /\ net'.data[i] >= net.data[i]
    BY DEF Moves, NetMoves, HandlersMove, IInv, HandlerInv, ConnInv
  <2>4. Waited(w)'
    BY <2>1, <2>2, <2>3 DEF Mover, Waited
  <2>5. AwaitsData(w)' => AwaitsData(w) /\ hnd'[i].acked = hnd[i].acked /\ hnd'[i].n = hnd[i].n
    BY <2>1, <2>2, <2>3 DEF AwaitsData, Mover, StillWaits, NewlyWaits
  <2>6. ASSUME e = 0, AwaitsData(w)'  PROVE hnd'[i].acked + hnd'[i].n <= net'.data[i]
    BY <2>1, <2>2, <2>5, <2>6, <2>3 DEF Covers
  <2> QED  BY <2>1, <2>2, <2>4, <2>6 DEF Answer, Covers
<1> QED  BY <1>1, <1>2

\* A frame in a queue, or in the hands of the writer, stays what it was.
LEMMA MovesFrames ==
  ASSUME IInv, Moves, NEW w
  PROVE  /\ \A i \in Ids : Pending(w, Written(i)) => Pending(w, Written(i))'
         /\ Pending(w, Written(w.id)) => Pending(w, Written(w.id))'
         /\ Pending(w, net.data[w.id]) => Pending(w, net.data[w.id])'
BY WrittenIs, MovesPending DEF Moves, NetMoves, Pending, Covers, IInv, ConnInv, Waited

-----------------------------------------------------------------------------
(* Where the frames and the answers go in such a step.                     *)

FramesMove ==
  /\ \A w \in Elems(want') : w \in Elems(want) \/ Pending(w, Written(w.id))'
  /\ \A w \in Elems(zero') : w \in Elems(zero) \/ (IsWr(w) /\ w.done = 0)
  /\ \A i \in Ids : \A w \in Elems(sq'[i]) : w \in Elems(sq[i]) \/ Queued(w, i)'
  /\ \A t \in Elems(work') : \/ t \in Elems(work)
                             \/ t.op = "write" => Pending(t.w, Written(t.w.id))'
  /\ \A t \in Elems(work') : \/ t \in Elems(work)
                             \/ t.op = "reply" => Answer(t.w, t.n)'
  /\ wr' = wr \/ /\ wr'.at = "writing" => Pending(wr.frame, net.data[wr.frame.id])'
                 /\ wr'.at = "written" => Answer(wr.frame, 0)'
                 /\ wr'.at = "failed" => Answer(wr.frame, 1)'
  /\ \A m \in Elems(msgs') : m.t = "push" => m \in Elems(msgs) \/
       /\ m.id \in Ids /\ m.seq \in Nat \ {0} /\ m.seq <= hnd'[m.id].seq
       /\ hnd'[m.id].waits /\ hnd'[m.id].seq = m.seq => hnd'[m.id].at # "data"

LEMMA MovesQueued == ASSUME IInv, Moves, NEW i \in Ids, NEW w, Queued(w, i)  PROVE Queued(w, i)'
BY MovesFrames, HeldUsed DEF Queued, Moves, HandlersMove, IInv, HandlerInv, Held, IsWr, Waited, Mover,
   ConnMoves, StreamsCalm

LEMMA MovesFrameInv == ASSUME IInv, Moves, FramesMove  PROVE FrameInv'
<1>0. FrameInv
  BY DEF IInv
<1>1. \A w \in Elems(want') : Pending(w, Written(w.id))'
  BY <1>0, MovesFrames DEF FrameInv, FramesMove
<1>2. \A w \in Elems(zero') : Pending(w, 0)' /\ w.done = 0
  BY <1>0 DEF Pending, Waited, FrameInv, FramesMove
<1>3. \A i \in Ids : \A w \in Elems(sq'[i]) : Queued(w, i)'
  BY <1>0, MovesQueued DEF FramesMove, FrameInv
<1>4. \A t \in Writes(work') : Pending(t.w, Written(t.w.id))'
  BY <1>0, MovesFrames DEF Writes, FrameInv, FramesMove
<1>5. \A t \in Replies(work') : Answer(t.w, t.n)'
  BY <1>0, MovesAnswer DEF Replies, FrameInv, FramesMove
<1>6. /\ wr'.at = "writing" => Pending(wr.frame, net.data[wr.frame.id])'
      /\ wr'.at = "written" => Answer(wr.frame, 0)'
      /\ wr'.at = "failed" => Answer(wr.frame, 1)'
  <2>1. CASE wr' = wr
    BY <1>0, <2>1, MovesFrames, MovesAnswer DEF FrameInv, Pending, Covers, Answer
  <2> QED  BY <2>1 DEF FramesMove
<1>7. \A m \in Elems(msgs') : m.t = "push" => /\ m.id \in Ids /\ m.seq \in Nat \ {0} /\ m.seq <= hnd'[m.id].seq
                                              /\ hnd'[m.id].waits /\ hnd'[m.id].seq = m.seq => hnd'[m.id].at # "data"
  BY <1>0 DEF FramesMove, FrameInv, Moves, HandlersMove, IInv, HandlerInv, Mover, StillWaits, NewlyWaits
<1> QED  BY <1>1, <1>2, <1>3, <1>4, <1>5, <1>6, <1>7 DEF FrameInv

\* The handler that waits for w is told, or will be.
Found(w) ==
  w.done # 0 /\ w.id \in Ids /\ hnd[w.id].waits /\ hnd[w.id].seq = w.done =>
    hnd[w.id].res # "none" \/ st[w.id].cw \/ Ended \/ Unhooking(w.id) \/ Carried(w.id, w.done)
Passes ==
  /\ \A w \in Elems(want) : w \in Elems(want') \/ Found(w)'
  /\ \A m \in Elems(msgs) : m.t = "push" => \/ m \in Elems(msgs')
                                            \/ \E w : w.id = m.id /\ w.done = m.seq /\ Found(w)'
  /\ \A i \in Ids : \A w \in Elems(sq[i]) : w \in Elems(sq'[i]) \/ Found(w)'
  /\ \A t \in Elems(work) : t.op \in {"write", "reply"} => t \in Elems(work') \/ Found(t.w)'
  /\ \A w : w = wr.frame => wr'.frame = w \/ Found(w)'
  /\ \A i \in Ids : hnd'[i].waits /\ hnd'[i].seq # hnd[i].seq => Carried(i, hnd[i].seq)'

LEMMA MovesWait == ASSUME IInv, Moves, Passes  PROVE WaitInv'
<1> SUFFICES ASSUME NEW i \in Ids, hnd'[i].waits
             PROVE  hnd'[i].res # "none" \/ st'[i].cw \/ Ended' \/ Unhooking(i)' \/ Carried(i, hnd[i].seq)'
  BY DEF WaitInv
<1> DEFINE Told == hnd'[i].res # "none" \/ st'[i].cw \/ Ended' \/ Unhooking(i)' \/ Carried(i, hnd[i].seq)'
<1>1. Mover(hnd[i], hnd'[i], net'.data[i])
  BY DEF Moves, HandlersMove
<1>2. CASE NewlyWaits(hnd[i], hnd'[i])
  <2>1. hnd'[i].seq # hnd[i].seq
    BY <1>2 DEF NewlyWaits, IInv, HandlerInv
  <2> QED  BY <2>1 DEF Passes
<1>3. CASE StillWaits(hnd[i], hnd'[i], net'.data[i])
  <2>1. PICK s : s = hnd[i].seq
    OBVIOUS
  <2>2. hnd[i].waits /\ hnd'[i].seq = s /\ s # 0 /\ hnd[i].at # "off"
    BY <1>3, <2>1 DEF StillWaits, IInv, HandlerInv
  <2>3. hnd[i].res # "none" \/ st[i].cw \/ Ended \/ Unhooking(i) \/ Carried(i, s)
    BY <2>1, <2>2 DEF IInv, WaitInv
  <2>4. hnd[i].res # "none" => hnd'[i].res # "none"
    BY <1>3 DEF StillWaits
  <2>5. st[i].cw => st'[i].cw
    BY <2>2 DEF IInv, StreamInv, Moves, StreamsCalm
  <2>6. Ended \/ Unhooking(i) => Ended' \/ Unhooking(i)' \/ st'[i].cw
    BY DEF Moves, ConnMoves
  <2>7. Carried(i, s)' => Carried(i, hnd[i].seq)'
    BY <2>2 DEF Carried, Is
  <2>8. ASSUME NEW w, Found(w)', w.id = i, w.done = s  PROVE Told
    BY <2>2, <2>7, <2>8 DEF Found, Carried, Is
  <2>9. ASSUME Carried(i, s)  PROVE Told
    BY <2>7, <2>8, <2>9 DEF Passes, Carried, Is, Writes, Replies
  <2> QED  BY <2>3, <2>4, <2>5, <2>6, <2>9
<1> QED  BY <1>1, <1>2, <1>3 DEF Mover

LEMMA MovesKeep == ASSUME IInv, Moves, FramesMove, Passes  PROVE IInv'
BY MovesConn, MovesStreams, MovesHandlers, MovesFrameInv, MovesWait DEF IInv, Moves

-----------------------------------------------------------------------------
(* How the parts of such a step are found.                                 *)

LEMMA SameMoves ==
  ASSUME IInv
  PROVE  /\ UNCHANGED <<cas, sc>> => ConnMoves
         /\ UNCHANGED hnd /\ NetMoves => HandlersMove
         /\ UNCHANGED <<net, wr>> /\ sc'.werr = sc.werr => NetMoves
<1>1. ASSUME UNCHANGED <<cas, sc>>  PROVE ConnMoves
  BY <1>1 DEF IInv, ConnInv, ConnMoves, Ended
<1>2. ASSUME UNCHANGED hnd, NetMoves  PROVE HandlersMove
  BY HandlerIs, <1>2 DEF IInv, HandlerInv, NetMoves, Mover, StillWaits, IsHandler, HandlersMove
<1>3. ASSUME UNCHANGED <<net, wr>>, sc'.werr = sc.werr  PROVE NetMoves
  BY WrittenIs, <1>3 DEF Written, Lost, IInv, ConnInv, NetMoves, NetFields
<1> QED  BY <1>1, <1>2, <1>3

\* The queues and the calls are sequences, and the writer and the network agree with the connection.
WorkIs == /\ IsSequence(work') /\ AtMostOne(Loops(work')) /\ (Loops(work') # {} => ~sc'.writing)
          /\ Ended' => NoEndStream(work')
QueuesAre ==
  /\ IsSequence(want') /\ Messages(msgs') /\ IsSequence(zero')
  /\ DOMAIN sq' = Ids /\ \A i \in Ids : IsSequence(sq'[i])

LEMMA ServeIs ==
  ASSUME IInv, WorkIs, QueuesAre, sc'.at = sc.at, sc'.writing = sc.writing, sc'.werr = sc.werr,
         sc.at = "closed" => work' = <<>>, UNCHANGED <<net, wr>>
  PROVE  ServeInv' /\ LostInv'
BY DEF IInv, ServeInv, WorkIs, QueuesAre, LostInv, Lost

LEMMA StaysIs == ASSUME IInv, UNCHANGED <<work, sc>>  PROVE WorkIs /\ (sc.at = "closed" => work' = <<>>)
BY DEF IInv, ServeInv, WorkIs, Ended

\* A handler that begins to wait.
LEMMA BeginsToWait ==
  ASSUME IInv, NEW i \in Ids, hnd[i].at \in {"header", "data", "trailer", "push"}, ~hnd[i].waits,
         hnd' = [hnd EXCEPT ![i] = [hnd[i] EXCEPT !.waits = TRUE, !.seq = @ + 1, !.res = "none"]],
         UNCHANGED <<cas, sc, work, st, zero, sq, wr, net>>, IsSequence(want'), Messages(msgs')
  PROVE  /\ Moves
         /\ hnd'[i].waits /\ hnd'[i].seq = hnd[i].seq + 1 /\ hnd'[i].at = hnd[i].at /\ hnd'[i].n = hnd[i].n /\ hnd'[i].acked = hnd[i].acked
         /\ \A j \in Ids : j # i => hnd'[j] = hnd[j]
<1>1. PICK g : g = [hnd[i] EXCEPT !.waits = TRUE, !.seq = @ + 1, !.res = "none"]
  OBVIOUS
<1>2. IsHandler(hnd[i]) /\ DOMAIN hnd = Ids
  BY HandlerIs
<1>3. /\ IsHandler(g) /\ g.waits /\ g.seq = hnd[i].seq + 1 /\ g.at = hnd[i].at /\ g.n = hnd[i].n /\ g.acked = hnd[i].acked
      /\ g.res = "none"
  BY <1>1, <1>2 DEF IsHandler, HandlerFields
<1>4. DOMAIN hnd' = Ids /\ hnd'[i] = g /\ \A j \in Ids : j # i => hnd'[j] = hnd[j]
  BY <1>1, <1>2
<1>5. ConnMoves /\ NetMoves /\ StreamsCalm
  BY SameMoves, SameParts
<1>6. HandlersMove
  BY HandlerIs, <1>2, <1>3, <1>4 DEF Mover, NewlyWaits, IsHandler, IInv, HandlerInv, StillWaits, HandlersMove
<1>7. ServeInv' /\ LostInv'
  <2>1. QueuesAre
    BY DEF IInv, ServeInv, QueuesAre
  <2> QED  BY <2>1, StaysIs, ServeIs
<1>8. \A j \in Ids : Unhooking(j) => Unhooking(j)'
  BY DEF Unhooking
<1> QED  BY <1>3, <1>4, <1>5, <1>6, <1>7, <1>8 DEF Moves

LEMMA HandlerSends == ASSUME IInv, writeFrameFromHandler  PROVE IInv'
<1>1. PICK i \in Ids :
       /\ hnd[i].at \in {"header", "data", "trailer", "continue", "panic"} /\ ~hnd[i].waits
       /\ LET h == hnd[i]
              f == Sends(h)
          IN \/ /\ Ended /\ UNCHANGED want
                /\ Set(i, IF h.at \in {"continue", "panic"} THEN Sent(h) ELSE Failed(h))
             \/ /\ Len(want) < ChanCap
                /\ want' = Append(want, Wr(f.t, i, f.n, f.end, IF f.waits THEN h.seq + 1 ELSE 0))
                /\ Set(i, IF f.waits THEN [h EXCEPT !.waits = TRUE, !.seq = @ + 1, !.res = "none"] ELSE Sent(h))
  BY DEF writeFrameFromHandler
<1>2. UNCHANGED <<cas, sc, work, st, zero, sq, wr, msgs, net>>
  BY DEF writeFrameFromHandler
<1>3. IsHandler(hnd[i]) /\ hnd[i].at # "off" /\ hnd[i].acked <= net.data[i]
  BY <1>1, HandlerIs
<1>4. hnd[i].at \in {"header", "continue", "panic"} => Idle(hnd[i], Sent(hnd[i]))
  BY <1>3, HeaderSentIdle, <1>1, MovedIdle DEF Sent, Idle, IsHandler, HandlerFields
<1>5. CASE Ended /\ UNCHANGED want /\ Set(i, IF hnd[i].at \in {"continue", "panic"} THEN Sent(hnd[i]) ELSE Failed(hnd[i]))
  BY <1>3, <1>4, FailedIdle, <1>5, HandlerAlone, <1>2, AloneCalm, CalmKeeps DEF Set
<1>6. PICK w : w = Wr(Sends(hnd[i]).t, i, Sends(hnd[i]).n, Sends(hnd[i]).end, IF Sends(hnd[i]).waits THEN hnd[i].seq + 1 ELSE 0)
  OBVIOUS
<1>7. CASE ~Sends(hnd[i]).waits /\ want' = Append(want, w) /\ Set(i, Sent(hnd[i]))
  <2>1. hnd[i].at \in {"header", "continue", "panic"} /\ Sends(hnd[i]).t # "DATA"
    BY <1>1, <1>7 DEF Sends
  <2>2. IsWr(w) /\ w.done = 0
    BY <1>6, <1>7, <2>1, PlainFrames
  <2>3. IsSequence(want') /\ Elems(want') = Elems(want) \cup {w}
    BY <1>7, Appended DEF IInv, ServeInv
  <2>4. QueuesCalm
    BY <1>2, <2>2, <2>3 DEF IInv, ServeInv, QueuesCalm
  <2>5. HandlersCalm
    BY <1>3, <1>4, <1>7, <2>1, HandlerAlone DEF Set
  <2>6. ConnCalm /\ WorkCalm
    BY <1>2, QuietCalm DEF IInv, ConnInv
  <2> QED  BY <1>2, <2>4, <2>5, <2>6, SameParts, CalmKeeps DEF Calm
<1>8. CASE /\ Sends(hnd[i]).waits /\ want' = Append(want, w)
           /\ Set(i, [hnd[i] EXCEPT !.waits = TRUE, !.seq = @ + 1, !.res = "none"])
  <2>1. /\ hnd[i].at \in {"header", "data", "trailer"} /\ Sends(hnd[i]).t \in {"HEADERS", "DATA"}
        /\ hnd[i].at = "data" <=> Sends(hnd[i]).t = "DATA"
        /\ hnd[i].at = "data" => Sends(hnd[i]).n = hnd[i].n
    BY <1>1, <1>8 DEF Sends
  <2>2. /\ DOMAIN w = WrFields /\ w.t \in {"HEADERS", "DATA"} /\ w.done = hnd[i].seq + 1 /\ w.id = i
        /\ hnd[i].at = "data" <=> w.t = "DATA"
        /\ hnd[i].at = "data" => w.n = hnd[i].n
    BY <1>6, <1>8, <2>1 DEF Wr, WrFields
  <2>3. IsSequence(want') /\ Elems(want') = Elems(want) \cup {w}
    BY <1>8, Appended DEF IInv, ServeInv
  <2>4. Messages(msgs')
    BY <1>2 DEF IInv, ServeInv
  <2>5. /\ Moves
        /\ hnd'[i].waits /\ hnd'[i].seq = hnd[i].seq + 1 /\ hnd'[i].at = hnd[i].at /\ hnd'[i].n = hnd[i].n /\ hnd'[i].acked = hnd[i].acked
        /\ \A j \in Ids : j # i => hnd'[j] = hnd[j]
    BY <1>1, <1>2, <1>8, <2>1, <2>3, <2>4, BeginsToWait DEF Set
  <2>6. Pending(w, Written(w.id))'
    BY <1>3, <2>2, <2>5, <1>2, WrittenIs, HandlerIs DEF IsHandler, IsWr, Waited, AwaitsData, Written, Pending,
       Covers
  <2>7. FramesMove
    BY <1>2, <2>3, <2>6 DEF FramesMove
  <2>8. Carried(i, hnd[i].seq)'
    BY <2>2, <2>3, <2>5 DEF Carried, Is
  <2>9. Passes
    BY <1>2, <2>3, <2>5, <2>8 DEF Passes
  <2> QED  BY <2>5, <2>7, <2>9, MovesKeep
<1> QED  BY <1>1, <1>5, <1>6, <1>7, <1>8

LEMMA Pushing == ASSUME IInv, PushSends  PROVE IInv'
<1>1. PICK i \in Ids :
       /\ hnd[i].at = "push" /\ ~hnd[i].waits
       /\ \/ /\ Len(msgs) < ChanCap /\ msgs' = Append(msgs, [t |-> "push", id |-> i, seq |-> hnd[i].seq + 1])
             /\ Set(i, [hnd[i] EXCEPT !.waits = TRUE, !.seq = @ + 1, !.res = "none"])
          \/ (Ended \/ st[i].cw) /\ Set(i, [hnd[i] EXCEPT !.at = "run"]) /\ UNCHANGED msgs
  BY DEF PushSends, Ids
<1>2. UNCHANGED <<cas, sc, work, st, zero, sq, want, wr, net>>
  BY DEF PushSends
<1>3. IsHandler(hnd[i]) /\ hnd[i].at # "off"
  BY <1>1, HandlerIs
<1>4. CASE Set(i, [hnd[i] EXCEPT !.at = "run"]) /\ UNCHANGED msgs
  BY <1>1, <1>3, MovedIdle, <1>4, HandlerAlone, <1>2, AloneCalm, CalmKeeps DEF Set
<1>5. CASE /\ msgs' = Append(msgs, [t |-> "push", id |-> i, seq |-> hnd[i].seq + 1])
           /\ Set(i, [hnd[i] EXCEPT !.waits = TRUE, !.seq = @ + 1, !.res = "none"])
  <2>1. PICK m : m = [t |-> "push", id |-> i, seq |-> hnd[i].seq + 1]
    OBVIOUS
  <2>2. m.t = "push" /\ m.id = i /\ m.seq = hnd[i].seq + 1
    BY <2>1
  <2>3. Messages(msgs') /\ Elems(msgs') = Elems(msgs) \cup {m}
    BY <1>5, <2>1, <2>2, Appended DEF IInv, ServeInv, Messages
  <2>4. IsSequence(want')
    BY <1>2 DEF IInv, ServeInv
  <2>5. /\ Moves
        /\ hnd'[i].waits /\ hnd'[i].seq = hnd[i].seq + 1 /\ hnd'[i].at = hnd[i].at
        /\ \A j \in Ids : j # i => hnd'[j] = hnd[j]
    BY <1>1, <1>2, <1>5, <2>3, <2>4, BeginsToWait DEF Set
  <2>6. hnd[i].seq + 1 \in Nat \ {0}
    BY <1>3 DEF IsHandler
  <2>7. /\ m.id \in Ids /\ m.seq \in Nat \ {0} /\ m.seq <= hnd'[m.id].seq
        /\ hnd'[m.id].waits /\ hnd'[m.id].seq = m.seq => hnd'[m.id].at # "data"
    BY <1>1, <2>2, <2>5, <2>6
  <2>8. FramesMove
    BY <1>2, <2>3, <2>7 DEF FramesMove
  <2>9. Carried(i, hnd[i].seq)'
    BY <2>2, <2>3, <2>5 DEF Carried
  <2>10. Passes
    BY <1>2, <2>3, <2>5, <2>9 DEF Passes
  <2> QED  BY <2>5, <2>8, <2>10, MovesKeep
<1> QED  BY <1>1, <1>4, <1>5

-----------------------------------------------------------------------------
(* serve receives a frame or a push from a handler.                        *)

LEMMA EventIs ==
  ASSUME IInv, Serving, sc'.at = sc.at, NEW calls, IsSequence(calls), AtMostOne(Loops(calls)), Loops(calls) = {} \/ ~sc'.writing, Event(calls)
  PROVE  /\ WorkIs /\ Elems(work') = Elems(calls) \cup {AfterEvent} /\ Elems(work) = {} /\ \A i : ~Unhooking(i)
         /\ AfterEvent.op = "after" /\ sc.at = "serving"
<1>1. IsSequence(<<AfterEvent>>) /\ Loops(<<AfterEvent>>) = {} /\ Elems(<<AfterEvent>>) = {AfterEvent} /\ AfterEvent.op = "after"
  <2>1. AfterEvent.op = "after"
    BY DEF AfterEvent, Task
  <2> QED  BY <2>1, ShortSequences
<1>2. PICK z : z = calls \o <<AfterEvent>>
  OBVIOUS
<1>3. IsSequence(z) /\ Elems(z) = Elems(calls) \cup {AfterEvent} /\ AtMostOne(Loops(z))
      /\ (Loops(calls) = {} => Loops(z) = {})
  BY <1>1, <1>2, Joined
<1>4. work' = z
  BY <1>2 DEF Event
<1>5. Elems(work) = {} /\ \A i : ~Unhooking(i)
  BY ShortSequences DEF Serving, Unhooking
<1>6. ~Ended'
  BY DEF Serving, Ended
<1> QED  BY <1>1, <1>3, <1>4, <1>5, <1>6 DEF WorkIs, Serving

LEMMA QueuesStay == ASSUME IInv  PROVE UNCHANGED <<want, msgs, zero, sq>> => QueuesAre
BY DEF IInv, ServeInv, QueuesAre

\* A single call, of writeFrame or of replyToWriter.
LEMMA OneCall ==
  /\ \A w : Write(w).op = "write" /\ Write(w).w = w /\ Loops(<<Write(w)>>) = {}
  /\ \A w, e : Reply(w, e).op = "reply" /\ Reply(w, e).w = w /\ Reply(w, e).n = e /\ Loops(<<Reply(w, e)>>) = {}
BY ShortSequences DEF Write, Task, Reply

LEMMA ReceivesFrame == ASSUME IInv, RecvWantWrite  PROVE IInv'
<1>1. PICK w : w = Head(want)
  OBVIOUS
<1>2. /\ Serving /\ want # <<>> /\ want' = Tail(want) /\ UNCHANGED <<cas, sc, st, zero, sq, wr, msgs, hnd, net>>
      /\ Event(IF w.t = "RST" THEN ResetStream(w.id) ELSE <<Write(w)>>)
  BY <1>1 DEF RecvWantWrite
<1>3. IsSequence(want') /\ Elems(want) = {w} \cup Elems(want')
  BY <1>1, <1>2, Shorter DEF IInv, ServeInv
<1>4. Pending(w, Written(w.id))
  BY <1>3 DEF IInv, FrameInv
<1>5. CASE w.t = "RST"
  BY <1>4, <1>5, <1>2, <1>3, SimpleCalls, SameConn, SameParts, EventIsCalm, CalmKeeps DEF Pending, IInv,
     ServeInv, QueuesCalm, Calls
<1>6. CASE w.t # "RST"
  <2>1. Event(<<Write(w)>>) /\ IsSequence(<<Write(w)>>) /\ Elems(<<Write(w)>>) = {Write(w)} /\ Loops(<<Write(w)>>) = {}
        /\ AtMostOne({})
    BY <1>2, <1>6, ShortSequences, OneCall DEF AtMostOne
  <2>2. WorkIs /\ Elems(work') = {Write(w), AfterEvent} /\ Elems(work) = {} /\ (\A i : ~Unhooking(i))
        /\ AfterEvent.op = "after" /\ sc.at = "serving"
    BY <1>2, <2>1, EventIs
  <2>3. QueuesAre
    BY <1>2, <1>3 DEF IInv, ServeInv, QueuesAre
  <2>4. Moves
    BY <1>2, <2>2, <2>3, ServeIs, SameMoves, SameParts DEF Moves
  <2>5. Pending(w, Written(w.id))'
    BY <1>4, <2>4, MovesFrames
  <2>6. FramesMove
    BY <2>2, OneCall, <2>5, <1>2, <1>3 DEF Pending, Covers, FramesMove
  <2>7. Found(w)'
    BY <2>2, OneCall DEF Writes, Carried, Is, Found
  <2>8. Passes
    BY <1>2, <1>3, <2>2, <2>7 DEF Passes
  <2> QED  BY <2>4, <2>6, <2>8, MovesKeep
<1> QED  BY <1>5, <1>6

LEMMA ReceivesMessage == ASSUME IInv, RecvMessage  PROVE IInv'
<1>1. PICK m : m = Head(msgs)
  OBVIOUS
<1>2. PICK w : w = Wr("PUSH", m.id, 0, FALSE, m.seq)
  OBVIOUS
<1>3. Serving /\ msgs # <<>> /\ msgs' = Tail(msgs) /\ UNCHANGED <<cas, st, zero, sq, want, wr, hnd, net>> /\ DOMAIN sc = ConnFields
  BY DEF RecvMessage, IInv, ConnInv
<1>4. Messages(msgs') /\ Elems(msgs) = {m} \cup Elems(msgs') /\ m.t \in {"settings", "shutdown", "idle", "graceful", "push"}
  BY <1>1, <1>3, Shorter DEF IInv, ServeInv, Messages
<1>5. ASSUME m.t # "push"  PROVE QueuesCalm
  BY <1>3, <1>4, <1>5 DEF IInv, ServeInv, QueuesCalm
<1>6. CASE m.t \in {"settings", "shutdown"}
  BY <1>1, <1>6, <1>5, <1>3, ExitsCalm, SameParts, CalmKeeps DEF RecvMessage, Calm, Serving
<1>7. CASE m.t \in {"idle", "graceful"}
  BY <1>1, <1>7, <1>5, SimpleCalls, <1>3, SameConn, SameParts, EventIsCalm, CalmKeeps DEF RecvMessage, Calls
<1>8. CASE m.t = "push"
  <2>1. UNCHANGED sc /\ Event(IF st[m.id].state \in {"open", "hcr"} /\ sc.push THEN <<Write(w)>> ELSE <<Reply(w, 1)>>)
    BY <1>1, <1>2, <1>8 DEF RecvMessage
  <2>2. PICK t : t \in {Write(w), Reply(w, 1)} /\ Event(<<t>>)
    BY <2>1
  <2>3. t.op \in {"write", "reply"} /\ t.w = w /\ (t.op = "reply" => t.n = 1)
    BY <2>2, OneCall
  <2>4. IsSequence(<<t>>) /\ Elems(<<t>>) = {t} /\ Loops(<<t>>) = {} /\ AtMostOne({})
    BY <2>3, ShortSequences DEF AtMostOne
  <2>5. WorkIs /\ Elems(work') = {t, AfterEvent} /\ Elems(work) = {} /\ (\A i : ~Unhooking(i))
        /\ AfterEvent.op = "after" /\ sc.at = "serving"
    BY <1>3, <2>1, <2>2, <2>4, EventIs
  <2>6. QueuesAre
    BY <1>3, <1>4 DEF IInv, ServeInv, QueuesAre
  <2>7. Moves
    BY <1>3, <2>1, <2>5, <2>6, ServeIs, SameMoves, SameParts DEF Moves
  <2>8. /\ m.id \in Ids /\ m.seq \in Nat \ {0} /\ m.seq <= hnd[m.id].seq
        /\ hnd[m.id].waits /\ hnd[m.id].seq = m.seq => hnd[m.id].at # "data"
    BY <1>4, <1>8 DEF IInv, FrameInv
  <2>9. DOMAIN w = WrFields /\ w.t = "PUSH" /\ w.id = m.id /\ w.done = m.seq
    BY <1>2 DEF Wr, WrFields
  <2>10. Pending(w, Written(w.id))' /\ Answer(w, 1)'
    BY <1>3, <2>8, <2>9 DEF IsWr, Waited, AwaitsData, Pending, Covers, Answer
  <2>11. FramesMove
    BY <2>3, <2>5, <2>10, <1>3, <1>4 DEF Pending, Covers, Answer, FramesMove
  <2>12. Found(w)'
    BY <2>3, <2>5 DEF Writes, Replies, Carried, Is, Found
  <2>13. Passes
    BY <1>3, <1>4, <2>5, <2>9, <2>12 DEF Passes
  <2> QED  BY <2>7, <2>11, <2>13, MovesKeep
<1> QED  BY <1>4, <1>6, <1>7, <1>8

LEMMA WritesAFrame == ASSUME IInv, writeFrame  PROVE IInv'
<1>1. PICK w : w = Top.w
  OBVIOUS
<1>2. PICK ignored : ignored <=> \/ w.id # 0 /\ StateOf(w.id) = "closed" /\ w.t # "RST"
                                 \/ w.t = "CONTINUE" /\ st[w.id].wroteHeaders
  OBVIOUS
<1>3. /\ work # <<>> /\ Top.op = "write" /\ UNCHANGED <<cas, want, wr, msgs, hnd, net>> /\ Then(Schedule)
      /\ IF w.t = "HEADERS" THEN st' = [st EXCEPT ![w.id].wroteHeaders = TRUE] ELSE UNCHANGED st
      /\ IF ignored THEN UNCHANGED <<sc, zero, sq>>
         ELSE /\ sc' = [sc EXCEPT !.queued = IF Attached(w) THEN @ ELSE @ + 1]
              /\ IF w.id = 0 THEN zero' = Append(zero, w) /\ UNCHANGED sq
                 ELSE sq' = [sq EXCEPT ![w.id] = Append(@, w)] /\ UNCHANGED zero
  BY <1>1, <1>2 DEF writeFrame, Running, Top
<1>4. DOMAIN sc = ConnFields /\ sc.at # "closed"
  BY <1>3, OpenAt DEF IInv, ConnInv
<1>5. /\ DOMAIN sc' = ConnFields /\ sc'.at = sc.at /\ sc'.flow = sc.flow /\ sc'.initSend = sc.initSend /\ sc'.maxClient = sc.maxClient
      /\ sc'.maxPush = sc.maxPush /\ sc'.writing = sc.writing /\ sc'.werr = sc.werr
  BY <1>3, <1>4 DEF ConnFields
<1>6. Elems(work) = {Top} \cup Elems(Tail(work)) /\ IsSequence(Tail(work)) /\ Pending(w, Written(w.id))
  BY <1>3, Shorter, <1>1 DEF IInv, ServeInv, Top, FrameInv, Writes
<1>7. /\ WorkIs /\ Elems(work') = Elems(Schedule) \cup Elems(Tail(work))
      /\ \A t \in Elems(Schedule) : t.op = "loop"
  <2>1. /\ IsSequence(Schedule) /\ AtMostOne(Loops(Schedule)) /\ Schedule \in {<<>>, <<Loop>>}
        /\ Schedule = <<>> \/ (~sc.writing /\ Loops(work) = {})
    BY ScheduleIs DEF IInv, Schedule
  <2>2. \A t \in Elems(Schedule) : t.op = "loop"
    BY <2>1, ShortSequences DEF Loop, Task
  <2>3. /\ AtMostOne(Loops(Tail(work))) /\ (Loops(work) = {} => Loops(Tail(work)) = {})
        /\ (Loops(work) # {} => ~sc.writing)
    BY <1>3, Shorter DEF IInv, ServeInv
  <2>4. Loops(Schedule) = {} \/ (~sc.writing /\ Loops(Tail(work)) = {})
    BY <2>1, <2>3, ShortSequences
  <2>5. PICK p, z : p = Tail(work) /\ z = Schedule \o p
    OBVIOUS
  <2>6. IsSequence(z) /\ Elems(z) = Elems(Schedule) \cup Elems(p) /\ AtMostOne(Loops(z))
        /\ (Loops(Schedule) = {} /\ Loops(p) = {} => Loops(z) = {})
    BY <1>6, <2>1, <2>3, <2>4, <2>5, Joined
  <2>7. work' = z
    BY <1>3, <2>5 DEF Then
  <2>8. Loops(z) # {} => ~sc.writing
    BY <2>3, <2>4, <2>5, <2>6
  <2>9. Ended' => NoEndStream(z)
    BY <1>5, <1>6, <2>2, <2>5, <2>6 DEF IInv, ServeInv, NoEndStream, Ended
  <2> QED  BY <1>5, <2>2, <2>5, <2>6, <2>7, <2>8, <2>9 DEF WorkIs
<1>8. StreamsCalm
  <2>1. CASE w.t = "HEADERS"
    <3>1. DOMAIN st = Ids /\ \A j \in Ids : IsStream(st[j])
      BY DEF IInv, StreamInv, IsStream
    <3>2. PICK g : g = [st[w.id] EXCEPT !.wroteHeaders = TRUE]
      OBVIOUS
    <3>3. st' = [st EXCEPT ![w.id] = g]
      BY <1>3, <2>1, <3>2
    <3>4. w.id \in Ids => IsStream(g) /\ g.state = st[w.id].state /\ g.cw = st[w.id].cw
      BY <3>1, <3>2 DEF IsStream, StreamFields
    <3> QED  BY <3>3, <3>4, AnyStream
  <2> QED  BY <1>3, <2>1, SameParts
<1>9. /\ QueuesAre /\ \A i \in Ids : Elems(sq[i]) \subseteq Elems(sq'[i])
      /\ ignored => Elems(zero') = Elems(zero) /\ \A i \in Ids : Elems(sq'[i]) = Elems(sq[i])
      /\ ~ignored /\ w.id = 0 => Elems(zero') = Elems(zero) \cup {w} /\ \A i \in Ids : Elems(sq'[i]) = Elems(sq[i])
      /\ ~ignored /\ w.id # 0 =>
           /\ Elems(zero') = Elems(zero)
           /\ \A i \in Ids : Elems(sq'[i]) = IF i = w.id THEN Elems(sq[i]) \cup {w} ELSE Elems(sq[i])
  <2>1. CASE ignored
    BY <1>3, <2>1, QueuesStay
  <2>2. CASE ~ignored /\ w.id = 0
    <3>1. zero' = Append(zero, w) /\ IsSequence(zero)
      BY <1>3, <2>2 DEF IInv, ServeInv
    <3>2. IsSequence(zero') /\ Elems(zero') = Elems(zero) \cup {w}
      BY <3>1, Appended
    <3> QED  BY <1>3, <2>2, <3>2 DEF IInv, ServeInv, QueuesAre
  <2>3. CASE ~ignored /\ w.id # 0
    <3>1. DOMAIN sq = Ids /\ \A i \in Ids : IsSequence(sq[i])
      BY DEF IInv, ServeInv
    <3>2. DOMAIN sq' = Ids /\ \A i \in Ids : sq'[i] = IF i = w.id THEN Append(sq[i], w) ELSE sq[i]
      BY <1>3, <2>3, <3>1
    <3>3. \A i \in Ids : IsSequence(sq'[i]) /\ Elems(sq'[i]) = IF i = w.id THEN Elems(sq[i]) \cup {w} ELSE Elems(sq[i])
      <4> SUFFICES ASSUME NEW i \in Ids
                   PROVE  IsSequence(sq'[i]) /\ Elems(sq'[i]) = IF i = w.id THEN Elems(sq[i]) \cup {w} ELSE Elems(sq[i])
        OBVIOUS
      <4>1. PICK p, q : p = sq[i] /\ q = sq'[i]
        OBVIOUS
      <4>2. IsSequence(p) /\ q = IF i = w.id THEN Append(p, w) ELSE p
        BY <3>1, <3>2, <4>1
      <4>3. IsSequence(q) /\ Elems(q) = IF i = w.id THEN Elems(p) \cup {w} ELSE Elems(p)
        BY <4>2, Appended
      <4> QED  BY <4>1, <4>3
    <3> QED  BY <1>3, <2>3, <3>2, <3>3 DEF IInv, ServeInv, QueuesAre
  <2> QED  BY <2>1, <2>2, <2>3
<1>10. Moves
  BY <1>3, <1>4, <1>5, <1>7, <1>9, ServeIs, SameMoves, <1>6, <1>8 DEF ConnMoves, IInv, ConnInv, Ended,
     Unhooking, Moves
<1>11. FramesMove
  <2>1. Pending(w, Written(w.id))'
    BY <1>6, <1>10, MovesFrames
  <2>2. w.id = 0 => IsWr(w) /\ w.done = 0
    <3>1. 0 \notin Ids
      BY HTTP2ServerAssumption DEF Ids
    <3> QED  BY <1>6, <3>1 DEF Pending, Waited
  <2>3. \A i \in Ids : \A x \in Elems(sq'[i]) : x \in Elems(sq[i]) \/ Queued(x, i)'
    BY <2>1, <1>9 DEF Queued, Pending, Covers
  <2>4. \A t \in Elems(work') : t \in Elems(work) \/ t.op = "loop"
    BY <1>6, <1>7
  <2> QED  BY <1>3, <1>9, <2>2, <2>3, <2>4 DEF FramesMove
<1>12. Found(w)'
  <2> SUFFICES ASSUME w.done # 0, w.id \in Ids, hnd[w.id].waits
               PROVE  st'[w.id].cw \/ Ended' \/ Unhooking(w.id)' \/ Carried(w.id, w.done)'
    BY <1>3 DEF Found
  <2>1. PICK i \in Ids : i = w.id
    OBVIOUS
  <2>2. w.t \in {"HEADERS", "DATA", "PUSH"} /\ i # 0
    <3>1. 0 \notin Ids
      BY HTTP2ServerAssumption DEF Ids
    <3> QED  BY <1>6, <2>1, <3>1 DEF Pending
  <2>3. CASE ~ignored
    BY <1>9, <2>1, <2>2, <2>3 DEF Carried, Is
  <2>4. CASE ignored
    <3>1. StateOf(i) = "closed"
      BY <1>2, <2>1, <2>2, <2>4
    <3>2. st[i].state = "closed"
      BY <2>1, <3>1 DEF IInv, HandlerInv, StreamInv, StateOf, InMap
    <3>3. st[i].cw \/ Unhooking(i) \/ Ended
      BY <3>2 DEF IInv, StreamInv
    <3>4. st'[i].cw = st[i].cw
      BY <1>3, <2>1 DEF IInv, StreamInv, StreamFields
    <3>5. Unhooking(i)' => Unhooking(w.id)'
      BY <2>1 DEF Unhooking
    <3> QED  BY <1>10, <2>1, <3>3, <3>4, <3>5 DEF Moves, ConnMoves
  <2> QED  BY <2>3, <2>4
<1>13. Passes
  <2>1. \A t \in Elems(work) : t \in Elems(work') \/ t = Top
    BY <1>6, <1>7
  <2>2. \A t : t = Top => Found(t.w)'
    BY <1>1, <1>12 DEF Found, Carried, Is, Unhooking
  <2> QED  BY <1>3, <1>9, <2>1, <2>2 DEF Passes
<1> QED  BY <1>10, <1>11, <1>13, MovesKeep

-----------------------------------------------------------------------------
(* A frame has been written.                                               *)

\* The top call is over, and makes others.
LEMMA ThenIs ==
  ASSUME IInv, work # <<>>, NEW calls, IsSequence(calls), AtMostOne(Loops(calls)),
         Loops(calls) = {} \/ Top.op = "loop", Then(calls)
  PROVE  /\ IsSequence(work') /\ Elems(work') = Elems(calls) \cup Elems(Tail(work)) /\ Elems(work) = {Top} \cup Elems(Tail(work))
         /\ AtMostOne(Loops(work')) /\ (Loops(work') # {} => ~sc.writing)
         /\ Loops(calls) = {} /\ Top.op = "loop" => Loops(work') = {}
         /\ Top \in Elems(work) /\ (Top.op = "loop" => ~sc.writing) /\ (Ended => NoEndStream(work))
<1>1. PICK p, z : p = Tail(work) /\ z = calls \o p
  OBVIOUS
<1>2. /\ IsSequence(p) /\ Elems(work) = {Top} \cup Elems(p) /\ AtMostOne(Loops(p))
      /\ (Top.op = "loop" => Loops(p) = {}) /\ (Loops(work) = {} => Loops(p) = {})
      /\ (Loops(work) # {} => ~sc.writing) /\ (Ended => NoEndStream(work))
  BY <1>1, Shorter DEF IInv, ServeInv, Top
<1>3. Top.op = "loop" => Loops(work) # {}
  BY HeadTailProperties, EmptySeq, SequenceLength DEF IInv, ServeInv, IsSequence, Loops, Top
<1>4. /\ IsSequence(z) /\ Elems(z) = Elems(calls) \cup Elems(p) /\ AtMostOne(Loops(z))
      /\ (Loops(calls) = {} /\ Loops(p) = {} => Loops(z) = {})
  BY <1>1, <1>2, Joined
<1>5. work' = z
  BY <1>1 DEF Then
<1> QED  BY <1>1, <1>2, <1>3, <1>4, <1>5

LEMMA Answers == ASSUME IInv, replyToWriter  PROVE IInv'
<1>1. PICK w, e : w = Top.w /\ e = Top.n
  OBVIOUS
<1>2. /\ work # <<>> /\ Top.op = "reply" /\ Then(<<>>) /\ UNCHANGED <<cas, sc, st, zero, sq, want, wr, msgs, net>>
      /\ IF w.done # 0 /\ hnd[w.id].seq = w.done
         THEN hnd' = [hnd EXCEPT ![w.id].res = IF e = 0 THEN "ok" ELSE "err"]
         ELSE UNCHANGED hnd
  BY <1>1 DEF replyToWriter, Running, Top
<1>3. /\ WorkIs /\ Elems(work') = Elems(Tail(work)) /\ Elems(work) = {Top} \cup Elems(work')
      /\ Top \in Elems(work) /\ sc.at # "closed"
  BY ShortSequences, <1>2, ThenIs, OpenAt DEF AtMostOne, WorkIs, NoEndStream, Ended
<1>4. Answer(w, e)
  BY <1>1, <1>2, <1>3 DEF IInv, FrameInv, Replies
<1>5. NetMoves /\ ConnMoves /\ StreamsCalm /\ QueuesAre
  BY <1>2, SameMoves, SameParts, QueuesStay
<1>6. HandlersMove /\ Found(w)'
  <2>1. CASE w.done # 0 /\ hnd[w.id].seq = w.done
    <3>1. PICK i \in Ids : i = w.id
      BY <1>4, <2>1 DEF Answer, Waited
    <3>2. PICK g : g = [hnd[i] EXCEPT !.res = IF e = 0 THEN "ok" ELSE "err"]
      OBVIOUS
    <3>3. hnd' = [hnd EXCEPT ![i] = g] /\ DOMAIN hnd = Ids
      BY <1>2, <2>1, <3>1, <3>2, HandlerIs
    <3>4. hnd'[i] = g /\ DOMAIN hnd' = Ids /\ \A j \in Ids : j # i => hnd'[j] = hnd[j]
      BY <3>3
    <3>5. IsHandler(hnd[i]) /\ hnd[i].acked <= net.data[i] /\ net'.data[i] = net.data[i] /\ (hnd[i].at = "off" => ~hnd[i].waits)
      BY <1>2, HandlerIs DEF IInv, HandlerInv
    <3>6. /\ IsHandler(g) /\ g.at = hnd[i].at /\ g.waits = hnd[i].waits /\ g.seq = hnd[i].seq /\ g.n = hnd[i].n
          /\ g.acked = hnd[i].acked /\ g.res = IF e = 0 THEN "ok" ELSE "err"
      BY <3>2, <3>5 DEF IsHandler, HandlerFields
    <3>7. hnd[i].waits /\ hnd[i].at = "data" /\ e = 0 => hnd[i].acked + hnd[i].n <= net.data[i]
      BY <1>4, <2>1, <3>1 DEF Answer, Covers, AwaitsData
    <3>8. Mover(hnd[i], g, net'.data[i])
      BY <3>5, <3>6, <3>7 DEF Mover, StillWaits, IsHandler
    <3>9. \A j \in Ids : Mover(hnd[j], hnd[j], net'.data[j])
      BY <1>2, HandlerIs DEF IInv, HandlerInv, Mover, StillWaits, IsHandler
    <3>10. HandlersMove
      BY <3>4, <3>6, <3>8, <3>9 DEF HandlersMove
    <3> QED  BY <3>1, <3>4, <3>6, <3>10 DEF Found
  <2>2. CASE ~(w.done # 0 /\ hnd[w.id].seq = w.done)
    <3>1. UNCHANGED hnd
      BY <1>2, <2>2
    <3> QED  BY <1>5, <2>2, <3>1, SameMoves DEF Found
  <2> QED  BY <2>1, <2>2
<1>7. Moves
  BY <1>2, <1>3, <1>5, ServeIs, <1>6 DEF Unhooking, Moves
<1>8. FramesMove
  BY <1>2, <1>3 DEF FramesMove
<1>9. Passes
  BY <1>1, <1>6, <1>2, <1>3 DEF Found, Carried, Is, Unhooking, IInv, HandlerInv, HandlerFields, Passes
<1> QED  BY <1>7, <1>8, <1>9, MovesKeep

LEMMA Unhooks == ASSUME IInv, UnhookStream  PROVE IInv'
<1>1. PICK i : i = Top.id
  OBVIOUS
<1>2. /\ work # <<>> /\ Top.op = "unhook" /\ Then(<<>>) /\ UNCHANGED <<cas, sc, zero, want, wr, msgs, hnd, net>>
      /\ \E e : st' = [st EXCEPT ![i].err = e, ![i].cw = TRUE]
      /\ sq' = [sq EXCEPT ![i] = <<>>]
  BY <1>1 DEF UnhookStream, Running, Top
<1>3. /\ WorkIs /\ Elems(work') = Elems(Tail(work)) /\ Elems(work) = {Top} \cup Elems(work') /\ sc.at # "closed"
  BY ShortSequences, <1>2, ThenIs, OpenAt DEF AtMostOne, WorkIs, NoEndStream, Ended
<1>4. NetMoves /\ ConnMoves /\ HandlersMove
  BY <1>2, SameMoves
<1>5. /\ DOMAIN st' = Ids
      /\ \A j \in Ids : IsStream(st'[j]) /\ st'[j].state = st[j].state /\ (st'[j].cw = IF j = i THEN TRUE ELSE st[j].cw)
  <2>1. PICK e : st' = [st EXCEPT ![i].err = e, ![i].cw = TRUE]
    BY <1>2
  <2>2. PICK g : g = [st[i] EXCEPT !.err = e, !.cw = TRUE]
    OBVIOUS
  <2>3. DOMAIN st = Ids /\ \A j \in Ids : IsStream(st[j])
    BY DEF IInv, StreamInv, IsStream
  <2>4. DOMAIN st' = Ids /\ \A j \in Ids : st'[j] = IF j = i THEN g ELSE st[j]
    BY <2>1, <2>2, <2>3
  <2>5. i \in Ids => IsStream(g) /\ g.state = st[i].state /\ g.cw
    BY <2>2, <2>3 DEF IsStream, StreamFields
  <2>6. g.cw = TRUE \/ i \notin Ids
    BY <2>2, <2>3 DEF IsStream, StreamFields
  <2> QED  BY <2>3, <2>4, <2>5, <2>6
<1>6. StreamsCalm
  BY <1>5 DEF StreamsCalm
<1>7. QueuesAre /\ \A j \in Ids : Elems(sq'[j]) = IF j = i THEN {} ELSE Elems(sq[j])
  BY <1>2, ShortSequences DEF IInv, ServeInv, QueuesAre
<1>8. Moves
  BY <1>2, <1>3, <1>7, ServeIs, <1>1, <1>5, <1>4, <1>6 DEF Unhooking, Moves
<1>9. FramesMove
  BY <1>2, <1>3, <1>7 DEF FramesMove
<1>10. Passes
  BY <1>7, <1>5, <1>2, <1>3 DEF IInv, FrameInv, Queued, Found, Passes
<1> QED  BY <1>8, <1>9, <1>10, MovesKeep

\* What a frame adds to the client's DATA.
Adds(w, i) == IF w.t = "DATA" /\ w.id = i THEN w.n ELSE 0

LEMMA OnWireIs ==
  ASSUME ConnInv, NEW w, IsWr(w)
  PROVE  /\ DOMAIN OnWire(net, w) = NetFields /\ DOMAIN OnWire(net, w).data = Ids
         /\ OnWire(net, w).failed = net.failed /\ OnWire(net, w).gone = net.gone
         /\ \A i \in Ids : Adds(w, i) \in Nat /\ OnWire(net, w).data[i] = net.data[i] + Adds(w, i)
<1>1. DOMAIN net = NetFields /\ DOMAIN net.data = Ids /\ \A i \in Ids : net.data[i] \in Nat /\ net.data[i] + 0 = net.data[i]
  BY DEF ConnInv, NetFields
<1>2. \A i \in Ids : Adds(w, i) \in Nat
  BY DEF IsWr, Adds
<1>3. CASE w.t \in {"HEADERS", "DATA"}
  <2>1. PICK l, c : OnWire(net, w) = [net EXCEPT !.log[w.id] = l, !.data[w.id] = IF w.t = "DATA" THEN @ + w.n ELSE @, !.got = c]
    <3>1. PICK l, c : /\ l = Logged(net.log[w.id], IF w.end THEN <<w.t, "END">> ELSE <<w.t>>)
                      /\ c = IF w.t = "DATA" THEN net.got + w.n ELSE net.got
      OBVIOUS
    <3>2. OnWire(net, w) = [net EXCEPT !.log[w.id] = l, !.data[w.id] = IF w.t = "DATA" THEN @ + w.n ELSE @, !.got = c]
      BY <1>3, <3>1, Zenon DEF OnWire
    <3> QED  BY <3>2
  <2>2. PICK d : d = [net.data EXCEPT ![w.id] = IF w.t = "DATA" THEN @ + w.n ELSE @]
    OBVIOUS
  <2>3. OnWire(net, w).data = d /\ DOMAIN OnWire(net, w) = NetFields /\ OnWire(net, w).failed = net.failed /\ OnWire(net, w).gone = net.gone
    BY <1>1, <2>1, <2>2 DEF NetFields
  <2>4. DOMAIN d = Ids /\ \A i \in Ids : d[i] = net.data[i] + Adds(w, i)
    BY <1>1, <2>2 DEF Adds
  <2> QED  BY <1>2, <2>3, <2>4
<1>4. CASE w.t \notin {"HEADERS", "DATA"}
  BY <1>4, <1>1, <1>2 DEF Adds, OnWire, NetFields
<1> QED  BY <1>3, <1>4

\* The goroutine that writes a frame is done with it.
LEMMA WritesAsync == ASSUME IInv, writeFrameAsync  PROVE IInv'
<1>1. PICK w : w = wr.frame
  OBVIOUS
<1>2. /\ wr.at = "writing" /\ UNCHANGED <<cas, sc, work, st, zero, sq, want, msgs, hnd>>
      /\ DOMAIN wr' = {"frame", "at"} /\ wr'.frame = w /\ wr'.at \in {"written", "failed"}
      /\ wr'.at = "failed" => net' = net /\ (net.failed \/ sc.at = "closed")
      /\ wr'.at = "written" => net' = OnWire(net, w) /\ ~net.failed /\ sc.at # "closed"
  BY <1>1 DEF writeFrameAsync, IInv, ServeInv
<1>3. Pending(w, net.data[w.id])
  BY <1>1, <1>2 DEF IInv, FrameInv
<1>4. IsWr(w) /\ Waited(w)' /\ Waited(w) /\ w.done \in Nat
  BY <1>2, <1>3 DEF Pending, Waited, IsWr
<1>5. \A i \in Ids : net.data[i] \in Nat /\ Written(i) \in Nat /\ Written(i) = net.data[i] + Adds(w, i)
  BY <1>1, <1>2, WrittenIs DEF Written, Adds, IInv, ConnInv
<1>6. /\ DOMAIN net' = NetFields /\ DOMAIN net'.data = Ids /\ net'.failed = net.failed /\ net'.gone = net.gone
      /\ \A i \in Ids : net'.data[i] \in Nat /\ net'.data[i] >= net.data[i]
      /\ wr'.at = "written" => \A i \in Ids : net'.data[i] = Written(i)
  BY <1>2, <1>5, <1>4, OnWireIs DEF IInv, ConnInv, NetFields
<1>7. NetMoves
  BY <1>2, <1>6, <1>5 DEF Written, Lost, NetMoves
<1>8. ServeInv' /\ LostInv'
  BY <1>2, <1>6 DEF IInv, ServeInv, LostInv, Lost, Ended
<1>9. Moves
  BY <1>2, <1>7, <1>8, SameMoves, SameParts DEF Unhooking, Moves
<1>10. wr'.at = "failed" => Answer(wr.frame, 1)'
  BY <1>2, <1>4 DEF Answer, Waited
<1>11. wr'.at = "written" => Answer(wr.frame, 0)'
  BY <1>2, <1>3, <1>5, <1>6, <1>4 DEF Answer, Waited, Covers, AwaitsData, IInv, LostInv, Pending, Adds
<1>12. FramesMove
  BY <1>2, <1>10, <1>11 DEF FramesMove
<1>13. Passes
  BY <1>1, <1>2 DEF Passes
<1> QED  BY <1>9, <1>12, <1>13, MovesKeep

\* The calls of wroteFrame: what closes the stream, then the answer.
LEMMA WroteIs ==
  ASSUME NEW w, NEW e, NEW streams
  PROVE  /\ IsSequence(wroteFrame(w, e, streams)) /\ Loops(wroteFrame(w, e, streams)) = {}
         /\ \A t \in Elems(wroteFrame(w, e, streams)) : Meek(t) \/ (t = Reply(w, e) /\ w.done # 0)
         /\ w.done # 0 => Reply(w, e) \in Elems(wroteFrame(w, e, streams))
<1>1. PICK p : /\ Simple(p)
               /\ wroteFrame(w, e, streams) = p \o (IF w.done # 0 THEN <<Reply(w, e)>> ELSE <<>>)
  <2>1. PICK p : p = (IF EndsResponse(w, streams) THEN ResetStream(w.id)
                      ELSE IF \/ EndsStream(w) /\ streams[w.id].state = "hcr"
                              \/ w.t = "RST" /\ streams[w.id].state \in {"open", "hcl", "hcr"}
                              \/ w.t = "PANICRST"
                           THEN <<CloseStream(w.id)>> ELSE <<>>)
    OBVIOUS
  <2>2. Simple(p)
    BY <2>1, SimpleCalls
  <2>3. wroteFrame(w, e, streams) = p \o (IF w.done # 0 THEN <<Reply(w, e)>> ELSE <<>>)
    BY <2>1, Zenon DEF wroteFrame
  <2> QED  BY <2>2, <2>3
<1>2. PICK q : q = IF w.done # 0 THEN <<Reply(w, e)>> ELSE <<>>
  OBVIOUS
<1>3. IsSequence(q) /\ Loops(q) = {} /\ Elems(q) = IF w.done # 0 THEN {Reply(w, e)} ELSE {}
  BY ShortSequences, OneCall, <1>2
<1>4. IsSequence(p) /\ Loops(p) = {} /\ \A t \in Elems(p) : Meek(t)
  BY <1>1 DEF Simple
<1>5. PICK z : z = p \o q
  OBVIOUS
<1>6. IsSequence(z) /\ Elems(z) = Elems(p) \cup Elems(q) /\ Loops(z) = {}
  BY <1>3, <1>4, <1>5, Joined
<1>7. wroteFrame(w, e, streams) = z
  BY <1>1, <1>2, <1>5
<1> QED  BY <1>3, <1>4, <1>6, <1>7

\* wroteFrame half-closes a stream.
LEMMA HalfClosed ==
  ASSUME NEW streams, DOMAIN streams = Ids, NEW w
  PROVE  /\ DOMAIN HalfClose(w, streams) = Ids
         /\ \A i \in Ids : \/ HalfClose(w, streams)[i] = streams[i]
                           \/ HalfClose(w, streams)[i] = [streams[i] EXCEPT !.state = "hcl"] /\ streams[i].state = "open"
BY DEF HalfClose, EndsResponse

LEMMA HalfClosedCalm == ASSUME IInv, NEW w, st' = HalfClose(w, st)  PROVE StreamsCalm
<1>1. DOMAIN st = Ids /\ \A i \in Ids : IsStream(st[i])
  BY DEF IInv, StreamInv, IsStream
<1>2. DOMAIN st' = Ids /\ \A i \in Ids : \/ st'[i] = st[i]
                                         \/ st'[i] = [st[i] EXCEPT !.state = "hcl"] /\ st[i].state = "open"
  BY <1>1, HalfClosed
<1>3. ASSUME NEW i \in Ids
      PROVE  /\ IsStream(st'[i]) /\ (st'[i].state = "closed" => st[i].state = "closed")
             /\ (st[i].state # "idle" => st'[i].state # "idle") /\ st'[i].cw = st[i].cw
             /\ (st[i].state \in Halted => st'[i].state \in Halted)
  BY <1>1, <1>2 DEF IsStream, StreamFields, Halted
<1> QED  BY <1>2, <1>3 DEF StreamsCalm

LEMMA ReceivesWrote == ASSUME IInv, RecvWrote  PROVE IInv'
<1>1. PICK w, e, calls : /\ w = wr.frame /\ e = (IF wr.at = "failed" THEN 1 ELSE 0)
                         /\ calls = wroteFrame(w, e, st) \o <<Sched>>
  OBVIOUS
<1>2. /\ Serving /\ wr.at \in {"written", "failed"} /\ wr' = [frame |-> NoWr, at |-> "none"]
      /\ Event(calls) /\ st' = HalfClose(w, st) /\ sc' = [sc EXCEPT !.writing = FALSE, !.werr = @ \/ wr.at = "failed"]
      /\ UNCHANGED <<cas, zero, sq, want, msgs, hnd, net>>
  BY <1>1 DEF RecvWrote
<1>3. Answer(w, e)
  BY <1>1, <1>2 DEF IInv, FrameInv
<1>4. /\ DOMAIN sc' = ConnFields /\ sc'.at = sc.at /\ sc'.flow = sc.flow /\ sc'.initSend = sc.initSend /\ sc'.maxClient = sc.maxClient
      /\ sc'.maxPush = sc.maxPush /\ sc'.writing = FALSE /\ (sc'.werr <=> Lost)
  BY <1>2 DEF IInv, ConnInv, ConnFields, Lost
<1>5. /\ IsSequence(calls) /\ Loops(calls) = {} /\ AtMostOne({})
      /\ \A t \in Elems(calls) : Meek(t) \/ (t = Reply(w, e) /\ w.done # 0)
      /\ w.done # 0 => Reply(w, e) \in Elems(calls)
  <2>1. PICK p : p = wroteFrame(w, e, st)
    OBVIOUS
  <2>2. /\ IsSequence(p) /\ Loops(p) = {} /\ \A t \in Elems(p) : Meek(t) \/ (t = Reply(w, e) /\ w.done # 0)
        /\ w.done # 0 => Reply(w, e) \in Elems(p)
    BY <2>1, WroteIs
  <2>3. IsSequence(<<Sched>>) /\ Loops(<<Sched>>) = {} /\ \A t \in Elems(<<Sched>>) : Meek(t)
    BY SimpleCalls DEF Simple
  <2>4. calls = p \o <<Sched>>
    BY <1>1, <2>1
  <2> QED  BY <2>2, <2>3, <2>4, Joined DEF AtMostOne
<1>6. /\ WorkIs /\ Elems(work') = Elems(calls) \cup {AfterEvent} /\ Elems(work) = {} /\ (\A i : ~Unhooking(i))
      /\ AfterEvent.op = "after" /\ sc.at = "serving"
  BY <1>2, <1>4, <1>5, EventIs
<1>7. StreamsCalm
  BY <1>2, HalfClosedCalm
<1>8. QueuesAre
  BY <1>2, QueuesStay
<1>9. ServeInv' /\ LostInv'
  BY <1>2, <1>4, <1>6, <1>8 DEF IInv, ServeInv, WorkIs, QueuesAre, LostInv, Lost
<1>10. NetMoves /\ ConnMoves
  BY <1>2, WrittenIs, <1>4 DEF Written, Lost, NetMoves, ConnMoves, IInv, ConnInv, NetFields, Ended
<1>11. Moves
  BY <1>2, <1>6, <1>7, <1>9, <1>10, SameMoves DEF Moves
<1>12. FramesMove
  BY <1>2, <1>3, <1>5, <1>6, OneCall DEF Answer, Waited, Covers, AwaitsData, Meek, Pending, FramesMove
<1>13. Found(w)'
  BY <1>5, <1>6, OneCall DEF Replies, Carried, Is, Found
<1>14. Passes
  BY <1>1, <1>2, <1>6, <1>13 DEF Passes
<1> QED  BY <1>11, <1>12, <1>14, MovesKeep

-----------------------------------------------------------------------------
(* scheduleFrameWrite starts a frame.                                      *)

ConnReady(s) ==
  /\ DOMAIN s = ConnFields /\ s.at = sc.at /\ s.writing = sc.writing /\ s.werr = sc.werr /\ s.flow \in Int
  /\ s.initSend = sc.initSend /\ s.maxClient = sc.maxClient /\ s.maxPush \in Nat /\ s.maxPush >= sc.maxPush
StreamReady(i, s) ==
  /\ IsStream(s) /\ (s.state = "closed" => st[i].state = "closed") /\ (st[i].state # "idle" => s.state # "idle")
  /\ Ended /\ st[i].state \in Halted => s.state \in Halted \/ Unused(i)
  /\ (st[i].cw => s.cw) \/ (Unused(i) /\ s.state # "closed")
StreamsReady(streams) == DOMAIN streams = Ids /\ \A i \in Ids : StreamReady(i, streams[i])
\* The handler of a pushed stream may start.
HandlersReady(s, streams) ==
  /\ DOMAIN hnd' = Ids
  /\ \A i \in Ids : \/ hnd'[i] = hnd[i]
                    \/ /\ IsHandler(hnd'[i]) /\ ~hnd'[i].waits /\ hnd'[i].seq = 0 /\ hnd'[i].acked = 0 /\ hnd'[i].at # "off"
                       /\ hnd[i].at = "off" /\ streams[i].state # "idle"
                       /\ ~(i > IF i % 2 = 1 THEN s.maxClient ELSE s.maxPush)
\* A frame leaves its queue, or a part of it does.
QueuesReady(w) ==
  /\ QueuesAre /\ UNCHANGED <<cas, want, msgs>> /\ Elems(zero') \subseteq Elems(zero)
  /\ \A i \in Ids : \A x \in Elems(sq'[i]) : x \in Elems(sq[i]) \/ (x.id = i /\ Pending(x, net.data[i] + Adds(w, i)))
  /\ \A i \in Ids : \A x \in Elems(sq[i]) : \E y \in Elems(sq'[i]) \cup {w} : x.id = y.id /\ x.done = y.done
Ready(w, s, streams) ==
  /\ work # <<>> /\ Top.op = "loop" /\ ConnReady(s) /\ StreamsReady(streams) /\ HandlersReady(s, streams)
  /\ QueuesReady(w) /\ Pending(w, net.data[w.id])

LEMMA LoopIs ==
  ASSUME IInv, work # <<>>, Top.op = "loop"
  PROVE  /\ ~sc.writing /\ wr.at = "none" /\ wr.frame = NoWr /\ sc.at # "closed" /\ (Lost <=> sc.werr)
         /\ \A i \in Ids : Written(i) = net.data[i] /\ net.data[i] \in Nat
BY HeadTailProperties, EmptySeq, SequenceLength, OpenAt DEF IInv, ServeInv, IsSequence, Loops, Top, ConnInv,
   Written, Lost

LEMMA ReadyMoves ==
  ASSUME IInv, NEW w, NEW s, NEW streams, Ready(w, s, streams), NetMoves,
         st' \in {streams, HalfClose(w, streams)}, DOMAIN sc' = ConnFields, sc'.at = sc.at, sc'.flow = s.flow,
         sc'.initSend = s.initSend, sc'.maxClient = s.maxClient, sc'.maxPush = s.maxPush
  PROVE  ConnMoves /\ StreamsCalm /\ HandlersMove
<1>1. ConnMoves
  BY DEF IInv, ConnInv, Ready, ConnReady, QueuesReady, ConnMoves, Ended
<1>2. DOMAIN st' = Ids /\ \A i \in Ids : \/ st'[i] = streams[i]
                                         \/ st'[i] = [streams[i] EXCEPT !.state = "hcl"] /\ streams[i].state = "open"
  <2>1. DOMAIN streams = Ids
    BY DEF Ready, StreamsReady
  <2> QED  BY <2>1, HalfClosed
<1>3. \A i \in Ids : StreamReady(i, streams[i])
  BY DEF Ready, StreamsReady
<1>4. ASSUME NEW i \in Ids  PROVE StreamReady(i, st'[i]) /\ (streams[i].state # "idle" => st'[i].state # "idle")
  BY <1>2, <1>3 DEF StreamReady, IsStream, StreamFields, Halted
<1>5. StreamsCalm
  BY <1>2, <1>4 DEF StreamsCalm, StreamReady
<1>6. HandlersMove
  <2>1. ASSUME NEW i \in Ids
        PROVE  /\ Mover(hnd[i], hnd'[i], net'.data[i])
               /\ hnd'[i].at # "off" => hnd[i].at # "off" \/ (st'[i].state # "idle" /\ ~Unused(i)')
    <3>1. IsHandler(hnd[i]) /\ hnd[i].acked <= net.data[i] /\ net.data[i] \in Nat
          /\ (hnd[i].at = "off" => ~hnd[i].waits /\ hnd[i].seq = 0)
      BY HandlerIs DEF IInv, HandlerInv
    <3>2. net'.data[i] \in Nat /\ net'.data[i] >= net.data[i]
      BY DEF NetMoves
    <3>3. CASE hnd'[i] = hnd[i]
      BY <3>1, <3>2, <3>3 DEF Mover, StillWaits, IsHandler
    <3>4. CASE /\ IsHandler(hnd'[i]) /\ ~hnd'[i].waits /\ hnd'[i].seq = 0 /\ hnd'[i].acked = 0 /\ hnd'[i].at # "off"
               /\ hnd[i].at = "off" /\ streams[i].state # "idle"
               /\ ~(i > IF i % 2 = 1 THEN s.maxClient ELSE s.maxPush)
      BY <3>1, <3>2, <3>4, <1>4 DEF Mover, IsHandler, Unused
    <3> QED  BY <3>3, <3>4 DEF Ready, HandlersReady
  <2> QED  BY <2>1 DEF HandlersMove, Ready, HandlersReady
<1> QED  BY <1>1, <1>5, <1>6

\* What the queues keep is on its way still.
LEMMA ReadyQueues ==
  ASSUME IInv, NEW w, NEW s, NEW streams, Ready(w, s, streams), Moves, Found(w)',
         \A i \in Ids : Lost' \/ Written(i)' = net.data[i] + Adds(w, i)
  PROVE  /\ \A i \in Ids : \A x \in Elems(sq'[i]) : x \in Elems(sq[i]) \/ Queued(x, i)'
         /\ \A i \in Ids : \A x \in Elems(sq[i]) : x \in Elems(sq'[i]) \/ Found(x)'
<1>1. ASSUME NEW i \in Ids, NEW x \in Elems(sq'[i]), x \notin Elems(sq[i])  PROVE Queued(x, i)'
  <2>1. x.id = i /\ Pending(x, net.data[i] + Adds(w, i))
    BY <1>1 DEF Ready, QueuesReady
  <2>2. PICK d, e : d = net.data[i] + Adds(w, i) /\ e = Written(i)'
    OBVIOUS
  <2>3. d \in Nat /\ e \in Nat /\ (Lost' \/ d = e)
    BY <2>2 DEF Ready, Pending, IsWr, Adds, IInv, ConnInv, Moves, NetMoves
  <2>4. Pending(x, e)'
    BY <2>1, <2>2, <2>3, MovesPending
  <2> QED  BY <2>1, <2>2, <2>4 DEF Queued, Pending, Covers
<1>2. ASSUME NEW i \in Ids, NEW x \in Elems(sq[i])  PROVE Found(x)'
  BY DEF Ready, QueuesReady, IInv, FrameInv, Queued, Carried, Is, Found, Unhooking
<1> QED  BY <1>1, <1>2

LEMMA StartsWriting ==
  ASSUME IInv, NEW w, NEW s, NEW streams, Ready(w, s, streams),
         NEW flush, sc' = [[s EXCEPT !.needFlush = flush] EXCEPT !.writing = TRUE], st' = streams,
         wr' = [frame |-> w, at |-> "writing"], Then(<<>>), UNCHANGED net
  PROVE  IInv'
<1>1. /\ work # <<>> /\ Top.op = "loop" /\ ConnReady(s) /\ QueuesReady(w) /\ Pending(w, net.data[w.id])
  BY DEF Ready
<1>2. /\ ~sc.writing /\ wr.at = "none" /\ wr.frame = NoWr /\ sc.at # "closed" /\ (Lost <=> sc.werr)
      /\ \A i \in Ids : Written(i) = net.data[i] /\ net.data[i] \in Nat
  BY <1>1, LoopIs
<1>3. /\ DOMAIN sc' = ConnFields /\ sc'.at = sc.at /\ sc'.flow = s.flow /\ sc'.initSend = s.initSend
      /\ sc'.maxClient = s.maxClient /\ sc'.maxPush = s.maxPush /\ sc'.writing = TRUE /\ sc'.werr = sc.werr
  BY <1>1 DEF ConnReady, ConnFields
<1>4. /\ IsSequence(work') /\ Elems(work') = Elems(Tail(work)) /\ Elems(work) = {Top} \cup Elems(work') /\ Loops(work') = {}
      /\ Ended => NoEndStream(work')
  BY ShortSequences, <1>1, ThenIs DEF AtMostOne, NoEndStream
<1>5. DOMAIN wr' = {"frame", "at"} /\ wr'.frame = w /\ wr'.at = "writing"
  OBVIOUS
<1>6. \A i \in Ids : Adds(w, i) \in Nat /\ Written(i)' = net.data[i] + Adds(w, i)
  BY <1>5, <1>1 DEF Written, Adds, Pending, IsWr
<1>7. NetMoves
  BY <1>2, <1>6, <1>3 DEF Lost, NetMoves, NetFields, IInv, ConnInv
<1>8. ConnMoves /\ StreamsCalm /\ HandlersMove
  BY <1>3, <1>7, ReadyMoves
<1>9. ServeInv' /\ LostInv'
  BY <1>1, <1>2, <1>3, <1>4, <1>5 DEF QueuesReady, QueuesAre, IInv, ServeInv, AtMostOne, Ended, LostInv, Lost
<1>10. Moves
  BY <1>1, <1>4, <1>7, <1>8, <1>9 DEF Unhooking, Moves
<1>11. Found(w)'
  BY <1>5 DEF Found, Carried, Is
<1>12. /\ \A i \in Ids : \A x \in Elems(sq'[i]) : x \in Elems(sq[i]) \/ Queued(x, i)'
       /\ \A i \in Ids : \A x \in Elems(sq[i]) : x \in Elems(sq'[i]) \/ Found(x)'
  BY <1>6, <1>10, <1>11, ReadyQueues
<1>13. FramesMove
  BY <1>1, <1>10, MovesFrames, <1>5, <1>4, <1>12 DEF Pending, Covers, FramesMove, QueuesReady
<1>14. Passes
  BY <1>2, PlainFrames, <1>1, <1>4, <1>12 DEF Found, Ready, HandlersReady, Passes, QueuesReady
<1> QED  BY <1>10, <1>13, <1>14, MovesKeep

LEMMA StartsBuffered ==
  ASSUME IInv, NEW w, NEW s, NEW streams, Ready(w, s, streams),
         NEW flush, sc' = [s EXCEPT !.needFlush = flush], st' = HalfClose(w, streams),
         net' = (IF sc.werr THEN net ELSE OnWire(net, w)),
         Then(wroteFrame(w, IF sc.werr THEN 1 ELSE 0, streams) \o <<Loop>>), UNCHANGED wr
  PROVE  IInv'
<1>1. /\ work # <<>> /\ Top.op = "loop" /\ ConnReady(s) /\ QueuesReady(w) /\ Pending(w, net.data[w.id])
  BY DEF Ready
<1>2. /\ ~sc.writing /\ wr.at = "none" /\ wr.frame = NoWr /\ sc.at # "closed" /\ (Lost <=> sc.werr)
      /\ \A i \in Ids : Written(i) = net.data[i] /\ net.data[i] \in Nat
  BY <1>1, LoopIs
<1>3. /\ DOMAIN sc' = ConnFields /\ sc'.at = sc.at /\ sc'.flow = s.flow /\ sc'.initSend = s.initSend
      /\ sc'.maxClient = s.maxClient /\ sc'.maxPush = s.maxPush /\ sc'.writing = sc.writing /\ sc'.werr = sc.werr
  BY <1>1 DEF ConnReady, ConnFields
<1>4. PICK e, calls : e = (IF sc.werr THEN 1 ELSE 0) /\ calls = wroteFrame(w, e, streams) \o <<Loop>>
  OBVIOUS
<1>5. /\ IsSequence(calls) /\ AtMostOne(Loops(calls))
      /\ \A t \in Elems(calls) : Meek(t) \/ (t = Reply(w, e) /\ w.done # 0)
      /\ w.done # 0 => Reply(w, e) \in Elems(calls)
  BY WroteIs, ShortSequences, <1>4, Joined DEF Meek, Loop, Task
<1>6. /\ WorkIs /\ Elems(work') = Elems(calls) \cup Elems(Tail(work)) /\ Elems(work) = {Top} \cup Elems(Tail(work))
  BY <1>4, <1>1, <1>5, ThenIs, OneCall, <1>3, <1>2 DEF Meek, NoEndStream, Ended, WorkIs
<1>7. /\ DOMAIN net' = NetFields /\ DOMAIN net'.data = Ids /\ net'.failed = net.failed /\ net'.gone = net.gone
      /\ \A i \in Ids : /\ net'.data[i] \in Nat /\ net'.data[i] >= net.data[i]
                        /\ sc.werr \/ net'.data[i] = net.data[i] + Adds(w, i)
  <2>1. CASE sc.werr
    <3>1. net' = net
      BY <2>1
    <3> QED  BY <1>2, <2>1, <3>1 DEF IInv, ConnInv, NetFields
  <2>2. CASE ~sc.werr
    BY <1>1, <2>2, OnWireIs, <1>2 DEF IInv, Pending
  <2> QED  BY <2>1, <2>2
<1>8. NetMoves /\ (Lost' <=> sc.werr) /\ \A i \in Ids : Written(i)' = net'.data[i]
  BY <1>2, <1>7, <1>3 DEF Written, Lost, NetMoves
<1>9. ConnMoves /\ StreamsCalm /\ HandlersMove
  BY <1>3, <1>8, ReadyMoves
<1>10. ServeInv' /\ LostInv'
  BY <1>1, <1>2, <1>3, <1>6, <1>7 DEF QueuesReady, QueuesAre, IInv, ServeInv, WorkIs, LostInv, Lost
<1>11. Moves
  BY <1>1, <1>6, <1>8, <1>9, <1>10 DEF Unhooking, Moves
<1>12. Found(w)'
  BY <1>5, <1>6, OneCall DEF Replies, Carried, Is, Found
<1>13. /\ \A i \in Ids : \A x \in Elems(sq'[i]) : x \in Elems(sq[i]) \/ Queued(x, i)'
       /\ \A i \in Ids : \A x \in Elems(sq[i]) : x \in Elems(sq'[i]) \/ Found(x)'
  BY <1>7, <1>8, <1>11, <1>12, ReadyQueues
<1>14. Answer(w, e)'
  BY <1>1, <1>11, MovesFrames, <1>2, <1>4, <1>7 DEF Pending, IsWr, Waited, AwaitsData, Ready, HandlersReady,
     Covers, Adds, Answer
<1>15. FramesMove
  BY <1>5, <1>6, OneCall, <1>14, <1>1, <1>13 DEF Meek, Pending, Waited, Answer, FramesMove, QueuesReady
<1>16. Passes
  BY <1>1, <1>6, <1>13 DEF Ready, HandlersReady, Passes, QueuesReady
<1> QED  BY <1>11, <1>15, <1>16, MovesKeep

LEMMA StartsKeep ==
  ASSUME IInv, NEW w, NEW s, NEW streams, Ready(w, s, streams), Starts(w, s, streams)
  PROVE  IInv'
<1>1. PICK flush : flush = (w.t # "FLUSH")
  OBVIOUS
<1>2. CASE /\ sc' = [s EXCEPT !.needFlush = flush] /\ st' = HalfClose(w, streams)
           /\ net' = (IF sc.werr THEN net ELSE OnWire(net, w))
           /\ Then(wroteFrame(w, IF sc.werr THEN 1 ELSE 0, streams) \o <<Loop>>) /\ UNCHANGED wr
  <2>1. UNCHANGED wr
    BY <1>2
  <2> QED  BY <1>2, <2>1, StartsBuffered
<1>3. CASE /\ sc' = [[s EXCEPT !.needFlush = flush] EXCEPT !.writing = TRUE] /\ st' = streams
           /\ wr' = [frame |-> w, at |-> "writing"] /\ Then(<<>>) /\ UNCHANGED net
  <2>1. UNCHANGED net
    BY <1>3
  <2> QED  BY <1>3, <2>1, StartsWriting
<1> QED  BY <1>1, <1>2, <1>3 DEF Starts

\* A frame that no handler waits for, and that leaves the streams alone.
LEMMA PlainReady ==
  ASSUME IInv, work # <<>>, Top.op = "loop", NEW w, IsWr(w), w.done = 0, NEW s, ConnReady(s), UNCHANGED <<cas, want, msgs, sq, hnd>>,
         IsSequence(zero'), Elems(zero') \subseteq Elems(zero)
  PROVE  Ready(w, s, st)
<1>1. StreamsReady(st)
  BY DEF IInv, StreamInv, StreamsReady, StreamReady, IsStream
<1>2. HandlersReady(s, st)
  BY DEF IInv, HandlerInv, HandlersReady
<1>3. QueuesReady(w)
  BY DEF IInv, ServeInv, QueuesReady, QueuesAre
<1>4. Pending(w, net.data[w.id])
  BY DEF Pending, Waited
<1> QED  BY <1>1, <1>2, <1>3, <1>4 DEF Ready

LEMMA ConnIsReady ==
  ASSUME IInv
  PROVE  /\ ConnReady(sc) /\ ConnReady([sc EXCEPT !.needGoAway = FALSE]) /\ ConnReady([sc EXCEPT !.needAck = FALSE])
         /\ ConnReady([sc EXCEPT !.queued = @ - 1])
BY DEF IInv, ConnInv, ConnReady, ConnFields

LEMMA GoesAway == ASSUME IInv, WriteGoAway  PROVE IInv'
BY PlainFrames, ConnIsReady, PlainReady, StartsKeep DEF WriteGoAway, Running, Top, IInv, ServeInv

LEMMA Acknowledges == ASSUME IInv, WriteAck  PROVE IInv'
BY PlainFrames, ConnIsReady, PlainReady, StartsKeep DEF WriteAck, Running, Top, IInv, ServeInv

LEMMA PopsControl == ASSUME IInv, PopControl  PROVE IInv'
<1>1. PICK w, s : w = Head(zero) /\ s = [sc EXCEPT !.queued = @ - 1]
  OBVIOUS
<1>2. /\ work # <<>> /\ Top.op = "loop" /\ Starts(w, s, st) /\ UNCHANGED <<cas, sq, want, msgs, hnd>>
      /\ zero # <<>> /\ zero' = Tail(zero)
  BY <1>1 DEF PopControl, Running, Top
<1>3. IsSequence(zero') /\ Elems(zero) = {w} \cup Elems(zero')
  BY <1>1, <1>2, Shorter DEF IInv, ServeInv
<1>4. IsWr(w) /\ w.done = 0 /\ ConnReady(s)
  <2>1. Pending(w, 0) /\ w.done = 0
    BY <1>3 DEF IInv, FrameInv
  <2> QED  BY <1>1, <2>1, ConnIsReady DEF Pending
<1>5. UNCHANGED <<cas, want, msgs, sq, hnd>>
  BY <1>2
<1> QED  BY <1>2, <1>3, <1>4, <1>5, PlainReady, StartsKeep

LEMMA FlushesOrStops == ASSUME IInv, FlushOrStop  PROVE IInv'
BY PlainFrames, ConnIsReady, PlainReady, StartsKeep, OpenAt, SameParts, CallsCalm, SimpleCalls, CalmKeeps DEF
   FlushOrStop, Running, Top, IInv, ServeInv, Calls

-----------------------------------------------------------------------------
(* scheduleFrameWrite pops a frame of a stream, or a part of it.           *)

LEMMA MinOf == ASSUME NEW a \in Int, NEW b \in Int  PROVE Min({a, b}) \in {a, b}
<1>1. \E x \in {a, b} : \A y \in {a, b} : x =< y
  <2>1. a <= b \/ b <= a
    OBVIOUS
  <2> QED  BY <2>1
<1>2. (CHOOSE x \in {a, b} : \A y \in {a, b} : x =< y) \in {a, b}
  BY <1>1
<1> QED  BY <1>2, Zenon DEF Min

\* The part that is written, and the rest of the frame.
IsRest(p, w, r) ==
  /\ w.done = 0 /\ p.t = "DATA" /\ r.t = "DATA" /\ IsWr(r) /\ r.id = p.id /\ r.done = p.done
  /\ w.n \in Nat /\ r.n \in Nat /\ p.n = w.n + r.n
Popped(p, w, i) ==
  /\ w.id = i /\ w.t = p.t /\ IsWr(w) /\ IsWr(p) /\ p.id = i /\ Queued(p, i)
  /\ DOMAIN sq' = Ids /\ \A j \in Ids : IsSequence(sq'[j]) /\ (j # i => sq'[j] = sq[j])
  /\ \/ w = p /\ Elems(sq[i]) = {p} \cup Elems(sq'[i])
     \/ \E r : /\ IsRest(p, w, r) /\ r \in Elems(sq'[i]) /\ Elems(sq[i]) \subseteq {p} \cup Elems(sq'[i])
               /\ Elems(sq'[i]) \subseteq {r} \cup Elems(sq[i])

LEMMA Pops ==
  ASSUME IInv, NEW i \in Poppable, NEW p, p = Head(sq[i]), NEW w, w = Piece(p),
         sq' = [sq EXCEPT ![i] = Rest(Head(@)) \o Tail(@)]
  PROVE  Popped(p, w, i)
<1>1. i \in Ids /\ sq[i] # <<>> /\ Consumable(p) /\ DOMAIN sq = Ids /\ \A j \in Ids : IsSequence(sq[j])
  BY DEF Poppable, IInv, ServeInv
<1>2. PICK q, z, k : q = sq[i] /\ z = Rest(p) \o Tail(q) /\ k = Tail(q)
  OBVIOUS
<1>3. IsSequence(k) /\ Elems(q) = {p} \cup Elems(k)
  BY <1>1, <1>2, Shorter
<1>4. Queued(p, i) /\ p.id = i /\ IsWr(p)
  BY <1>1, <1>2, <1>3 DEF IInv, FrameInv, Queued, Pending, Held
<1>5. DOMAIN sq' = Ids /\ sq'[i] = z /\ \A j \in Ids : j # i => sq'[j] = sq[j]
  BY <1>1, <1>2
<1>6. CASE ~Splits(p)
  BY <1>6, <1>2, ShortSequences, <1>3, Joined, <1>1, <1>4, <1>5 DEF Piece, Rest, Popped
<1>7. CASE Splits(p)
  <2>1. PICK a : a = Allowed(p)
    OBVIOUS
  <2>2. a \in Int
    <3>1. st[i].flow \in Int /\ sc.flow \in Int /\ MaxFrame \in Int
      BY <1>1, HTTP2ServerAssumption DEF IInv, StreamInv, ConnInv
    <3>2. Available(st[i].flow, sc.flow) \in Int
      BY <3>1, MinOf DEF Available
    <3> QED  BY <1>4, <2>1, <3>1, <3>2, MinOf DEF Allowed
  <2>3. p.t = "DATA" /\ p.n > 0 /\ p.n > a /\ a > 0 /\ p.n \in Nat
    BY <1>1, <1>4, <1>7, <2>1 DEF Splits, Consumable, IsWr
  <2>4. PICK r : r = [p EXCEPT !.n = @ - a]
    OBVIOUS
  <2>5. w = [p EXCEPT !.n = a, !.end = FALSE, !.done = 0] /\ Rest(p) = <<r>>
    BY <1>7, <2>1, <2>4 DEF Piece, Rest
  <2>6. /\ DOMAIN p = WrFields /\ p.done \in Nat /\ p.id \in Ids
    BY <1>4, <2>3 DEF IsWr
  <2>7. DOMAIN w = WrFields /\ w.t = "DATA" /\ w.n = a /\ w.done = 0 /\ w.id = i
    BY <1>4, <2>3, <2>5, <2>6 DEF WrFields
  <2>8. DOMAIN r = WrFields /\ r.t = "DATA" /\ r.n = p.n - a /\ r.done = p.done /\ r.id = i
    BY <1>4, <2>3, <2>4, <2>6 DEF WrFields
  <2>9. IsWr(w) /\ IsWr(r) /\ IsRest(p, w, r)
    BY <1>4, <2>2, <2>3, <2>6, <2>7, <2>8 DEF IsWr, IsRest
  <2>10. IsSequence(<<r>>) /\ Elems(<<r>>) = {r}
    BY ShortSequences
  <2>11. IsSequence(z) /\ Elems(z) = {r} \cup Elems(k)
    BY <1>2, <1>3, <2>5, <2>10, Joined
  <2> QED  BY <1>1, <1>2, <1>3, <1>4, <1>5, <2>3, <2>7, <2>9, <2>11 DEF Popped
<1> QED  BY <1>6, <1>7

\* A frame for a stream that has ended: serve panics.
LEMMA PanicsOnFrame ==
  ASSUME IInv, work # <<>>, NEW i \in Ids, NEW p, NEW w, Popped(p, w, i), WrongState(w), Panics,
         UNCHANGED <<cas, st, zero, want, wr, msgs, hnd, net>>
  PROVE  IInv'
<1>1. ConnCalm /\ Ended' /\ work' = <<CloseAll>> /\ sc'.at # "closed"
  BY PanicsCalm DEF Panics, Exits, ConnCalm
<1>2. IsSequence(work') /\ Loops(work') = {} /\ \A t \in Elems(work') : t.op = "closeall"
  <2>1. CloseAll.op = "closeall"
    BY DEF CloseAll, Task
  <2> QED  BY <1>1, <2>1, ShortSequences
<1>3. ConnMoves
  BY <1>1 DEF ConnCalm, ConnMoves, IInv, ConnInv
<1>4. NetMoves /\ StreamsCalm /\ HandlersMove
  <2>1. sc'.werr = sc.werr
    BY <1>1 DEF ConnCalm
  <2> QED  BY <2>1, SameMoves, SameParts
<1>5. ServeInv' /\ LostInv'
  BY <1>1, <1>2 DEF IInv, ServeInv, Popped, ConnCalm, NoEndStream, AtMostOne, LostInv, Lost
<1>6. Moves
  BY <1>1, <1>3, <1>4, <1>5 DEF Moves
<1>7. st'[i].state \in Halted
  BY DEF WrongState, Popped, Halted
<1>8. ASSUME NEW r, IsRest(p, w, r)  PROVE Queued(r, i)'
  BY <1>8, <1>1, <1>7 DEF IsRest, Popped, Queued, Pending, Held, Waited
<1>9. FramesMove
  BY <1>8, <1>2 DEF Popped, FramesMove
<1>10. Passes
  BY <1>1 DEF Passes, Found
<1> QED  BY <1>6, <1>9, <1>10, MovesKeep

\* Another frame, or a part of it, is on its way still.
LEMMA PoppedReady ==
  ASSUME IInv, work # <<>>, Top.op = "loop", NEW i \in Ids, NEW p, NEW w, Popped(p, w, i), ~WrongState(w),
         UNCHANGED <<cas, zero, want, msgs>>
  PROVE  QueuesReady(w) /\ Pending(w, net.data[w.id])
<1>1. \A j \in Ids : Written(j) = net.data[j] /\ net.data[j] \in Nat
  BY LoopIs
<1>2. 0 \notin Ids
  BY HTTP2ServerAssumption DEF Ids
<1>3. ~(Held(p) /\ st[i].state \in Halted)
  BY <1>2 DEF Held, Popped, WrongState, Attached, Halted
<1>4. Pending(p, Written(i))
  BY <1>3 DEF Popped, Queued
<1>5. Pending(p, net.data[i])
  BY <1>1, <1>4 DEF Pending, Covers
<1>6. Pending(w, net.data[w.id])
  BY <1>5 DEF Popped, Pending, Waited, IsRest
<1>7. ASSUME NEW r, IsRest(p, w, r)  PROVE r.id = i /\ Pending(r, net.data[i] + Adds(w, i))
  BY <1>7, <1>1, <1>5 DEF IsRest, Popped, Adds, Covers, AwaitsData, Pending, Waited
<1>8. \A j \in Ids : \A x \in Elems(sq'[j]) : x \in Elems(sq[j]) \/ (x.id = j /\ Pending(x, net.data[j] + Adds(w, j)))
  BY <1>7 DEF Popped
<1>9. \A j \in Ids : \A x \in Elems(sq[j]) : \E y \in Elems(sq'[j]) \cup {w} : x.id = y.id /\ x.done = y.done
  BY DEF Popped, IsRest
<1>10. QueuesAre
  BY DEF IInv, ServeInv, Popped, QueuesAre
<1> QED  BY <1>6, <1>8, <1>9, <1>10 DEF QueuesReady

\* An ordinary frame is charged to the windows.
LEMMA PopsPlain ==
  ASSUME IInv, work # <<>>, Top.op = "loop", NEW i \in Ids, NEW p, NEW w, Popped(p, w, i), ~WrongState(w),
         UNCHANGED <<cas, zero, want, msgs>>, UNCHANGED hnd, NEW n, n = IF w.t = "DATA" THEN w.n ELSE 0,
         NEW s, s = [sc EXCEPT !.flow = @ - n, !.queued = IF Attached(w) THEN @ ELSE @ - 1],
         NEW streams, streams = [st EXCEPT ![i].flow = @ - n], Starts(w, s, streams)
  PROVE  IInv'
<1>1. QueuesReady(w) /\ Pending(w, net.data[w.id])
  BY PoppedReady
<1>2. n \in Int
  BY DEF Popped, IsWr
<1>3. ConnReady(s)
  BY <1>2 DEF IInv, ConnInv, ConnReady, ConnFields
<1>4. StreamsReady(streams)
  BY <1>2 DEF IInv, StreamInv, IsStream, StreamReady, StreamFields, StreamsReady
<1>5. HandlersReady(s, streams)
  BY DEF IInv, HandlerInv, HandlersReady
<1>6. Ready(w, s, streams)
  BY <1>1, <1>3, <1>4, <1>5 DEF Ready
<1> QED  BY <1>6, StartsKeep

\* A PUSH_PROMISE for a push that is refused: the handler is told.
LEMMA PopsRefused ==
  ASSUME IInv, work # <<>>, Top.op = "loop", NEW i \in Ids, NEW p, NEW w, Popped(p, w, i), ~WrongState(w), w.t = "PUSH",
         UNCHANGED <<cas, zero, want, msgs>>, UNCHANGED <<sc, st, hnd, net, wr>>,
         NEW c, c \in {<<>>, <<GoAway("NO")>>}, Then(c \o <<Reply(w, 1), Loop>>)
  PROVE  IInv'
<1>1. QueuesReady(w) /\ Pending(w, net.data[w.id])
  BY PoppedReady
<1>2. w = p /\ Elems(sq[i]) = {p} \cup Elems(sq'[i]) /\ QueuesAre
  BY <1>1 DEF Popped, IsRest, QueuesReady
<1>3. ~sc.writing /\ sc.at # "closed" /\ wr.frame = NoWr
  BY LoopIs
<1>4. PICK b, d : b = <<Reply(w, 1), Loop>> /\ d = c \o b
  OBVIOUS
<1>5. IsSequence(b) /\ AtMostOne(Loops(b)) /\ Elems(b) = {Reply(w, 1), Loop}
  <2>1. DOMAIN b = {1, 2} /\ b[1] = Reply(w, 1) /\ b[2] = Loop
    BY <1>4
  <2>2. Elems(b) = {Reply(w, 1), Loop}
    BY <2>1 DEF Elems
  <2>3. \A x, y : <<x, y>> \in Seq({x, y})
    OBVIOUS
  <2>4. IsSequence(b)
    BY <1>4, <2>2, <2>3, Zenon DEF IsSequence
  <2>5. Loops(b) \subseteq {2}
    BY <2>1, OneCall DEF Loops
  <2> QED  BY <2>2, <2>4, <2>5 DEF AtMostOne
<1>6. IsSequence(c) /\ Loops(c) = {} /\ \A t \in Elems(c) : t.op = "goaway"
  <2>1. GoAway("NO").op = "goaway"
    BY DEF GoAway, Task
  <2> QED  BY <2>1, ShortSequences
<1>7. IsSequence(d) /\ Elems(d) = Elems(c) \cup Elems(b) /\ AtMostOne(Loops(d))
  BY <1>4, <1>5, <1>6, Joined
<1>8. Then(d)
  BY <1>4
<1>9. /\ WorkIs /\ Elems(work') = Elems(d) \cup Elems(Tail(work)) /\ Elems(work) = {Top} \cup Elems(Tail(work))
  <2>1. /\ IsSequence(work') /\ Elems(work') = Elems(d) \cup Elems(Tail(work)) /\ Elems(work) = {Top} \cup Elems(Tail(work))
        /\ AtMostOne(Loops(work')) /\ (Ended => NoEndStream(work))
    BY <1>7, <1>8, ThenIs
  <2>2. \A t \in Elems(d) : t.op # "endstream"
    <3>1. Loop.op # "endstream"
      BY DEF Loop, Task
    <3> QED  BY <1>5, <1>6, <1>7, <3>1, OneCall
  <2> QED  BY <1>3, <2>1, <2>2 DEF WorkIs, NoEndStream, Ended
<1>10. Moves
  BY SameMoves, SameParts, <1>2, <1>3, <1>9, ServeIs DEF Unhooking, Moves
<1>11. \A t \in Elems(d) : /\ t.op # "write"
                           /\ t.op = "reply" => t.w = w /\ t.n = 1
  <2>1. Loop.op = "loop"
    BY DEF Loop, Task
  <2> QED  BY <1>5, <1>6, <1>7, <2>1, OneCall
<1>12. Answer(w, 1)'
  <2>1. w.done \in Nat /\ Waited(w)
    BY <1>1 DEF Pending, IsWr
  <2>2. PICK e : e = 1
    OBVIOUS
  <2>3. Answer(w, e)
    BY <2>1, <2>2 DEF Answer
  <2>4. Answer(w, e)'
    BY <1>10, <2>3, MovesAnswer
  <2> QED  BY <2>2, <2>4 DEF Answer
<1>13. FramesMove
  BY <1>2, <1>9, <1>11, <1>12 DEF Popped, Answer, FramesMove
<1>14. Found(w)'
  BY <1>5, <1>7, <1>9, OneCall DEF Replies, Carried, Is, Found
<1>15. Passes
  BY <1>2, <1>14, <1>9 DEF Popped, Passes
<1> QED  BY <1>10, <1>13, <1>15, MovesKeep

\* A PUSH_PROMISE that is written: its stream and its handler start.
LEMMA PopsPromise ==
  ASSUME IInv, work # <<>>, Top.op = "loop", NEW i \in Ids, NEW p, NEW w, Popped(p, w, i), ~WrongState(w), w.t = "PUSH",
         UNCHANGED <<cas, zero, want, msgs>>, NEW id, id \in PushIds, id = sc.maxPush + 2,
         NEW v, v = [w EXCEPT !.n = id], NEW s, s = [sc EXCEPT !.maxPush = id, !.nPushed = @ + 1],
         NEW streams, streams = [st EXCEPT ![id] = Opens(id, "hcr")], Starts(v, s, streams),
         NEW shape, hnd' = [hnd EXCEPT ![id] = runHandler(shape)]
  PROVE  IInv'
<1>1. QueuesReady(w) /\ Pending(w, net.data[w.id])
  BY PoppedReady
<1>2. DOMAIN w = WrFields /\ v.t = w.t /\ v.id = w.id /\ v.done = w.done /\ DOMAIN v = WrFields /\ v.end = w.end
  BY <1>1 DEF Pending, IsWr, WrFields
<1>3. Pending(v, net.data[v.id])
  BY <1>1, <1>2 DEF Pending, IsWr, Waited, AwaitsData
<1>4. QueuesReady(v)
  <2>1. \A j \in Ids : Adds(v, j) = Adds(w, j)
    BY <1>2 DEF Adds
  <2>2. QueuesAre /\ UNCHANGED <<cas, want, msgs>> /\ Elems(zero') \subseteq Elems(zero)
    BY <1>1 DEF QueuesReady
  <2>3. \A j \in Ids : \A x \in Elems(sq'[j]) : x \in Elems(sq[j]) \/ (x.id = j /\ Pending(x, net.data[j] + Adds(v, j)))
    BY <1>1, <2>1 DEF QueuesReady
  <2>4. \A j \in Ids : \A x \in Elems(sq[j]) : \E y \in Elems(sq'[j]) \cup {v} : x.id = y.id /\ x.done = y.done
    <3> SUFFICES ASSUME NEW j \in Ids, NEW x \in Elems(sq[j])
                 PROVE  \E y \in Elems(sq'[j]) \cup {v} : x.id = y.id /\ x.done = y.done
      OBVIOUS
    <3>1. PICK y \in Elems(sq'[j]) \cup {w} : x.id = y.id /\ x.done = y.done
      BY <1>1 DEF QueuesReady
    <3>2. CASE y \in Elems(sq'[j])
      BY <3>1, <3>2
    <3>3. CASE y = w
      BY <1>2, <3>1, <3>3
    <3> QED  BY <3>1, <3>2, <3>3
  <2> QED  BY <2>2, <2>3, <2>4 DEF QueuesReady
<1>5. /\ id \in Ids /\ id \in Nat /\ id % 2 = 0 /\ sc.maxPush \in Nat /\ Unused(id) /\ sc.initSend \in Int
  <2>1. id \in Ids /\ id \in Nat /\ id % 2 = 0 /\ sc.maxPush \in Nat /\ sc.initSend \in Int
    BY HTTP2ServerAssumption DEF Ids, IInv, ConnInv
  <2>2. id > sc.maxPush
    BY <2>1
  <2> QED  BY <2>1, <2>2 DEF Unused
<1>6. ConnReady(s) /\ s.maxPush = id
  BY <1>5 DEF IInv, ConnInv, ConnReady, ConnFields
<1>7. StreamsReady(streams) /\ streams[id].state = "hcr"
  BY <1>5 DEF IInv, StreamInv, IsStream, StreamReady, Opens, NewStream, StreamFields, StreamsReady, Halted
<1>8. HandlersReady(s, streams)
  BY <1>5, <1>6, <1>7 DEF IInv, HandlerInv, StreamInv, runHandler, NewHandler, IsHandler, HandlerFields,
     HandlersReady
<1>9. Ready(v, s, streams)
  BY <1>3, <1>4, <1>6, <1>7, <1>8 DEF Ready
<1> QED  BY <1>9, StartsKeep

LEMMA PopsStream == ASSUME IInv, PopStream  PROVE IInv'
<1>1. work # <<>> /\ Top.op = "loop" /\ UNCHANGED <<cas, zero, want, msgs>>
  BY DEF PopStream, Running, Top
<1>2. PICK i \in Poppable :
        /\ sq' = [sq EXCEPT ![i] = Rest(Head(@)) \o Tail(@)]
        /\ LET w == Piece(Head(sq[i]))
               n == IF w.t = "DATA" THEN w.n ELSE 0
           IN IF WrongState(w) THEN Panics /\ UNCHANGED <<st, hnd, net, wr>>
              ELSE IF w.t = "PUSH" THEN StartsPush(w)
              ELSE /\ Starts(w, [sc EXCEPT !.flow = @ - n, !.queued = IF Attached(w) THEN @ ELSE @ - 1],
                             [st EXCEPT ![i].flow = @ - n])
                   /\ UNCHANGED hnd
  BY DEF PopStream
<1>3. PICK p : p = Head(sq[i])
  OBVIOUS
<1>4. PICK w : w = Piece(p)
  OBVIOUS
<1>5. PICK n : n = IF w.t = "DATA" THEN w.n ELSE 0
  OBVIOUS
<1>6. Popped(p, w, i) /\ i \in Ids
  BY <1>2, <1>3, <1>4, Pops DEF Poppable
<1>7. CASE WrongState(w)
  BY <1>1, <1>2, <1>3, <1>4, <1>7, <1>6, PanicsOnFrame
<1>8. CASE ~WrongState(w) /\ w.t = "PUSH"
  <2>1. StartsPush(w)
    BY <1>2, <1>3, <1>4, <1>8
  <2>2. CASE PushRefused
    BY <2>1, <2>2, <1>1, <1>6, <1>8, PopsRefused DEF StartsPush
  <2>3. CASE ~PushRefused
    <3>1. PICK id : id = sc.maxPush + 2
      OBVIOUS
    <3>2. id \in PushIds
      BY <2>3, <3>1 DEF PushRefused
    <3>3. PICK v, s, streams : /\ v = [w EXCEPT !.n = id] /\ s = [sc EXCEPT !.maxPush = id, !.nPushed = @ + 1]
                               /\ streams = [st EXCEPT ![id] = Opens(id, "hcr")]
      OBVIOUS
    <3>4. PICK shape : Starts(v, s, streams) /\ hnd' = [hnd EXCEPT ![id] = runHandler(shape)]
      BY <2>1, <2>3, <3>1, <3>3 DEF StartsPush
    <3> QED  BY <1>1, <1>6, <1>8, <3>1, <3>2, <3>3, <3>4, PopsPromise
  <2> QED  BY <2>2, <2>3
<1>9. CASE ~WrongState(w) /\ w.t # "PUSH"
  BY <1>2, <1>3, <1>4, <1>5, <1>9, <1>1, <1>6, PopsPlain
<1> QED  BY <1>7, <1>8, <1>9

-----------------------------------------------------------------------------
(* The theorem.                                                            *)

LEMMA InitIInv == Init => IInv
<1> SUFFICES ASSUME Init  PROVE IInv
  OBVIOUS
<1>1. /\ IsSequence(<<>>) /\ Elems(<<>>) = {} /\ Loops(<<>>) = {}
  BY ShortSequences
<1>2. DefaultWin \in Int
  BY HTTP2ServerAssumption
<1>3. /\ cas \in Cases /\ DOMAIN sc = ConnFields /\ sc.at = "start" /\ sc.flow = DefaultWin /\ sc.initSend = DefaultWin
      /\ sc.maxClient = 0 /\ sc.maxPush = 0 /\ ~sc.writing /\ ~sc.werr
  BY DEF Init, ConnFields
<1>4. DOMAIN net = NetFields /\ net.data = [i \in Ids |-> 0] /\ ~net.failed
  BY DEF Init, NetFields
<1>5. ConnInv
  BY <1>2, <1>3, <1>4 DEF ConnInv, NetFields
<1>6. DOMAIN st = Ids /\ DOMAIN hnd = Ids /\ \A i \in Ids : st[i] = NewStream /\ hnd[i] = NewHandler
  BY DEF Init
<1>7. DOMAIN NewStream = StreamFields /\ NewStream.flow = 0 /\ NewStream.len = 0 /\ NewStream.state = "idle"
  BY DEF NewStream, StreamFields
<1>8. /\ DOMAIN NewHandler = HandlerFields /\ NewHandler.at = "off" /\ NewHandler.seq = 0 /\ NewHandler.n = 0
      /\ NewHandler.buf = 0 /\ NewHandler.acked = 0 /\ ~NewHandler.waits
  BY DEF NewHandler, HandlerFields
<1>9. StreamInv
  BY <1>6, <1>7, <1>8 DEF StreamInv
<1>10. HandlerInv
  BY <1>4, <1>6, <1>8 DEF HandlerInv
<1>11. /\ work = <<>> /\ want = <<>> /\ msgs = <<>> /\ zero = <<>> /\ sq = [i \in Ids |-> <<>>]
       /\ wr = [frame |-> NoWr, at |-> "none"]
  BY DEF Init
<1>12. ServeInv
  BY <1>1, <1>3, <1>4, <1>11 DEF ServeInv, Messages, AtMostOne, NoEndStream
<1>13. LostInv
  BY <1>3, <1>11 DEF LostInv, Lost
<1>14. FrameInv
  BY <1>1, <1>11 DEF FrameInv, Writes, Replies
<1>15. WaitInv
  BY <1>6, <1>8 DEF WaitInv
<1> QED  BY <1>5, <1>9, <1>10, <1>12, <1>13, <1>14, <1>15 DEF IInv

LEMMA StutterIInv == ASSUME IInv, UNCHANGED vars  PROVE IInv'
BY SameParts, AloneCalm, CalmKeeps DEF vars

LEMMA ServeIInv == ASSUME IInv, ServeStep  PROVE IInv'
<1>1. CASE scheduleFrameWrite
  BY <1>1, ScheduleCalm, CalmKeeps
<1>2. CASE CloseAllStreams
  BY <1>2, CloseAllCalm, CalmKeeps
<1>3. CASE writeFrame
  BY <1>3, WritesAFrame
<1>4. CASE WriteGoAway
  BY <1>4, GoesAway
<1>5. CASE WriteAck
  BY <1>5, Acknowledges
<1>6. CASE PopControl
  BY <1>6, PopsControl
<1>7. CASE PopStream
  BY <1>7, PopsStream
<1>8. CASE FlushOrStop
  BY <1>8, FlushesOrStops
<1>9. CASE replyToWriter
  BY <1>9, Answers
<1>10. CASE MarkResetQueued
  BY <1>10, MarkCalm, CalmKeeps
<1>11. CASE closeStream
  BY <1>11, CloseStreamCalm, CalmKeeps
<1>12. CASE UnhookStream
  BY <1>12, Unhooks
<1>13. CASE InflowGrows
  BY <1>13, InflowCalm, CalmKeeps
<1>14. CASE goAway
  BY <1>14, goAwayCalm, CalmKeeps
<1>15. CASE AfterSelect
  BY <1>15, AfterCalm, CalmKeeps
<1>16. CASE endStream
  BY <1>16, EndStreamCalm, CalmKeeps
<1>17. CASE Start
  BY <1>17, StartCalm, CalmKeeps
<1>18. CASE readPreface
  BY <1>18, PrefaceCalm, CalmKeeps
<1> QED
  BY <1>1, <1>2, <1>3, <1>4, <1>5, <1>6, <1>7, <1>8, <1>9, <1>10, <1>11, <1>12, <1>13, <1>14, <1>15, <1>16,
     <1>17, <1>18 DEF ServeStep

LEMMA SelectIInv == ASSUME IInv, Select \/ ClientFrame  PROVE IInv'
<1>1. CASE RecvWantWrite
  BY <1>1, ReceivesFrame
<1>2. CASE RecvWrote
  BY <1>2, ReceivesWrote
<1>3. CASE RecvBodyRead
  BY <1>3, BodyReadCalm, CalmKeeps
<1>4. CASE RecvMessage
  BY <1>4, ReceivesMessage
<1>5. CASE RecvReadError
  BY <1>5, ReadErrorCalm, CalmKeeps
<1>6. CASE FirstNotSettings
  BY <1>6, FirstCalm, CalmKeeps
<1>7. CASE processSettings
  BY <1>7, SettingsCalm, CalmKeeps
<1>8. CASE SettingsAck
  BY <1>8, SettingsAckCalm, CalmKeeps
<1>9. CASE processPing
  BY <1>9, PingCalm, CalmKeeps
<1>10. CASE processGoAway
  BY <1>10, PeerGoAwayCalm, CalmKeeps
<1>11. CASE processWindowUpdate
  BY <1>11, WindowUpdateCalm, CalmKeeps
<1>12. CASE processResetStream
  BY <1>12, ResetCalm, CalmKeeps
<1>13. CASE processData
  BY <1>13, DataCalm, CalmKeeps
<1>14. CASE processHeaders
  BY <1>14, HeadersCalm, CalmKeeps
<1> QED
  BY <1>1, <1>2, <1>3, <1>4, <1>5, <1>6, <1>7, <1>8, <1>9, <1>10, <1>11, <1>12, <1>13, <1>14
  DEF Select, ClientFrame

LEMMA HandlersIInv == ASSUME IInv, HandlerCalls \/ HandlerStep  PROVE IInv'
<1>1. CASE HandlerCalls
  BY <1>1, CallsOfHandlersCalm, CalmKeeps
<1>2. CASE handlerDone
  BY <1>2, DoneCalm, CalmKeeps
<1>3. CASE startGracefulShutdown
  BY <1>3, GracefulCalm, CalmKeeps
<1>4. CASE writeFrameFromHandler
  BY <1>4, HandlerSends
<1>5. CASE AwaitFrame
  BY <1>5, AwaitCalm, CalmKeeps
<1>6. CASE PipeRead
  BY <1>6, PipeCalm, CalmKeeps
<1>7. CASE NoteGivesUp
  BY <1>7, NoteCalm, CalmKeeps
<1>8. CASE PushSends
  BY <1>8, Pushing
<1>9. CASE PushReturns
  BY <1>9, PushReturnsCalm, CalmKeeps
<1> QED  BY <1>1, <1>2, <1>3, <1>4, <1>5, <1>6, <1>7, <1>8, <1>9 DEF HandlerStep

LEMMA NextIInv == ASSUME IInv, [Next]_vars  PROVE IInv'
<1>1. CASE ServeStep
  BY <1>1, ServeIInv
<1>2. CASE Select \/ ClientFrame
  BY <1>2, SelectIInv
<1>3. CASE HandlerCalls \/ HandlerStep
  BY <1>3, HandlersIInv
<1>4. CASE writeFrameAsync
  BY <1>4, WritesAsync
<1>5. CASE TimerFires
  BY <1>5, TimerCalm, CalmKeeps
<1>6. CASE WriteTimeout
  BY <1>6, WriteTimeoutCalm, CalmKeeps
<1>7. CASE Shutdown
  BY <1>7, ShutdownCalm, CalmKeeps
<1>8. CASE ClientLeaves
  BY <1>8, LeavesCalm, CalmKeeps
<1>9. CASE UNCHANGED vars
  BY <1>9, StutterIInv
<1>10. Done => UNCHANGED vars
  BY DEF Done
<1> QED  BY <1>1, <1>2, <1>3, <1>4, <1>5, <1>6, <1>7, <1>8, <1>9, <1>10 DEF Next

\* What is carried to a handler is on its way.
LEMMA CarriedOnItsWay ==
  ASSUME IInv, NEW i \in Ids, Unhooking(i) \/ Carried(i, hnd[i].seq)
  PROVE  OnItsWay(i)
<1>1. /\ \A k \in DOMAIN want : k \in 1..Len(want)
      /\ \A k \in DOMAIN msgs : k \in 1..Len(msgs)
      /\ \A k \in DOMAIN sq[i] : k \in 1..Len(sq[i])
      /\ \A k \in DOMAIN work : k \in 1..Len(work)
  BY SequenceLength DEF IInv, ServeInv, Messages
<1>2. CASE Unhooking(i)
  BY <1>1, <1>2 DEF Unhooking, Elems, OnItsWay
<1>3. CASE \E w \in Elems(want) : Is(w, i, hnd[i].seq)
  BY <1>1, <1>3 DEF Is, Elems, OnItsWay
<1>4. CASE \E m \in Elems(msgs) : m.t = "push" /\ m.id = i /\ m.seq = hnd[i].seq
  BY <1>1, <1>4 DEF Elems, OnItsWay
<1>5. CASE \E w \in Elems(sq[i]) : Is(w, i, hnd[i].seq)
  BY <1>1, <1>5 DEF Is, Elems, OnItsWay
<1>6. CASE \E t \in Writes(work) \cup Replies(work) : Is(t.w, i, hnd[i].seq)
  BY <1>1, <1>6 DEF Is, Elems, Writes, Replies, OnItsWay
<1>7. CASE Is(wr.frame, i, hnd[i].seq)
  BY <1>7 DEF Is, OnItsWay
<1> QED  BY <1>2, <1>3, <1>4, <1>5, <1>6, <1>7 DEF Carried

LEMMA AnsweredByIInv == IInv => HandlersAnswered
BY CarriedOnItsWay DEF IInv, HandlerInv, AckedOnWire, WaitInv, WaitersAnswered, HandlersAnswered

\* A handler that waits for its frame, or for its push, is not forgotten, whatever the client sends,
\* whichever streams end and whenever the connection does; and a write is answered with success only
\* when its data are on the wire (writeDataFromHandler, startPush, replyToWriter, closeStream).
THEOREM HandlersAreAnswered == Spec => []HandlersAnswered
<1>1. IInv /\ [Next]_vars => IInv'
  BY NextIInv
<1> QED  BY InitIInv, <1>1, AnsweredByIInv, PTL DEF Spec
=============================================================================
