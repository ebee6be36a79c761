---------------------------- MODULE HTTP2Server ----------------------------
(***************************************************************************)
(* One HTTP/2 server connection (http/h2_bundle.go, http2serverConn): the    *)
(* serve goroutine that owns the connection's state, the goroutine that      *)
(* writes one frame at a time, a handler goroutine per stream, the timers,   *)
(* and a client that sends any frames in any order.                          *)
(*                                                                         *)
(* The serve goroutine's functions call each other in the middle of their    *)
(* bodies (closeStream -> sendWindowUpdate -> writeFrame ->                   *)
(* scheduleFrameWrite -> startFrameWrite -> wroteFrame -> closeStream ...)    *)
(* and handlers see what happens in between, so the calls still to be made   *)
(* are the stack "work", and every action of the serve loop runs its top.    *)
(***************************************************************************)
EXTENDS Integers, Sequences, FiniteSets, SequencesExt, FiniteSetsExt

CONSTANTS
  ClientIds,    \* the client's stream identifiers, odd
  PushIds,      \* the promised ones, even
  MaxWin,       \* 2^31 - 1, the largest window
  DefaultWin,   \* http2initialWindowSize
  ConnWin,      \* initialConnRecvWindowSize
  StreamWin,    \* initialStreamRecvWindowSize
  MaxFrame,     \* maxFrameSize
  AdvMax,       \* maxConcurrentStreams
  MaxQueued,    \* maxQueuedControlFrames
  ChanCap,      \* capacity of wantWriteFrameCh and serveMsgCh
  BufSize,      \* the responseWriter's bufio.Writer, in units of DATA
  Cases         \* what the goroutines around the serve goroutine may do, as assumed below

IsFrame(f) ==
  /\ f.t \in {"SETTINGS", "SETTINGSACK", "HEADERS", "DATA", "RST", "WINDOW", "PING", "GOAWAY", "BAD"}
  /\ f.id \in ClientIds \cup PushIds \cup {0} /\ f.n \in Nat /\ f.pad \in Nat /\ {f.end, f.bad} \subseteq BOOLEAN

ASSUME HTTP2ServerAssumption ==
  /\ {MaxWin, DefaultWin, ConnWin, StreamWin, MaxFrame, AdvMax, MaxQueued, ChanCap, BufSize} \subseteq Nat \ {0}
  /\ \A i \in ClientIds : i \in Nat /\ i % 2 = 1
  /\ \A i \in PushIds : i \in Nat \ {0} /\ i % 2 = 0
  /\ DefaultWin <= ConnWin /\ ConnWin <= MaxWin /\ StreamWin <= MaxWin
  /\ \A c \in Cases : /\ \A f \in c.frames : IsFrame(f)
                      /\ c.fits \subseteq BOOLEAN /\ c.sends \in Nat /\ c.calls \in Nat
                      /\ c.ops \subseteq {"write", "flush", "read", "close", "push", "panic", "goaway"}
                      /\ c.shapes \subseteq [head : BOOLEAN, hdrs : BOOLEAN, trailers : BOOLEAN, cont : BOOLEAN]
                      /\ c.timers \subseteq {"idle", "write", "settings", "shutdown", "leave"}

VARIABLES
  cas,    \* the case
  sc,     \* http2serverConn
  work,   \* the calls the serve goroutine has still to make
  st,     \* the streams, by identifier
  zero, sq,  \* http2randomWriteScheduler
  want,   \* wantWriteFrameCh
  wr,     \* the frame a writeFrameAsync goroutine has, and wroteFrameCh
  msgs,   \* serveMsgCh
  hnd,    \* the handlers and their http2responseWriterStates, by stream
  net     \* the client: what it may still send, what it has seen, what it may still send of DATA

vars == <<cas, sc, work, st, zero, sq, want, wr, msgs, hnd, net>>

Ids == ClientIds \cup PushIds

\* http2FrameWriteRequest: type, stream, DATA length or window increment, END_STREAM, done channel.
Wr(t, id, n, end, done) == [t |-> t, id |-> id, n |-> n, end |-> end, done |-> done]
NoWr == Wr("none", 0, 0, FALSE, 0)
\* wr.stream # nil: RST_STREAM names its stream but does not hold it.
Attached(w) == w.id # 0 /\ w.t # "RST"
EndsStream(w) == w.t \in {"DATA", "HEADERS"} /\ w.end

NewStream == [state |-> "idle", resetQueued |-> FALSE, trailer |-> FALSE, wroteHeaders |-> FALSE, flow |-> 0,
              inflow |-> 0, pipe |-> FALSE, len |-> 0, err |-> "none", broken |-> FALSE, decl |-> -1, bytes |-> 0,
              cw |-> FALSE, deadline |-> "off"]
NewHandler == [at |-> "off", calls |-> 0, head |-> FALSE, hdrs |-> FALSE, trailers |-> FALSE, cont |-> FALSE,
               buf |-> 0, n |-> 0, werr |-> FALSE, sent |-> FALSE, done |-> FALSE, dirty |-> FALSE,
               seq |-> 0, waits |-> FALSE, res |-> "none", acked |-> 0, closes |-> FALSE, eof |-> FALSE]

Init ==
  /\ cas \in Cases
  /\ sc = [at |-> "start", flow |-> DefaultWin, inflow |-> DefaultWin, initSend |-> DefaultWin, push |-> TRUE,
           clientMax |-> Cardinality(PushIds), nClient |-> 0, nPushed |-> 0, maxClient |-> 0, maxPush |-> 0,
           sawSettings |-> FALSE, unacked |-> 0, needAck |-> FALSE, goAway |-> "none", needGoAway |-> FALSE,
           queued |-> 0, writing |-> FALSE, needFlush |-> FALSE,
           timer |-> "nil", idle |-> "off", first |-> "off", once |-> FALSE, down |-> FALSE, werr |-> FALSE, panicked |-> FALSE]
  /\ work = <<>> /\ st = [i \in Ids |-> NewStream]
  /\ zero = <<>> /\ sq = [i \in Ids |-> <<>>] /\ want = <<>> /\ msgs = <<>>
  /\ wr = [frame |-> NoWr, at |-> "none"]
  /\ hnd = [i \in Ids |-> NewHandler]
  /\ net = [sends |-> cas.sends, gone |-> FALSE, failed |-> FALSE, deaf |-> FALSE, conn |-> DefaultWin,
            win |-> [i \in Ids |-> 0], got |-> 0, gave |-> DefaultWin, log |-> [i \in Ids |-> <<>>],
            data |-> [i \in Ids |-> 0]]

-----------------------------------------------------------------------------
(* The client's view, and integers of limited width. *)

InMap(id) == st[id].state \in {"open", "hcl", "hcr"}
Opened(ids) == {i \in ids : InMap(i)}
curOpenStreams == sc.nClient + sc.nPushed

\* serverConn.state
StateOf(id) == IF InMap(id) THEN st[id].state
               ELSE IF id <= (IF id % 2 = 1 THEN sc.maxClient ELSE sc.maxPush) THEN "closed" ELSE "idle"

\* int32 addition, and http2flow: add reports whether the sum is still a window.
Wrap(x) == IF x > MaxWin THEN x - 2 * (MaxWin + 1) ELSE IF x < -(MaxWin + 1) THEN x + 2 * (MaxWin + 1) ELSE x
FlowAdds(f, n) == (Wrap(f + n) > n) = (f > 0)
Available(own, shared) == Min({own, shared})

\* What the client has received of a stream is kept as the order of the kinds of frames.
Logged(log, kinds) == log \o SelectSeq(kinds, LAMBDA k : k # "DATA" \/ log = <<>> \/ Last(log) # "DATA")

\* A frame handed to the connection.
OnWire(nt, w) ==
  CASE w.t \in {"HEADERS", "DATA"} ->
         [nt EXCEPT !.log[w.id] = Logged(@, IF w.end THEN <<w.t, "END">> ELSE <<w.t>>),
                    !.data[w.id] = IF w.t = "DATA" THEN @ + w.n ELSE @,
                    !.got = IF w.t = "DATA" THEN @ + w.n ELSE @]
    [] w.t \in {"RST", "PANICRST"} -> [nt EXCEPT !.log[w.id] = Logged(@, <<"RST">>)]
    [] w.t = "CONTINUE" -> [nt EXCEPT !.log[w.id] = Logged(@, <<"CONTINUE">>)]
    [] w.t = "PUSH" -> [nt EXCEPT !.log[w.n] = <<"PROMISED">>]
    [] w.t = "WINDOW" -> IF w.id = 0 THEN [nt EXCEPT !.conn = @ + w.n] ELSE [nt EXCEPT !.win[w.id] = @ + w.n]
    [] OTHER -> nt

-----------------------------------------------------------------------------
(* The serve goroutine: the calls on its stack. *)

Task(op, id, n, w) == [op |-> op, id |-> id, n |-> n, w |-> w]
Write(w)       == Task("write", 0, 0, w)
Loop           == Task("loop", 0, 0, NoWr)       \* scheduleFrameWrite's loop, running
Sched          == Task("sched", 0, 0, NoWr)      \* scheduleFrameWrite, to be called
Reply(w, e)    == Task("reply", 0, e, w)
MarkReset(i)   == Task("mark", i, 0, NoWr)
CloseStream(i) == Task("close", i, 0, NoWr)
\* resetStream
ResetStream(i) == <<Write(Wr("RST", i, 0, FALSE, 0)), MarkReset(i)>>
Unhook(i)      == Task("unhook", i, 0, NoWr)
AddInflow(i, n) == Task("inflow", i, n, NoWr)
\* sendWindowUpdate: the frame is queued, and perhaps written, before the window grows.
SendWindow(i, n) == IF n = 0 THEN <<>> ELSE <<Write(Wr("WINDOW", i, n, FALSE, 0)), AddInflow(i, n)>>
GoAway(code)   == [Task("goaway", 0, 0, NoWr) EXCEPT !.w.t = code]
EndStream(i)   == Task("endstream", i, 0, NoWr)
AfterEvent     == Task("after", 0, 0, NoWr)
CloseAll       == Task("closeall", 0, 0, NoWr)

Running(op) == work # <<>> /\ Head(work).op = op
Top == Head(work)
Then(calls) == work' = calls \o Tail(work)

\* scheduleFrameWrite does nothing while a frame is being written, or when it is running already.
Schedule == IF sc.writing \/ \E k \in 1..Len(work) : work[k].op = "loop" THEN <<>> ELSE <<Loop>>

\* serve returns, or panics (http.conn.serve recovers): its deferred calls run.
Serving == sc.at = "serving" /\ work = <<>>
Ended   == sc.at \in {"closing", "closed"}      \* doneServing is closed
Exits(s) == /\ sc' = [s EXCEPT !.at = "closing", !.timer = "stopped", !.idle = "off", !.first = "off"]
            /\ work' = <<CloseAll>>
Panics == Exits([sc EXCEPT !.panicked = TRUE])

scheduleFrameWrite ==
  /\ Running("sched") /\ Then(Schedule)
  /\ UNCHANGED <<cas, sc, st, zero, sq, want, wr, msgs, hnd, net>>

CloseAllStreams ==
  /\ Running("closeall")
  /\ IF Opened(Ids) = {}
     THEN work' = <<>> /\ sc' = [sc EXCEPT !.at = "closed"]
     ELSE \E i \in Opened(Ids) : Then(<<CloseStream(i), CloseAll>>) /\ UNCHANGED sc
  /\ UNCHANGED <<cas, st, zero, sq, want, wr, msgs, hnd, net>>

\* writeFrame: frames for closed streams are dropped, and so is a late 100 Continue.
writeFrame ==
  /\ Running("write")
  /\ LET w == Top.w
         ignored == \/ w.id # 0 /\ StateOf(w.id) = "closed" /\ w.t # "RST"
                    \/ w.t = "CONTINUE" /\ st[w.id].wroteHeaders
     IN /\ IF w.t = "HEADERS" THEN st' = [st EXCEPT ![w.id].wroteHeaders = TRUE] ELSE UNCHANGED st
        /\ IF ignored THEN UNCHANGED <<sc, zero, sq>>
           ELSE /\ sc' = [sc EXCEPT !.queued = IF Attached(w) THEN @ ELSE @ + 1]
                /\ IF w.id = 0 THEN zero' = Append(zero, w) /\ UNCHANGED sq
                   ELSE sq' = [sq EXCEPT ![w.id] = Append(@, w)] /\ UNCHANGED zero
        /\ Then(Schedule)
  /\ UNCHANGED <<cas, want, wr, msgs, hnd, net>>

\* Mutant: the connection's window is not looked at.
X_StreamOnly(w) == Min({st[w.id].flow, MaxFrame})

\* http2FrameWriteRequest.Consume: how much of the frame may be written now.
Allowed(w) == Min({Available(st[w.id].flow, sc.flow), MaxFrame})
Consumable(w) == w.t # "DATA" \/ w.n = 0 \/ Allowed(w) > 0
Splits(w) == w.t = "DATA" /\ w.n > 0 /\ w.n > Allowed(w)
Piece(w) == IF Splits(w) THEN [w EXCEPT !.n = Allowed(w), !.end = FALSE, !.done = 0] ELSE w
Rest(w)  == IF Splits(w) THEN <<[w EXCEPT !.n = @ - Allowed(w)]>> ELSE <<>>
Poppable == {i \in Ids : sq[i] # <<>> /\ Consumable(Head(sq[i]))}

\* http2writeFramer.staysWithinBuffer
Fits(w) == IF w.t \in {"HEADERS", "PUSH", "GOAWAY", "FLUSH"} THEN {FALSE} ELSE cas.fits

\* The stream a PUSH_PROMISE opens, and its handler.
Opens(id, state) == [NewStream EXCEPT !.state = state, !.flow = sc.initSend, !.inflow = StreamWin,
                                      !.deadline = IF "write" \in cas.timers THEN "armed" ELSE "off"]
runHandler(shape) == [NewHandler EXCEPT !.at = "run", !.head = shape.head, !.hdrs = shape.hdrs,
                                        !.trailers = shape.trailers, !.cont = shape.cont]

\* wroteFrame: a frame that ends the response closes the stream, after telling a client that
\* is still sending to stop; then the handler that waits for the frame is told.
EndsResponse(w, streams) == EndsStream(w) /\ streams[w.id].state = "open"
HalfClose(w, streams) == IF EndsResponse(w, streams) THEN [streams EXCEPT ![w.id].state = "hcl"] ELSE streams
wroteFrame(w, e, streams) ==
  (IF EndsResponse(w, streams) THEN ResetStream(w.id)
   ELSE IF \/ EndsStream(w) /\ streams[w.id].state = "hcr"
           \/ w.t = "RST" /\ streams[w.id].state \in {"open", "hcl", "hcr"}
           \/ w.t = "PANICRST"
        THEN <<CloseStream(w.id)>> ELSE <<>>)
    \o (IF w.done # 0 THEN <<Reply(w, e)>> ELSE <<>>)

\* startFrameWrite, for a frame that leaves the connection in state s.  A small frame goes
\* into the buffer at once; another goroutine writes the others.
Starts(w, s, streams) ==
  LET busy == [s EXCEPT !.needFlush = w.t # "FLUSH"]
  IN \E fits \in Fits(w) :
       IF fits
       THEN /\ sc' = busy /\ st' = HalfClose(w, streams) /\ net' = (IF sc.werr THEN net ELSE OnWire(net, w))
            /\ Then(wroteFrame(w, IF sc.werr THEN 1 ELSE 0, streams) \o <<Loop>>) /\ UNCHANGED wr
       ELSE /\ sc' = [busy EXCEPT !.writing = TRUE] /\ st' = streams
            /\ wr' = [frame |-> w, at |-> "writing"] /\ Then(<<>>) /\ UNCHANGED net

\* Mutant: the assertion is gone.
X_AnyState(w) == FALSE

WrongState(w) == Attached(w) /\ \/ st[w.id].state = "closed"
                                \/ st[w.id].state = "hcl" /\ w.t \notin {"PANICRST", "WINDOW"}

\* One turn of scheduleFrameWrite's loop: GOAWAY, SETTINGS ACK, then what the scheduler pops:
\* frames of no stream first, then a frame of any stream that may be written.
MayPop == sc.goAway \in {"none", "NO"}
WriteGoAway ==
  /\ Running("loop") /\ sc.needGoAway
  /\ Starts(Wr("GOAWAY", 0, 0, FALSE, 0), [sc EXCEPT !.needGoAway = FALSE], st)
  /\ UNCHANGED <<cas, zero, sq, want, msgs, hnd>>

WriteAck ==
  /\ Running("loop") /\ ~sc.needGoAway /\ sc.needAck
  /\ Starts(Wr("ACK", 0, 0, FALSE, 0), [sc EXCEPT !.needAck = FALSE], st)
  /\ UNCHANGED <<cas, zero, sq, want, msgs, hnd>>

PopControl ==
  /\ Running("loop") /\ ~sc.needGoAway /\ ~sc.needAck /\ MayPop /\ zero # <<>>
  /\ zero' = Tail(zero)
  /\ Starts(Head(zero), [sc EXCEPT !.queued = @ - 1], st)
  /\ UNCHANGED <<cas, sq, want, msgs, hnd>>

\* allocatePromisedID: the promised stream gets its identifier when the frame is written.
PushRefused == ~sc.push \/ sc.nPushed + 1 > sc.clientMax \/ sc.maxPush + 2 \notin PushIds
StartsPush(w) ==
  IF PushRefused
  THEN /\ Then((IF sc.push /\ sc.nPushed + 1 <= sc.clientMax THEN <<GoAway("NO")>> ELSE <<>>) \o <<Reply(w, 1), Loop>>)
       /\ UNCHANGED <<sc, st, hnd, net, wr>>
  ELSE LET id == sc.maxPush + 2
       IN /\ Starts([w EXCEPT !.n = id], [sc EXCEPT !.maxPush = id, !.nPushed = @ + 1],
                    [st EXCEPT ![id] = Opens(id, "hcr")])
          /\ \E shape \in cas.shapes : hnd' = [hnd EXCEPT ![id] = runHandler([shape EXCEPT !.cont = FALSE])]

PopStream ==
  /\ Running("loop") /\ ~sc.needGoAway /\ ~sc.needAck /\ MayPop /\ zero = <<>>
  /\ \E i \in Poppable :
       LET w == Piece(Head(sq[i]))
           n == IF w.t = "DATA" THEN w.n ELSE 0
       IN /\ sq' = [sq EXCEPT ![i] = Rest(Head(@)) \o Tail(@)]
          /\ IF WrongState(w) THEN Panics /\ UNCHANGED <<st, hnd, net, wr>>
             ELSE IF w.t = "PUSH" THEN StartsPush(w)
             ELSE /\ Starts(w, [sc EXCEPT !.flow = @ - n, !.queued = IF Attached(w) THEN @ ELSE @ - 1],
                            [st EXCEPT ![i].flow = @ - n])
                  /\ UNCHANGED hnd
  /\ UNCHANGED <<cas, zero, want, msgs>>

NothingToPop == MayPop => zero = <<>> /\ Poppable = {}
FlushOrStop ==
  /\ Running("loop") /\ ~sc.needGoAway /\ ~sc.needAck /\ NothingToPop
  /\ IF sc.needFlush THEN Starts(Wr("FLUSH", 0, 0, FALSE, 0), sc, st)
     ELSE Then(<<>>) /\ UNCHANGED <<sc, st, wr, net>>
  /\ UNCHANGED <<cas, zero, sq, want, msgs, hnd>>

\* replyToWriter: the channel has room for one answer, and the handler may have left.
replyToWriter ==
  /\ Running("reply") /\ Then(<<>>)
  /\ LET id == Top.w.id
     IN IF Top.w.done # 0 /\ hnd[id].seq = Top.w.done
        THEN hnd' = [hnd EXCEPT ![id].res = IF Top.n = 0 THEN "ok" ELSE "err"]
        ELSE UNCHANGED hnd
  /\ UNCHANGED <<cas, sc, st, zero, sq, want, wr, msgs, net>>

MarkResetQueued ==
  /\ Running("mark") /\ Then(<<>>)
  /\ st' = [st EXCEPT ![Top.id].resetQueued = @ \/ InMap(Top.id)]
  /\ UNCHANGED <<cas, sc, zero, sq, want, wr, msgs, hnd, net>>

\* closeStream, up to the window it gives back for the bytes nobody read ...
closeStream ==
  /\ Running("close")
  /\ LET i == Top.id
         s == [sc EXCEPT !.nClient = IF i % 2 = 1 THEN @ - 1 ELSE @, !.nPushed = IF i % 2 = 0 THEN @ - 1 ELSE @]
         last == Opened(Ids) = {i}
     IN IF ~InMap(i) THEN Panics /\ UNCHANGED st
        ELSE /\ sc' = [s EXCEPT !.idle = IF last /\ "idle" \in cas.timers /\ ~Ended THEN "armed" ELSE @]
             /\ st' = [st EXCEPT ![i].state = "closed", ![i].deadline = IF @ = "armed" THEN "off" ELSE @]
             /\ Then((IF last /\ sc.down THEN <<GoAway("NO")>> ELSE <<>>)
                       \o (IF st[i].pipe THEN SendWindow(0, st[i].len) ELSE <<>>) \o <<Unhook(i)>>)
  /\ UNCHANGED <<cas, zero, sq, want, wr, msgs, hnd, net>>

\* Mutant: the stream's close channel stays open.
X_Unnoticed ==
  /\ Running("unhook") /\ Then(<<>>)
  /\ st' = [st EXCEPT ![Top.id].err = IF @ = "none" /\ st[Top.id].pipe THEN "closed" ELSE @]
  /\ sq' = [sq EXCEPT ![Top.id] = <<>>]
  /\ UNCHANGED <<cas, sc, zero, want, wr, msgs, hnd, net>>

\* ... and the rest of it.
UnhookStream ==
  /\ Running("unhook") /\ Then(<<>>)
  /\ st' = [st EXCEPT ![Top.id].err = IF @ = "none" /\ st[Top.id].pipe THEN "closed" ELSE @, ![Top.id].cw = TRUE]
  /\ sq' = [sq EXCEPT ![Top.id] = <<>>]
  /\ UNCHANGED <<cas, sc, zero, want, wr, msgs, hnd, net>>

InflowGrows ==
  /\ Running("inflow")
  /\ LET i == Top.id
         f == IF i = 0 THEN sc.inflow ELSE st[i].inflow
     IN IF ~FlowAdds(f, Top.n) THEN Panics /\ UNCHANGED st
        ELSE /\ Then(<<>>)
             /\ sc' = IF i = 0 THEN [sc EXCEPT !.inflow = @ + Top.n] ELSE sc
             /\ st' = IF i = 0 THEN st ELSE [st EXCEPT ![i].inflow = @ + Top.n]
  /\ UNCHANGED <<cas, zero, sq, want, wr, msgs, hnd, net>>

goAway ==
  /\ Running("goaway")
  /\ IF sc.goAway # "none" THEN Then(<<>>) /\ UNCHANGED sc
     ELSE Then(Schedule) /\ sc' = [sc EXCEPT !.goAway = Top.w.t, !.needGoAway = TRUE]
  /\ UNCHANGED <<cas, st, zero, sq, want, wr, msgs, hnd, net>>

\* Mutant: the shutdown timer waits for the streams to end, whatever the GOAWAY.
X_WaitsForStreams ==
  /\ Running("after")
  /\ LET sent == sc.goAway # "none" /\ ~sc.needGoAway /\ ~sc.writing
     IN IF sc.queued > MaxQueued THEN Exits(sc)
        ELSE /\ sc' = IF sent /\ sc.timer = "nil" /\ curOpenStreams = 0 THEN [sc EXCEPT !.timer = "armed"] ELSE sc
             /\ Then(<<>>)
  /\ UNCHANGED <<cas, st, zero, sq, want, wr, msgs, hnd, net>>

\* The end of a turn of serve's loop: too many control frames, or the shutdown timer.
AfterSelect ==
  /\ Running("after")
  /\ LET sent == sc.goAway # "none" /\ ~sc.needGoAway /\ ~sc.writing
     IN IF sc.queued > MaxQueued THEN Exits(sc)
        ELSE /\ sc' = IF sent /\ sc.timer = "nil" /\ (sc.goAway # "NO" \/ curOpenStreams = 0)
                      THEN [sc EXCEPT !.timer = "armed"] ELSE sc
             /\ Then(<<>>)
  /\ UNCHANGED <<cas, st, zero, sq, want, wr, msgs, hnd, net>>

-----------------------------------------------------------------------------
(* The serve goroutine: what it starts with, and what its select receives. *)

Event(calls) == work' = calls \o <<AfterEvent>>

\* The server's SETTINGS, a larger connection window, then the client's preface, or none.
Start ==
  /\ sc.at = "start" /\ work = <<>>
  /\ sc' = [sc EXCEPT !.at = "preface", !.unacked = 1]
  /\ work' = <<Write(Wr("SETTINGS", 0, 0, FALSE, 0))>> \o SendWindow(0, ConnWin - DefaultWin)
  /\ net' = [net EXCEPT !.win = [i \in Ids |-> StreamWin]]
  /\ UNCHANGED <<cas, st, zero, sq, want, wr, msgs, hnd>>

readPreface ==
  /\ sc.at = "preface" /\ work = <<>>
  /\ IF net.gone THEN Exits(sc)
     ELSE /\ sc' = [sc EXCEPT !.at = "serving", !.idle = IF "idle" \in cas.timers THEN "armed" ELSE "off",
                              !.first = IF "settings" \in cas.timers THEN "armed" ELSE "off"]
          /\ UNCHANGED work
  /\ UNCHANGED <<cas, st, zero, sq, want, wr, msgs, hnd, net>>

RecvWantWrite ==
  /\ Serving /\ want # <<>> /\ want' = Tail(want)
  /\ Event(IF Head(want).t = "RST" THEN ResetStream(Head(want).id) ELSE <<Write(Head(want))>>)
  /\ UNCHANGED <<cas, sc, st, zero, sq, wr, msgs, hnd, net>>

RecvWrote ==
  /\ Serving /\ wr.at \in {"written", "failed"} /\ wr' = [frame |-> NoWr, at |-> "none"]
  /\ Event(wroteFrame(wr.frame, IF wr.at = "failed" THEN 1 ELSE 0, st) \o <<Sched>>)
  /\ st' = HalfClose(wr.frame, st)
  /\ sc' = [sc EXCEPT !.writing = FALSE, !.werr = @ \/ wr.at = "failed"]     \* bufio.Writer keeps its error
  /\ UNCHANGED <<cas, zero, sq, want, msgs, hnd, net>>

\* noteBodyRead: the handler waits at the unbuffered bodyReadCh.
RecvBodyRead ==
  /\ Serving
  /\ \E i \in Ids :
       /\ hnd[i].at = "note" /\ hnd' = [hnd EXCEPT ![i].at = "run", ![i].n = 0]
       /\ Event(SendWindow(0, hnd[i].n) \o
                IF st[i].state \in {"hcr", "closed"} THEN <<>> ELSE SendWindow(i, hnd[i].n))
  /\ UNCHANGED <<cas, sc, st, zero, sq, want, wr, msgs, net>>

\* startPush, for the push messages.
RecvMessage ==
  /\ Serving /\ msgs # <<>> /\ msgs' = Tail(msgs)
  /\ LET m == Head(msgs)
         w == Wr("PUSH", m.id, 0, FALSE, m.seq)
     IN CASE m.t \in {"settings", "shutdown"} -> Exits(sc)
          [] m.t \in {"idle", "graceful"} -> Event(<<GoAway("NO")>>) /\ UNCHANGED sc
          [] m.t = "push" -> /\ Event(IF st[m.id].state \in {"open", "hcr"} /\ sc.push THEN <<Write(w)>> ELSE <<Reply(w, 1)>>)
                             /\ UNCHANGED sc
  /\ UNCHANGED <<cas, st, zero, sq, want, wr, hnd, net>>

\* The reader goroutine's error: the client has gone, or a frame that ends the reading.
RecvReadError ==
  /\ Serving
  /\ \/ net.gone /\ ~net.deaf /\ Exits(sc) /\ UNCHANGED net
     \/ /\ net.sends > 0 /\ ~net.gone /\ \E f \in cas.frames : f.t = "BAD"
        /\ net' = [net EXCEPT !.sends = 0, !.deaf = TRUE] /\ Event(<<GoAway("FRAME_SIZE")>>) /\ UNCHANGED sc
  /\ UNCHANGED <<cas, st, zero, sq, want, wr, msgs, hnd>>

-----------------------------------------------------------------------------
(* processFrame *)

\* The next frame of the client.  The first must be SETTINGS.
Recv(f, t) == /\ Serving /\ net.sends > 0 /\ ~net.gone /\ f \in cas.frames /\ f.t = t
              /\ sc.sawSettings \/ t = "SETTINGS"
NextClient(nt) == net' = [nt EXCEPT !.sends = @ - 1]

FirstNotSettings ==
  /\ Serving /\ net.sends > 0 /\ ~net.gone /\ ~sc.sawSettings
  /\ \E f \in cas.frames : f.t \in {"HEADERS", "PING"}
  /\ sc' = [sc EXCEPT !.first = "off"]
  /\ Event(<<GoAway("PROTOCOL")>>) /\ NextClient(net)
  /\ UNCHANGED <<cas, st, zero, sq, want, wr, msgs, hnd>>

\* processSettings: a new window size moves every stream's window, in the map's order, and
\* stops at one that would overflow.  The acknowledgement is sent once for several SETTINGS.
processSettings ==
  /\ \E f \in cas.frames :
       /\ Recv(f, "SETTINGS") /\ NextClient(net)
       /\ LET s == [sc EXCEPT !.sawSettings = TRUE, !.first = "off"]
              growth == f.n - sc.initSend
              bad == {i \in Opened(Ids) : ~FlowAdds(st[i].flow, growth)}
          IN \E moved \in IF bad = {} THEN {Opened(Ids)} ELSE SUBSET (Opened(Ids) \ bad) :
               /\ st' = [i \in Ids |-> IF i \in moved THEN [st[i] EXCEPT !.flow = Wrap(@ + growth)] ELSE st[i]]
               /\ sc' = [s EXCEPT !.initSend = f.n, !.push = ~f.bad, !.needAck = @ \/ bad = {}]
               /\ Event(IF bad = {} THEN Schedule ELSE <<GoAway("FLOW_CONTROL")>>)
  /\ UNCHANGED <<cas, zero, sq, want, wr, msgs, hnd>>

SettingsAck ==
  /\ \E f \in cas.frames : Recv(f, "SETTINGSACK") /\ NextClient(net)
  /\ sc' = [sc EXCEPT !.unacked = @ - 1]
  /\ Event(IF sc.unacked = 0 THEN <<GoAway("PROTOCOL")>> ELSE <<>>)
  /\ UNCHANGED <<cas, st, zero, sq, want, wr, msgs, hnd>>

\* processPing, processGoAway
Failing == sc.goAway \notin {"none", "NO"}
processPing ==
  /\ \E f \in cas.frames : Recv(f, "PING") /\ NextClient(net)
  /\ Event(IF Failing THEN <<>> ELSE <<Write(Wr("PING", 0, 0, FALSE, 0))>>)
  /\ UNCHANGED <<cas, sc, st, zero, sq, want, wr, msgs, hnd>>

processGoAway ==
  /\ \E f \in cas.frames : Recv(f, "GOAWAY") /\ NextClient(net)
  /\ sc' = [sc EXCEPT !.push = FALSE] /\ Event(<<GoAway("NO")>>)
  /\ UNCHANGED <<cas, st, zero, sq, want, wr, msgs, hnd>>

processWindowUpdate ==
  /\ \E f \in cas.frames :
       /\ Recv(f, "WINDOW")
       /\ NextClient([net EXCEPT !.gave = IF f.id = 0 /\ FlowAdds(sc.flow, f.n) THEN @ + f.n ELSE @])
       /\ IF f.id = 0
          THEN /\ sc' = IF FlowAdds(sc.flow, f.n) THEN [sc EXCEPT !.flow = @ + f.n] ELSE sc
               /\ Event(IF FlowAdds(sc.flow, f.n) THEN Schedule ELSE <<GoAway("FLOW_CONTROL")>>)
               /\ UNCHANGED st
          ELSE /\ LET ok == FlowAdds(st[f.id].flow, f.n)
                  IN /\ st' = IF InMap(f.id) /\ ok THEN [st EXCEPT ![f.id].flow = @ + f.n] ELSE st
                     /\ Event(CASE StateOf(f.id) = "idle" -> <<GoAway("PROTOCOL")>>
                                [] ~InMap(f.id) /\ StateOf(f.id) = "closed" -> <<>>
                                [] OTHER -> IF ok THEN Schedule ELSE ResetStream(f.id))
               /\ UNCHANGED sc
  /\ UNCHANGED <<cas, zero, sq, want, wr, msgs, hnd>>

processResetStream ==
  /\ \E f \in cas.frames :
       /\ Recv(f, "RST") /\ NextClient(net)
       /\ Event(IF StateOf(f.id) = "idle" THEN <<GoAway("PROTOCOL")>>
                ELSE IF InMap(f.id) THEN <<CloseStream(f.id)>> ELSE <<>>)
  /\ UNCHANGED <<cas, sc, st, zero, sq, want, wr, msgs, hnd>>

\* endStream: the body ends, well or short of its declared length.
EndBody(s) == [s EXCEPT !.state = "hcr",
                        !.err = IF @ # "none" THEN @ ELSE IF s.decl \in {-1, s.bytes} THEN "eof" ELSE "short"]
endStream ==
  /\ Running("endstream") /\ Then(<<>>) /\ st' = [st EXCEPT ![Top.id] = EndBody(@)]
  /\ UNCHANGED <<cas, sc, zero, sq, want, wr, msgs, hnd, net>>

\* processData.  The client's own account is charged whatever the server does with the frame.
processData ==
  /\ \E f \in cas.frames :
       LET i == f.id
           s == st[i]
           length == f.n + f.pad
           unwanted == s.state # "open" \/ s.trailer \/ s.resetQueued
           tooMuch == s.decl # -1 /\ s.bytes + f.n > s.decl
           refused == length > 0 /\ Available(s.inflow, sc.inflow) < length
           closed == f.n > 0 /\ s.err # "none"
           taken == [s EXCEPT !.inflow = @ - length]
           filled == [taken EXCEPT !.bytes = @ + f.n, !.len = IF s.broken THEN 0 ELSE @ + f.n]
       IN /\ Recv(f, "DATA")
          /\ NextClient([net EXCEPT !.conn = @ - length, !.win[i] = @ - length])
          /\ IF Failing THEN Event(<<>>) /\ UNCHANGED <<sc, st>>
             ELSE IF StateOf(i) = "idle" THEN Event(<<GoAway("PROTOCOL")>>) /\ UNCHANGED <<sc, st>>
             ELSE IF unwanted
             THEN /\ IF sc.inflow < length THEN Event(ResetStream(i)) /\ UNCHANGED sc
                     ELSE /\ sc' = [sc EXCEPT !.inflow = @ - length]
                          /\ Event(SendWindow(0, length) \o
                                   IF InMap(i) /\ s.resetQueued THEN <<>> ELSE ResetStream(i))
                  /\ UNCHANGED st
             ELSE IF ~s.pipe THEN Panics /\ UNCHANGED st
             ELSE IF tooMuch THEN /\ st' = [st EXCEPT ![i].err = IF @ = "none" THEN "long" ELSE @]
                                  /\ Event(ResetStream(i)) /\ UNCHANGED sc
             ELSE IF refused THEN Event(ResetStream(i)) /\ UNCHANGED <<sc, st>>
             ELSE /\ sc' = [sc EXCEPT !.inflow = @ - length]
                  /\ st' = [st EXCEPT ![i] = IF closed THEN taken ELSE filled]
                  /\ Event(IF closed THEN ResetStream(i)
                           ELSE SendWindow(0, f.pad) \o SendWindow(i, f.pad) \o
                                IF f.end THEN <<EndStream(i)>> ELSE <<>>)
  /\ UNCHANGED <<cas, zero, sq, want, wr, msgs, hnd>>

\* processHeaders: a new stream, or the trailers of one.
processHeaders ==
  /\ \E f \in cas.frames :
       /\ Recv(f, "HEADERS") /\ NextClient(net)
       /\ LET i == f.id
              s == st[i]
          IN IF sc.goAway # "none" THEN Event(<<>>) /\ UNCHANGED <<sc, st, hnd>>
             ELSE IF InMap(i)
             THEN /\ IF s.resetQueued THEN Event(<<>>) /\ UNCHANGED st
                     ELSE IF s.state = "hcr" THEN Event(ResetStream(i)) /\ UNCHANGED st
                     ELSE IF s.trailer THEN Event(<<GoAway("PROTOCOL")>>) /\ UNCHANGED st
                     ELSE /\ Event(IF ~f.end \/ f.bad THEN ResetStream(i) ELSE <<>>)
                          /\ st' = [st EXCEPT ![i] = IF ~f.end \/ f.bad THEN [s EXCEPT !.trailer = TRUE]
                                                     ELSE EndBody([s EXCEPT !.trailer = TRUE])]
                  /\ UNCHANGED <<sc, hnd>>
             ELSE IF i % 2 = 0 \/ i <= sc.maxClient THEN Event(<<GoAway("PROTOCOL")>>) /\ UNCHANGED <<sc, st, hnd>>
             ELSE IF sc.nClient + 1 > AdvMax
             THEN /\ sc' = [sc EXCEPT !.maxClient = i, !.idle = IF @ = "armed" THEN "off" ELSE @]
                  /\ Event(ResetStream(i)) /\ UNCHANGED <<st, hnd>>
             ELSE \E shape \in cas.shapes :
                  LET malformed == f.bad \/ (shape.head /\ ~f.end)
                      opened == Opens(i, IF f.end THEN "hcr" ELSE "open")
                  IN /\ sc' = [sc EXCEPT !.maxClient = i, !.idle = IF @ = "armed" THEN "off" ELSE @, !.nClient = @ + 1]
                     /\ st' = [st EXCEPT ![i] = IF f.end \/ malformed THEN opened
                                                ELSE [opened EXCEPT !.pipe = TRUE, !.decl = f.n - 1]]
                     /\ IF malformed THEN Event(ResetStream(i)) /\ UNCHANGED hnd
                        ELSE Event(<<>>) /\ hnd' = [hnd EXCEPT ![i] = runHandler(shape)]
  /\ UNCHANGED <<cas, zero, sq, want, wr, msgs>>

-----------------------------------------------------------------------------
(* The handlers: http2responseWriter and http2requestBody. *)

May(i, op) == hnd[i].at = "run" /\ op \in cas.ops /\ hnd[i].calls < cas.calls
Set(i, h) == hnd' = [hnd EXCEPT ![i] = h]
Called(i) == [hnd[i] EXCEPT !.calls = @ + 1]

\* A call on the response is over.  A failed flush of the buffer leaves it full, and failed;
\* after handlerDone the state goes back to its pool unless a write had failed before.
Finish(h, ok) ==
  [h EXCEPT !.at = IF h.done THEN "gone" ELSE "run", !.werr = @ \/ (~ok /\ h.n > 0), !.buf = IF ok THEN 0 ELSE @,
            !.n = 0, !.res = "none", !.waits = FALSE]
Failed(h) == Finish([h EXCEPT !.dirty = TRUE], FALSE)

\* writeChunk, by its parts: the header, the data, the trailers.  A HEAD response's header
\* ends the stream; then the bytes count as not written, a short write for the buffer.
Ends(h)      == h.done /\ ~h.trailers
AfterHead(h) == IF h.head THEN Finish(h, TRUE)
                ELSE IF h.n > 0 \/ Ends(h) THEN [h EXCEPT !.at = "data"]
                ELSE IF h.done THEN [h EXCEPT !.at = "trailer"] ELSE Finish(h, TRUE)
AfterData(h) == IF h.done /\ h.trailers THEN [h EXCEPT !.at = "trailer"] ELSE Finish(h, TRUE)
HeadEnds(h)  == (Ends(h) /\ h.n = 0) \/ h.head
HeaderSent(h) == IF HeadEnds(h) THEN Finish(h, h.n = 0) ELSE AfterHead([h EXCEPT !.res = "none", !.waits = FALSE])
writeChunk(h, n) ==
  LET g == [h EXCEPT !.n = n]
  IN IF g.sent THEN AfterHead(g) ELSE [g EXCEPT !.sent = TRUE, !.at = IF g.closes /\ ~sc.once THEN "graceful" ELSE "header"]
Flush(h) == IF h.buf > 0 THEN IF h.werr THEN Finish(h, FALSE) ELSE writeChunk(h, h.buf) ELSE writeChunk(h, 0)

HandlerWrites ==
  /\ \E i \in Ids :
       /\ May(i, "write") /\ ~hnd[i].werr /\ hnd[i].buf < BufSize
       /\ Set(i, [Called(i) EXCEPT !.buf = @ + 1])
  /\ UNCHANGED <<cas, sc, work, st, zero, sq, want, wr, msgs, net>>

HandlerFlushes ==
  /\ \E i \in Ids : May(i, "flush") /\ Set(i, Flush(Called(i)))
  /\ UNCHANGED <<cas, sc, work, st, zero, sq, want, wr, msgs, net>>

\* The Connection: close header, read when the response header is sent.
HandlerSetsClose ==
  /\ \E i \in Ids : May(i, "goaway") /\ ~hnd[i].sent /\ Set(i, [Called(i) EXCEPT !.closes = TRUE])
  /\ UNCHANGED <<cas, sc, work, st, zero, sq, want, wr, msgs, net>>

handlerDone ==
  /\ \E i \in Ids : hnd[i].at = "run" /\ Set(i, Flush([hnd[i] EXCEPT !.done = TRUE]))
  /\ UNCHANGED <<cas, sc, work, st, zero, sq, want, wr, msgs, net>>

startGracefulShutdown ==
  /\ \E i \in Ids :
       /\ hnd[i].at = "graceful"
       /\ IF Ended \/ sc.once THEN UNCHANGED <<sc, msgs>>
          ELSE Len(msgs) < ChanCap /\ msgs' = Append(msgs, [t |-> "graceful", id |-> 0, seq |-> 0])
               /\ sc' = [sc EXCEPT !.once = TRUE]
       /\ Set(i, [hnd[i] EXCEPT !.at = "header"])
  /\ UNCHANGED <<cas, work, st, zero, sq, want, wr, net>>

\* writeHeaders, writeDataFromHandler and writeFrameFromHandler, up to the wait.  Headers
\* without a map of the handler's are not waited for.
Sends(h) ==
  CASE h.at = "header"  -> [t |-> "HEADERS", n |-> 0, end |-> HeadEnds(h), waits |-> h.hdrs]
    [] h.at = "data"    -> [t |-> "DATA", n |-> h.n, end |-> Ends(h), waits |-> TRUE]
    [] h.at = "trailer" -> [t |-> "HEADERS", n |-> 0, end |-> TRUE, waits |-> TRUE]
    [] h.at = "continue" -> [t |-> "CONTINUE", n |-> 0, end |-> FALSE, waits |-> FALSE]
    [] h.at = "panic"   -> [t |-> "PANICRST", n |-> 0, end |-> FALSE, waits |-> FALSE]
Sent(h) == CASE h.at = "header" -> HeaderSent(h)
             [] h.at = "continue" -> [h EXCEPT !.at = "reading"]
             [] h.at = "panic" -> [h EXCEPT !.at = "gone", !.dirty = TRUE]
writeFrameFromHandler ==
  /\ \E i \in Ids :
       /\ hnd[i].at \in {"header", "data", "trailer", "continue", "panic"} /\ ~hnd[i].waits
       /\ LET h == hnd[i]
              f == Sends(h)
          IN \/ /\ Ended /\ UNCHANGED want
                /\ Set(i, IF h.at \in {"continue", "panic"} THEN Sent(h) ELSE Failed(h))
             \/ /\ Len(want) < ChanCap
                /\ want' = Append(want, Wr(f.t, i, f.n, f.end, IF f.waits THEN h.seq + 1 ELSE 0))
                /\ Set(i, IF f.waits THEN [h EXCEPT !.waits = TRUE, !.seq = @ + 1, !.res = "none"] ELSE Sent(h))
  /\ UNCHANGED <<cas, sc, work, st, zero, sq, wr, msgs, net>>

\* The answer to the frame, or the stream's end, or the connection's.  For DATA an answer
\* that is there already is preferred to the end of the stream.
AwaitFrame ==
  /\ \E i \in Ids :
       LET h == [hnd[i] EXCEPT !.waits = FALSE, !.res = "none"]
       IN /\ hnd[i].waits /\ h.at # "push"
          /\ \/ /\ hnd[i].res = "ok"
                /\ Set(i, CASE h.at = "header"  -> HeaderSent(h)
                            [] h.at = "data"    -> AfterData([h EXCEPT !.acked = @ + h.n])
                            [] h.at = "trailer" -> Finish(h, TRUE))
             \/ /\ \/ hnd[i].res = "err"
                   \/ st[i].cw /\ (h.at # "data" \/ hnd[i].res = "none")
                   \/ Ended
                /\ Set(i, Failed(h))
  /\ UNCHANGED <<cas, sc, work, st, zero, sq, want, wr, msgs, net>>

\* requestBody.Read: 100 Continue first, then the pipe, then noteBodyReadFromHandler.
HandlerReads ==
  /\ \E i \in Ids : May(i, "read") /\ Set(i, [Called(i) EXCEPT !.at = IF hnd[i].cont THEN "continue" ELSE "reading", !.cont = FALSE])
  /\ UNCHANGED <<cas, sc, work, st, zero, sq, want, wr, msgs, net>>

PipeRead ==
  /\ \E i \in Ids :
       /\ hnd[i].at = "reading"
       /\ IF ~st[i].pipe \/ hnd[i].eof \/ st[i].broken \/ st[i].len = 0
          THEN /\ ~st[i].pipe \/ hnd[i].eof \/ st[i].broken \/ st[i].err # "none"
               /\ Set(i, [hnd[i] EXCEPT !.at = "run", !.eof = @ \/ (~st[i].broken /\ st[i].err = "eof")])
               /\ UNCHANGED st
          ELSE \E n \in {1, st[i].len} :
               st' = [st EXCEPT ![i].len = @ - n] /\ Set(i, [hnd[i] EXCEPT !.at = "note", !.n = n])
  /\ UNCHANGED <<cas, sc, work, zero, sq, want, wr, msgs, net>>

NoteGivesUp ==
  /\ Ended
  /\ \E i \in Ids : hnd[i].at = "note" /\ Set(i, [hnd[i] EXCEPT !.at = "run", !.n = 0])
  /\ UNCHANGED <<cas, sc, work, st, zero, sq, want, wr, msgs, net>>

\* requestBody.Close breaks the pipe: what it holds is dropped, and what still comes.
HandlerClosesBody ==
  /\ \E i \in Ids : /\ May(i, "close") /\ Set(i, Called(i))
                    /\ st' = [st EXCEPT ![i].broken = st[i].pipe, ![i].len = 0]
  /\ UNCHANGED <<cas, sc, work, zero, sq, want, wr, msgs, net>>

HandlerPanics ==
  /\ \E i \in Ids : May(i, "panic") /\ Set(i, [Called(i) EXCEPT !.at = "panic"])
  /\ UNCHANGED <<cas, sc, work, st, zero, sq, want, wr, msgs, net>>

\* Push waits twice: to send its message, and for the promised stream.
HandlerPushes ==
  /\ \E i \in ClientIds : May(i, "push") /\ Set(i, [Called(i) EXCEPT !.at = "push"])
  /\ UNCHANGED <<cas, sc, work, st, zero, sq, want, wr, msgs, net>>

PushSends ==
  /\ \E i \in ClientIds :
       LET h == hnd[i]
       IN /\ h.at = "push" /\ ~h.waits
          /\ \/ /\ Len(msgs) < ChanCap /\ msgs' = Append(msgs, [t |-> "push", id |-> i, seq |-> h.seq + 1])
                /\ Set(i, [h EXCEPT !.waits = TRUE, !.seq = @ + 1, !.res = "none"])
             \/ (Ended \/ st[i].cw) /\ Set(i, [h EXCEPT !.at = "run"]) /\ UNCHANGED msgs
  /\ UNCHANGED <<cas, sc, work, st, zero, sq, want, wr, net>>

PushReturns ==
  /\ \E i \in ClientIds :
       /\ hnd[i].at = "push" /\ hnd[i].waits /\ (hnd[i].res # "none" \/ Ended \/ st[i].cw)
       /\ Set(i, [hnd[i] EXCEPT !.at = "run", !.waits = FALSE, !.res = "none"])
  /\ UNCHANGED <<cas, sc, work, st, zero, sq, want, wr, msgs, net>>

-----------------------------------------------------------------------------
(* The other goroutines, the timers, the server's Shutdown, the client and the network. *)

\* writeFrameAsync: fails when the connection is broken, or closed under it.
writeFrameAsync ==
  /\ wr.at = "writing"
  /\ IF net.failed \/ sc.at = "closed" THEN wr' = [wr EXCEPT !.at = "failed"] /\ UNCHANGED net
     ELSE wr' = [wr EXCEPT !.at = "written"] /\ net' = OnWire(net, wr.frame)
  /\ UNCHANGED <<cas, sc, work, st, zero, sq, want, msgs, hnd>>

SendsMessage(t) == Len(msgs) < ChanCap /\ msgs' = Append(msgs, [t |-> t, id |-> 0, seq |-> 0])
TimerFires ==
  /\ \/ sc.timer = "armed" /\ SendsMessage("shutdown") /\ sc' = [sc EXCEPT !.timer = "fired"]
     \/ sc.idle = "armed"  /\ SendsMessage("idle")     /\ sc' = [sc EXCEPT !.idle = "fired"]
     \/ sc.first = "armed" /\ SendsMessage("settings") /\ sc' = [sc EXCEPT !.first = "fired"]
  /\ UNCHANGED <<cas, work, st, zero, sq, want, wr, hnd, net>>

\* onWriteTimeout, whose goroutine may find the channel full.
WriteTimeout ==
  /\ \E i \in Ids :
       \/ st[i].deadline = "armed" /\ st' = [st EXCEPT ![i].deadline = "fired"] /\ UNCHANGED want
       \/ /\ st[i].deadline = "fired" /\ Len(want) < ChanCap /\ st' = [st EXCEPT ![i].deadline = "off"]
          /\ want' = Append(want, Wr("RST", i, 0, FALSE, 0))
  /\ UNCHANGED <<cas, sc, work, zero, sq, wr, msgs, hnd, net>>

\* Server.Shutdown: no more keep-alives, and a message, once.
Shutdown ==
  /\ "shutdown" \in cas.timers /\ sc.at = "serving" /\ ~sc.down
  /\ sc' = [sc EXCEPT !.down = TRUE, !.once = TRUE]
  /\ IF sc.once THEN UNCHANGED msgs ELSE SendsMessage("graceful")
  /\ UNCHANGED <<cas, work, st, zero, sq, want, wr, hnd, net>>

\* The client goes, at any time or when the connection is quiet; writes may fail then.
Quiet == net.sends = 0 /\ want = <<>> /\ msgs = <<>> /\ wr.at = "none" /\ work = <<>>
ClientLeaves ==
  /\ ~net.gone /\ ("leave" \in cas.timers \/ Quiet)
  /\ \E failed \in {FALSE, "leave" \in cas.timers} : net' = [net EXCEPT !.gone = TRUE, !.failed = failed]
  /\ UNCHANGED <<cas, sc, work, st, zero, sq, want, wr, msgs, hnd>>

Done == /\ sc.at = "closed" /\ wr.at # "writing" /\ \A i \in Ids : hnd[i].at \in {"off", "gone"}
        /\ UNCHANGED vars

ServeStep == \/ scheduleFrameWrite \/ CloseAllStreams \/ writeFrame \/ WriteGoAway \/ WriteAck \/ PopControl
             \/ PopStream \/ FlushOrStop \/ replyToWriter \/ MarkResetQueued
             \/ closeStream \/ UnhookStream \/ InflowGrows \/ goAway \/ AfterSelect \/ endStream
             \/ Start \/ readPreface
Select == RecvWantWrite \/ RecvWrote \/ RecvBodyRead \/ RecvMessage \/ RecvReadError
ClientFrame == \/ FirstNotSettings \/ processSettings \/ SettingsAck \/ processPing \/ processGoAway
               \/ processWindowUpdate \/ processResetStream \/ processData \/ processHeaders
HandlerCalls == \/ HandlerWrites \/ HandlerFlushes \/ HandlerSetsClose \/ HandlerReads \/ HandlerClosesBody
                \/ HandlerPanics \/ HandlerPushes
HandlerStep == \/ handlerDone \/ startGracefulShutdown \/ writeFrameFromHandler \/ AwaitFrame \/ PipeRead
               \/ NoteGivesUp \/ PushSends \/ PushReturns

\* A call that touches only what the serve goroutine owns commutes with every step of another
\* goroutine, and is taken before any of them; only calls that handlers can see are interleaved.
Busy == work # <<>> /\ Top.op \notin {"close", "unhook", "reply", "endstream", "after", "closeall"}

Next == \/ ServeStep
        \/ ~Busy /\ \/ Select \/ ClientFrame \/ HandlerCalls \/ HandlerStep \/ writeFrameAsync
                     \/ TimerFires \/ WriteTimeout \/ Shutdown \/ ClientLeaves \/ Done

Spec == /\ Init /\ [][Next]_vars
        /\ WF_vars(ServeStep) /\ WF_vars(Select) /\ WF_vars(writeFrameAsync) /\ WF_vars(TimerFires)

-----------------------------------------------------------------------------
(* Properties. *)

\* The window increments that are queued for a stream, or in the hands of the writer.
Granted(i) ==
  FoldLeft(LAMBDA sum, w : IF w.t = "WINDOW" /\ w.id = i THEN sum + w.n ELSE sum, 0,
           zero \o (IF i = 0 THEN <<>> ELSE sq[i]) \o IF wr.at = "writing" THEN <<wr.frame>> ELSE <<>>)

\* Flow control, both ways.  The server accepts every byte it has allowed: between two turns of
\* the loop the client's windows, and the increments on their way to it, are within the server's
\* own.  And it never sends more DATA than the client's connection window allows.
WindowsAgree ==
  /\ net.got <= net.gave
  /\ work = <<>> /\ sc.at = "serving" =>
       /\ net.conn + Granted(0) <= sc.inflow
       /\ \A i \in Opened(ClientIds) : net.win[i] + Granted(i) <= st[i].inflow

\* The frames of a stream arrive in the order HTTP/2 allows: promise or 100 Continue, header,
\* data, trailers, the end; and nothing after RST_STREAM but another one.
Follows(k) ==
  CASE k = "PROMISED" -> {"HEADERS", "RST"}
    [] k = "CONTINUE" -> {"HEADERS", "RST"}
    [] k = "HEADERS"  -> {"DATA", "HEADERS", "END", "RST"}
    [] k = "DATA"     -> {"HEADERS", "END", "RST"}
    [] k \in {"END", "RST"} -> {"RST"}
WireOrder ==
  \A i \in Ids : LET log == net.log[i]
                 IN /\ log # <<>> => Head(log) \in {"PROMISED", "CONTINUE", "HEADERS", "RST"}
                    /\ \A k \in 1..Len(log) - 1 : log[k + 1] \in Follows(log[k])
                    /\ i \in PushIds /\ log # <<>> => Head(log) = "PROMISED"

\* A handler's write that succeeded is on the wire: what its writes were told covers no more
\* than the DATA the client has had.
AckedOnWire == \A i \in Ids : hnd[i].acked <= net.data[i]

\* A handler that waits for its frame, or its push, is not forgotten: the frame is still on its
\* way, or its answer is there, or the end of the stream or of the connection wakes the handler.
OnItsWay(i) ==
  LET is(w) == w.done = hnd[i].seq /\ (w.id = i)
  IN \/ \E k \in 1..Len(want) : is(want[k])
     \/ \E k \in 1..Len(msgs) : msgs[k].t = "push" /\ msgs[k].id = i /\ msgs[k].seq = hnd[i].seq
     \/ \E k \in 1..Len(sq[i]) : is(sq[i][k])
     \/ \E k \in 1..Len(work) : \/ work[k].op \in {"write", "reply"} /\ is(work[k].w)
                                \/ work[k].op = "unhook" /\ work[k].id = i
     \/ is(wr.frame)
WaitersAnswered == \A i \in Ids : hnd[i].waits => hnd[i].res # "none" \/ st[i].cw \/ Ended \/ OnItsWay(i)

\* Every write of a handler is answered, and with success only when its data are on the wire.
HandlersAnswered == WaitersAnswered /\ AckedOnWire

\* A connection that has sent its last GOAWAY, or a graceful one with no stream left, ends.
GoAwayEnds == (sc.goAway \notin {"none", "NO"} \/ (sc.goAway = "NO" /\ Opened(Ids) = {})) ~> Ended
=============================================================================
