---------------------------- MODULE HTTP2Client ----------------------------
(***************************************************************************)
(* The HTTP/2 client (http/h2_bundle.go: http2clientConnPool,                *)
(* http2Transport, http2ClientConn): requests that share connections, the    *)
(* goroutine that reads a connection's frames, the goroutine that writes a   *)
(* request's body, the one that watches for a cancellation, and a server     *)
(* that keeps to the protocol but may refuse, go away or hang up.            *)
(*                                                                         *)
(* What cc.mu protects is one record, and a handler that holds cc.mu is an   *)
(* operator from that record to the next.  roundTrip keeps cc.mu from the    *)
(* choice of the stream to the end of its HEADERS ("held"); cond.Wait puts   *)
(* the waiter into "asleep" and cond.Broadcast empties it.                   *)
(***************************************************************************)
EXTENDS Integers, Sequences, FiniteSets, SequencesExt, FiniteSetsExt

CONSTANTS
  Reqs,        \* requests
  Conns,       \* connections that may be dialled, in their order
  StreamIds,   \* odd
  DefaultWin,  \* http2initialWindowSize
  DefaultMax,  \* maxConcurrentStreams before the server's SETTINGS
  StreamFlow,  \* http2transportDefaultStreamFlow
  MinRefresh,  \* http2transportDefaultStreamMinRefresh
  ConnFlow,    \* http2transportDefaultConnFlow
  MaxRetry,    \* the last retry of RoundTripOpt
  Cases        \* the requests, and what the server and the user do

ASSUME HTTP2ClientAssumption ==
  /\ Conns \subseteq Nat \ {0} /\ \A i \in StreamIds : i \in Nat /\ i % 2 = 1
  /\ \E last \in StreamIds : \A i \in StreamIds : i <= last
  /\ {DefaultWin, DefaultMax, StreamFlow, ConnFlow} \subseteq Nat \ {0} /\ {MinRefresh, MaxRetry} \subseteq Nat
  /\ \A c \in Cases :
       /\ c.reqs \in [Reqs -> [body : {"none", "once", "getbody"}, len : Nat, delay : BOOLEAN, cancel : BOOLEAN,
                               timeout : BOOLEAN, close : BOOLEAN]]
       /\ c.peer \subseteq {"refuse", "goaway", "hangup", "bad", "error", "4xx", "100", "settings", "rst", "pad", "window"}
       /\ c.user \subseteq {"idle", "closeidle", "close", "shutdown", "nodial", "closebody"}
       /\ {c.max, c.win, c.dials} \subseteq Nat /\ c.resp \in Nat /\ c.strict \in BOOLEAN /\ c.who \subseteq Reqs

VARIABLES
  cas,   \* the case
  pool,  \* http2clientConnPool
  cc,    \* the http2ClientConns, each with its streams
  rt,    \* RoundTripOpt, roundTrip and then the caller, for each request
  body,  \* bytes read from each of a request's bodies, -1 when it has been closed
  net    \* for each connection: frames to the client, and the server

vars == <<cas, pool, cc, rt, body, net>>

\* A frame: n is a length, an increment, a window, a last stream; what tells variants apart.
F(t, id, n, end, what) == [t |-> t, id |-> id, n |-> n, end |-> end, what |-> what]

NoStream == [r |-> 0, b |-> 0, resc |-> "", reset |-> "", done |-> FALSE, flow |-> 0, inflow |-> 0, stop |-> "",
             started |-> FALSE, first |-> FALSE, headers |-> FALSE, pipe |-> 0, perr |-> "", didReset |-> FALSE,
             bw |-> "off", eof |-> FALSE, res |-> "", bres |-> "", watch |-> "off"]

NewConn == [at |-> "none", goAway |-> -1, closing |-> FALSE, closed |-> FALSE, next |-> 1, streams |-> {},
            max |-> DefaultMax, win |-> DefaultWin, flow |-> DefaultWin, inflow |-> ConnFlow + DefaultWin,
            pending |-> 0, held |-> FALSE, single |-> FALSE, asleep |-> {}, idle |-> FALSE, whenIdle |-> FALSE,
            reply |-> FALSE, shut |-> FALSE, open |-> "open", out |-> <<>>, rd |-> "off", on |-> 0, val |-> "",
            s |-> [i \in StreamIds |-> NoStream]]

NewServer == [down |-> <<>>, init |-> DefaultWin, last |-> -1, top |-> 0, open |-> {}, ended |-> {}, replied |-> {},
              gave |-> [i \in StreamIds \cup {0} |-> 0], got |-> [i \in StreamIds |-> 0],
              rwin |-> [i \in StreamIds |-> StreamFlow], rconn |-> ConnFlow + DefaultWin,
              sent |-> [i \in StreamIds |-> 0], turns |-> 0, seen |-> {}, took |-> {}]

NewTrip == [at |-> "start", c |-> 0, id |-> 0, try |-> 0, err |-> "", written |-> FALSE]

Init ==
  /\ cas \in Cases
  /\ pool = [conns |-> <<>>, keys |-> {}, dialing |-> 0]
  /\ cc = [c \in Conns |-> NewConn] /\ net = [c \in Conns |-> NewServer]
  /\ rt = [r \in Reqs |-> NewTrip]
  /\ body = [r \in Reqs |-> [b \in 0..(MaxRetry + 1) |-> 0]]

-----------------------------------------------------------------------------
(* cc.mu and the state it protects. *)

Free(c)       == ~cc[c].held
Broadcast(k)  == [k EXCEPT !.asleep = {}]
\* cc.bw and its flush.  The server does nothing with an acknowledgement or a GOAWAY.
Put(k, f)     == IF k.open = "open" /\ f.t \notin {"SETTINGSACK", "GOAWAY"} THEN [k EXCEPT !.out = Append(@, f)] ELSE k
WriteReset(k, i) == Put(k, F("RST", i, 0, FALSE, ""))
Available(k, i) == Min({k.s[i].flow, k.flow})

\* forgetStreamID
Forget(k, i) ==
  IF i \in k.streams /\ ~k.closed
  THEN [Broadcast(k) EXCEPT !.streams = @ \ {i}, !.s[i].done = TRUE,
                            !.idle = @ \/ (k.streams = {i} /\ "idle" \in cas.user)]
  ELSE k

\* A send on cs.resc that does not wait, and closing the response's pipe.
Offer(k, i, v)   == IF k.s[i].resc = "" THEN [k EXCEPT !.s[i].resc = v] ELSE k
EndPipe(k, i, e) == IF k.s[i].perr = "" THEN [k EXCEPT !.s[i].perr = e] ELSE k

\* idleStateLocked
CanTake(k) ==
  /\ ~(k.single /\ k.next > 1)
  /\ cas.strict \/ Cardinality(k.streams) + 1 < k.max
  /\ k.goAway = -1 /\ ~k.closed /\ ~k.closing

\* closeIfIdle
CloseIfIdle(k) == IF k.streams = {} THEN [k EXCEPT !.closed = TRUE, !.open = "closed"] ELSE k

\* abortRequestBodyWrite, after bodyWriter.cancel has stopped the timer of a delayed write
Abort(k, i, how) == [Broadcast(k) EXCEPT !.s[i].stop = how, !.s[i].bw = IF @ = "delay" THEN "off" ELSE @]

Set(c, k) == cc' = [cc EXCEPT ![c] = k]
Step(r, at) == rt' = [rt EXCEPT ![r].at = at]
Fails(r, at, e) == rt' = [rt EXCEPT ![r].at = at, ![r].err = e]
Req(r) == cas.reqs[r]
HasBody(r) == Req(r).body # "none"

-----------------------------------------------------------------------------
(* The pool. *)

\* getClientConn: a usable connection, or the dial in flight, or a new one.  A request that closes
\* its connection dials for itself.
Fresh == {c \in Conns : cc[c].at = "none" /\ c <= cas.dials}

GetClientConn(r) ==
  /\ r \in cas.who /\ rt[r].at = "start" /\ \A c \in Range(pool.conns) : Free(c)
  /\ LET usable == {a \in DOMAIN pool.conns : CanTake(cc[pool.conns[a]])}
         fresh  == Min(Fresh)
     IN IF Req(r).close
        THEN /\ Fresh # {}
             /\ rt' = [rt EXCEPT ![r].at = "dial", ![r].c = fresh]
             /\ Set(fresh, [NewConn EXCEPT !.at = "dialing", !.single = TRUE]) /\ UNCHANGED pool
        ELSE IF usable # {}
             THEN rt' = [rt EXCEPT ![r].at = "got", ![r].c = pool.conns[Min(usable)]] /\ UNCHANGED <<cc, pool>>
             ELSE IF pool.dialing # 0
                  THEN rt' = [rt EXCEPT ![r].at = "dial", ![r].c = pool.dialing] /\ UNCHANGED <<cc, pool>>
                  ELSE /\ Fresh # {}
                       /\ rt' = [rt EXCEPT ![r].at = "dial", ![r].c = fresh]
                       /\ Set(fresh, [NewConn EXCEPT !.at = "dialing"]) /\ pool' = [pool EXCEPT !.dialing = fresh]
  /\ UNCHANGED <<cas, body, net>>

\* dialClientConn and newClientConn.  The server's first frame is its SETTINGS.
Dial(c) ==
  /\ cc[c].at = "dialing"
  /\ \/ /\ Set(c, [cc[c] EXCEPT !.at = "up", !.rd = "run", !.whenIdle = cc[c].single,
                                !.idle = "idle" \in cas.user])
        /\ net' = [net EXCEPT ![c].down = <<F("SETTINGS", 0, cas.win, FALSE, "max")>>, ![c].init = cas.win]
     \/ "nodial" \in cas.user /\ Set(c, [cc[c] EXCEPT !.at = "failed"]) /\ UNCHANGED net
  /\ UNCHANGED <<cas, pool, rt, body>>

\* dialCall.dial after it has closed call.done: those who wait may go on before it is in the pool.
AddConn(c) ==
  /\ pool.dialing = c /\ cc[c].at \in {"up", "failed"}
  /\ pool' = [pool EXCEPT !.dialing = 0,
                          !.conns = IF cc[c].at = "up" /\ c \notin Range(@) THEN Append(@, c) ELSE @,
                          !.keys = IF cc[c].at = "up" THEN @ \cup {c} ELSE @]
  /\ UNCHANGED <<cas, cc, rt, body, net>>

DialDone(r) ==
  /\ rt[r].at = "dial" /\ cc[rt[r].c].at \in {"up", "failed"}
  /\ IF cc[rt[r].c].at = "up" THEN Step(r, "got") ELSE Fails(r, "done", "dial")
  /\ UNCHANGED <<cas, pool, cc, body, net>>

\* MarkDead: only under the keys that the pool has for the connection, which is listed once.
MarkedDead(c) == IF c \in pool.keys
                 THEN [pool EXCEPT !.conns = RemoveFirst(@, c), !.keys = @ \ {c}]
                 ELSE pool

-----------------------------------------------------------------------------
(* roundTrip. *)

\* Mutant: cc.mu is released before HEADERS are written.
NewStreamFor_Unlocks(k, r) ==
  [k EXCEPT !.next = @ + 2, !.streams = @ \cup {k.next},
            !.s[k.next] = [NoStream EXCEPT !.r = r, !.flow = k.win, !.inflow = StreamFlow]]

\* newStream
NewStreamFor(k, r) ==
  [k EXCEPT !.next = @ + 2, !.streams = @ \cup {k.next}, !.held = TRUE,
            !.s[k.next] = [NoStream EXCEPT !.r = r, !.flow = k.win, !.inflow = StreamFlow,
                                           !.b = IF Req(r).body = "getbody" THEN rt[r].try ELSE 0,
                                           !.bw = IF HasBody(r) /\ Req(r).delay THEN "delay" ELSE "off"]]

\* One round of awaitOpenSlotForRequest's loop, with cc.mu.
AwaitOpenSlot(r, c, k) ==
  IF ~CanTake(k)
  THEN Set(c, k) /\ Fails(r, "decide", "unusable")
  ELSE IF Cardinality(k.streams) + 1 <= k.max
       THEN Set(c, NewStreamFor(k, r)) /\ rt' = [rt EXCEPT ![r].at = "headers", ![r].id = k.next, ![r].written = FALSE]
       ELSE Set(c, [k EXCEPT !.pending = @ + 1, !.asleep = @ \cup {r}]) /\ Step(r, "slot")

\* The idle timer is stopped before cc.mu is taken.
StopIdleTimer(r) ==
  /\ rt[r].at = "got"
  /\ Set(rt[r].c, [cc[rt[r].c] EXCEPT !.idle = FALSE]) /\ Step(r, "trip")
  /\ UNCHANGED <<cas, pool, body, net>>

OpenSlot(r) ==
  LET c == rt[r].c IN
  /\ rt[r].at = "trip" /\ Free(c) /\ cc[c].next \in StreamIds
  /\ AwaitOpenSlot(r, c, cc[c])
  /\ UNCHANGED <<cas, pool, body, net>>

SlotWakes(r) ==
  LET c == rt[r].c  k == [cc[c] EXCEPT !.pending = @ - 1] IN
  /\ rt[r].at \in {"slot", "slotcancelled"} /\ Free(c) /\ r \notin cc[c].asleep /\ k.next \in StreamIds
  /\ IF rt[r].at = "slotcancelled" THEN Set(c, k) /\ Fails(r, "done", "cancelled")
     ELSE AwaitOpenSlot(r, c, k)
  /\ UNCHANGED <<cas, pool, body, net>>

\* The goroutine that watches for a cancellation while the request waits for a slot.
SlotCancel(r) ==
  LET c == rt[r].c IN
  /\ rt[r].at = "slot" /\ Req(r).cancel /\ Free(c)
  /\ Set(c, Broadcast(cc[c])) /\ Step(r, "slotcancelled")
  /\ UNCHANGED <<cas, pool, body, net>>

\* HEADERS, under cc.wmu and still under cc.mu; then the body, if there is one, gets its goroutine.
WriteHeaders(r) ==
  LET c == rt[r].c  i == rt[r].id  k == [cc[c] EXCEPT !.held = FALSE] IN
  /\ rt[r].at = "headers"
  /\ \/ /\ k.open # "closed"
        /\ Set(c, [Put(k, F("HEADERS", i, 0, ~HasBody(r), r)) EXCEPT !.s[i].bw = IF HasBody(r) /\ @ = "off" THEN "go" ELSE @])
        /\ Step(r, "wait") /\ UNCHANGED body
     \/ /\ k.open # "open"
        /\ Set(c, [k EXCEPT !.s[i].bw = "off"]) /\ Fails(r, "forget", "write")
        /\ body' = IF HasBody(r) THEN [body EXCEPT ![r][k.s[i].b] = -1] ELSE body
  /\ UNCHANGED <<cas, pool, net>>

\* handleReadLoopResponse
Answered(r, c, k, v) ==
  LET i == rt[r].id
      taken == [k EXCEPT !.s[i].resc = ""]
  IN IF v = "2xx" THEN Set(c, taken) /\ Step(r, "body")
     ELSE /\ Set(c, Abort(taken, i, "stop"))
          /\ IF v = "4xx" THEN Step(r, "body") ELSE Fails(r, "forget", v)

\* The cases of roundTrip's select.
SelectResponse(r) ==
  LET c == rt[r].c IN
  /\ rt[r].at = "wait" /\ Free(c) /\ cc[c].s[rt[r].id].resc # ""
  /\ Answered(r, c, cc[c], cc[c].s[rt[r].id].resc)
  /\ UNCHANGED <<cas, pool, body, net>>

\* A cancellation resets the stream here, or leaves that to the goroutine that writes the body.
SelectCancel(r) ==
  LET c == rt[r].c  i == rt[r].id IN
  /\ rt[r].at = "wait" /\ Req(r).cancel /\ Free(c)
  /\ IF ~HasBody(r) \/ rt[r].written THEN Set(c, WriteReset(cc[c], i)) ELSE Set(c, Abort(cc[c], i, "cancel"))
  /\ Fails(r, "forget", "cancelled")
  /\ UNCHANGED <<cas, pool, body, net>>

\* The header timeout runs only once the request has been written.
SelectTimeout(r) ==
  LET c == rt[r].c IN
  /\ rt[r].at = "wait" /\ Req(r).timeout /\ (~HasBody(r) \/ rt[r].written)
  /\ Set(c, WriteReset(cc[c], rt[r].id)) /\ Fails(r, "forget", "timeout")
  /\ UNCHANGED <<cas, pool, body, net>>

SelectPeerReset(r) ==
  /\ rt[r].at = "wait" /\ cc[rt[r].c].s[rt[r].id].reset # ""
  /\ Fails(r, "decide", cc[rt[r].c].s[rt[r].id].reset)
  /\ UNCHANGED <<cas, pool, cc, body, net>>

\* The body's goroutine has ended; the read loop's answer is preferred.
SelectBodyWritten(r) ==
  LET c == rt[r].c  s == cc[c].s[rt[r].id]  k == [cc[c] EXCEPT !.s[rt[r].id].bres = ""] IN
  /\ rt[r].at = "wait" /\ Free(c) /\ s.bres # ""
  /\ IF s.resc # "" THEN Answered(r, c, k, s.resc)
     ELSE /\ Set(c, k)
          /\ IF s.bres # "ok" THEN Fails(r, "forget", s.bres) ELSE rt' = [rt EXCEPT ![r].written = TRUE]
  /\ UNCHANGED <<cas, pool, body, net>>

ForgetStream(r) ==
  LET c == rt[r].c IN
  /\ rt[r].at = "forget" /\ Free(c)
  /\ Set(c, Forget(cc[c], rt[r].id)) /\ Step(r, "decide")
  /\ UNCHANGED <<cas, pool, body, net>>

\* shouldRetryRequest, with what getStartedWrite says at this moment.
Retriable(e) == e \in {"unusable", "goaway", "refused"}
Replays(r) == CASE Req(r).body = "none"    -> TRUE
                [] Req(r).body = "getbody" -> TRUE
                [] OTHER -> rt[r].err = "unusable" \/ ~cc[rt[r].c].s[rt[r].id].started

Decide(r) ==
  /\ rt[r].at = "decide" /\ Free(rt[r].c)
  /\ IF Retriable(rt[r].err) /\ rt[r].try <= MaxRetry /\ Replays(r)
     THEN rt' = [rt EXCEPT ![r] = [NewTrip EXCEPT !.try = rt[r].try + 1]]
     ELSE Step(r, "done")
  /\ UNCHANGED <<cas, pool, cc, body, net>>

\* Every retry but the first waits, and a cancellation ends the wait.
BackoffCancel(r) ==
  /\ rt[r].at = "start" /\ rt[r].try > 1 /\ Req(r).cancel
  /\ Fails(r, "done", "cancelled")
  /\ UNCHANGED <<cas, pool, cc, body, net>>

-----------------------------------------------------------------------------
(* The goroutine that writes a request's body. *)

\* A delayed body goes out after its timer, or at once with on100.
Fire(c, i) ==
  /\ cc[c].s[i].bw = "delay" /\ rt[cc[c].s[i].r].at # "headers"
  /\ Set(c, [cc[c] EXCEPT !.s[i].bw = "go"])
  /\ UNCHANGED <<cas, pool, rt, body, net>>

StartWrite(c, i) ==
  /\ cc[c].s[i].bw = "go" /\ Free(c)
  /\ Set(c, [cc[c] EXCEPT !.s[i].bw = "read", !.s[i].started = TRUE])
  /\ UNCHANGED <<cas, pool, rt, body, net>>

Ends(k, i, res) == [k EXCEPT !.s[i].bw = "close", !.s[i].res = res]

\* A reader may report its end with the last byte or after it.
ReadBody(c, i) ==
  LET s == cc[c].s[i]  at == body[s.r][s.b] IN
  /\ s.bw = "read"
  /\ IF at = -1 THEN Set(c, Ends(WriteReset(cc[c], i), i, "body")) /\ UNCHANGED body
     ELSE IF at = Req(s.r).len THEN Set(c, [cc[c] EXCEPT !.s[i].bw = "end"]) /\ UNCHANGED body
     ELSE /\ body' = [body EXCEPT ![s.r][s.b] = @ + 1]
          /\ \E eof \in {FALSE, at + 1 = Req(s.r).len} : Set(c, [cc[c] EXCEPT !.s[i].bw = "flow", !.s[i].eof = eof])
  /\ UNCHANGED <<cas, pool, rt, net>>

AwaitFlowControl(c, i) ==
  LET k == cc[c]  s == k.s[i] IN
  /\ s.bw = "flow" /\ Free(c) /\ i \notin k.asleep
  /\ Set(c, CASE k.closed -> Ends(k, i, "closed")
              [] ~k.closed /\ s.stop = "stop" -> Ends(k, i, "stopped")
              [] ~k.closed /\ s.stop = "cancel" -> Ends(WriteReset(k, i), i, "stopped")
              [] ~k.closed /\ s.stop = "" /\ s.reset # "" -> Ends(k, i, s.reset)
              [] ~k.closed /\ s.stop = "" /\ s.reset = "" /\ s.done -> Ends(k, i, "done")
              [] OTHER -> IF Available(k, i) > 0
                          THEN [k EXCEPT !.flow = @ - 1, !.s[i].flow = @ - 1, !.s[i].bw = "data"]
                          ELSE [k EXCEPT !.asleep = @ \cup {i}])
  /\ UNCHANGED <<cas, pool, rt, body, net>>

\* DATA, and the empty one that ends a body whose end came late.
WriteData(c, i) ==
  LET k == cc[c]  s == k.s[i]  end == s.bw = "end" \/ s.eof IN
  /\ s.bw \in {"data", "end"}
  /\ \/ /\ k.open # "closed"
        /\ LET sent == Put(k, F("DATA", i, IF s.bw = "data" THEN 1 ELSE 0, end, ""))
           IN Set(c, IF end THEN Ends(sent, i, "ok") ELSE [sent EXCEPT !.s[i].bw = "read"])
     \/ k.open # "open" /\ Set(c, Ends(k, i, "write"))
  /\ UNCHANGED <<cas, pool, rt, body, net>>

CloseBody(c, i) ==
  LET s == cc[c].s[i] IN
  /\ s.bw = "close"
  /\ Set(c, [cc[c] EXCEPT !.s[i].bw = "off", !.s[i].bres = s.res])
  /\ body' = [body EXCEPT ![s.r][s.b] = -1]
  /\ UNCHANGED <<cas, pool, rt, net>>

-----------------------------------------------------------------------------
(* The goroutine that reads frames. *)

\* The read loop takes a frame; "Reads" is what every handler does besides.
Reads(c, t) == cc[c].rd = "run" /\ cc[c].open # "closed" /\ Free(c) /\ net[c].down # <<>> /\ Head(net[c].down).t = t
Taken(c)    == net' = [net EXCEPT ![c].down = Tail(@)]
Dies(k)     == [k EXCEPT !.rd = "cleanup"]

\* The end of an iteration: a connection for one request closes when it is idle.
Iterate(k) == IF k.whenIdle /\ k.reply THEN CloseIfIdle(k) ELSE k

\* endStreamError
EndStreamError(k, i, e) == Offer(EndPipe([k EXCEPT !.whenIdle = @ \/ Req(k.s[i].r).close], i, e), i, "error")

\* processHeaders: the stream of a request without a body is forgotten before the response is sent
\* to it, that of one with a body afterwards; 1xx is only a signal; trailers end the body.
ProcessHeaders(c) ==
  LET f == Head(net[c].down)  i == f.id  k == [cc[c] EXCEPT !.reply = TRUE]  s == k.s[i]
      early == f.end /\ ~HasBody(s.r)
      response == [k EXCEPT !.s[i].first = TRUE, !.s[i].headers = TRUE, !.s[i].perr = IF f.end THEN "eof" ELSE @,
                            !.s[i].watch = IF ~f.end /\ Req(s.r).cancel THEN "on" ELSE "off",
                            !.rd = IF f.end /\ ~early THEN "sendforget" ELSE "send", !.on = i, !.val = f.what]
  IN /\ Reads(c, "HEADERS") /\ Taken(c)
     /\ Set(c, CASE i \notin k.streams -> Iterate(k)
                 [] i \in k.streams /\ s.headers ->
                      IF f.end THEN Iterate(Forget(EndStreamError(k, i, "eof"), i)) ELSE Dies(k)
                 [] i \in k.streams /\ ~s.headers /\ f.what = "100" ->
                      Iterate([k EXCEPT !.s[i].first = TRUE, !.s[i].bw = IF @ = "delay" THEN "go" ELSE @])
                 [] OTHER -> IF early THEN Forget(response, i) ELSE response)
     /\ UNCHANGED <<cas, pool, rt, body>>

\* cs.resc holds one answer: the read loop waits here while it is full.
SendResponse(c) ==
  LET k == cc[c]  i == k.on
      sent == [k EXCEPT !.rd = "run", !.s[i].resc = k.val]
  IN /\ k.rd \in {"send", "sendforget"} /\ Free(c) /\ k.s[i].resc = ""
     /\ Set(c, Iterate(IF k.rd = "sendforget" THEN Forget(sent, i) ELSE sent))
     /\ UNCHANGED <<cas, pool, rt, body, net>>

\* DATA that nobody waits for is given back to the server; padding, and the data of a stream that
\* this side has reset, is given back at once; the rest when it is read.
Length(f) == f.n + (IF f.what = "pad" THEN 1 ELSE 0)
Refund_FrameOnly(k, n) == IF n = 0 THEN k ELSE Put(k, F("WINDOW", 0, n, FALSE, ""))   \* mutant: the window is not raised here
Refund(k, n) == IF n = 0 THEN k ELSE Put([k EXCEPT !.inflow = @ + n], F("WINDOW", 0, n, FALSE, ""))

DataArrives(k, f) ==
  LET i == f.id  s == k.s[i]
      took == [k EXCEPT !.inflow = @ - Length(f), !.s[i].inflow = @ - Length(f)]
      back == Length(f) - (IF s.didReset THEN 0 ELSE f.n)
      refunded == IF back = 0 \/ s.didReset THEN Refund(took, back)
                  ELSE Put([Refund(took, back) EXCEPT !.s[i].inflow = @ + back], F("WINDOW", i, back, FALSE, ""))
  IN IF s.didReset \/ s.perr = "broken" THEN refunded ELSE [refunded EXCEPT !.s[i].pipe = @ + f.n]

ProcessData(c) ==
  LET f == Head(net[c].down)  i == f.id
      k == IF f.end THEN Forget(cc[c], i) ELSE cc[c]
      known == i \in cc[c].streams
      ok == Length(f) <= Min({k.s[i].inflow, k.inflow})
      arrived == IF Length(f) > 0 THEN DataArrives(k, f) ELSE k
  IN /\ Reads(c, "DATA") /\ Taken(c)
     /\ Set(c, IF ~known THEN Iterate(Refund(k, Length(f)))
               ELSE IF ~ok THEN [Dies(k) EXCEPT !.val = "flow"]
               ELSE Iterate(IF f.end THEN EndStreamError(arrived, i, "eof") ELSE arrived))
     /\ UNCHANGED <<cas, pool, rt, body>>

\* processResetStream: the stream is forgotten, and only then is the reset told.
ProcessReset(c) ==
  LET f == Head(net[c].down) IN
  /\ Reads(c, "RST") /\ Taken(c)
  /\ Set(c, IF f.id \in cc[c].streams THEN [Forget(cc[c], f.id) EXCEPT !.rd = "reset", !.on = f.id, !.val = f.what]
            ELSE Iterate(cc[c]))
  /\ UNCHANGED <<cas, pool, rt, body>>

TellReset(c) ==
  LET k == cc[c] IN
  /\ k.rd = "reset" /\ Free(c)
  /\ Set(c, Iterate(Broadcast(EndPipe([k EXCEPT !.rd = "run", !.s[k.on].reset = k.val], k.on, "error"))))
  /\ UNCHANGED <<cas, pool, rt, body, net>>

\* processGoAway: the pool gives the connection up, and then setGoAway answers what will not be processed.
ProcessGoAway(c) ==
  /\ Reads(c, "GOAWAY") /\ Taken(c)
  /\ pool' = MarkedDead(c)
  /\ Set(c, [cc[c] EXCEPT !.rd = "goaway", !.on = Head(net[c].down).n])
  /\ UNCHANGED <<cas, rt, body>>

Unprocessed_Last(k, i) == i \in k.streams /\ i >= k.on   \* mutant: the last stream too
Unprocessed(k, i) == i \in k.streams /\ i > k.on

SetGoAway(c) ==
  LET k == cc[c] IN
  /\ k.rd = "goaway" /\ Free(c)
  /\ Set(c, Iterate([k EXCEPT !.rd = "run", !.goAway = k.on,
                              !.s = [i \in StreamIds |-> IF Unprocessed(k, i) /\ k.s[i].resc = ""
                                                         THEN [k.s[i] EXCEPT !.resc = "goaway"] ELSE k.s[i]]]))
  /\ UNCHANGED <<cas, pool, rt, body, net>>

\* processSettings: a new initial window moves the windows of the open streams by the difference.
ProcessSettings(c) ==
  LET f == Head(net[c].down)  k == cc[c] IN
  /\ Reads(c, "SETTINGS") /\ Taken(c)
  /\ Set(c, Put([Broadcast(k) EXCEPT
                   !.max = IF f.what = "max" THEN cas.max ELSE @, !.win = f.n,
                   !.s = [i \in StreamIds |-> IF i \in k.streams THEN [k.s[i] EXCEPT !.flow = @ + f.n - k.win] ELSE k.s[i]]],
                F("SETTINGSACK", 0, 0, FALSE, "")))
  /\ UNCHANGED <<cas, pool, rt, body>>

ProcessWindowUpdate(c) ==
  LET f == Head(net[c].down)  k == cc[c] IN
  /\ Reads(c, "WINDOW") /\ Taken(c)
  /\ Set(c, CASE f.id = 0 -> [Broadcast(k) EXCEPT !.flow = @ + f.n]
              [] f.id \in k.streams -> [Broadcast(k) EXCEPT !.s[f.id].flow = @ + f.n]
              [] OTHER -> k)
  /\ UNCHANGED <<cas, pool, rt, body>>

\* A frame that is wrong for its stream, and one that is wrong for the connection.
ProcessStreamError(c) ==
  LET i == Head(net[c].down).id  k == cc[c] IN
  /\ Reads(c, "ERROR") /\ Taken(c)
  /\ Set(c, IF i \in k.streams THEN EndStreamError(Forget(WriteReset(k, i), i), i, "error") ELSE k)
  /\ UNCHANGED <<cas, pool, rt, body>>

ProcessConnectionError(c) ==
  /\ Reads(c, "BAD") /\ Taken(c)
  /\ Set(c, Dies(cc[c]))
  /\ UNCHANGED <<cas, pool, rt, body>>

ReadFails(c) ==
  /\ cc[c].rd = "run"
  /\ cc[c].open = "closed" \/ (cc[c].open = "gone" /\ net[c].down = <<>>)
  /\ Set(c, Dies(cc[c]))
  /\ UNCHANGED <<cas, pool, rt, body, net>>

\* cleanup: what waits on the connection is told, then the pool, and the connection is closed.
Ended(s) == [s EXCEPT !.perr = IF @ = "" THEN "error" ELSE @, !.resc = IF @ = "" THEN "error" ELSE @]
Over_Silently(k) ==   \* mutant: the broadcast is missing
  [k EXCEPT !.closed = TRUE, !.s = [i \in StreamIds |-> IF i \in k.streams THEN Ended(k.s[i]) ELSE k.s[i]]]
Over(k) ==
  [Broadcast(k) EXCEPT !.closed = TRUE, !.s = [i \in StreamIds |-> IF i \in k.streams THEN Ended(k.s[i]) ELSE k.s[i]]]

Cleanup(c) ==
  LET k == cc[c]  over == Over(k) IN
  /\ k.rd = "cleanup" /\ Free(c)
  /\ Set(c, [over EXCEPT !.rd = "dead", !.idle = FALSE,
                         !.s = [i \in StreamIds |-> IF i \in k.streams THEN [over.s[i] EXCEPT !.done = TRUE] ELSE over.s[i]]])
  /\ UNCHANGED <<cas, pool, rt, body, net>>

Closed(c) ==
  /\ cc[c].rd = "dead"
  /\ Set(c, [cc[c] EXCEPT !.rd = "off", !.open = "closed"])
  /\ pool' = MarkedDead(c)
  /\ UNCHANGED <<cas, rt, body, net>>

-----------------------------------------------------------------------------
(* The caller and its response. *)

\* transportResponseBody.Read: what is read is given back once half the connection's window, or
\* enough of the stream's, has been used.
ReadResponse(r) ==
  LET c == rt[r].c  i == rt[r].id
      k == [cc[c] EXCEPT !.s[i].pipe = @ - 1]
      connAdd == IF k.inflow < ConnFlow \div 2 THEN ConnFlow - k.inflow ELSE 0
      k2 == Refund(k, connAdd)
      v == Min({k.s[i].inflow, k2.inflow}) + k.s[i].pipe
      streamAdd == IF v < StreamFlow - MinRefresh THEN StreamFlow - v ELSE 0
  IN /\ rt[r].at = "body" /\ Free(c)
     /\ IF cc[c].s[i].pipe > 0
        THEN /\ Set(c, IF streamAdd = 0 THEN k2
                       ELSE Put([k2 EXCEPT !.s[i].inflow = @ + streamAdd], F("WINDOW", i, streamAdd, FALSE, "")))
             /\ UNCHANGED rt
        ELSE cc[c].s[i].perr # "" /\ Step(r, "done") /\ UNCHANGED cc
     /\ UNCHANGED <<cas, pool, body, net>>

\* transportResponseBody.Close
CloseResponse(r) ==
  LET c == rt[r].c  i == rt[r].id  k == cc[c]
      ended == k.s[i].perr = "eof"
      reset == IF ended THEN k ELSE [WriteReset(k, i) EXCEPT !.s[i].didReset = TRUE]
  IN /\ rt[r].at = "body" /\ "closebody" \in cas.user /\ Free(c)
     /\ Set(c, Refund(reset, k.s[i].pipe)) /\ Step(r, "closing")
     /\ UNCHANGED <<cas, pool, body, net>>

BreakResponse(r) ==
  LET c == rt[r].c  i == rt[r].id IN
  /\ rt[r].at = "closing" /\ Free(c)
  /\ Set(c, Forget([cc[c] EXCEPT !.s[i].perr = "broken", !.s[i].pipe = 0], i)) /\ Step(r, "done")
  /\ UNCHANGED <<cas, pool, body, net>>

\* awaitRequestCancel and cancelStream, once there is a response with a body.
Watch(c, i) ==
  LET k == cc[c]  s == k.s[i] IN
  /\ Free(c)
  /\ Set(c, CASE s.watch = "rst" -> [WriteReset(k, i) EXCEPT !.s[i].watch = "forget"]
              [] s.watch = "forget" -> [Forget(k, i) EXCEPT !.s[i].watch = "pipe"]
              [] OTHER -> EndPipe([k EXCEPT !.s[i].watch = "off"], i, "cancelled"))
  /\ s.watch \in {"rst", "forget", "pipe"}
  /\ UNCHANGED <<cas, pool, rt, body, net>>

WatchWakes(c, i) ==
  LET s == cc[c].s[i] IN
  /\ s.watch = "on"
  /\ \/ s.done /\ Set(c, [cc[c] EXCEPT !.s[i].watch = "off"])
     \/ /\ Req(s.r).cancel /\ Free(c)
        /\ Set(c, [cc[c] EXCEPT !.s[i].didReset = TRUE, !.s[i].watch = IF s.didReset THEN "pipe" ELSE "rst"])
  /\ UNCHANGED <<cas, pool, rt, body, net>>

-----------------------------------------------------------------------------
(* The user and the connections. *)

OnIdleTimeout(c) ==
  /\ cc[c].idle /\ Free(c)
  /\ Set(c, CloseIfIdle([cc[c] EXCEPT !.idle = FALSE]))
  /\ UNCHANGED <<cas, pool, rt, body, net>>

CloseIdleConnections(c) ==
  /\ "closeidle" \in cas.user /\ c \in Range(pool.conns) /\ Free(c) /\ ~cc[c].closed
  /\ Set(c, CloseIfIdle(cc[c]))
  /\ UNCHANGED <<cas, pool, rt, body, net>>

\* Shutdown: sendGoAway, and a goroutine that waits for the streams to end.
SendGoAway(c) ==
  /\ "shutdown" \in cas.user /\ cc[c].at = "up" /\ Free(c) /\ ~cc[c].closing
  /\ Set(c, [Put(cc[c], F("GOAWAY", 0, cc[c].next, FALSE, "")) EXCEPT !.closing = TRUE, !.shut = TRUE])
  /\ UNCHANGED <<cas, pool, rt, body, net>>

ShutdownWaits(c) ==
  LET k == cc[c] IN
  /\ k.shut /\ Free(c) /\ 0 \notin k.asleep
  /\ Set(c, IF k.streams = {} \/ k.closed THEN [k EXCEPT !.closed = TRUE, !.open = "closed", !.shut = FALSE]
            ELSE [k EXCEPT !.asleep = @ \cup {0}])
  /\ UNCHANGED <<cas, pool, rt, body, net>>

\* Close takes the streams away without closing their done channels.
Close(c) ==
  LET k == cc[c] IN
  /\ "close" \in cas.user /\ k.at = "up" /\ Free(c) /\ k.open # "closed"
  /\ Set(c, [Over(k) EXCEPT !.open = "closed", !.streams = {}])
  /\ UNCHANGED <<cas, pool, rt, body, net>>

-----------------------------------------------------------------------------
(* The server: it counts streams and windows as RFC 7540 tells it to. *)

MayGo(c) == "goaway" \in cas.peer /\ c = Min(Conns)
Up(c) == cc[c].at = "up" /\ cc[c].open = "open"
Tells(c, n, f) == net' = [net EXCEPT ![c] = [n EXCEPT !.down = Append(@, f)]]
ServerOnly == UNCHANGED <<cas, pool, rt, body>>

\* Its side of a stream ends when both have.
Left(n, i) == IF i \in n.ended /\ i \in n.replied /\ n.sent[i] = cas.resp THEN n.open \ {i} ELSE n.open

ServerReads(c) ==
  LET f == Head(cc[c].out)  i == f.id
      n == [net[c] EXCEPT !.seen = IF f.t = "HEADERS" THEN @ \cup {i} ELSE @]
      ended == IF f.end THEN [n EXCEPT !.ended = @ \cup {i}] ELSE n
      refused == Cardinality(n.open) >= cas.max
      accepted == [ended EXCEPT !.open = @ \cup {i}, !.top = i, !.took = @ \cup {i}]
  IN /\ Up(c) /\ cc[c].out # <<>>
     /\ Set(c, [cc[c] EXCEPT !.out = Tail(@)])
     /\ CASE f.t = "HEADERS" ->
               IF n.last # -1 /\ i > n.last THEN net' = [net EXCEPT ![c] = ended]
               ELSE \/ ~refused /\ net' = [net EXCEPT ![c] = accepted]
                    \/ (refused \/ "refuse" \in cas.peer) /\ Tells(c, ended, F("RST", i, 0, FALSE, "refused"))
          [] f.t = "DATA" -> net' = [net EXCEPT ![c] = [ended EXCEPT !.got[i] = @ + f.n, !.open = Left(ended, i)]]
          [] f.t = "RST" -> net' = [net EXCEPT ![c] = [n EXCEPT !.open = @ \ {i}]]
          [] f.t = "WINDOW" -> net' = [net EXCEPT ![c] = IF i = 0 THEN [n EXCEPT !.rconn = @ + f.n] ELSE [n EXCEPT !.rwin[i] = @ + f.n]]
          [] OTHER -> net' = [net EXCEPT ![c] = n]
     /\ UNCHANGED <<cas, pool, rt, body>>

ServerReplies(c, i) ==
  LET n == [net[c] EXCEPT !.replied = @ \cup {i}] IN
  /\ Up(c) /\ i \in net[c].open \ net[c].replied
  /\ \/ \E what \in {"2xx"} \cup ({"4xx"} \cap cas.peer) :
          Tells(c, [n EXCEPT !.open = Left(n, i)], F("HEADERS", i, 0, cas.resp = 0, what))
     \/ "100" \in cas.peer /\ net[c].turns = 0 /\ Tells(c, [net[c] EXCEPT !.turns = 1], F("HEADERS", i, 0, FALSE, "100"))
  /\ ServerOnly /\ UNCHANGED cc

ServerData(c, i) ==
  \E pad \in {0} \cup (IF "pad" \in cas.peer THEN {1} ELSE {}) :
    LET n == [net[c] EXCEPT !.sent[i] = @ + 1, !.rwin[i] = @ - 1 - pad, !.rconn = @ - 1 - pad] IN
    /\ Up(c) /\ i \in net[c].open \cap net[c].replied /\ net[c].sent[i] < cas.resp
    /\ n.rwin[i] >= 0 /\ n.rconn >= 0
    /\ Tells(c, [n EXCEPT !.open = Left(n, i)],
             F("DATA", i, 1, n.sent[i] = cas.resp, IF pad = 1 THEN "pad" ELSE ""))
    /\ ServerOnly /\ UNCHANGED cc

\* RST_STREAM, or a frame that is wrong for its stream.
ServerResets(c, i) ==
  /\ Up(c) /\ i \in net[c].open
  /\ \/ "rst" \in cas.peer /\ Tells(c, [net[c] EXCEPT !.open = @ \ {i}], F("RST", i, 0, FALSE, "cancel"))
     \/ "error" \in cas.peer /\ Tells(c, [net[c] EXCEPT !.open = @ \ {i}], F("ERROR", i, 0, FALSE, ""))
  /\ ServerOnly /\ UNCHANGED cc

\* GOAWAY names every stream first, or the last one it has taken; only the first connection's server
\* goes away.
ServerGoesAway(c) ==
  /\ Up(c) /\ MayGo(c)
  /\ \E last \in {net[c].top, Max(StreamIds)} :
       /\ net[c].last = -1 \/ last < net[c].last
       /\ Tells(c, [net[c] EXCEPT !.last = last], F("GOAWAY", 0, last, FALSE, ""))
  /\ ServerOnly /\ UNCHANGED cc

Received(n) == FoldFunction(+, 0, n.got)

\* WINDOW_UPDATE gives back what has been received.
ServerGives(c, i) ==
  /\ Up(c) /\ "window" \in cas.peer
  /\ net[c].gave[i] < (IF i = 0 THEN Received(net[c]) ELSE net[c].got[i])
  /\ Tells(c, [net[c] EXCEPT !.gave[i] = @ + 1], F("WINDOW", i, 1, FALSE, ""))
  /\ ServerOnly /\ UNCHANGED cc

\* One more SETTINGS, with a larger or a smaller initial window.
ServerSettings(c) ==
  /\ Up(c) /\ "settings" \in cas.peer /\ net[c].turns = 0
  /\ \E w \in {cas.win - 1, cas.win + 1} :
       Tells(c, [net[c] EXCEPT !.turns = 1, !.init = w], F("SETTINGS", 0, w, FALSE, "win"))
  /\ ServerOnly /\ UNCHANGED cc

ServerBreaks(c) ==
  /\ Up(c)
  /\ \/ "hangup" \in cas.peer /\ Set(c, [cc[c] EXCEPT !.open = "gone"]) /\ UNCHANGED net
     \/ /\ "bad" \in cas.peer /\ net[c].turns = 0 /\ UNCHANGED cc
        /\ Tells(c, [net[c] EXCEPT !.turns = 1], F("BAD", 0, 0, FALSE, ""))
  /\ ServerOnly

-----------------------------------------------------------------------------
(* Steps that commute with those of everybody else and that no property tells apart come first: a   *)
(* dial that returns, the steps of a body that only its own goroutine sees, and the server's        *)
(* reading, unless it names in a GOAWAY what it has read.                                           *)

Private(c, i) == cc[c].s[i].bw \in {"go", "read", "close"} /\ Req(cc[c].s[i].r).body = "getbody"
Dialled(r)    == rt[r].at = "dial" /\ cc[rt[r].c].at \in {"up", "failed"}
Untimed(r)    == rt[r].at = "got" /\ "idle" \notin cas.user
Dialling(c)   == cc[c].at = "dialing" /\ "nodial" \notin cas.user
Prompt(c)     == Up(c) /\ cc[c].out # <<>> /\ ~MayGo(c)

WriterSteps(c, i) == StartWrite(c, i) \/ ReadBody(c, i) \/ CloseBody(c, i)
Hidden == \/ \E r \in Reqs : (Dialled(r) /\ DialDone(r)) \/ (Untimed(r) /\ StopIdleTimer(r))
          \/ \E c \in Conns : \/ Dialling(c) /\ Dial(c)
                              \/ Prompt(c) /\ ServerReads(c)
                              \/ \E i \in StreamIds : Private(c, i) /\ WriterSteps(c, i)
Quiet  == /\ \A r \in Reqs : ~Dialled(r) /\ ~Untimed(r)
          /\ \A c \in Conns : ~Dialling(c) /\ ~Prompt(c) /\ \A i \in StreamIds : ~(Private(c, i) /\ (cc[c].s[i].bw = "go" => Free(c)))

Tripping(r) ==
  GetClientConn(r) \/ StopIdleTimer(r) \/ OpenSlot(r) \/ SlotWakes(r) \/ WriteHeaders(r) \/ SelectResponse(r)
  \/ SelectPeerReset(r) \/ SelectBodyWritten(r) \/ ForgetStream(r) \/ Decide(r) \/ BreakResponse(r)
Writing(c, i) == WriterSteps(c, i) \/ AwaitFlowControl(c, i) \/ WriteData(c, i)
Reading(c) ==
  ProcessHeaders(c) \/ SendResponse(c) \/ ProcessData(c) \/ ProcessReset(c) \/ TellReset(c) \/ ProcessGoAway(c) \/ SetGoAway(c)
  \/ ProcessSettings(c) \/ ProcessWindowUpdate(c) \/ ProcessStreamError(c) \/ ProcessConnectionError(c) \/ ReadFails(c)
  \/ Cleanup(c) \/ Closed(c)

\* The steps that the program's own goroutines take.
Own == \/ Hidden
       \/ /\ Quiet
          /\ \/ \E r \in Reqs : Tripping(r)
             \/ \E c \in Conns : \/ Dial(c) \/ AddConn(c) \/ Reading(c) \/ ShutdownWaits(c)
                                \/ \E i \in StreamIds : Writing(c, i) \/ Watch(c, i)

\* What the server, the user, the timers and cancelled contexts do.
Others ==
  /\ Quiet
  /\ \/ \E r \in Reqs : \/ SlotCancel(r) \/ BackoffCancel(r) \/ SelectCancel(r) \/ SelectTimeout(r)
                        \/ ReadResponse(r) \/ CloseResponse(r)
     \/ \E c \in Conns :
          \/ OnIdleTimeout(c) \/ CloseIdleConnections(c) \/ SendGoAway(c) \/ Close(c)
          \/ ServerReads(c) \/ ServerGoesAway(c) \/ ServerSettings(c) \/ ServerBreaks(c)
          \/ \E i \in StreamIds : Fire(c, i) \/ WatchWakes(c, i) \/ ServerReplies(c, i) \/ ServerData(c, i) \/ ServerResets(c, i)
          \/ \E i \in StreamIds \cup {0} : ServerGives(c, i)

Next == Own \/ Others

\* The goroutines of this program go on until none has a step left; no sequence of their steps is
\* endless, so that it does not matter which of them goes first.  Nothing is assumed of the others.
Fairness == WF_vars(Own)

Spec == Init /\ [][Next]_vars /\ Fairness

-----------------------------------------------------------------------------
(* Properties. *)

\* Frames of type t for stream i: the sum of what they carry.
Carried(frames, t, i) == FoldLeft(LAMBDA a, f : IF f.t = t /\ f.id = i THEN a + Length(f) ELSE a, 0, frames)

\* A request that RoundTripOpt sends again, on this connection or on another, was processed by no
\* server before: GOAWAY and REFUSED_STREAM are the only answers after which a stream is repeated.
RetrySafe ==
  \A r \in Reqs : Cardinality({p \in Conns \X StreamIds : p[2] \in net[p[1]].took /\ cc[p[1]].s[p[2]].r = r}) <= 1

\* On the wire, new streams have ascending identifiers whatever order their requests come in, DATA
\* follows its HEADERS, and nothing but a reset follows END_STREAM.
WireOrder ==
  \A c \in Conns :
    LET out == cc[c].out
        opens(b) == {out[a].id : a \in {x \in 1..(b - 1) : out[x].t = "HEADERS"}} \cup net[c].seen
        ends(b) == {out[a].id : a \in {x \in 1..(b - 1) : out[x].end}} \cup net[c].ended
    IN \A b \in DOMAIN out :
         /\ out[b].t = "HEADERS" => \A i \in opens(b) : i < out[b].id
         /\ out[b].t = "DATA" => out[b].id \in opens(b) \ ends(b)

\* Both ends count the same windows: what may still be sent on a stream, with what is under way, is
\* what the server's SETTINGS and WINDOW_UPDATEs have granted, also when the initial window changes
\* under open streams; the server's idea of what it may send is this side's, so that it is never
\* accused of exceeding it; for the connection this side may count too much, never too little.
WindowsAgree ==
  \A c \in {d \in Conns : cc[d].at = "up"} :
    LET k == cc[c]  n == net[c]
        taken(i) == IF k.s[i].bw = "data" THEN 1 ELSE 0
        out(i) == n.got[i] + Carried(k.out, "DATA", i) + taken(i)
        sum(g(_)) == FoldFunction(+, 0, [i \in StreamIds |-> g(i)])
    IN k.open = "open" =>
       /\ \A i \in k.streams : /\ k.s[i].flow = k.win + n.gave[i] - Carried(n.down, "WINDOW", i) - out(i)
                               /\ k.s[i].inflow = n.rwin[i] + Carried(k.out, "WINDOW", i) + Carried(n.down, "DATA", i)
       /\ k.flow = DefaultWin + n.gave[0] - Carried(n.down, "WINDOW", 0) - sum(out)
       /\ n.rconn + Carried(k.out, "WINDOW", 0) <= k.inflow
       /\ k.val # "flow"

SlotTaken ==
  \A r \in Reqs :
    (rt[r].at = "slot" /\ LET k == cc[rt[r].c] IN Cardinality(k.streams) + 1 <= k.max \/ k.closed) ~> rt[r].at # "slot"

EndTold ==
  \A c \in Conns :
    (cc[c].at = "up" /\ cc[c].open # "open") ~>
      /\ \A r \in {q \in Reqs : rt[q].c = c} : /\ rt[r].at \notin {"slot", "headers", "wait", "forget"}
                                              /\ rt[r].at = "body" => cc[c].s[rt[r].id].perr # ""
      /\ \A i \in StreamIds : cc[c].s[i].bw \in {"off", "delay"}

\* A request that waits for a stream's slot does not sleep while there is one; and when a connection
\* has ended, everybody who waits on it is told: roundTrip, waiters for a slot or for a window, and
\* readers of bodies.
Released == SlotTaken /\ EndTold
=============================================================================
