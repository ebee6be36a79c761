----------------------------- MODULE PersistConn -----------------------------
(***************************************************************************)
(* One HTTP/1 connection of http.Transport (persistConn, http/transport.go) *)
(* and the requests that use it in turn.                                    *)
(*                                                                         *)
(* Three goroutines meet on it: roundTrip, which hands the request over and *)
(* waits in one select for whatever comes first; writeLoop, which writes    *)
(* it; and readLoop, which reads the answer, gives it to roundTrip, waits   *)
(* for the body to be read, and puts the connection back in the pool.  A    *)
(* request is cancelled through Transport.reqCanceler, and the idle pool is *)
(* reduced to whether it holds this connection (TransportPool has the rest).*)
(* The server answers each request once, in order, when it has some of it,  *)
(* and may close the connection at any time.                                *)
(***************************************************************************)
EXTENDS Naturals, Sequences, FiniteSets

CONSTANTS
  Reqs,       \* requests
  First,      \* the one the connection was dialled for, which is never retried on another
  MaxCancels, \* bound: contexts done and calls of CancelRequest
  None

\* What a request allows: to be sent again (isReplayable), to be sent again if nothing
\* of it was written (no body, or GetBody), or neither.
Kinds == {"replayable", "rewindable", "stream"}

ASSUME ConstantsAssumption == First \in Reqs /\ None \notin Reqs /\ MaxCancels \in Nat

VARIABLES
  kind,      \* the kind of each request, chosen when it is first looked at: when it has failed
  ctx,       \* requests whose context is done
  canceler,  \* reqMu: what reqCanceler holds for each request
  cancels,   \* how many cancellations there have been
  calls,     \* cancellers taken from reqCanceler and not called yet: <<request, caller>>
  pc,        \* mu: closed, canceledErr, reused, numExpectedResponses; idleMu: idle
  rt,        \* the roundTrip goroutine of each request, then the reader of its body
  chans,     \* writech, reqch, writeErrCh, and each request's own writeErrCh and waitForBodyRead
  wl, rl,    \* the writeLoop and readLoop goroutines
  sent,      \* how much of each request is on the wire: 0 nothing, 1 some, 2 all
  counted,   \* requests for which nwrite has been increased
  bodyErr,   \* requests whose body could not be read (transportRequest.err)
  answers,   \* what the server has sent and readLoop has not read
  peer       \* the server: whether it has closed, and the requests it has answered

vars == <<kind, ctx, cancels, canceler, calls, pc, rt, chans, wl, rl, sent, counted, bodyErr, answers, peer>>

NoAnswer   == [to |-> None, body |-> FALSE, keep |-> FALSE]
Looping    == [at |-> "peek", req |-> None, err |-> "none", alive |-> TRUE, answer |-> NoAnswer]
NewRequest == [at |-> "new", err |-> "none", of |-> None, timer |-> FALSE]

\* The connection was just dialled and delivered to First (getConn).
Init ==
  /\ rt = [r \in Reqs |-> IF r = First THEN [NewRequest EXCEPT !.at = "got"] ELSE NewRequest]
  /\ canceler = [r \in Reqs |-> IF r = First THEN "wait" ELSE "none"]
  /\ kind = [r \in Reqs |-> None]
  /\ ctx = {} /\ cancels = 0 /\ calls = {}
  /\ pc = [closed |-> "no", canceledErr |-> None, reused |-> FALSE, expected |-> 0, idle |-> FALSE]
  /\ chans = [write |-> None, req |-> None, err |-> "none",
              own |-> [r \in Reqs |-> "none"], body |-> [r \in Reqs |-> "none"]]
  /\ wl = [at |-> "idle", req |-> None, err |-> "none"]
  /\ rl = Looping
  /\ sent = [r \in Reqs |-> 0] /\ counted = {} /\ bodyErr = {}
  /\ answers = <<>> /\ peer = [closed |-> FALSE, answered |-> {}]

-----------------------------------------------------------------------------
\* The errors told apart: those mapRoundTripError leaves as they are, and the others.
Closed == pc.closed # "no"

\* closeLocked: the first reason stays.
CloseFor(p, why) == IF p.closed = "no" THEN [p EXCEPT !.closed = why] ELSE p

At(r, l)       == rt[r].at = l
Goto(r, l)     == rt' = [rt EXCEPT ![r].at = l]
Ended          == [NewRequest EXCEPT !.at = "done"]
Fails(r, e)    == rt' = [rt EXCEPT ![r] = [Ended EXCEPT !.err = e]]
Returned(r)    == rt[r].at \in {"body", "eof", "early", "done"}
Unchanged(loops) == UNCHANGED <<kind, ctx, cancels, sent, counted, bodyErr, answers, peer>> /\ UNCHANGED loops

-----------------------------------------------------------------------------
(* Cancellation.                                                             *)

\* cancelRequest takes the canceler under reqMu ...
TakeCanceler(r, by) ==
  /\ canceler' = [canceler EXCEPT ![r] = "none"]
  /\ calls' = IF canceler[r] = "conn" THEN calls \cup {<<r, by>>} ELSE calls

\* ... and calls it after: persistConn.cancelRequest.
CallCanceler(r, by) ==
  /\ <<r, by>> \in calls
  /\ calls' = calls \ {<<r, by>>}
  /\ pc' = [CloseFor(pc, "other") EXCEPT !.canceledErr = r]
  /\ Unchanged(<<canceler, rt, chans, wl, rl>>)

ContextDone(r) ==
  /\ r \notin ctx /\ rt[r].at \notin {"new", "done"}
  /\ cancels < MaxCancels /\ cancels' = cancels + 1
  /\ ctx' = ctx \cup {r}
  /\ UNCHANGED <<kind, canceler, calls, pc, rt, chans, wl, rl, sent, counted, bodyErr, answers, peer>>

\* The user calls CancelRequest.
CancelRequest(r) ==
  /\ canceler[r] # "none"
  /\ cancels < MaxCancels /\ cancels' = cancels + 1
  /\ TakeCanceler(r, "user")
  /\ UNCHANGED <<kind, ctx, pc, rt, chans, wl, rl, sent, counted, bodyErr, answers, peer>>

-----------------------------------------------------------------------------
(* The pool.                                                                 *)

\* A later request is given the idle connection (queueForIdleConn).
GetIdle(r) ==
  /\ At(r, "new") /\ pc.idle /\ ~Closed
  /\ pc' = [pc EXCEPT !.idle = FALSE]
  /\ canceler' = [canceler EXCEPT ![r] = "wait"]
  /\ Goto(r, "got")
  /\ Unchanged(<<calls, chans, wl, rl>>)

\* The idle timer, CloseIdleConnections or a full pool closes it.
CloseIdle ==
  /\ pc.idle
  /\ pc' = [CloseFor(pc, "other") EXCEPT !.idle = FALSE]
  /\ Unchanged(<<canceler, calls, rt, chans, wl, rl>>)

\* tryPutIdleConn: the pool takes the connection, unless it is closed or not wanted.
PutIdle(p) == IF p.closed # "no" THEN {} ELSE {[p EXCEPT !.reused = TRUE, !.idle = TRUE]}
PutFails(p) == [p EXCEPT !.reused = @ \/ p.closed = "no"]

-----------------------------------------------------------------------------
(* persistConn.roundTrip.                                                    *)

\* replaceReqCanceler: if the request was cancelled since getConn set its canceler, the
\* connection goes back to the pool.
Enter(r) ==
  /\ At(r, "got")
  /\ IF canceler[r] = "none"
     THEN /\ Fails(r, "canceledEarly")
          /\ pc' \in PutIdle(pc) \cup {CloseFor(PutFails(pc), "other")}
          /\ UNCHANGED canceler
     ELSE /\ Goto(r, "expect")
          /\ canceler' = [canceler EXCEPT ![r] = "conn"]
          /\ UNCHANGED pc
  /\ Unchanged(<<calls, chans, wl, rl>>)

Expect(r) ==
  /\ At(r, "expect")
  /\ pc' = [pc EXCEPT !.expected = @ + 1]
  /\ Goto(r, "write")
  /\ Unchanged(<<canceler, calls, chans, wl, rl>>)

\* The two channels hold one value each.
SendWrite(r) ==
  /\ At(r, "write") /\ chans.write = None
  /\ chans' = [chans EXCEPT !.write = r]
  /\ Goto(r, "send")
  /\ Unchanged(<<canceler, calls, pc, wl, rl>>)

SendReq(r) ==
  /\ At(r, "send") /\ chans.req = None
  /\ chans' = [chans EXCEPT !.req = r]
  /\ Goto(r, "select")
  /\ Unchanged(<<canceler, calls, pc, wl, rl>>)

\* The cases of the select: the request has been written, or could not be;
SelectWritten(r) ==
  /\ At(r, "select") /\ chans.own[r] # "none"
  /\ chans' = [chans EXCEPT !.own[r] = "none"]
  /\ IF chans.own[r] = "ok"
     THEN rt' = [rt EXCEPT ![r].timer = TRUE] /\ UNCHANGED pc
     ELSE /\ rt' = [rt EXCEPT ![r].at = "map", ![r].err = "other"]
          /\ pc' = CloseFor(pc, "other")
  /\ Unchanged(<<canceler, calls, wl, rl>>)

\* the connection is closed;
SelectClosed(r) ==
  /\ At(r, "select") /\ Closed
  /\ rt' = [rt EXCEPT ![r].at = "map", ![r].err = pc.closed]
  /\ Unchanged(<<canceler, calls, pc, chans, wl, rl>>)

\* the timer for the response header, which runs once the request is written, expires;
SelectTimeout(r) ==
  /\ At(r, "select") /\ rt[r].timer
  /\ Fails(r, "failed")
  /\ pc' = CloseFor(pc, "other")
  /\ canceler' = [canceler EXCEPT ![r] = "none"]
  /\ Unchanged(<<calls, chans, wl, rl>>)

\* the context is done: cancelRequest, and around again.  (readLoop's answer: Deliver.)
SelectContext(r) ==
  /\ At(r, "select") /\ r \in ctx /\ canceler[r] # "none"
  /\ TakeCanceler(r, "roundTrip")
  /\ Goto(r, "calling")
  /\ Unchanged(<<pc, chans, wl, rl>>)

SelectAgain(r) ==
  /\ At(r, "calling") /\ <<r, "roundTrip">> \notin calls
  /\ Goto(r, "select")
  /\ Unchanged(<<canceler, calls, pc, chans, wl, rl>>)

\* The errors a retry may follow besides "nothingWritten".
ReadErrors == {"readFromServer", "serverClosedIdle"}

\* mapRoundTripError, on a connection that is closed once writeLoop has ended.  The
\* errors are those the retry is decided by.
MapsTo(r) ==
  IF pc.canceledErr # None THEN "canceled"
  ELSE IF r \in bodyErr THEN "bodyRead"
  ELSE IF rt[r].err \in ReadErrors THEN rt[r].err
  ELSE IF Closed /\ r \notin counted THEN "nothingWritten" ELSE "broken"

\* shouldRetryRequest.
ShouldRetry(k, e) ==
  /\ pc.reused
  /\ \/ e = "nothingWritten" /\ k # "stream"
     \/ e \in ReadErrors /\ k = "replayable"

\* The mutant asks what was written before writeLoop has ended.
WaitsForWriteLoop_Never(r) == FALSE

\* Before it is told that nothing was written, writeLoop must have ended.
WaitsForWriteLoop(r) ==
  pc.canceledErr = None /\ r \notin bodyErr /\ rt[r].err \notin ReadErrors /\ Closed

\* roundTrip fails, and is called again for a request of a kind that may be retried.
\* Where no kind may, the kind is not chosen: nothing depends on it.
MapError(r) ==
  /\ At(r, "map")
  /\ WaitsForWriteLoop(r) => wl.at = "done"
  /\ LET e       == MapsTo(r)
         retried == {k \in Kinds : ShouldRetry(k, e)} IN
       IF retried = {}
       THEN /\ rt' = [rt EXCEPT ![r] = [Ended EXCEPT !.err = IF e = "canceled" THEN e ELSE "failed",
                                      !.of = IF e = "canceled" THEN pc.canceledErr ELSE None]]
            /\ UNCHANGED kind
       ELSE \E k \in Kinds :
              /\ kind' = [kind EXCEPT ![r] = k]
              /\ Fails(r, IF k \in retried THEN "retried" ELSE "failed")
  /\ canceler' = [canceler EXCEPT ![r] = "none"]
  /\ UNCHANGED <<ctx, cancels, calls, pc, chans, wl, rl, sent, counted, bodyErr, answers, peer>>

-----------------------------------------------------------------------------
(* persistConn.writeLoop.                                                    *)

TakeWrite ==
  /\ wl.at = "idle" /\ chans.write # None
  /\ wl' = [at |-> "writing", req |-> chans.write, err |-> "none"]
  /\ chans' = [chans EXCEPT !.write = None]
  /\ Unchanged(<<canceler, calls, pc, rt, rl>>)

WriteLoopStops ==
  /\ wl.at = "idle" /\ Closed
  /\ wl' = [wl EXCEPT !.at = "done"]
  /\ Unchanged(<<canceler, calls, pc, rt, chans, rl>>)

\* Some bytes, or all of them, go out while the connection is open; nwrite counts them
\* when conn.Write returns.
WriteBytes ==
  /\ wl.at = "writing" /\ ~Closed
  /\ \E n \in {1, 2} : sent' = [sent EXCEPT ![wl.req] = n]
  /\ wl' = [wl EXCEPT !.at = "written"]
  /\ UNCHANGED <<kind, ctx, cancels, canceler, calls, pc, rt, chans, rl, counted, bodyErr, answers, peer>>

\* The write ends, well if all of it went out, or with an error: the connection's, or
\* one from reading the request's own body.
WriteEnds ==
  \E e \in {"ok", "write", "bodyRead"} :
    /\ wl.at \in {"writing", "written"}
    /\ e = "ok" => sent[wl.req] = 2
    /\ e = "bodyRead" => sent[wl.req] < 2
    /\ counted' = IF wl.at = "written" THEN counted \cup {wl.req} ELSE counted
    /\ bodyErr' = IF e = "bodyRead" THEN bodyErr \cup {wl.req} ELSE bodyErr
    /\ wl' = [wl EXCEPT !.at = "report", !.err = IF e = "ok" THEN e ELSE "error"]
    /\ UNCHANGED <<kind, ctx, cancels, canceler, calls, pc, rt, chans, rl, sent, answers, peer>>

\* The result goes to readLoop, then to roundTrip (which may have returned); after an error writeLoop closes.
ReportToReadLoop ==
  /\ wl.at = "report" /\ chans.err = "none"
  /\ chans' = [chans EXCEPT !.err = wl.err]
  /\ wl' = [wl EXCEPT !.at = "reportOwn"]
  /\ Unchanged(<<canceler, calls, pc, rt, rl>>)

ReportToRoundTrip ==
  /\ wl.at = "reportOwn"
  /\ chans' = [chans EXCEPT !.own[wl.req] = wl.err]
  /\ wl' = [at |-> IF wl.err = "ok" THEN "idle" ELSE "close", req |-> None, err |-> "none"]
  /\ Unchanged(<<canceler, calls, pc, rt, rl>>)

WriteLoopCloses ==
  /\ wl.at = "close"
  /\ pc' = CloseFor(pc, "other")
  /\ wl' = [wl EXCEPT !.at = "done"]
  /\ Unchanged(<<canceler, calls, rt, chans, rl>>)

-----------------------------------------------------------------------------
(* persistConn.readLoop.                                                     *)

AfterAnswer(alive) == IF alive THEN Looping ELSE [Looping EXCEPT !.at = "close"]

\* Peek returns: with a byte, or an error.  On a connection nobody has asked anything
\* of, this is the end (readLoopPeekFailLocked).
Peek ==
  /\ rl.at = "peek"
  /\ \E err \in {"none", "eof", "error"} :
       /\ err = "none"  => answers # <<>>
       /\ err = "eof"   => answers = <<>> /\ peer.closed
       /\ err = "error" => Closed \/ peer.closed
       /\ IF pc.expected = 0
          THEN /\ pc' = CloseFor(pc, IF err = "eof" THEN "serverClosedIdle" ELSE "other")
               /\ rl' = [rl EXCEPT !.at = "close"]
          ELSE /\ rl' = [rl EXCEPT !.at = "take", !.err = IF err = "none" THEN err ELSE "readFromServer"]
               /\ UNCHANGED pc
  /\ Unchanged(<<canceler, calls, rt, chans, wl>>)

Answered(p) == [p EXCEPT !.expected = @ - 1]

\* reqch, and readResponse if there was a byte; it can fail as well.  An answer's body
\* stays to be read.
TakeReq ==
  /\ rl.at = "take" /\ chans.req # None
  /\ chans' = [chans EXCEPT !.req = None]
  /\ \/ /\ rl' = [rl EXCEPT !.at = "error", !.req = chans.req,
                            !.err = IF @ = "none" THEN "other" ELSE @]
        /\ UNCHANGED <<pc, answers>>
     \/ LET a == Head(answers) IN
        /\ rl.err = "none"
        /\ answers' = (IF a.body THEN <<[a EXCEPT !.body = FALSE]>> ELSE <<>>) \o Tail(answers)
        /\ rl' = [rl EXCEPT !.at = IF a.body THEN "deliver" ELSE "clear", !.req = chans.req,
                            !.answer = a, !.alive = a.keep]
        /\ pc' = Answered(pc)
  /\ UNCHANGED <<kind, ctx, cancels, canceler, calls, rt, wl, sent, counted, bodyErr, peer>>

\* The error goes to roundTrip, or is dropped if it has returned; readLoop ends.
DeliverError ==
  /\ rl.at = "error"
  /\ \/ /\ At(rl.req, "select")
        /\ rt' = [rt EXCEPT ![rl.req].at = "map", ![rl.req].err = rl.err]
     \/ Returned(rl.req) /\ UNCHANGED rt
  /\ rl' = [Looping EXCEPT !.at = "close", !.err = rl.err]
  /\ Unchanged(<<canceler, calls, pc, chans, wl>>)

\* An answer without a body, or whose body has been read: the request can no longer be
\* cancelled ("before pc might return to idle pool").
ClearCanceler ==
  /\ rl.at = "clear"
  /\ canceler' = [canceler EXCEPT ![rl.req] = "none"]
  /\ rl' = [rl EXCEPT !.at = "put"]
  /\ Unchanged(<<calls, pc, rt, chans, wl>>)

\* The mutant keeps the connection without asking writeLoop.
WroteRequest_NotAsked == TRUE
WroteRequest == chans.err = "ok"

\* If the answer and the request allow it, and readLoop has not seen the server close,
\* wroteRequest waits a little for writeLoop's result; then tryPutIdleConn.
PutBack ==
  /\ rl.at = "put"
  /\ \E sawEOF \in IF peer.closed THEN BOOLEAN ELSE {FALSE} :
       LET asks == rl.alive /\ ~sawEOF IN
       /\ chans' = IF asks THEN [chans EXCEPT !.err = "none"] ELSE chans
       /\ \/ asks /\ WroteRequest /\ pc' \in PutIdle(pc)
          \/ pc' \in (IF asks /\ WroteRequest THEN {pc, PutFails(pc)} ELSE {pc})
  /\ rl' = IF rl.answer.body /\ rl.err = "early" THEN AfterAnswer(pc'.idle)
           ELSE [rl EXCEPT !.alive = pc'.idle, !.at = IF rl.answer.body THEN "eofc" ELSE "deliver"]
  /\ Unchanged(<<canceler, calls, rt, wl>>)

\* The answer goes to roundTrip, which has left its select once it has it, or is dropped
\* if it has returned.
Deliver ==
  /\ rl.at = "deliver"
  /\ \/ /\ At(rl.req, "select")
        /\ rt' = [rt EXCEPT ![rl.req] = [NewRequest EXCEPT !.of = rl.answer.to,
                                        !.at = IF rl.answer.body THEN "body" ELSE "done"]]
        /\ rl' = IF rl.answer.body THEN [rl EXCEPT !.at = "bodyWait"] ELSE AfterAnswer(rl.alive)
     \/ /\ Returned(rl.req)
        /\ rl' = AfterAnswer(FALSE)
        /\ UNCHANGED rt
  /\ Unchanged(<<canceler, calls, pc, chans, wl>>)

\* While the body is read: its reader is finished (true at EOF, which readLoop lets it
\* return from once the connection is back in the pool), or the request is cancelled, or
\* the connection closed.
BodyRead(r) ==
  /\ rl.at = "bodyWait" /\ rl.req = r /\ chans.body[r] # "none"
  /\ chans' = [chans EXCEPT !.body[r] = "none"]
  /\ rl' = [rl EXCEPT !.at = "clear", !.alive = @ /\ chans.body[r] = "eof", !.err = chans.body[r]]
  /\ Unchanged(<<canceler, calls, pc, rt, wl>>)

BodyCanceled ==
  /\ rl.at = "bodyWait" /\ rl.req \in ctx
  /\ TakeCanceler(rl.req, "readLoop")
  /\ rl' = [rl EXCEPT !.at = "calling", !.alive = FALSE]
  /\ Unchanged(<<pc, rt, chans, wl>>)

\* The mutant does not wait for closech.
BodyConnClosed_Never == FALSE
BodyConnClosed ==
  /\ rl.at = "bodyWait" /\ Closed
  /\ rl' = AfterAnswer(FALSE)
  /\ Unchanged(<<canceler, calls, pc, rt, chans, wl>>)

Called ==
  /\ rl.at = "calling" /\ <<rl.req, "readLoop">> \notin calls
  /\ rl' = AfterAnswer(FALSE)
  /\ Unchanged(<<canceler, calls, pc, rt, chans, wl>>)

\* readLoop ends: eofc is closed first, then the connection, then it leaves the pool.
ReadLoopCloses ==
  /\ rl.at = "close"
  /\ pc' = CloseFor(pc, IF rl.err = "readFromServer" THEN rl.err ELSE "other")
  /\ rl' = [Looping EXCEPT !.at = "remove"]
  /\ Unchanged(<<canceler, calls, rt, chans, wl>>)

ReadLoopRemoves ==
  /\ rl.at = "remove"
  /\ pc' = [pc EXCEPT !.idle = FALSE]
  /\ rl' = [rl EXCEPT !.at = "gone"]
  /\ Unchanged(<<canceler, calls, rt, chans, wl>>)

-----------------------------------------------------------------------------
(* The user reads the body of the answer, bodyEOFSignal between.             *)

EofcClosed == rl.at \in {"close", "remove", "gone"}

ReadsToEOF(r) ==
  /\ At(r, "body") /\ answers # <<>>
  /\ answers' = Tail(answers)
  /\ chans' = [chans EXCEPT !.body[r] = "eof"]
  /\ Goto(r, "eof")
  /\ UNCHANGED <<kind, ctx, cancels, canceler, calls, pc, wl, rl, sent, counted, bodyErr, peer>>

ClosesEarly(r) ==
  /\ At(r, "body")
  /\ chans' = [chans EXCEPT !.body[r] = "early"]
  /\ Goto(r, "early")
  /\ Unchanged(<<canceler, calls, pc, wl, rl>>)

ReadFails(r) ==
  /\ At(r, "body") /\ (Closed \/ peer.closed)
  /\ chans' = [chans EXCEPT !.body[r] = "early"]
  /\ Goto(r, "done")
  /\ Unchanged(<<canceler, calls, pc, wl, rl>>)

\* eofc: readLoop lets the reader go, or has ended.
ReaderReturns(r) ==
  /\ \/ At(r, "eof") /\ rl.at = "eofc" /\ rl' = AfterAnswer(rl.alive)
     \/ rt[r].at \in {"eof", "early"} /\ EofcClosed /\ UNCHANGED rl
  /\ Goto(r, "done")
  /\ Unchanged(<<canceler, calls, pc, chans, wl>>)

-----------------------------------------------------------------------------
(* The server.                                                               *)

Answer(r) ==
  /\ sent[r] > 0 /\ r \notin peer.answered /\ ~peer.closed /\ ~Closed
  /\ \E body, keep \in BOOLEAN : answers' = Append(answers, [to |-> r, body |-> body, keep |-> keep])
  /\ peer' = [peer EXCEPT !.answered = @ \cup {r}]
  /\ UNCHANGED <<kind, ctx, cancels, canceler, calls, pc, rt, chans, wl, rl, sent, counted, bodyErr>>

PeerCloses ==
  /\ ~peer.closed
  /\ peer' = [peer EXCEPT !.closed = TRUE]
  /\ UNCHANGED <<kind, ctx, cancels, canceler, calls, pc, rt, chans, wl, rl, sent, counted, bodyErr, answers>>

-----------------------------------------------------------------------------
RoundTripStep(r) ==
  \/ Enter(r) \/ Expect(r) \/ SendWrite(r) \/ SendReq(r)
  \/ SelectWritten(r) \/ SelectClosed(r) \/ SelectContext(r) \/ SelectAgain(r) \/ MapError(r)
  \/ ReaderReturns(r)

WriteLoopStep ==
  \/ TakeWrite \/ WriteLoopStops \/ WriteBytes \/ WriteEnds
  \/ ReportToReadLoop \/ ReportToRoundTrip \/ WriteLoopCloses

ReadLoopStep ==
  \/ Peek \/ TakeReq \/ DeliverError \/ ClearCanceler \/ PutBack \/ Deliver
  \/ (\E r \in Reqs : BodyRead(r)) \/ BodyCanceled \/ BodyConnClosed \/ Called
  \/ ReadLoopCloses \/ ReadLoopRemoves

CallStep(r) == \E by \in {"user", "roundTrip", "readLoop"} : CallCanceler(r, by)

EnvironmentStep ==
  \/ \E r \in Reqs : \/ ContextDone(r) \/ CancelRequest(r) \/ GetIdle(r) \/ SelectTimeout(r)
                     \/ ReadsToEOF(r) \/ ClosesEarly(r) \/ ReadFails(r) \/ Answer(r)
  \/ CloseIdle \/ PeerCloses

Finished ==
  /\ \A r \in Reqs : rt[r].at \in {"new", "done"}
  /\ rl.at = "gone" /\ wl.at = "done" /\ calls = {}
  /\ UNCHANGED vars

Next ==
  \/ \E r \in Reqs : RoundTripStep(r) \/ CallStep(r)
  \/ WriteLoopStep \/ ReadLoopStep \/ EnvironmentStep \/ Finished

Spec == Init /\ [][Next]_vars

(* The goroutines run, a canceler taken is called, and a write ends, at the latest *)
(* with an error when the connection is closed (so reading the request's own body  *)
(* must end too).  Nothing is assumed of the server, of the users and of the timers. *)
FairSpec ==
  /\ Spec
  /\ \A r \in Reqs : WF_vars(RoundTripStep(r)) /\ WF_vars(CallStep(r))
  /\ WF_vars(WriteLoopStep) /\ WF_vars(ReadLoopStep)

-----------------------------------------------------------------------------
Reasons  == {"no", "serverClosedIdle", "readFromServer", "other"}
Errors   == Reasons \cup {"none", "failed", "canceled", "canceledEarly", "retried"}
Answers  == [to : Reqs \cup {None}, body : BOOLEAN, keep : BOOLEAN]
InFlight == {"got", "expect", "write", "send", "select", "calling", "map"}
Failed(r) == At(r, "done") /\ rt[r].err \notin {"none", "canceledEarly"}

\* roundTrip returns the server's answer to its own request, never what was sent for an
\* earlier user of the connection.
AnswersOwnRequest ==
  \A r \in Reqs : Returned(r) /\ rt[r].err = "none" => rt[r].of = r

\* A request is sent again only if it may be, or if it can be rewound and no byte of it
\* is on the wire, then or later.
SafeRetry ==
  \A r \in Reqs : rt[r].err = "retried" =>
    kind[r] = "replayable" \/ (kind[r] = "rewindable" /\ sent[r] = 0)

\* A connection in the pool that still lives is clean: nothing of an earlier request is
\* in its channels, being written, expected or unread, and none has failed on it.
ReuseClean ==
  pc.idle /\ ~Closed =>
    /\ pc.expected = 0 /\ answers = <<>>
    /\ chans.write = None /\ chans.req = None /\ chans.err = "none"
    /\ wl.at \in {"idle", "reportOwn"} /\ (wl.at = "reportOwn" => wl.err = "ok")
    /\ \A r \in Reqs : ~Failed(r) /\ rt[r].at \notin {"expect", "write", "send", "map"}

\* Requests that use a connection one after the other do not meet: an answer goes to its own request,
\* and the connection that is offered to the next one has nothing left of the last.
RequestsApart == AnswersOwnRequest /\ ReuseClean

\* A request whose context is done leaves roundTrip, and the two loops of a closed
\* connection end, with the readers that wait for them.
EverythingEnds ==
  /\ \A r \in Reqs : (r \in ctx /\ rt[r].at \in InFlight) ~> rt[r].at \notin InFlight
  /\ Closed ~> (rl.at = "gone" /\ wl.at = "done" /\ \A r \in Reqs : rt[r].at \notin {"eof", "early"})
=============================================================================
