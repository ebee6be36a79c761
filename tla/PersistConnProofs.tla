------------------------- MODULE PersistConnProofs --------------------------
(***************************************************************************)
(* Proofs about PersistConn for every set of requests and any number of    *)
(* cancellations: a request is only sent again when it may be, and the     *)
(* requests that use a connection one after the other do not meet.         *)
(***************************************************************************)
EXTENDS PersistConn, TLAPS

-----------------------------------------------------------------------------
(* The types.                                                               *)

\* The control points of a request's goroutine, and its record.
Points     == InFlight \cup {"new", "body", "eof", "early", "done"}
RtType     == [at : Points, err : Errors, of : Reqs \cup {None}, timer : BOOLEAN]
\* The connection.
PcType     == [closed : Reasons, canceledErr : Reqs \cup {None}, reused : BOOLEAN, expected : Nat,
               idle : BOOLEAN]
\* The channels.
BodyType   == [Reqs -> {"none", "eof", "early"}]
ChansType  == [write : Reqs \cup {None}, req : Reqs \cup {None}, err : {"none", "ok", "error"},
               own : [Reqs -> {"none", "ok", "error"}], body : BodyType]
\* writeLoop, and where it has a request.
WlType     == [at : {"idle", "writing", "written", "report", "reportOwn", "close", "done"},
               req : Reqs \cup {None}, err : {"none", "ok", "error"}]
Writing    == {"writing", "written", "report", "reportOwn"}
\* readLoop, and where it has one.
RlPoints   == {"peek", "take", "error", "clear", "put", "deliver", "bodyWait", "calling", "eofc",
               "close", "remove", "gone"}
RlType     == [at : RlPoints, req : Reqs \cup {None},
               err : {"none", "other", "readFromServer", "eof", "early"}, alive : BOOLEAN,
               answer : Answers]
Serving    == {"error", "clear", "put", "deliver", "bodyWait", "calling", "eofc"}
\* The server.
PeerType   == [closed : BOOLEAN, answered : SUBSET Reqs]

\* The types of the variables.
TypeOK ==
  /\ kind \in [Reqs -> Kinds \cup {None}]
  /\ rt \in [Reqs -> RtType]
  /\ pc \in PcType
  /\ chans \in ChansType
  /\ wl \in WlType /\ (wl.at \in Writing => wl.req \in Reqs)
  /\ rl \in RlType /\ (rl.at \in Serving => rl.req \in Reqs)
  /\ rl.at \in {"take", "error"} => rl.err \in {"none", "other", "readFromServer"}
  /\ sent \in [Reqs -> 0..2]
  /\ counted \subseteq Reqs
  /\ answers \in Seq(Answers)
  /\ peer \in PeerType

-----------------------------------------------------------------------------
(* The invariant.                                                           *)

\* r has the connection and readLoop has not taken r from reqch: it may still be answered.
Asking(r) == rt[r].at \in {"got", "expect", "write", "send"} \/ chans.req = r
\* Nobody has the connection for a next request, nor can get it from the pool.
NoNext    == ~pc.idle /\ \A r \in Reqs : ~Asking(r)
\* readLoop is about to end, or has.
Ending    == rl.at \in {"error", "close", "remove", "gone"}
\* writeLoop has nothing left to do but to report success to roundTrip.
Quiet     == /\ chans.err = "none" /\ chans.write = None
             /\ wl.at \in {"idle", "reportOwn", "done"} /\ (wl.at = "reportOwn" => wl.err = "ok")

\* What is on the wire has been counted, or is when the running write returns ...
CountedInv == \A r \in Reqs : sent[r] > 0 => r \in counted \/ (wl.at = "written" /\ wl.req = r)
\* ... and a request that is retried after nothing was written never will be written here.
RetriedInv == \A r \in Reqs : rt[r].err = "retried" =>
  /\ At(r, "done")
  /\ kind[r] = "replayable" \/ (kind[r] = "rewindable" /\ sent[r] = 0 /\ Closed)

\* One request at a time asks, and none while the connection is in the pool.
OneAsker ==
  /\ \A r, s \in Reqs : Asking(r) /\ Asking(s) => r = s
  /\ pc.idle => \A r \in Reqs : ~Asking(r)

\* A request that has not been handed over has left no trace; one that has waits, or has failed.
Unstarted == \A r \in Reqs :
  /\ rt[r].at \in {"new", "got", "expect", "write"} =>
       /\ sent[r] = 0 /\ chans.write # r /\ r \notin peer.answered
       /\ wl.at \in {"writing", "written"} => wl.req # r
  /\ rt[r].at \in {"new", "got", "expect", "write", "send"} => chans.req # r
  /\ chans.req = r => rt[r].at \in {"select", "calling", "map"} \/ Failed(r)

\* In the pool, and until the next request is handed over, writeLoop is quiet.
AtRest == (pc.idle \/ \E r \in Reqs : rt[r].at \in {"got", "expect", "write"}) => Quiet

\* readLoop's writeErrCh holds a result only when no write has followed it.
WriteInv ==
  /\ chans.err # "none" => chans.write = None /\ wl.at \in {"idle", "reportOwn", "close", "done"}
  /\ chans.err = "ok" => wl.at # "close" /\ (wl.at = "reportOwn" => wl.err = "ok")
  /\ wl.at \in {"writing", "written", "report"} => chans.write = None

\* A request that is written, or is about to be, asks or has been answered, or readLoop ends.
Owed(r) == Asking(r) \/ r \in peer.answered \/ Ending
OwedInv == \A r \in Reqs :
  (wl.at = "writing" /\ wl.req = r) \/ chans.write = r \/ sent[r] > 0 => Owed(r)

\* The answers unread are to different requests, each on the wire.
AnswersInv ==
  /\ \A i \in DOMAIN answers : answers[i].to \in peer.answered
  /\ \A i, j \in DOMAIN answers : answers[i].to = answers[j].to => i = j
  /\ \A r \in peer.answered : sent[r] > 0

\* Between two answers, what is unread is for the request that asks.
Pending ==
  /\ rl.at \in {"peek", "take", "eofc"} \/ (~rl.answer.body /\ rl.at \in {"clear", "put", "deliver"}) =>
       \A i \in DOMAIN answers : answers[i].to \in Reqs /\ Asking(answers[i].to)
  /\ rl.at = "take" /\ rl.err = "none" => answers # <<>>

\* While a body is read, nothing but its rest is unread; once it is read to its end, nothing.
BodyInv ==
  /\ rl.at = "deliver" /\ rl.answer.body => Len(answers) <= 1
  /\ \A r \in Reqs : rl.at = "bodyWait" /\ rl.req = r =>
       /\ At(r, "body") => Len(answers) <= 1
       /\ chans.body[r] = "eof" => answers = <<>>
  /\ rl.at \in {"clear", "put"} /\ rl.answer.body => rl.err \in {"eof", "early"}
  /\ rl.at \in {"clear", "put"} /\ rl.answer.body /\ rl.err = "eof" => answers = <<>>
  /\ rl.at \in {"clear", "put"} /\ rl.err = "early" => ~rl.alive
  /\ rl.at = "bodyWait" => rl.answer.body

\* readLoop waits for the reader of a body, who has its answer.
Readers == \A r \in Reqs :
  /\ At(r, "body") => (rl.at \in {"bodyWait", "calling"} /\ rl.req = r) \/ Ending
  /\ rt[r].at \in {"body", "eof", "early"} => rt[r].err = "none"
  /\ chans.body[r] # "none" => rt[r].at \in {"eof", "early"} \/ (At(r, "done") /\ rt[r].err = "none")

\* The answer readLoop is about to deliver is to the request it took, which waits or has failed.
Served == \A r \in Reqs :
  /\ rl.req = r
  /\ rl.at = "deliver" \/ (rl.at \in {"clear", "put"} /\ ~rl.answer.body)
  => rl.answer.to = r /\ chans.req # r /\ (rt[r].at \in {"select", "calling", "map"} \/ Failed(r))

\* Until readLoop has put the connection back, no other request has it.
NoNextInv ==
  \/ rl.at \in {"error", "clear", "put", "bodyWait", "calling"}
  \/ rl.at = "deliver" /\ rl.answer.body
  \/ rl.at \in {"deliver", "eofc"} /\ ~rl.alive
  \/ rl.at = "close" /\ ~Closed
  => NoNext

\* A request fails only on a connection that is closed or about to be.
FailInv ==
  /\ \A r \in Reqs : At(r, "map") \/ Failed(r) => Closed \/ Ending
  /\ rl.at \in {"remove", "gone"} => Closed
  /\ wl.at = "done" => Closed

\* numExpectedResponses counts the request that asks, from roundTrip's increment to readLoop's
\* decrement.
Expected(r) == rt[r].at \in {"write", "send"} \/ chans.req = r
ExpectInv == ~Ending =>
  /\ pc.expected <= 1
  /\ pc.expected > 0 <=> \E r \in Reqs : Expected(r)

\* The inductive invariant.
ConnInv ==
  /\ TypeOK /\ CountedInv /\ RetriedInv
  /\ OneAsker /\ Unstarted /\ AtRest /\ WriteInv /\ OwedInv /\ AnswersInv /\ Pending /\ BodyInv
  /\ Readers /\ Served /\ NoNextInv /\ FailInv /\ ExpectInv /\ AnswersOwnRequest

-----------------------------------------------------------------------------
(* Sequences and the parts of the steps.                                     *)

\* What is left of a sequence.
LEMMA TailIs ==
  ASSUME NEW S, NEW s \in Seq(S), s # <<>>
  PROVE  /\ Tail(s) \in Seq(S) /\ Len(Tail(s)) = Len(s) - 1 /\ Len(s) \in Nat
         /\ \A i \in DOMAIN Tail(s) : i + 1 \in DOMAIN s /\ Tail(s)[i] = s[i + 1] /\ i \in Nat
OBVIOUS

\* A sequence with an element more.
LEMMA AppendIs ==
  ASSUME NEW S, NEW s \in Seq(S), NEW e \in S
  PROVE  /\ Append(s, e) \in Seq(S)
         /\ \A i \in DOMAIN Append(s, e) : \/ i \in DOMAIN s /\ Append(s, e)[i] = s[i]
                                           \/ i = Len(s) + 1 /\ Append(s, e)[i] = e
OBVIOUS

\* A sequence without two elements.
LEMMA OneElement ==
  ASSUME NEW S, NEW s \in Seq(S), s # <<>>, \A i, j \in DOMAIN s : i = j
  PROVE  Head(s) = s[1] /\ 1 \in DOMAIN s /\ Tail(s) = <<>>
<1>1. 1 \in DOMAIN s /\ Len(s) \in Nat /\ DOMAIN s = 1..Len(s) OBVIOUS
<1>2. Len(s) = 1 BY <1>1
<1>3. Tail(s) \in Seq(S) /\ Len(Tail(s)) = 0 BY <1>2
<1> QED BY <1>1, <1>3

\* A sequence of one.
LEMMA Single ==
  ASSUME NEW S, NEW x \in S
  PROVE  <<x>> \o <<>> = <<x>> /\ <<>> \o <<>> = <<>> /\ DOMAIN <<x>> = {1} /\ <<x>>[1] = x
OBVIOUS

\* Every goroutine but that of r is where it was.
Others(r) == \A s \in Reqs \ {r} : rt'[s] = rt[s]

\* The goroutine of r moves on with its record otherwise as it was.
LEMMA GotoFacts ==
  ASSUME TypeOK, NEW r \in Reqs, NEW l \in Points, Goto(r, l)
  PROVE  /\ rt' \in [Reqs -> RtType] /\ Others(r)
         /\ rt'[r].at = l /\ rt'[r].err = rt[r].err /\ rt'[r].of = rt[r].of
BY DEF TypeOK, Goto, RtType, Others

\* It fails, and is done.
LEMMA FailsFacts ==
  ASSUME TypeOK, NEW r \in Reqs, NEW e \in Errors, Fails(r, e)
  PROVE  /\ rt' \in [Reqs -> RtType] /\ Others(r)
         /\ rt'[r].at = "done" /\ rt'[r].err = e /\ rt'[r].of = None
<1>1. rt \in [Reqs -> RtType] BY DEF TypeOK
<1> DEFINE x == [Ended EXCEPT !.err = e]
<1>2. rt' = [rt EXCEPT ![r] = x] BY DEF Fails
<1>3. x \in RtType /\ x.at = "done" /\ x.err = e /\ x.of = None
  BY DEF Ended, NewRequest, RtType, Points, InFlight
<1> QED BY <1>1, <1>2, <1>3 DEF Others

\* It has an error to map.
LEMMA MapFacts ==
  ASSUME TypeOK, NEW r \in Reqs, NEW e \in Errors, rt' = [rt EXCEPT ![r].at = "map", ![r].err = e]
  PROVE  /\ rt' \in [Reqs -> RtType] /\ Others(r)
         /\ rt'[r].at = "map" /\ rt'[r].err = e /\ rt'[r].of = rt[r].of
<1>1. rt \in [Reqs -> RtType] BY DEF TypeOK
<1>2. [[rt[r] EXCEPT !.at = "map"] EXCEPT !.err = e] \in RtType BY <1>1 DEF RtType, Points, InFlight
<1> QED BY <1>1, <1>2 DEF Others, RtType

\* The connection is closed for the first reason given.
LEMMA CloseForFacts ==
  ASSUME NEW p \in PcType, NEW why \in Reasons \ {"no"}
  PROVE  /\ CloseFor(p, why) \in PcType /\ CloseFor(p, why).closed # "no"
         /\ CloseFor(p, why).idle = p.idle /\ CloseFor(p, why).expected = p.expected
         /\ p.closed # "no" => CloseFor(p, why) = p
  BY DEF CloseFor, PcType

\* What tryPutIdleConn makes of the connection.
LEMMA PutFacts ==
  ASSUME NEW p \in PcType
  PROVE  /\ \A q \in PutIdle(p) : /\ q \in PcType /\ p.closed = "no" /\ q.closed = p.closed
                                  /\ q.expected = p.expected /\ q.idle
         /\ PutFails(p) \in PcType /\ PutFails(p).closed = p.closed
         /\ PutFails(p).expected = p.expected /\ PutFails(p).idle = p.idle
  BY DEF PutIdle, PutFails, PcType

\* readLoop goes on to the next answer, or ends.
LEMMA AfterAnswerFacts ==
  ASSUME NEW alive \in BOOLEAN
  PROVE  /\ AfterAnswer(alive) \in RlType /\ AfterAnswer(alive).at \notin Serving
          /\ AfterAnswer(alive).at = IF alive THEN "peek" ELSE "close"
  BY DEF AfterAnswer, Looping, NoAnswer, RlType, RlPoints, Serving, Answers

-----------------------------------------------------------------------------
(* What each step changes.                                                   *)

\* A cancelled request leaves roundTrip at once and the connection goes back, or is closed.
LEMMA EnterEffect ==
  ASSUME NEW r \in Reqs, TypeOK, Enter(r)
  PROVE  /\ TypeOK' /\ UNCHANGED <<kind, chans, wl, rl, sent, counted, answers, peer>>
         /\ rt[r].at = "got"
         /\ Others(r) /\ rt'[r].of \in {rt[r].of, None}
         /\ \/ rt'[r].at = "expect" /\ rt'[r].err = rt[r].err /\ pc' = pc
            \/ /\ rt'[r].at = "done" /\ rt'[r].err = "canceledEarly" /\ pc'.expected = pc.expected
               /\ \/ pc'.idle /\ pc'.closed = pc.closed /\ pc.closed = "no"
                  \/ pc'.idle = pc.idle /\ pc'.closed # "no" /\ (pc.closed # "no" => pc'.closed = pc.closed)
<1>1. rt[r].at = "got" /\ UNCHANGED <<kind, chans, wl, rl, sent, counted, answers, peer>>
  BY DEF Enter, At, Unchanged
<1>2. CASE Fails(r, "canceledEarly") /\ pc' \in PutIdle(pc) \cup {CloseFor(PutFails(pc), "other")}
  <2>1. /\ rt' \in [Reqs -> RtType] /\ Others(r)
        /\ rt'[r].at = "done" /\ rt'[r].err = "canceledEarly" /\ rt'[r].of = None
    BY <1>2, FailsFacts DEF Errors
  <2>2. /\ pc' \in PcType /\ pc'.expected = pc.expected
        /\ \/ pc'.idle /\ pc'.closed = pc.closed /\ pc.closed = "no"
           \/ pc'.idle = pc.idle /\ pc'.closed # "no" /\ (pc.closed # "no" => pc'.closed = pc.closed)
    <3>1. pc \in PcType BY DEF TypeOK
    <3>2. CASE pc' \in PutIdle(pc) BY <3>1, <3>2, PutFacts
    <3>3. CASE pc' = CloseFor(PutFails(pc), "other")
      BY <3>1, <3>3, PutFacts, CloseForFacts, "other" \in Reasons \ {"no"} DEF Reasons
    <3> QED BY <1>2, <3>2, <3>3
  <2> QED BY <1>1, <2>1, <2>2 DEF TypeOK
<1>3. CASE Goto(r, "expect") /\ pc' = pc
  BY <1>3, GotoFacts, <1>1 DEF Points, InFlight, TypeOK
<1> QED BY <1>2, <1>3 DEF Enter

\* One more answer is expected.
LEMMA ExpectEffect ==
  ASSUME NEW r \in Reqs, TypeOK, Expect(r)
  PROVE  /\ TypeOK' /\ UNCHANGED <<kind, chans, wl, rl, sent, counted, answers, peer>>
         /\ rt[r].at = "expect"
         /\ Others(r) /\ rt'[r].at = "write" /\ rt'[r].err = rt[r].err /\ rt'[r].of = rt[r].of
         /\ pc'.expected = pc.expected + 1 /\ pc'.closed = pc.closed /\ pc'.idle = pc.idle
<1>1. /\ rt[r].at = "expect"
      /\ UNCHANGED <<kind, chans, wl, rl, sent, counted, answers, peer>>
  BY DEF Expect, At, Unchanged
<1>2. /\ rt' \in [Reqs -> RtType]
      /\ Others(r) /\ rt'[r].at = "write" /\ rt'[r].err = rt[r].err /\ rt'[r].of = rt[r].of
  BY GotoFacts DEF Expect, Points, InFlight
<1>3. /\ pc' \in PcType
      /\ pc'.expected = pc.expected + 1 /\ pc'.closed = pc.closed /\ pc'.idle = pc.idle
  BY DEF TypeOK, Expect, At, Goto, Unchanged, PcType, Reasons
<1> QED BY <1>1, <1>2, <1>3 DEF TypeOK

\* writech holds one request ...
LEMMA SendWriteEffect ==
  ASSUME NEW r \in Reqs, TypeOK, SendWrite(r)
  PROVE  /\ TypeOK' /\ UNCHANGED <<kind, pc, wl, rl, sent, counted, answers, peer>>
         /\ rt[r].at = "write"
         /\ Others(r) /\ rt'[r].at = "send" /\ rt'[r].err = rt[r].err /\ rt'[r].of = rt[r].of
         /\ chans.write = None /\ chans'.write = r /\ chans'.req = chans.req
         /\ chans'.err = chans.err /\ chans'.body = chans.body
BY GotoFacts DEF SendWrite, At, Unchanged, Points, InFlight, TypeOK, Goto, ChansType, BodyType

\* ... and so does reqch.
LEMMA SendReqEffect ==
  ASSUME NEW r \in Reqs, TypeOK, SendReq(r)
  PROVE  /\ TypeOK' /\ UNCHANGED <<kind, pc, wl, rl, sent, counted, answers, peer>>
         /\ rt[r].at = "send"
         /\ Others(r) /\ rt'[r].at = "select" /\ rt'[r].err = rt[r].err /\ rt'[r].of = rt[r].of
         /\ chans.req = None /\ chans'.req = r /\ chans'.write = chans.write
         /\ chans'.err = chans.err /\ chans'.body = chans.body
BY GotoFacts DEF SendReq, At, Unchanged, Points, InFlight, TypeOK, Goto, ChansType, BodyType

\* An error of writeLoop closes the connection and is mapped.
LEMMA SelectWrittenEffect ==
  ASSUME NEW r \in Reqs, TypeOK, SelectWritten(r)
  PROVE  /\ TypeOK' /\ UNCHANGED <<kind, wl, rl, sent, counted, answers, peer>>
         /\ rt[r].at = "select"
         /\ chans'.write = chans.write /\ chans'.req = chans.req /\ chans'.err = chans.err
         /\ chans'.body = chans.body
         /\ Others(r) /\ rt'[r].of = rt[r].of
         /\ pc'.expected = pc.expected /\ pc'.idle = pc.idle
         /\ \/ rt'[r].at = "select" /\ rt'[r].err = rt[r].err /\ pc' = pc
            \/ rt'[r].at = "map" /\ rt'[r].err = "other" /\ pc'.closed # "no"
<1>1. rt[r].at = "select" /\ UNCHANGED <<kind, wl, rl, sent, counted, answers, peer>>
  BY DEF SelectWritten, At, Unchanged
<1>2. /\ chans' \in ChansType /\ chans'.write = chans.write /\ chans'.req = chans.req
      /\ chans'.err = chans.err /\ chans'.body = chans.body
  BY DEF TypeOK, SelectWritten, ChansType, BodyType
<1>3. CASE rt' = [rt EXCEPT ![r].timer = TRUE] /\ pc' = pc
  BY <1>3, <1>1, <1>2 DEF TypeOK, RtType, Others
<1>4. CASE rt' = [rt EXCEPT ![r].at = "map", ![r].err = "other"] /\ pc' = CloseFor(pc, "other")
  <2>1. pc \in PcType /\ "other" \in Errors /\ "other" \in Reasons \ {"no"}
    BY DEF TypeOK, Errors, Reasons
  <2>2. /\ rt' \in [Reqs -> RtType] /\ Others(r)
        /\ rt'[r].at = "map" /\ rt'[r].err = "other" /\ rt'[r].of = rt[r].of
    BY <1>4, <2>1, MapFacts
  <2>3. /\ pc' \in PcType /\ pc'.closed # "no" /\ pc'.idle = pc.idle /\ pc'.expected = pc.expected
    BY <1>4, <2>1, CloseForFacts
  <2> QED BY <1>1, <1>2, <2>2, <2>3 DEF TypeOK
<1> QED BY <1>3, <1>4 DEF SelectWritten

\* So is the reason the connection was closed for.
LEMMA SelectClosedEffect ==
  ASSUME NEW r \in Reqs, TypeOK, SelectClosed(r)
  PROVE  /\ TypeOK' /\ UNCHANGED <<kind, pc, chans, wl, rl, sent, counted, answers, peer>>
         /\ rt[r].at = "select"
         /\ Others(r) /\ rt'[r].of = rt[r].of
         /\ rt'[r].at = "map" /\ rt'[r].err = pc.closed /\ pc.closed # "no"
BY MapFacts DEF SelectClosed, At, Closed, Unchanged, TypeOK, PcType, Errors

\* The timer fails the request without mapping.
LEMMA SelectTimeoutEffect ==
  ASSUME NEW r \in Reqs, TypeOK, SelectTimeout(r)
  PROVE  /\ TypeOK' /\ UNCHANGED <<kind, chans, wl, rl, sent, counted, answers, peer>>
         /\ rt[r].at = "select"
         /\ Others(r)
         /\ rt'[r].at = "done" /\ rt'[r].err = "failed"
         /\ pc'.closed # "no" /\ pc'.expected = pc.expected /\ pc'.idle = pc.idle
BY FailsFacts DEF SelectTimeout, At, Unchanged, Errors, TypeOK, CloseFor, Fails, Ended, NewRequest, PcType,
   Reasons

\* A context that is done only takes the canceler ...
LEMMA SelectContextEffect ==
  ASSUME NEW r \in Reqs, TypeOK, SelectContext(r)
  PROVE  /\ TypeOK' /\ UNCHANGED <<kind, pc, chans, wl, rl, sent, counted, answers, peer>>
         /\ rt[r].at = "select"
         /\ Others(r) /\ rt'[r].at = "calling" /\ rt'[r].err = rt[r].err /\ rt'[r].of = rt[r].of
BY GotoFacts DEF SelectContext, At, Unchanged, Points, InFlight, TypeOK

\* ... and returns to the select.
LEMMA SelectAgainEffect ==
  ASSUME NEW r \in Reqs, TypeOK, SelectAgain(r)
  PROVE  /\ TypeOK' /\ UNCHANGED <<kind, pc, chans, wl, rl, sent, counted, answers, peer>>
         /\ rt[r].at = "calling"
         /\ Others(r) /\ rt'[r].at = "select" /\ rt'[r].err = rt[r].err /\ rt'[r].of = rt[r].of
BY GotoFacts DEF SelectAgain, At, Unchanged, Points, InFlight, TypeOK

\* A request is retried under the conditions of shouldRetryRequest a rewindable one when
\* writeLoop has ended and nwrite has not counted it.
LEMMA MapErrorEffect ==
  ASSUME NEW r \in Reqs, TypeOK, MapError(r)
  PROVE  /\ TypeOK' /\ UNCHANGED <<pc, chans, wl, rl, sent, counted, answers, peer>>
         /\ rt[r].at = "map"
         /\ Others(r)
         /\ rt'[r].at = "done" /\ rt'[r].err \in {"canceled", "failed", "retried"}
         /\ \A s \in Reqs \ {r} : kind'[s] = kind[s]
         /\ rt'[r].err = "retried" /\ kind'[r] # "replayable" =>
            kind'[r] = "rewindable" /\ r \notin counted /\ wl.at = "done" /\ pc.closed # "no"
<1>1. rt[r].at = "map" /\ UNCHANGED <<pc, chans, wl, rl, sent, counted, answers, peer>>
  BY DEF MapError, At
<1> DEFINE e       == MapsTo(r)
           retried == {k \in Kinds : ShouldRetry(k, e)}
<1>2. CASE retried = {}
  <2> DEFINE x == [at |-> "done", err |-> IF e = "canceled" THEN e ELSE "failed",
                   of |-> IF e = "canceled" THEN pc.canceledErr ELSE None, timer |-> FALSE]
  <2>1. rt' = [rt EXCEPT ![r] = x] /\ kind' = kind BY <1>2 DEF MapError, Ended, NewRequest
  <2>2. x \in RtType /\ x.err \in {"canceled", "failed"} /\ x.at = "done"
    BY DEF TypeOK, PcType, RtType, Points, InFlight, Errors
  <2> HIDE DEF x
  <2>3. rt' \in [Reqs -> RtType] /\ rt'[r] = x /\ Others(r) BY <2>1, <2>2 DEF TypeOK, Others
  <2> QED BY <1>1, <2>1, <2>2, <2>3 DEF TypeOK
<1>3. CASE retried # {}
  <2>1. PICK k \in Kinds : /\ kind' = [kind EXCEPT ![r] = k]
                           /\ Fails(r, IF k \in retried THEN "retried" ELSE "failed")
    BY <1>3 DEF MapError
  <2>2. kind' \in [Reqs -> Kinds \cup {None}] /\ kind'[r] = k /\ \A s \in Reqs \ {r} : kind'[s] = kind[s]
    BY <2>1 DEF TypeOK
  <2>3. (IF k \in retried THEN "retried" ELSE "failed") \in Errors BY DEF Errors
  <2>4. /\ rt' \in [Reqs -> RtType] /\ Others(r) /\ rt'[r].at = "done"
        /\ rt'[r].err = IF k \in retried THEN "retried" ELSE "failed"
    BY <2>1, <2>3, FailsFacts
  <2>5. ASSUME k \in retried, k # "replayable"
        PROVE  k = "rewindable" /\ r \notin counted /\ wl.at = "done" /\ pc.closed # "no"
    BY <2>5 DEF ShouldRetry, MapsTo, WaitsForWriteLoop, ReadErrors, MapError, Closed, Kinds
  <2> QED BY <1>1, <2>2, <2>4, <2>5 DEF TypeOK
<1> QED BY <1>2, <1>3

\* The reader that waits for eofc lets readLoop go on, unless readLoop has ended.
LEMMA ReaderReturnsEffect ==
  ASSUME NEW r \in Reqs, TypeOK, ReaderReturns(r)
  PROVE  /\ TypeOK' /\ UNCHANGED <<kind, pc, chans, wl, sent, counted, answers, peer>>
         /\ \/ rt[r].at = "eof" /\ rl.at = "eofc" /\ rl'.at = (IF rl.alive THEN "peek" ELSE "close")
            \/ rt[r].at \in {"eof", "early"} /\ rl.at \in {"close", "remove", "gone"} /\ rl' = rl
         /\ Others(r) /\ rt'[r].at = "done" /\ rt'[r].err = rt[r].err /\ rt'[r].of = rt[r].of
<1>1. UNCHANGED <<kind, pc, chans, wl, sent, counted, answers, peer>>
  BY DEF ReaderReturns, At, Unchanged, EofcClosed
<1>2. /\ rt' \in [Reqs -> RtType]
      /\ Others(r) /\ rt'[r].at = "done" /\ rt'[r].err = rt[r].err /\ rt'[r].of = rt[r].of
  BY GotoFacts DEF ReaderReturns, Points, InFlight
<1>3. /\ rl' \in RlType /\ (rl'.at \in Serving => rl'.req \in Reqs)
          /\ (rl'.at \in {"take", "error"} => rl'.err \in {"none", "other", "readFromServer"})
  BY AfterAnswerFacts DEF TypeOK, RlType, ReaderReturns
<1>4. \/ rt[r].at = "eof" /\ rl.at = "eofc" /\ rl'.at = (IF rl.alive THEN "peek" ELSE "close")
      \/ rt[r].at \in {"eof", "early"} /\ rl.at \in {"close", "remove", "gone"} /\ rl' = rl
  BY DEF TypeOK, ReaderReturns, At, Goto, Unchanged, AfterAnswer, EofcClosed, Looping, NoAnswer,
     RlType, RlPoints, Serving, Answers
<1> QED BY <1>1, <1>2, <1>3, <1>4 DEF TypeOK

\* Cancellation by itself changes nothing here ...
LEMMA ContextDoneEffect ==
  ASSUME NEW r \in Reqs, TypeOK, ContextDone(r)
  PROVE  TypeOK' /\ UNCHANGED <<kind, rt, pc, chans, wl, rl, sent, counted, answers, peer>>
BY DEF ContextDone, TypeOK

\* ... nor does taking the canceler ...
LEMMA CancelRequestEffect ==
  ASSUME NEW r \in Reqs, TypeOK, CancelRequest(r)
  PROVE  TypeOK' /\ UNCHANGED <<kind, rt, pc, chans, wl, rl, sent, counted, answers, peer>>
BY DEF CancelRequest, TypeOK

\* The pool gives the connection away.
LEMMA GetIdleEffect ==
  ASSUME NEW r \in Reqs, TypeOK, GetIdle(r)
  PROVE  /\ TypeOK' /\ UNCHANGED <<kind, chans, wl, rl, sent, counted, answers, peer>>
         /\ rt[r].at = "new"
         /\ Others(r) /\ rt'[r].at = "got" /\ rt'[r].err = rt[r].err /\ rt'[r].of = rt[r].of
         /\ pc.idle /\ pc.closed = "no" /\ ~pc'.idle /\ pc'.closed = pc.closed
         /\ pc'.expected = pc.expected
BY GotoFacts DEF GetIdle, Closed, At, Unchanged, Points, InFlight, TypeOK, Goto, PcType, Reasons

\* A body is read to its end ...
LEMMA ReadsToEOFEffect ==
  ASSUME NEW r \in Reqs, TypeOK, ReadsToEOF(r)
  PROVE  /\ TypeOK' /\ UNCHANGED <<kind, pc, wl, rl, sent, counted, peer>>
         /\ rt[r].at = "body"
         /\ Others(r) /\ rt'[r].at = "eof" /\ rt'[r].err = rt[r].err /\ rt'[r].of = rt[r].of
         /\ answers # <<>> /\ answers' = Tail(answers)
         /\ chans'.write = chans.write /\ chans'.req = chans.req /\ chans'.err = chans.err
         /\ chans'.body[r] = "eof" /\ \A s \in Reqs \ {r} : chans'.body[s] = chans.body[s]
<1>1. /\ rt[r].at = "body"
      /\ UNCHANGED <<kind, pc, wl, rl, sent, counted, peer>>
  BY DEF ReadsToEOF, At
<1>2. /\ rt' \in [Reqs -> RtType]
      /\ Others(r) /\ rt'[r].at = "eof" /\ rt'[r].err = rt[r].err /\ rt'[r].of = rt[r].of
  BY GotoFacts DEF ReadsToEOF, Points, InFlight
<1>3. /\ answers' \in Seq(Answers)
      /\ answers # <<>> /\ answers' = Tail(answers)
  BY DEF TypeOK, ReadsToEOF, At, Goto, Answers
<1>4. /\ chans' \in ChansType
      /\ chans'.write = chans.write /\ chans'.req = chans.req /\ chans'.err = chans.err
      /\ chans'.body[r] = "eof" /\ \A s \in Reqs \ {r} : chans'.body[s] = chans.body[s]
  BY DEF TypeOK, ReadsToEOF, At, Goto, ChansType, BodyType
<1> QED BY <1>1, <1>2, <1>3, <1>4 DEF TypeOK

\* ... or closed early ...
LEMMA ClosesEarlyEffect ==
  ASSUME NEW r \in Reqs, TypeOK, ClosesEarly(r)
  PROVE  /\ TypeOK' /\ UNCHANGED <<kind, pc, wl, rl, sent, counted, answers, peer>>
         /\ rt[r].at = "body"
         /\ Others(r) /\ rt'[r].at = "early" /\ rt'[r].err = rt[r].err /\ rt'[r].of = rt[r].of
         /\ chans'.write = chans.write /\ chans'.req = chans.req /\ chans'.err = chans.err
         /\ chans'.body[r] = "early" /\ \A s \in Reqs \ {r} : chans'.body[s] = chans.body[s]
BY GotoFacts DEF ClosesEarly, At, Unchanged, Points, InFlight, TypeOK, Goto, ChansType, BodyType

\* ... or its reader has an error.
LEMMA ReadFailsEffect ==
  ASSUME NEW r \in Reqs, TypeOK, ReadFails(r)
  PROVE  /\ TypeOK' /\ UNCHANGED <<kind, pc, wl, rl, sent, counted, answers, peer>>
         /\ rt[r].at = "body"
         /\ Others(r) /\ rt'[r].at = "done" /\ rt'[r].err = rt[r].err /\ rt'[r].of = rt[r].of
         /\ chans'.write = chans.write /\ chans'.req = chans.req /\ chans'.err = chans.err
         /\ chans'.body[r] = "early" /\ \A s \in Reqs \ {r} : chans'.body[s] = chans.body[s]
<1>1. /\ rt[r].at = "body"
      /\ UNCHANGED <<kind, pc, wl, rl, sent, counted, answers, peer>>
  BY DEF ReadFails, Closed, At, Unchanged
<1>2. /\ rt' \in [Reqs -> RtType]
      /\ Others(r) /\ rt'[r].at = "done" /\ rt'[r].err = rt[r].err /\ rt'[r].of = rt[r].of
  BY GotoFacts DEF ReadFails, Points, InFlight
<1>3. /\ chans' \in ChansType
      /\ chans'.write = chans.write /\ chans'.req = chans.req /\ chans'.err = chans.err
      /\ chans'.body[r] = "early" /\ \A s \in Reqs \ {r} : chans'.body[s] = chans.body[s]
  BY DEF TypeOK, ReadFails, Closed, At, Goto, Unchanged, ChansType, BodyType
<1> QED BY <1>1, <1>2, <1>3 DEF TypeOK

\* The server answers what it has begun to receive, once.
LEMMA AnswerEffect ==
  ASSUME NEW r \in Reqs, TypeOK, Answer(r)
  PROVE  /\ TypeOK' /\ UNCHANGED <<kind, rt, pc, chans, wl, rl, sent, counted>>
         /\ sent[r] > 0 /\ r \notin peer.answered /\ pc.closed = "no"
         /\ \E body, keep \in BOOLEAN : answers' = Append(answers, [to |-> r, body |-> body, keep |-> keep])
         /\ peer'.answered = peer.answered \cup {r}
BY DEF Answer, Closed, TypeOK, Answers, PeerType

\* readLoop learns how the body ended.
LEMMA BodyReadEffect ==
  ASSUME NEW r \in Reqs, TypeOK, BodyRead(r)
  PROVE  /\ TypeOK' /\ UNCHANGED <<kind, rt, pc, wl, sent, counted, answers, peer>>
         /\ rl.at = "bodyWait" /\ rl.req = r /\ chans.body[r] # "none"
         /\ rl'.at = "clear" /\ rl'.req = r /\ rl'.err = chans.body[r] /\ rl'.answer = rl.answer
         /\ rl'.alive => rl.alive /\ chans.body[r] = "eof"
         /\ chans'.write = chans.write /\ chans'.req = chans.req /\ chans'.err = chans.err
         /\ chans'.body[r] = "none" /\ \A s \in Reqs \ {r} : chans'.body[s] = chans.body[s]
BY DEF BodyRead, Unchanged, TypeOK, ChansType, BodyType, RlType, RlPoints, Serving, Answers

\* ... and calling it closes the connection.
LEMMA CallCancelerEffect ==
  ASSUME NEW r \in Reqs, NEW by \in {"user", "roundTrip", "readLoop"}, TypeOK, CallCanceler(r, by)
  PROVE  /\ TypeOK' /\ UNCHANGED <<kind, rt, chans, wl, rl, sent, counted, answers, peer>>
         /\ pc'.closed # "no" /\ pc'.idle = pc.idle /\ pc'.expected = pc.expected
BY DEF CallCanceler, Unchanged, TypeOK, CloseFor, PcType, Reasons

\* writeLoop takes the request from writech.
LEMMA TakeWriteEffect ==
  ASSUME TypeOK, TakeWrite
  PROVE  /\ TypeOK' /\ UNCHANGED <<kind, rt, pc, rl, sent, counted, answers, peer>>
         /\ wl.at = "idle" /\ chans.write # None
         /\ wl'.at = "writing" /\ wl'.req = chans.write /\ wl'.err = "none"
         /\ chans'.write = None /\ chans'.req = chans.req /\ chans'.err = chans.err
         /\ chans'.body = chans.body
BY DEF TakeWrite, Unchanged, TypeOK, WlType, Writing, ChansType, BodyType

\* It ends when the connection is closed.
LEMMA WriteLoopStopsEffect ==
  ASSUME TypeOK, WriteLoopStops
  PROVE  /\ TypeOK' /\ UNCHANGED <<kind, rt, pc, chans, rl, sent, counted, answers, peer>>
         /\ wl.at = "idle" /\ pc.closed # "no"
         /\ wl'.at = "done" /\ wl'.req = wl.req /\ wl'.err = wl.err
BY DEF WriteLoopStops, Closed, Unchanged, TypeOK, WlType, Writing

\* Only an open connection is written to.
LEMMA WriteBytesEffect ==
  ASSUME TypeOK, WriteBytes
  PROVE  /\ TypeOK' /\ UNCHANGED <<kind, rt, pc, chans, rl, counted, answers, peer>>
         /\ wl.at = "writing" /\ pc.closed = "no"
         /\ wl'.at = "written" /\ wl'.req = wl.req /\ wl'.err = wl.err
         /\ sent'[wl.req] \in {1, 2} /\ \A s \in Reqs \ {wl.req} : sent'[s] = sent[s]
BY DEF WriteBytes, Closed, TypeOK, WlType, Writing

\* What was written is counted when the write ends.
LEMMA WriteEndsEffect ==
  ASSUME TypeOK, WriteEnds
  PROVE  /\ TypeOK' /\ UNCHANGED <<kind, rt, pc, chans, rl, sent, answers, peer>>
         /\ wl.at \in {"writing", "written"}
         /\ wl'.at = "report" /\ wl'.req = wl.req /\ wl'.err \in {"ok", "error"}
         /\ wl'.err = "ok" => sent[wl.req] = 2
         /\ counted \subseteq counted' /\ (wl.at = "written" => wl.req \in counted')
BY DEF WriteEnds, TypeOK, WlType, Writing

\* The result goes to readLoop ...
LEMMA ReportToReadLoopEffect ==
  ASSUME TypeOK, ReportToReadLoop
  PROVE  /\ TypeOK' /\ UNCHANGED <<kind, rt, pc, rl, sent, counted, answers, peer>>
         /\ wl.at = "report" /\ chans.err = "none"
         /\ wl'.at = "reportOwn" /\ wl'.req = wl.req /\ wl'.err = wl.err
         /\ chans'.err = wl.err /\ chans'.write = chans.write /\ chans'.req = chans.req
         /\ chans'.body = chans.body
BY DEF ReportToReadLoop, Unchanged, TypeOK, WlType, Writing, ChansType, BodyType

\* ... and to roundTrip ...
LEMMA ReportToRoundTripEffect ==
  ASSUME TypeOK, ReportToRoundTrip
  PROVE  /\ TypeOK' /\ UNCHANGED <<kind, rt, pc, rl, sent, counted, answers, peer>>
         /\ wl.at = "reportOwn"
         /\ wl'.at = IF wl.err = "ok" THEN "idle" ELSE "close"
         /\ chans'.write = chans.write /\ chans'.req = chans.req /\ chans'.err = chans.err
         /\ chans'.body = chans.body
BY DEF ReportToRoundTrip, Unchanged, TypeOK, WlType, Writing, ChansType, BodyType

\* ... and an error ends writeLoop and the connection.
LEMMA WriteLoopClosesEffect ==
  ASSUME TypeOK, WriteLoopCloses
  PROVE  /\ TypeOK' /\ UNCHANGED <<kind, rt, chans, rl, sent, counted, answers, peer>>
         /\ wl.at = "close"
         /\ wl'.at = "done" /\ wl'.req = wl.req /\ wl'.err = wl.err
         /\ pc'.closed # "no" /\ pc'.idle = pc.idle /\ pc'.expected = pc.expected
BY DEF WriteLoopCloses, Unchanged, TypeOK, CloseFor, WlType, Writing, PcType, Reasons

\* readLoop goes on to an answer only when one is expected.
LEMMA PeekEffect ==
  ASSUME TypeOK, Peek
  PROVE  /\ TypeOK' /\ UNCHANGED <<kind, rt, chans, wl, sent, counted, answers, peer>>
         /\ rl.at = "peek"
         /\ \/ /\ pc.expected = 0 /\ rl'.at = "close"
               /\ pc'.closed # "no" /\ pc'.idle = pc.idle /\ pc'.expected = pc.expected
            \/ /\ pc.expected # 0 /\ pc' = pc /\ rl'.at = "take"
               /\ rl'.err \in {"none", "readFromServer"} /\ (rl'.err = "none" => answers # <<>>)
         /\ rl'.req = rl.req /\ rl'.alive = rl.alive /\ rl'.answer = rl.answer
<1>1. rl.at = "peek" /\ UNCHANGED <<kind, rt, chans, wl, sent, counted, answers, peer>>
  BY DEF Peek, Unchanged
<1>2. PICK err \in {"none", "eof", "error"} :
        /\ err = "none" => answers # <<>>
        /\ IF pc.expected = 0
           THEN /\ pc' = CloseFor(pc, IF err = "eof" THEN "serverClosedIdle" ELSE "other")
                /\ rl' = [rl EXCEPT !.at = "close"]
           ELSE /\ rl' = [rl EXCEPT !.at = "take", !.err = IF err = "none" THEN err ELSE "readFromServer"]
                /\ UNCHANGED pc
  BY DEF Peek
<1>3. rl \in RlType /\ pc \in PcType BY DEF TypeOK
<1>4. CASE pc.expected = 0
  BY <1>2, <1>3, <1>4, CloseForFacts, <1>1 DEF RlType, RlPoints, Reasons, TypeOK, Serving
<1>5. CASE pc.expected # 0
  <2> DEFINE e == IF err = "none" THEN err ELSE "readFromServer"
  <2>1. /\ rl' = [[rl EXCEPT !.at = "take"] EXCEPT !.err = e] /\ pc' = pc
        /\ e \in {"none", "readFromServer"}
    BY <1>2, <1>5
  <2>2. e = "none" => answers # <<>> BY <1>2
  <2> HIDE DEF e
  <2>3. /\ rl' \in RlType /\ rl'.at = "take" /\ rl'.req = rl.req /\ rl'.alive = rl.alive
        /\ rl'.answer = rl.answer /\ rl'.err = e
    BY <1>3, <2>1 DEF RlType, RlPoints
  <2> QED BY <1>1, <1>5, <2>1, <2>2, <2>3 DEF TypeOK, Serving
<1> QED BY <1>4, <1>5

\* With one expected, and a byte read, readLoop takes the request and its answer, or ends.
LEMMA TakeReqEffect ==
  ASSUME TypeOK, TakeReq, pc.expected > 0, rl.err = "none" => answers # <<>>
  PROVE  /\ TypeOK' /\ UNCHANGED <<kind, rt, wl, sent, counted, peer>>
         /\ rl.at = "take" /\ chans.req # None /\ rl'.req = chans.req
         /\ chans'.req = None /\ chans'.write = chans.write /\ chans'.err = chans.err
         /\ chans'.body = chans.body
         /\ \/ rl'.at = "error" /\ rl'.answer = rl.answer /\ pc' = pc /\ answers' = answers
            \/ /\ rl.err = "none" /\ pc'.closed = pc.closed /\ pc'.idle = pc.idle
               /\ pc'.expected = pc.expected - 1
               /\ answers' = (IF Head(answers).body THEN <<[Head(answers) EXCEPT !.body = FALSE]>> ELSE <<>>)
                             \o Tail(answers)
               /\ rl'.err = rl.err /\ rl'.answer = Head(answers)
               /\ rl'.at = IF Head(answers).body THEN "deliver" ELSE "clear"
<1>1. /\ rl.at = "take" /\ chans.req # None /\ chans' = [chans EXCEPT !.req = None]
      /\ UNCHANGED <<kind, rt, wl, sent, counted, peer>>
  BY DEF TakeReq
<1>2. rl \in RlType /\ pc \in PcType /\ chans.req \in Reqs /\ answers \in Seq(Answers)
  BY <1>1 DEF TypeOK, ChansType
<1>3. /\ chans' \in ChansType /\ chans'.req = None /\ chans'.write = chans.write
      /\ chans'.err = chans.err /\ chans'.body = chans.body
  BY <1>1 DEF TypeOK, ChansType
<1>4. CASE /\ rl' = [rl EXCEPT !.at = "error", !.req = chans.req, !.err = IF @ = "none" THEN "other" ELSE @]
           /\ UNCHANGED <<pc, answers>>
  <2> DEFINE e == IF rl.err = "none" THEN "other" ELSE rl.err
  <2>1. rl' = [[[rl EXCEPT !.at = "error"] EXCEPT !.req = chans.req] EXCEPT !.err = e]
    BY <1>2, <1>4 DEF RlType
  <2>2. e \in {"none", "other", "readFromServer", "eof", "early"} BY <1>2 DEF RlType
  <2> HIDE DEF e
  <2>3. rl' \in RlType /\ rl'.at = "error" /\ rl'.req = chans.req /\ rl'.answer = rl.answer
    BY <1>2, <2>1, <2>2 DEF RlType, RlPoints
  <2> QED BY <1>1, <1>2, <1>3, <1>4, <2>3 DEF TypeOK
<1>5. CASE /\ rl.err = "none"
           /\ answers' = (IF Head(answers).body THEN <<[Head(answers) EXCEPT !.body = FALSE]>> ELSE <<>>)
                         \o Tail(answers)
           /\ rl' = [rl EXCEPT !.at = IF Head(answers).body THEN "deliver" ELSE "clear", !.req = chans.req,
                               !.answer = Head(answers), !.alive = Head(answers).keep]
           /\ pc' = Answered(pc)
  <2> DEFINE a == Head(answers)
  <2>1. a \in Answers /\ Tail(answers) \in Seq(Answers) BY <1>2, <1>5
  <2>2. [a EXCEPT !.body = FALSE] \in Answers BY <2>1 DEF Answers
  <2>3. answers' \in Seq(Answers) BY <1>5, <2>1, <2>2
  <2>4. /\ pc' \in PcType /\ pc'.expected = pc.expected - 1
        /\ pc'.closed = pc.closed /\ pc'.idle = pc.idle
    <3>1. pc.expected - 1 \in Nat BY <1>2 DEF PcType
    <3> QED BY <1>2, <1>5, <3>1 DEF Answered, PcType
  <2>5. a.body \in BOOLEAN /\ a.keep \in BOOLEAN BY <2>1 DEF Answers
  <2>6. rl' = [[[[rl EXCEPT !.at = IF a.body THEN "deliver" ELSE "clear"] EXCEPT !.req = chans.req]
                 EXCEPT !.answer = a] EXCEPT !.alive = a.keep]
    BY <1>5
  <2>7. /\ rl' \in RlType /\ rl'.at = IF a.body THEN "deliver" ELSE "clear"
        /\ rl'.req = chans.req /\ rl'.answer = a /\ rl'.err = rl.err
    <3> HIDE DEF a
    <3> QED BY <1>2, <2>1, <2>5, <2>6 DEF RlType, RlPoints
  <2> QED BY <1>1, <1>2, <1>3, <1>5, <2>3, <2>4, <2>7 DEF TypeOK
<1> QED BY <1>4, <1>5 DEF TakeReq

\* The error goes to roundTrip, if it waits, and readLoop ends.
LEMMA DeliverErrorEffect ==
  ASSUME TypeOK, DeliverError
  PROVE  /\ TypeOK' /\ UNCHANGED <<kind, pc, chans, wl, sent, counted, answers, peer>>
         /\ rl.at = "error"
         /\ rl'.at = "close"
         /\ Others(rl.req)
         /\ \/ rt[rl.req].at = "select" /\ rt'[rl.req].at = "map" /\ rt'[rl.req].err = rl.err
            \/ rt' = rt
<1>1. rl.at = "error" /\ UNCHANGED <<kind, pc, chans, wl, sent, counted, answers, peer>>
  BY DEF DeliverError, Unchanged
<1>2. rl \in RlType /\ rl.req \in Reqs /\ rl.err \in Errors
  BY <1>1 DEF TypeOK, Serving, Errors, Reasons
<1>3. rl' \in RlType /\ rl'.at = "close"
  BY <1>2 DEF DeliverError, Looping, NoAnswer, RlType, RlPoints, Answers
<1>4. CASE At(rl.req, "select") /\ rt' = [rt EXCEPT ![rl.req].at = "map", ![rl.req].err = rl.err]
  BY <1>2, <1>4, MapFacts, <1>1, <1>3 DEF TypeOK, Serving, At
<1>5. CASE rt' = rt
  BY <1>1, <1>3, <1>5 DEF TypeOK, Serving, Others
<1> QED BY <1>4, <1>5 DEF DeliverError

\* Clearing the canceler moves readLoop on.
LEMMA ClearCancelerEffect ==
  ASSUME TypeOK, ClearCanceler
  PROVE  /\ TypeOK' /\ UNCHANGED <<kind, rt, pc, chans, wl, sent, counted, answers, peer>>
         /\ rl.at = "clear"
         /\ rl'.at = "put" /\ rl'.err = rl.err
         /\ rl'.req = rl.req /\ rl'.alive = rl.alive /\ rl'.answer = rl.answer
BY DEF ClearCanceler, Unchanged, TypeOK, RlType, RlPoints, Serving, Answers

\* The connection goes back to the pool only alive and fully written otherwise it stays as it
\* was.
LEMMA PutBackEffect ==
  ASSUME TypeOK, PutBack
  PROVE  /\ TypeOK' /\ UNCHANGED <<kind, rt, wl, sent, counted, answers, peer>>
         /\ rl.at = "put"
         /\ pc'.expected = pc.expected /\ pc'.closed = pc.closed
         /\ chans'.write = chans.write /\ chans'.req = chans.req /\ chans'.body = chans.body
         /\ chans'.err \in {chans.err, "none"}
         /\ \/ rl.alive /\ chans.err = "ok" /\ chans'.err = "none" /\ pc.closed = "no" /\ pc'.idle
            \/ pc'.idle = pc.idle
         /\ IF rl.answer.body /\ rl.err = "early" THEN rl'.at = (IF pc'.idle THEN "peek" ELSE "close")
            ELSE /\ rl'.at = IF rl.answer.body THEN "eofc" ELSE "deliver"
                 /\ rl'.alive = pc'.idle /\ rl'.req = rl.req /\ rl'.err = rl.err
                 /\ rl'.answer = rl.answer
<1>1. /\ rl.at = "put"
      /\ UNCHANGED <<kind, rt, wl, sent, counted, answers, peer>>
  BY DEF PutBack, Unchanged
<1>2. /\ chans' \in {chans, [chans EXCEPT !.err = "none"]}
      /\ \/ rl.alive /\ chans.err = "ok" /\ chans' = [chans EXCEPT !.err = "none"] /\ pc' \in PutIdle(pc)
         \/ pc' \in {pc, PutFails(pc)}
  BY DEF PutBack, WroteRequest
<1>3. rl' = IF rl.answer.body /\ rl.err = "early" THEN AfterAnswer(pc'.idle)
            ELSE [rl EXCEPT !.alive = pc'.idle, !.at = IF rl.answer.body THEN "eofc" ELSE "deliver"]
  BY DEF PutBack
<1>4. /\ chans' \in ChansType
      /\ chans'.write = chans.write /\ chans'.req = chans.req /\ chans'.body = chans.body
      /\ chans'.err \in {chans.err, "none"}
      /\ chans' = [chans EXCEPT !.err = "none"] => chans'.err = "none"
  BY <1>2 DEF TypeOK, ChansType
<1>5. pc \in PcType BY DEF TypeOK
<1>6. /\ pc' \in PcType /\ pc'.expected = pc.expected /\ pc'.closed = pc.closed
      /\ \/ rl.alive /\ chans.err = "ok" /\ chans'.err = "none" /\ pc.closed = "no" /\ pc'.idle
         \/ pc'.idle = pc.idle
  BY <1>2, <1>4, <1>5, PutFacts
<1>7. pc'.idle \in BOOLEAN BY <1>6 DEF PcType
<1>8. rl \in RlType /\ rl.req \in Reqs BY <1>1 DEF TypeOK, Serving
<1>9. /\ rl' \in RlType /\ (rl'.at \in Serving => rl'.req \in Reqs) /\ rl'.at \notin {"take", "error"}
      /\ IF rl.answer.body /\ rl.err = "early" THEN rl'.at = (IF pc'.idle THEN "peek" ELSE "close")
         ELSE /\ rl'.at = IF rl.answer.body THEN "eofc" ELSE "deliver"
              /\ rl'.alive = pc'.idle /\ rl'.req = rl.req /\ rl'.err = rl.err /\ rl'.answer = rl.answer
  BY <1>3, <1>7, AfterAnswerFacts, <1>8 DEF RlType, RlPoints
<1> QED BY <1>1, <1>4, <1>6, <1>9 DEF TypeOK

\* The answer goes to roundTrip, if it waits.
LEMMA DeliverEffect ==
  ASSUME TypeOK, Deliver
  PROVE  /\ TypeOK' /\ UNCHANGED <<kind, pc, chans, wl, sent, counted, answers, peer>>
         /\ rl.at = "deliver"
         /\ Others(rl.req)
         /\ \/ /\ rt[rl.req].at = "select" /\ rt'[rl.req].of = rl.answer.to /\ rt'[rl.req].err = "none"
               /\ rt'[rl.req].at = IF rl.answer.body THEN "body" ELSE "done"
               /\ IF rl.answer.body THEN /\ rl'.at = "bodyWait" /\ rl'.req = rl.req
                                         /\ rl'.answer = rl.answer /\ rl'.alive = rl.alive
                                         /\ rl'.err = rl.err
                  ELSE rl'.at = (IF rl.alive THEN "peek" ELSE "close")
            \/ rt[rl.req].at \in {"body", "eof", "early", "done"} /\ rt' = rt /\ rl'.at = "close"
<1>1. rl.at = "deliver" /\ UNCHANGED <<kind, pc, chans, wl, sent, counted, answers, peer>>
  BY DEF Deliver, Unchanged
<1>2. /\ rl \in RlType /\ rl.req \in Reqs /\ rl.answer \in Answers /\ rl.alive \in BOOLEAN
      /\ rl.answer.to \in Reqs \cup {None} /\ rl.answer.body \in BOOLEAN
  BY <1>1 DEF TypeOK, Serving, RlType, Answers
<1>3. CASE /\ At(rl.req, "select")
           /\ rt' = [rt EXCEPT ![rl.req] = [NewRequest EXCEPT !.of = rl.answer.to,
                                           !.at = IF rl.answer.body THEN "body" ELSE "done"]]
           /\ rl' = IF rl.answer.body THEN [rl EXCEPT !.at = "bodyWait"] ELSE AfterAnswer(rl.alive)
  <2> DEFINE x == [NewRequest EXCEPT !.of = rl.answer.to, !.at = IF rl.answer.body THEN "body" ELSE "done"]
  <2>1. /\ x \in RtType /\ x.of = rl.answer.to /\ x.err = "none"
        /\ x.at = IF rl.answer.body THEN "body" ELSE "done"
    BY <1>2 DEF NewRequest, RtType, Points, InFlight, Errors, Reasons
  <2>2. rt' = [rt EXCEPT ![rl.req] = x] BY <1>3
  <2> HIDE DEF x
  <2>3. rt' \in [Reqs -> RtType] /\ rt'[rl.req] = x /\ Others(rl.req)
    BY <1>2, <2>1, <2>2 DEF TypeOK, Others
  <2>4. /\ rl' \in RlType /\ (rl'.at \in Serving => rl'.req \in Reqs) /\ rl'.at \notin {"take", "error"}
        /\ IF rl.answer.body THEN rl'.at = "bodyWait" /\ rl'.req = rl.req /\ rl'.answer = rl.answer
                                  /\ rl'.alive = rl.alive /\ rl'.err = rl.err
           ELSE rl'.at = IF rl.alive THEN "peek" ELSE "close"
    BY <1>2, <1>3, AfterAnswerFacts DEF RlType, RlPoints
  <2> QED BY <1>1, <1>3, <2>1, <2>3, <2>4 DEF TypeOK, At
<1>4. CASE Returned(rl.req) /\ rl' = AfterAnswer(FALSE) /\ rt' = rt
  BY <1>1, <1>4, AfterAnswerFacts DEF TypeOK, Returned, Others
<1> QED BY <1>3, <1>4 DEF Deliver

\* A cancelled body, ...
LEMMA BodyCanceledEffect ==
  ASSUME TypeOK, BodyCanceled
  PROVE  /\ TypeOK' /\ UNCHANGED <<kind, rt, pc, chans, wl, sent, counted, answers, peer>>
         /\ rl.at = "bodyWait"
         /\ rl'.at = "calling" /\ ~rl'.alive /\ rl'.req = rl.req /\ rl'.answer = rl.answer
         /\ rl'.err = rl.err
BY DEF BodyCanceled, Unchanged, TypeOK, TakeCanceler, RlType, RlPoints, Serving, Answers

\* ... a closed connection ...
LEMMA BodyConnClosedEffect ==
  ASSUME TypeOK, BodyConnClosed
  PROVE  /\ TypeOK' /\ UNCHANGED <<kind, rt, pc, chans, wl, sent, counted, answers, peer>>
         /\ rl.at = "bodyWait" /\ pc.closed # "no"
         /\ rl'.at = "close"
BY DEF BodyConnClosed, Closed, Unchanged, TypeOK, AfterAnswer, Looping, NoAnswer, RlType, RlPoints, Serving,
   Answers

\* ... and a canceler that was called end readLoop.
LEMMA CalledEffect ==
  ASSUME TypeOK, Called
  PROVE  /\ TypeOK' /\ UNCHANGED <<kind, rt, pc, chans, wl, sent, counted, answers, peer>>
         /\ rl.at = "calling"
         /\ rl'.at = "close"
BY DEF Called, Unchanged, TypeOK, AfterAnswer, Looping, NoAnswer, RlType, RlPoints, Serving, Answers

\* readLoop closes the connection ...
LEMMA ReadLoopClosesEffect ==
  ASSUME TypeOK, ReadLoopCloses
  PROVE  /\ TypeOK' /\ UNCHANGED <<kind, rt, chans, wl, sent, counted, answers, peer>>
         /\ rl.at = "close"
         /\ rl'.at = "remove"
         /\ pc'.closed # "no" /\ pc'.idle = pc.idle /\ pc'.expected = pc.expected
BY DEF ReadLoopCloses, Unchanged, TypeOK, CloseFor, Looping, NoAnswer, RlType, RlPoints, Serving, Answers,
   PcType, Reasons

\* ... and takes it out of the pool.
LEMMA ReadLoopRemovesEffect ==
  ASSUME TypeOK, ReadLoopRemoves
  PROVE  /\ TypeOK' /\ UNCHANGED <<kind, rt, chans, wl, sent, counted, answers, peer>>
         /\ rl.at = "remove"
         /\ rl'.at = "gone"
         /\ pc'.closed = pc.closed /\ ~pc'.idle /\ pc'.expected = pc.expected
BY DEF ReadLoopRemoves, Unchanged, TypeOK, RlType, RlPoints, Serving, Answers, PcType, Reasons

\* An idle connection is closed and leaves the pool.
LEMMA CloseIdleEffect ==
  ASSUME TypeOK, CloseIdle
  PROVE  /\ TypeOK' /\ UNCHANGED <<kind, rt, chans, wl, rl, sent, counted, answers, peer>>
         /\ pc.idle
         /\ pc'.closed # "no" /\ ~pc'.idle /\ pc'.expected = pc.expected
BY DEF CloseIdle, Unchanged, TypeOK, CloseFor, PcType, Reasons

\* The server closes.
LEMMA PeerClosesEffect ==
  ASSUME TypeOK, PeerCloses
  PROVE  /\ TypeOK' /\ UNCHANGED <<kind, rt, pc, chans, wl, rl, sent, counted, answers>>
         /\ peer'.answered = peer.answered
BY DEF PeerCloses, TypeOK, PeerType

-----------------------------------------------------------------------------
(* Every step keeps the invariant.                                           *)

\* A request cancelled in getConn has written nothing, so the connection it gives back is clean.
LEMMA EnterKeeps ==
  ASSUME NEW r \in Reqs, ConnInv, Enter(r)
  PROVE  ConnInv'
<1>1. TypeOK' BY EnterEffect DEF ConnInv
<1>2. RetriedInv' BY EnterEffect DEF ConnInv, RetriedInv, At, Closed, Others
<1>3. OneAsker'
  BY EnterEffect DEF ConnInv, OneAsker, Asking, Unstarted, At, Failed, AtRest, Quiet, Others
<1>4. Unstarted' BY EnterEffect DEF ConnInv, Unstarted, At, Failed, Others
<1>5. AtRest' BY EnterEffect DEF ConnInv, AtRest, Quiet, Others
<1>6. OwedInv'
  BY EnterEffect DEF ConnInv, OwedInv, Owed, Asking, Ending, Unstarted, At, Failed, Others
<1>7. Pending'
  BY EnterEffect DEF ConnInv, Pending, Asking, AnswersInv, Unstarted, At, Failed, Others
<1>8. BodyInv' BY EnterEffect DEF ConnInv, BodyInv, At, Others
<1>9. Readers' BY EnterEffect DEF ConnInv, Readers, At, Ending, Others
<1>10. Served' BY EnterEffect DEF ConnInv, Served, At, Failed, Others
<1>11. NoNextInv' BY EnterEffect DEF ConnInv, NoNextInv, NoNext, Asking, Closed, Others
<1>12. FailInv' BY EnterEffect DEF ConnInv, FailInv, At, Failed, Closed, Ending, Others
<1>13. ExpectInv' BY EnterEffect DEF ConnInv, ExpectInv, Ending, Expected, Others
<1>14. AnswersOwnRequest' BY EnterEffect DEF ConnInv, AnswersOwnRequest, Returned, Others
<1>15. CountedInv' /\ WriteInv' /\ AnswersInv'
  BY EnterEffect DEF ConnInv, CountedInv, WriteInv, AnswersInv
<1> QED BY <1>1, <1>2, <1>3, <1>4, <1>5, <1>6, <1>7, <1>8, <1>9, <1>10, <1>11, <1>12, <1>13, <1>14,
           <1>15 DEF ConnInv

\* No other request expects an answer.
LEMMA ExpectKeeps ==
  ASSUME NEW r \in Reqs, ConnInv, Expect(r)
  PROVE  ConnInv'
<1>1. TypeOK' BY ExpectEffect DEF ConnInv
<1>2. RetriedInv' BY ExpectEffect DEF ConnInv, RetriedInv, At, Closed, Others
<1>3. OneAsker' BY ExpectEffect DEF ConnInv, OneAsker, Asking, Others
<1>4. Unstarted' BY ExpectEffect DEF ConnInv, Unstarted, At, Failed, Others
<1>5. AtRest' BY ExpectEffect DEF ConnInv, AtRest, Quiet, Others
<1>6. OwedInv' BY ExpectEffect DEF ConnInv, OwedInv, Owed, Asking, Ending, Others
<1>7. Pending' BY ExpectEffect DEF ConnInv, Pending, Asking, Others
<1>8. BodyInv' BY ExpectEffect DEF ConnInv, BodyInv, At, Others
<1>9. Readers' BY ExpectEffect DEF ConnInv, Readers, At, Ending, Others
<1>10. Served' BY ExpectEffect DEF ConnInv, Served, At, Failed, Others
<1>11. NoNextInv' BY ExpectEffect DEF ConnInv, NoNextInv, NoNext, Asking, Closed, Others
<1>12. FailInv' BY ExpectEffect DEF ConnInv, FailInv, At, Failed, Closed, Ending, Others
<1>13. ExpectInv'
  BY ExpectEffect DEF ConnInv, ExpectInv, Ending, Expected, OneAsker, Asking, Unstarted, At, Failed,
     TypeOK, PcType, Others
<1>14. AnswersOwnRequest' BY ExpectEffect DEF ConnInv, AnswersOwnRequest, Returned, Others
<1>15. CountedInv' /\ WriteInv' /\ AnswersInv'
  BY ExpectEffect DEF ConnInv, CountedInv, WriteInv, AnswersInv
<1> QED BY <1>1, <1>2, <1>3, <1>4, <1>5, <1>6, <1>7, <1>8, <1>9, <1>10, <1>11, <1>12, <1>13, <1>14,
           <1>15 DEF ConnInv

\* Nothing is left in writech and nothing is being written.
LEMMA SendWriteKeeps ==
  ASSUME NEW r \in Reqs, ConnInv, SendWrite(r)
  PROVE  ConnInv'
<1>1. TypeOK' BY SendWriteEffect DEF ConnInv
<1>2. RetriedInv' BY SendWriteEffect DEF ConnInv, RetriedInv, At, Closed, Others
<1>3. OneAsker' BY SendWriteEffect DEF ConnInv, OneAsker, Asking, Others
<1>4. Unstarted' BY SendWriteEffect DEF ConnInv, Unstarted, At, Failed, Others
<1>5. AtRest' BY SendWriteEffect DEF ConnInv, AtRest, Quiet, OneAsker, Asking, Others
<1>6. WriteInv' BY SendWriteEffect DEF ConnInv, WriteInv, AtRest, Quiet, Others
<1>7. OwedInv' BY SendWriteEffect DEF ConnInv, OwedInv, Owed, Asking, Ending, Others
<1>8. Pending' BY SendWriteEffect DEF ConnInv, Pending, Asking, Others
<1>9. BodyInv' BY SendWriteEffect DEF ConnInv, BodyInv, At, Others
<1>10. Readers' BY SendWriteEffect DEF ConnInv, Readers, At, Ending, Others
<1>11. Served' BY SendWriteEffect DEF ConnInv, Served, At, Failed, Others
<1>12. NoNextInv' BY SendWriteEffect DEF ConnInv, NoNextInv, NoNext, Asking, Closed, Others
<1>13. FailInv' BY SendWriteEffect DEF ConnInv, FailInv, At, Failed, Closed, Ending, Others
<1>14. ExpectInv' BY SendWriteEffect DEF ConnInv, ExpectInv, Ending, Expected, Others
<1>15. AnswersOwnRequest' BY SendWriteEffect DEF ConnInv, AnswersOwnRequest, Returned, Others
<1>16. CountedInv' /\ AnswersInv' BY SendWriteEffect DEF ConnInv, CountedInv, AnswersInv
<1> QED BY <1>1, <1>2, <1>3, <1>4, <1>5, <1>6, <1>7, <1>8, <1>9, <1>10, <1>11, <1>12, <1>13, <1>14,
           <1>15, <1>16 DEF ConnInv

\* The asker stays the asker.
LEMMA SendReqKeeps ==
  ASSUME NEW r \in Reqs, ConnInv, SendReq(r)
  PROVE  ConnInv'
<1>1. TypeOK' BY SendReqEffect DEF ConnInv
<1>2. RetriedInv' BY SendReqEffect DEF ConnInv, RetriedInv, At, Closed, Others
<1>3. OneAsker' BY SendReqEffect DEF ConnInv, OneAsker, Asking, Others
<1>4. Unstarted' BY SendReqEffect DEF ConnInv, Unstarted, At, Failed, Others
<1>5. AtRest' BY SendReqEffect DEF ConnInv, AtRest, Quiet, Others
<1>6. WriteInv' BY SendReqEffect DEF ConnInv, WriteInv, Others
<1>7. OwedInv'
  BY SendReqEffect, ConstantsAssumption DEF ConnInv, OwedInv, Owed, Asking, Ending, Others
<1>8. Pending' BY SendReqEffect, ConstantsAssumption DEF ConnInv, Pending, Asking, Others
<1>9. BodyInv' BY SendReqEffect DEF ConnInv, BodyInv, At, Others
<1>10. Readers' BY SendReqEffect DEF ConnInv, Readers, At, Ending, Others
<1>11. Served' BY SendReqEffect DEF ConnInv, Served, At, Failed, Others
<1>12. NoNextInv' BY SendReqEffect DEF ConnInv, NoNextInv, NoNext, Asking, Closed, Others
<1>13. FailInv' BY SendReqEffect DEF ConnInv, FailInv, At, Failed, Closed, Ending, Others
<1>14. ExpectInv' BY SendReqEffect DEF ConnInv, ExpectInv, Ending, Expected, Others
<1>15. AnswersOwnRequest' BY SendReqEffect DEF ConnInv, AnswersOwnRequest, Returned, Others
<1>16. CountedInv' /\ AnswersInv' BY SendReqEffect DEF ConnInv, CountedInv, AnswersInv
<1> QED BY <1>1, <1>2, <1>3, <1>4, <1>5, <1>6, <1>7, <1>8, <1>9, <1>10, <1>11, <1>12, <1>13, <1>14,
           <1>15, <1>16 DEF ConnInv

\* A request leaves its select with an error only when the connection is closed ...
LEMMA SelectWrittenKeeps ==
  ASSUME NEW r \in Reqs, ConnInv, SelectWritten(r)
  PROVE  ConnInv'
<1>1. TypeOK' BY SelectWrittenEffect DEF ConnInv
<1>2. RetriedInv' BY SelectWrittenEffect DEF ConnInv, RetriedInv, At, Closed, Others
<1>3. OneAsker' BY SelectWrittenEffect DEF ConnInv, OneAsker, Asking, Others
<1>4. Unstarted' BY SelectWrittenEffect DEF ConnInv, Unstarted, At, Failed, Others
<1>5. AtRest' BY SelectWrittenEffect DEF ConnInv, AtRest, Quiet, Others
<1>6. WriteInv' BY SelectWrittenEffect DEF ConnInv, WriteInv, Others
<1>7. OwedInv' BY SelectWrittenEffect DEF ConnInv, OwedInv, Owed, Asking, Ending, Others
<1>8. Pending' BY SelectWrittenEffect DEF ConnInv, Pending, Asking, Others
<1>9. BodyInv' BY SelectWrittenEffect DEF ConnInv, BodyInv, At, Others
<1>10. Readers' BY SelectWrittenEffect DEF ConnInv, Readers, At, Ending, Others
<1>11. Served' BY SelectWrittenEffect DEF ConnInv, Served, At, Failed, Others
<1>12. NoNextInv' BY SelectWrittenEffect DEF ConnInv, NoNextInv, NoNext, Asking, Closed, Others
<1>13. FailInv' BY SelectWrittenEffect DEF ConnInv, FailInv, At, Failed, Closed, Ending, Others
<1>14. ExpectInv' BY SelectWrittenEffect DEF ConnInv, ExpectInv, Ending, Expected, Others
<1>15. AnswersOwnRequest' BY SelectWrittenEffect DEF ConnInv, AnswersOwnRequest, Returned, Others
<1>16. CountedInv' /\ AnswersInv' BY SelectWrittenEffect DEF ConnInv, CountedInv, AnswersInv
<1> QED BY <1>1, <1>2, <1>3, <1>4, <1>5, <1>6, <1>7, <1>8, <1>9, <1>10, <1>11, <1>12, <1>13, <1>14,
           <1>15, <1>16 DEF ConnInv

\* ... or was closed already ...
LEMMA SelectClosedKeeps ==
  ASSUME NEW r \in Reqs, ConnInv, SelectClosed(r)
  PROVE  ConnInv'
<1>1. TypeOK' BY SelectClosedEffect DEF ConnInv
<1>2. RetriedInv'
  BY SelectClosedEffect DEF ConnInv, RetriedInv, At, Closed, TypeOK, PcType, Reasons, Others
<1>3. OneAsker' BY SelectClosedEffect DEF ConnInv, OneAsker, Asking, Others
<1>4. Unstarted' BY SelectClosedEffect DEF ConnInv, Unstarted, At, Failed, Others
<1>5. AtRest' BY SelectClosedEffect DEF ConnInv, AtRest, Quiet, Others
<1>6. OwedInv' BY SelectClosedEffect DEF ConnInv, OwedInv, Owed, Asking, Ending, Others
<1>7. Pending' BY SelectClosedEffect DEF ConnInv, Pending, Asking, Others
<1>8. BodyInv' BY SelectClosedEffect DEF ConnInv, BodyInv, At, Others
<1>9. Readers' BY SelectClosedEffect DEF ConnInv, Readers, At, Ending, Others
<1>10. Served' BY SelectClosedEffect DEF ConnInv, Served, At, Failed, Others
<1>11. NoNextInv' BY SelectClosedEffect DEF ConnInv, NoNextInv, NoNext, Asking, Closed, Others
<1>12. FailInv' BY SelectClosedEffect DEF ConnInv, FailInv, At, Failed, Closed, Ending, Others
<1>13. ExpectInv' BY SelectClosedEffect DEF ConnInv, ExpectInv, Ending, Expected, Others
<1>14. AnswersOwnRequest' BY SelectClosedEffect DEF ConnInv, AnswersOwnRequest, Returned, Others
<1>15. CountedInv' /\ WriteInv' /\ AnswersInv'
  BY SelectClosedEffect DEF ConnInv, CountedInv, WriteInv, AnswersInv
<1> QED BY <1>1, <1>2, <1>3, <1>4, <1>5, <1>6, <1>7, <1>8, <1>9, <1>10, <1>11, <1>12, <1>13, <1>14,
           <1>15 DEF ConnInv

\* ... or is closed by its timer.
LEMMA SelectTimeoutKeeps ==
  ASSUME NEW r \in Reqs, ConnInv, SelectTimeout(r)
  PROVE  ConnInv'
<1>1. TypeOK' BY SelectTimeoutEffect DEF ConnInv
<1>2. RetriedInv' BY SelectTimeoutEffect DEF ConnInv, RetriedInv, At, Closed, Others
<1>3. OneAsker' BY SelectTimeoutEffect DEF ConnInv, OneAsker, Asking, Others
<1>4. Unstarted' BY SelectTimeoutEffect DEF ConnInv, Unstarted, At, Failed, Others
<1>5. AtRest' BY SelectTimeoutEffect DEF ConnInv, AtRest, Quiet, Others
<1>6. OwedInv' BY SelectTimeoutEffect DEF ConnInv, OwedInv, Owed, Asking, Ending, Others
<1>7. Pending' BY SelectTimeoutEffect DEF ConnInv, Pending, Asking, Others
<1>8. BodyInv' BY SelectTimeoutEffect DEF ConnInv, BodyInv, At, Others
<1>9. Readers' BY SelectTimeoutEffect DEF ConnInv, Readers, At, Ending, Others
<1>10. Served' BY SelectTimeoutEffect DEF ConnInv, Served, At, Failed, Others
<1>11. NoNextInv' BY SelectTimeoutEffect DEF ConnInv, NoNextInv, NoNext, Asking, Closed, Others
<1>12. FailInv' BY SelectTimeoutEffect DEF ConnInv, FailInv, At, Failed, Closed, Ending, Others
<1>13. ExpectInv' BY SelectTimeoutEffect DEF ConnInv, ExpectInv, Ending, Expected, Others
<1>14. AnswersOwnRequest' BY SelectTimeoutEffect DEF ConnInv, AnswersOwnRequest, Returned, Others
<1>15. CountedInv' /\ WriteInv' /\ AnswersInv'
  BY SelectTimeoutEffect DEF ConnInv, CountedInv, WriteInv, AnswersInv
<1> QED BY <1>1, <1>2, <1>3, <1>4, <1>5, <1>6, <1>7, <1>8, <1>9, <1>10, <1>11, <1>12, <1>13, <1>14,
           <1>15 DEF ConnInv

\* The request still waits for its answer.
LEMMA SelectContextKeeps ==
  ASSUME NEW r \in Reqs, ConnInv, SelectContext(r)
  PROVE  ConnInv'
<1>1. TypeOK' BY SelectContextEffect DEF ConnInv
<1>2. RetriedInv' BY SelectContextEffect DEF ConnInv, RetriedInv, At, Closed, Others
<1>3. OneAsker' BY SelectContextEffect DEF ConnInv, OneAsker, Asking, Others
<1>4. Unstarted' BY SelectContextEffect DEF ConnInv, Unstarted, At, Failed, Others
<1>5. AtRest' BY SelectContextEffect DEF ConnInv, AtRest, Quiet, Others
<1>6. OwedInv' BY SelectContextEffect DEF ConnInv, OwedInv, Owed, Asking, Ending, Others
<1>7. Pending' BY SelectContextEffect DEF ConnInv, Pending, Asking, Others
<1>8. BodyInv' BY SelectContextEffect DEF ConnInv, BodyInv, At, Others
<1>9. Readers' BY SelectContextEffect DEF ConnInv, Readers, At, Ending, Others
<1>10. Served' BY SelectContextEffect DEF ConnInv, Served, At, Failed, Others
<1>11. NoNextInv' BY SelectContextEffect DEF ConnInv, NoNextInv, NoNext, Asking, Closed, Others
<1>12. FailInv' BY SelectContextEffect DEF ConnInv, FailInv, At, Failed, Closed, Ending, Others
<1>13. ExpectInv' BY SelectContextEffect DEF ConnInv, ExpectInv, Ending, Expected, Others
<1>14. AnswersOwnRequest' BY SelectContextEffect DEF ConnInv, AnswersOwnRequest, Returned, Others
<1>15. CountedInv' /\ WriteInv' /\ AnswersInv'
  BY SelectContextEffect DEF ConnInv, CountedInv, WriteInv, AnswersInv
<1> QED BY <1>1, <1>2, <1>3, <1>4, <1>5, <1>6, <1>7, <1>8, <1>9, <1>10, <1>11, <1>12, <1>13, <1>14,
           <1>15 DEF ConnInv

\* And again.
LEMMA SelectAgainKeeps ==
  ASSUME NEW r \in Reqs, ConnInv, SelectAgain(r)
  PROVE  ConnInv'
<1>1. TypeOK' BY SelectAgainEffect DEF ConnInv
<1>2. RetriedInv' BY SelectAgainEffect DEF ConnInv, RetriedInv, At, Closed, Others
<1>3. OneAsker' BY SelectAgainEffect DEF ConnInv, OneAsker, Asking, Others
<1>4. Unstarted' BY SelectAgainEffect DEF ConnInv, Unstarted, At, Failed, Others
<1>5. AtRest' BY SelectAgainEffect DEF ConnInv, AtRest, Quiet, Others
<1>6. OwedInv' BY SelectAgainEffect DEF ConnInv, OwedInv, Owed, Asking, Ending, Others
<1>7. Pending' BY SelectAgainEffect DEF ConnInv, Pending, Asking, Others
<1>8. BodyInv' BY SelectAgainEffect DEF ConnInv, BodyInv, At, Others
<1>9. Readers' BY SelectAgainEffect DEF ConnInv, Readers, At, Ending, Others
<1>10. Served' BY SelectAgainEffect DEF ConnInv, Served, At, Failed, Others
<1>11. NoNextInv' BY SelectAgainEffect DEF ConnInv, NoNextInv, NoNext, Asking, Closed, Others
<1>12. FailInv' BY SelectAgainEffect DEF ConnInv, FailInv, At, Failed, Closed, Ending, Others
<1>13. ExpectInv' BY SelectAgainEffect DEF ConnInv, ExpectInv, Ending, Expected, Others
<1>14. AnswersOwnRequest' BY SelectAgainEffect DEF ConnInv, AnswersOwnRequest, Returned, Others
<1>15. CountedInv' /\ WriteInv' /\ AnswersInv'
  BY SelectAgainEffect DEF ConnInv, CountedInv, WriteInv, AnswersInv
<1> QED BY <1>1, <1>2, <1>3, <1>4, <1>5, <1>6, <1>7, <1>8, <1>9, <1>10, <1>11, <1>12, <1>13, <1>14,
           <1>15 DEF ConnInv

\* A request retried for nothing written has nothing on the wire, and nothing can be written any
\* more.
LEMMA MapErrorKeeps ==
  ASSUME NEW r \in Reqs, ConnInv, MapError(r)
  PROVE  ConnInv'
<1>1. TypeOK' BY MapErrorEffect DEF ConnInv
<1>2. RetriedInv' BY MapErrorEffect DEF ConnInv, RetriedInv, At, Closed, CountedInv, TypeOK, Others
<1>3. OneAsker' BY MapErrorEffect DEF ConnInv, OneAsker, Asking, Others
<1>4. Unstarted' BY MapErrorEffect DEF ConnInv, Unstarted, At, Failed, Others
<1>5. AtRest' BY MapErrorEffect DEF ConnInv, AtRest, Quiet, Others
<1>6. OwedInv' BY MapErrorEffect DEF ConnInv, OwedInv, Owed, Asking, Ending, Others
<1>7. Pending' BY MapErrorEffect DEF ConnInv, Pending, Asking, Others
<1>8. BodyInv' BY MapErrorEffect DEF ConnInv, BodyInv, At, Others
<1>9. Readers' BY MapErrorEffect DEF ConnInv, Readers, At, Ending, Others
<1>10. Served' BY MapErrorEffect DEF ConnInv, Served, At, Failed, Others
<1>11. NoNextInv' BY MapErrorEffect DEF ConnInv, NoNextInv, NoNext, Asking, Closed, Others
<1>12. FailInv' BY MapErrorEffect DEF ConnInv, FailInv, At, Failed, Closed, Ending, Others
<1>13. ExpectInv' BY MapErrorEffect DEF ConnInv, ExpectInv, Ending, Expected, Others
<1>14. AnswersOwnRequest' BY MapErrorEffect DEF ConnInv, AnswersOwnRequest, Returned, Others
<1>15. CountedInv' /\ WriteInv' /\ AnswersInv'
  BY MapErrorEffect DEF ConnInv, CountedInv, WriteInv, AnswersInv
<1> QED BY <1>1, <1>2, <1>3, <1>4, <1>5, <1>6, <1>7, <1>8, <1>9, <1>10, <1>11, <1>12, <1>13, <1>14,
           <1>15 DEF ConnInv

\* readLoop peeks again once the body has been read.
LEMMA ReaderReturnsKeeps ==
  ASSUME NEW r \in Reqs, ConnInv, ReaderReturns(r)
  PROVE  ConnInv'
<1>1. TypeOK' BY ReaderReturnsEffect DEF ConnInv
<1>2. RetriedInv' BY ReaderReturnsEffect DEF ConnInv, RetriedInv, At, Closed, Others
<1>3. OneAsker' BY ReaderReturnsEffect DEF ConnInv, OneAsker, Asking, Others
<1>4. Unstarted' BY ReaderReturnsEffect DEF ConnInv, Unstarted, At, Failed, Others
<1>5. AtRest' BY ReaderReturnsEffect DEF ConnInv, AtRest, Quiet, Others
<1>6. OwedInv' BY ReaderReturnsEffect DEF ConnInv, OwedInv, Owed, Asking, Ending, Others
<1>7. Pending' BY ReaderReturnsEffect DEF ConnInv, Pending, Asking, Others
<1>8. BodyInv' BY ReaderReturnsEffect DEF ConnInv, BodyInv, At, Others
<1>9. Readers' BY ReaderReturnsEffect DEF ConnInv, Readers, At, Ending, Others
<1>10. Served' BY ReaderReturnsEffect DEF ConnInv, Served, At, Failed, Others
<1>11. NoNextInv' BY ReaderReturnsEffect DEF ConnInv, NoNextInv, NoNext, Asking, Closed, Others
<1>12. FailInv'
  BY ReaderReturnsEffect DEF ConnInv, FailInv, At, Failed, Closed, Ending, Readers, Others
<1>13. ExpectInv' BY ReaderReturnsEffect DEF ConnInv, ExpectInv, Ending, Expected, Others
<1>14. AnswersOwnRequest' BY ReaderReturnsEffect DEF ConnInv, AnswersOwnRequest, Returned, Others
<1>15. CountedInv' /\ WriteInv' /\ AnswersInv'
  BY ReaderReturnsEffect DEF ConnInv, CountedInv, WriteInv, AnswersInv
<1> QED BY <1>1, <1>2, <1>3, <1>4, <1>5, <1>6, <1>7, <1>8, <1>9, <1>10, <1>11, <1>12, <1>13, <1>14,
           <1>15 DEF ConnInv

\* Nothing the invariant speaks of changes.
LEMMA ContextDoneKeeps ==
  ASSUME NEW r \in Reqs, ConnInv, ContextDone(r)
  PROVE  ConnInv'
<1>1. TypeOK' BY ContextDoneEffect DEF ConnInv
<1>2. /\ CountedInv' /\ RetriedInv' /\ OneAsker' /\ Unstarted' /\ AtRest' /\ WriteInv' /\ OwedInv'
      /\ AnswersInv' /\ Pending' /\ BodyInv' /\ Readers' /\ Served' /\ NoNextInv' /\ FailInv'
      /\ ExpectInv' /\ AnswersOwnRequest'
  BY ContextDoneEffect DEF ConnInv, CountedInv, RetriedInv, At, Closed, OneAsker, Asking, Unstarted,
     Failed, AtRest, Quiet, WriteInv, OwedInv, Owed, Ending, AnswersInv, Pending, BodyInv,
     Readers, Served, NoNextInv, NoNext, FailInv, ExpectInv, Expected, AnswersOwnRequest, Returned
<1> QED BY <1>1, <1>2 DEF ConnInv

\* Nor here.
LEMMA CancelRequestKeeps ==
  ASSUME NEW r \in Reqs, ConnInv, CancelRequest(r)
  PROVE  ConnInv'
<1>1. TypeOK' BY CancelRequestEffect DEF ConnInv
<1>2. /\ CountedInv' /\ RetriedInv' /\ OneAsker' /\ Unstarted' /\ AtRest' /\ WriteInv' /\ OwedInv'
      /\ AnswersInv' /\ Pending' /\ BodyInv' /\ Readers' /\ Served' /\ NoNextInv' /\ FailInv'
      /\ ExpectInv' /\ AnswersOwnRequest'
  BY CancelRequestEffect DEF ConnInv, CountedInv, RetriedInv, At, Closed, OneAsker, Asking,
     Unstarted, Failed, AtRest, Quiet, WriteInv, OwedInv, Owed, Ending, AnswersInv, Pending,
     BodyInv, Readers, Served, NoNextInv, NoNext, FailInv, ExpectInv, Expected, AnswersOwnRequest,
     Returned
<1> QED BY <1>1, <1>2 DEF ConnInv

\* The new asker finds the connection at rest.
LEMMA GetIdleKeeps ==
  ASSUME NEW r \in Reqs, ConnInv, GetIdle(r)
  PROVE  ConnInv'
<1>1. TypeOK' BY GetIdleEffect DEF ConnInv
<1>2. RetriedInv' BY GetIdleEffect DEF ConnInv, RetriedInv, At, Closed, Others
<1>3. OneAsker' BY GetIdleEffect DEF ConnInv, OneAsker, Asking, Others
<1>4. Unstarted' BY GetIdleEffect DEF ConnInv, Unstarted, At, Failed, Others
<1>5. AtRest' BY GetIdleEffect DEF ConnInv, AtRest, Quiet, Others
<1>6. OwedInv' BY GetIdleEffect DEF ConnInv, OwedInv, Owed, Asking, Ending, Others
<1>7. Pending' BY GetIdleEffect DEF ConnInv, Pending, Asking, Others
<1>8. BodyInv' BY GetIdleEffect DEF ConnInv, BodyInv, At, Others
<1>9. Readers' BY GetIdleEffect DEF ConnInv, Readers, At, Ending, Others
<1>10. Served' BY GetIdleEffect DEF ConnInv, Served, At, Failed, Others
<1>11. NoNextInv' BY GetIdleEffect DEF ConnInv, NoNextInv, NoNext, Asking, Closed, Others
<1>12. FailInv' BY GetIdleEffect DEF ConnInv, FailInv, At, Failed, Closed, Ending, Others
<1>13. ExpectInv' BY GetIdleEffect DEF ConnInv, ExpectInv, Ending, Expected, Others
<1>14. AnswersOwnRequest' BY GetIdleEffect DEF ConnInv, AnswersOwnRequest, Returned, Others
<1>15. CountedInv' /\ WriteInv' /\ AnswersInv'
  BY GetIdleEffect DEF ConnInv, CountedInv, WriteInv, AnswersInv
<1> QED BY <1>1, <1>2, <1>3, <1>4, <1>5, <1>6, <1>7, <1>8, <1>9, <1>10, <1>11, <1>12, <1>13, <1>14,
           <1>15 DEF ConnInv

\* The rest of the body is all that was unread.
LEMMA ReadsToEOFKeeps ==
  ASSUME NEW r \in Reqs, ConnInv, ReadsToEOF(r)
  PROVE  ConnInv'
<1>1. TypeOK' BY ReadsToEOFEffect DEF ConnInv
<1>2. RetriedInv' BY ReadsToEOFEffect DEF ConnInv, RetriedInv, At, Closed, Others
<1>3. OneAsker' BY ReadsToEOFEffect DEF ConnInv, OneAsker, Asking, Others
<1>4. Unstarted' BY ReadsToEOFEffect DEF ConnInv, Unstarted, At, Failed, Others
<1>5. AtRest' BY ReadsToEOFEffect DEF ConnInv, AtRest, Quiet, Others
<1>6. WriteInv' BY ReadsToEOFEffect DEF ConnInv, WriteInv, Others
<1>7. OwedInv' BY ReadsToEOFEffect DEF ConnInv, OwedInv, Owed, Asking, Ending, Others
<1>8. AnswersInv'
  <2>1. /\ answers # <<>> /\ answers' = Tail(answers) /\ answers \in Seq(Answers)
        /\ UNCHANGED <<peer, sent>>
    BY ReadsToEOFEffect DEF ConnInv, TypeOK
  <2>2. \A i \in DOMAIN answers' : i + 1 \in DOMAIN answers /\ answers'[i] = answers[i + 1] /\ i \in Nat
    BY <2>1, TailIs
  <2> QED BY <2>1, <2>2 DEF ConnInv, AnswersInv
<1>9. Pending' BY ReadsToEOFEffect DEF ConnInv, Pending, Asking, Readers, At, Ending, Others
<1>10. BodyInv' BY ReadsToEOFEffect DEF ConnInv, BodyInv, At, Readers, Ending, Others
<1>11. Readers' BY ReadsToEOFEffect DEF ConnInv, Readers, At, Ending, Others
<1>12. Served' BY ReadsToEOFEffect DEF ConnInv, Served, At, Failed, Others
<1>13. NoNextInv' BY ReadsToEOFEffect DEF ConnInv, NoNextInv, NoNext, Asking, Closed, Others
<1>14. FailInv' BY ReadsToEOFEffect DEF ConnInv, FailInv, At, Failed, Closed, Ending, Others
<1>15. ExpectInv' BY ReadsToEOFEffect DEF ConnInv, ExpectInv, Ending, Expected, Others
<1>16. AnswersOwnRequest' BY ReadsToEOFEffect DEF ConnInv, AnswersOwnRequest, Returned, Others
<1>17. CountedInv' BY ReadsToEOFEffect DEF ConnInv, CountedInv
<1> QED BY <1>1, <1>2, <1>3, <1>4, <1>5, <1>6, <1>7, <1>8, <1>9, <1>10, <1>11, <1>12, <1>13, <1>14,
           <1>15, <1>16, <1>17 DEF ConnInv

\* A body closed early ends the connection, whatever is unread.
LEMMA ClosesEarlyKeeps ==
  ASSUME NEW r \in Reqs, ConnInv, ClosesEarly(r)
  PROVE  ConnInv'
<1>1. TypeOK' BY ClosesEarlyEffect DEF ConnInv
<1>2. RetriedInv' BY ClosesEarlyEffect DEF ConnInv, RetriedInv, At, Closed, Others
<1>3. OneAsker' BY ClosesEarlyEffect DEF ConnInv, OneAsker, Asking, Others
<1>4. Unstarted' BY ClosesEarlyEffect DEF ConnInv, Unstarted, At, Failed, Others
<1>5. AtRest' BY ClosesEarlyEffect DEF ConnInv, AtRest, Quiet, Others
<1>6. WriteInv' BY ClosesEarlyEffect DEF ConnInv, WriteInv, Others
<1>7. OwedInv' BY ClosesEarlyEffect DEF ConnInv, OwedInv, Owed, Asking, Ending, Others
<1>8. Pending' BY ClosesEarlyEffect DEF ConnInv, Pending, Asking, Others
<1>9. BodyInv' BY ClosesEarlyEffect DEF ConnInv, BodyInv, At, Others
<1>10. Readers' BY ClosesEarlyEffect DEF ConnInv, Readers, At, Ending, Others
<1>11. Served' BY ClosesEarlyEffect DEF ConnInv, Served, At, Failed, Others
<1>12. NoNextInv' BY ClosesEarlyEffect DEF ConnInv, NoNextInv, NoNext, Asking, Closed, Others
<1>13. FailInv' BY ClosesEarlyEffect DEF ConnInv, FailInv, At, Failed, Closed, Ending, Others
<1>14. ExpectInv' BY ClosesEarlyEffect DEF ConnInv, ExpectInv, Ending, Expected, Others
<1>15. AnswersOwnRequest' BY ClosesEarlyEffect DEF ConnInv, AnswersOwnRequest, Returned, Others
<1>16. CountedInv' /\ AnswersInv' BY ClosesEarlyEffect DEF ConnInv, CountedInv, AnswersInv
<1> QED BY <1>1, <1>2, <1>3, <1>4, <1>5, <1>6, <1>7, <1>8, <1>9, <1>10, <1>11, <1>12, <1>13, <1>14,
           <1>15, <1>16 DEF ConnInv

\* So does a body that failed.
LEMMA ReadFailsKeeps ==
  ASSUME NEW r \in Reqs, ConnInv, ReadFails(r)
  PROVE  ConnInv'
<1>1. TypeOK' BY ReadFailsEffect DEF ConnInv
<1>2. RetriedInv' BY ReadFailsEffect DEF ConnInv, RetriedInv, At, Closed, Others
<1>3. OneAsker' BY ReadFailsEffect DEF ConnInv, OneAsker, Asking, Others
<1>4. Unstarted' BY ReadFailsEffect DEF ConnInv, Unstarted, At, Failed, Others
<1>5. AtRest' BY ReadFailsEffect DEF ConnInv, AtRest, Quiet, Others
<1>6. WriteInv' BY ReadFailsEffect DEF ConnInv, WriteInv, Others
<1>7. OwedInv' BY ReadFailsEffect DEF ConnInv, OwedInv, Owed, Asking, Ending, Others
<1>8. Pending' BY ReadFailsEffect DEF ConnInv, Pending, Asking, Others
<1>9. BodyInv' BY ReadFailsEffect DEF ConnInv, BodyInv, At, Others
<1>10. Readers' BY ReadFailsEffect DEF ConnInv, Readers, At, Ending, Others
<1>11. Served' BY ReadFailsEffect DEF ConnInv, Served, At, Failed, Others
<1>12. NoNextInv' BY ReadFailsEffect DEF ConnInv, NoNextInv, NoNext, Asking, Closed, Others
<1>13. FailInv' BY ReadFailsEffect DEF ConnInv, FailInv, At, Failed, Closed, Ending, Readers, Others
<1>14. ExpectInv' BY ReadFailsEffect DEF ConnInv, ExpectInv, Ending, Expected, Others
<1>15. AnswersOwnRequest' BY ReadFailsEffect DEF ConnInv, AnswersOwnRequest, Returned, Others
<1>16. CountedInv' /\ AnswersInv' BY ReadFailsEffect DEF ConnInv, CountedInv, AnswersInv
<1> QED BY <1>1, <1>2, <1>3, <1>4, <1>5, <1>6, <1>7, <1>8, <1>9, <1>10, <1>11, <1>12, <1>13, <1>14,
           <1>15, <1>16 DEF ConnInv

\* The server can answer only the request that asks, or on a connection that ends.
LEMMA AnswerKeeps ==
  ASSUME NEW r \in Reqs, ConnInv, Answer(r)
  PROVE  ConnInv'
<1>1. TypeOK' BY AnswerEffect DEF ConnInv
<1>2. Unstarted' BY AnswerEffect DEF ConnInv, Unstarted, At, Failed
<1>3. OwedInv' BY AnswerEffect DEF ConnInv, OwedInv, Owed, Asking, Ending
<1>4. AnswersInv'
  <2>1. PICK a \in Answers : a.to = r /\ answers' = Append(answers, a)
    BY AnswerEffect DEF ConnInv, Answers
  <2>2. /\ r \notin peer.answered /\ peer'.answered = peer.answered \cup {r} /\ sent[r] > 0
        /\ sent' = sent /\ answers \in Seq(Answers)
    BY AnswerEffect DEF ConnInv, TypeOK
  <2>3. \A i \in DOMAIN answers' : \/ i \in DOMAIN answers /\ answers'[i] = answers[i]
                                   \/ i = Len(answers) + 1 /\ answers'[i] = a
    BY <2>1, <2>2, AppendIs
  <2> QED BY <2>1, <2>2, <2>3 DEF ConnInv, AnswersInv
<1>5. Pending'
  <2>1. PICK a \in Answers : a.to = r /\ answers' = Append(answers, a)
    BY AnswerEffect DEF ConnInv, Answers
  <2>2. Asking(r) \/ Ending BY AnswerEffect DEF ConnInv, OwedInv, Owed
  <2>3. \A i \in DOMAIN answers' : \/ i \in DOMAIN answers /\ answers'[i] = answers[i]
                                   \/ i = Len(answers) + 1 /\ answers'[i] = a
    BY <2>1, AppendIs DEF ConnInv, TypeOK
  <2>4. answers' # <<>> BY <2>1 DEF ConnInv, TypeOK
  <2>5. (Asking(r) => Asking(r)') /\ \A s \in Reqs : Asking(s) => Asking(s)'
    BY AnswerEffect DEF ConnInv, Asking
  <2> QED BY <2>1, <2>2, <2>3, <2>4, <2>5, AnswerEffect DEF ConnInv, Pending, Ending
<1>6. BodyInv'
  BY AnswerEffect DEF ConnInv, BodyInv, At, OwedInv, Owed, Asking, Ending, NoNextInv, NoNext, Closed
<1>7. /\ CountedInv' /\ RetriedInv' /\ OneAsker' /\ AtRest' /\ WriteInv' /\ Readers' /\ Served'
      /\ NoNextInv' /\ FailInv' /\ ExpectInv' /\ AnswersOwnRequest'
  BY AnswerEffect DEF ConnInv, CountedInv, RetriedInv, At, Closed, OneAsker, Asking, AtRest, Quiet,
     WriteInv, Readers, Ending, Served, Failed, NoNextInv, NoNext, FailInv, ExpectInv, Expected,
     AnswersOwnRequest, Returned
<1> QED BY <1>1, <1>2, <1>3, <1>4, <1>5, <1>6, <1>7 DEF ConnInv

\* At EOF nothing is unread.
LEMMA BodyReadKeeps ==
  ASSUME NEW r \in Reqs, ConnInv, BodyRead(r)
  PROVE  ConnInv'
<1>1. TypeOK' BY BodyReadEffect DEF ConnInv
<1>2. OneAsker' BY BodyReadEffect DEF ConnInv, OneAsker, Asking
<1>3. Unstarted' BY BodyReadEffect DEF ConnInv, Unstarted, At, Failed
<1>4. AtRest' BY BodyReadEffect DEF ConnInv, AtRest, Quiet
<1>5. WriteInv' BY BodyReadEffect DEF ConnInv, WriteInv
<1>6. OwedInv' BY BodyReadEffect DEF ConnInv, OwedInv, Owed, Asking, Ending
<1>7. Pending' BY BodyReadEffect DEF ConnInv, Pending, Asking, BodyInv, At
<1>8. BodyInv' BY BodyReadEffect DEF ConnInv, BodyInv, At, TypeOK, ChansType, BodyType
<1>9. Readers' BY BodyReadEffect DEF ConnInv, Readers, At, Ending
<1>10. Served' BY BodyReadEffect DEF ConnInv, Served, At, Failed, BodyInv
<1>11. NoNextInv' BY BodyReadEffect DEF ConnInv, NoNextInv, NoNext, Asking, Closed
<1>12. FailInv' BY BodyReadEffect DEF ConnInv, FailInv, At, Failed, Closed, Ending
<1>13. ExpectInv' BY BodyReadEffect DEF ConnInv, ExpectInv, Ending, Expected
<1>14. CountedInv' /\ RetriedInv' /\ AnswersInv' /\ AnswersOwnRequest'
  BY BodyReadEffect DEF ConnInv, CountedInv, RetriedInv, At, Closed, AnswersInv, AnswersOwnRequest,
     Returned
<1> QED BY <1>1, <1>2, <1>3, <1>4, <1>5, <1>6, <1>7, <1>8, <1>9, <1>10, <1>11, <1>12, <1>13, <1>14
           DEF ConnInv

\* Closing loses no invariant.
LEMMA CallCancelerKeeps ==
  ASSUME NEW r \in Reqs, NEW by \in {"user", "roundTrip", "readLoop"}, ConnInv, CallCanceler(r, by)
  PROVE  ConnInv'
<1>1. TypeOK' BY CallCancelerEffect DEF ConnInv
<1>2. RetriedInv' BY CallCancelerEffect DEF ConnInv, RetriedInv, At, Closed
<1>3. OneAsker' BY CallCancelerEffect DEF ConnInv, OneAsker, Asking
<1>4. AtRest' BY CallCancelerEffect DEF ConnInv, AtRest, Quiet
<1>5. NoNextInv' BY CallCancelerEffect DEF ConnInv, NoNextInv, NoNext, Asking, Closed
<1>6. FailInv' BY CallCancelerEffect DEF ConnInv, FailInv, At, Failed, Closed, Ending
<1>7. ExpectInv' BY CallCancelerEffect DEF ConnInv, ExpectInv, Ending, Expected
<1>8. /\ CountedInv' /\ Unstarted' /\ WriteInv' /\ OwedInv' /\ AnswersInv' /\ Pending' /\ BodyInv'
      /\ Readers' /\ Served' /\ AnswersOwnRequest'
  BY CallCancelerEffect DEF ConnInv, CountedInv, Unstarted, At, Failed, WriteInv, OwedInv, Owed,
     Asking, Ending, AnswersInv, Pending, BodyInv, Readers, Served, AnswersOwnRequest, Returned
<1> QED BY <1>1, <1>2, <1>3, <1>4, <1>5, <1>6, <1>7, <1>8 DEF ConnInv

\* What writeLoop takes is still owed an answer.
LEMMA TakeWriteKeeps ==
  ASSUME ConnInv, TakeWrite
  PROVE  ConnInv'
<1>1. TypeOK' BY TakeWriteEffect DEF ConnInv
<1>2. CountedInv' BY TakeWriteEffect DEF ConnInv, CountedInv
<1>3. OneAsker' BY TakeWriteEffect DEF ConnInv, OneAsker, Asking
<1>4. Unstarted' BY TakeWriteEffect, ConstantsAssumption DEF ConnInv, Unstarted, At, Failed
<1>5. AtRest' BY TakeWriteEffect DEF ConnInv, AtRest, Quiet
<1>6. WriteInv' BY TakeWriteEffect DEF ConnInv, WriteInv
<1>7. OwedInv' BY TakeWriteEffect, ConstantsAssumption DEF ConnInv, OwedInv, Owed, Asking, Ending
<1>8. Pending' BY TakeWriteEffect DEF ConnInv, Pending, Asking
<1>9. BodyInv' BY TakeWriteEffect DEF ConnInv, BodyInv, At
<1>10. Readers' BY TakeWriteEffect DEF ConnInv, Readers, At, Ending
<1>11. Served' BY TakeWriteEffect DEF ConnInv, Served, At, Failed
<1>12. NoNextInv' BY TakeWriteEffect DEF ConnInv, NoNextInv, NoNext, Asking, Closed
<1>13. FailInv' BY TakeWriteEffect DEF ConnInv, FailInv, At, Failed, Closed, Ending
<1>14. ExpectInv' BY TakeWriteEffect DEF ConnInv, ExpectInv, Ending, Expected
<1>15. RetriedInv' /\ AnswersInv' /\ AnswersOwnRequest'
  BY TakeWriteEffect DEF ConnInv, RetriedInv, At, Closed, AnswersInv, AnswersOwnRequest, Returned
<1> QED BY <1>1, <1>2, <1>3, <1>4, <1>5, <1>6, <1>7, <1>8, <1>9, <1>10, <1>11, <1>12, <1>13, <1>14,
           <1>15 DEF ConnInv

\* The connection is closed for good.
LEMMA WriteLoopStopsKeeps ==
  ASSUME ConnInv, WriteLoopStops
  PROVE  ConnInv'
<1>1. TypeOK' BY WriteLoopStopsEffect DEF ConnInv
<1>2. CountedInv' BY WriteLoopStopsEffect DEF ConnInv, CountedInv
<1>3. Unstarted' BY WriteLoopStopsEffect DEF ConnInv, Unstarted, At, Failed
<1>4. AtRest' BY WriteLoopStopsEffect DEF ConnInv, AtRest, Quiet
<1>5. WriteInv' BY WriteLoopStopsEffect DEF ConnInv, WriteInv
<1>6. OwedInv' BY WriteLoopStopsEffect DEF ConnInv, OwedInv, Owed, Asking, Ending
<1>7. FailInv' BY WriteLoopStopsEffect DEF ConnInv, FailInv, At, Failed, Closed, Ending
<1>8. /\ RetriedInv' /\ OneAsker' /\ AnswersInv' /\ Pending' /\ BodyInv' /\ Readers' /\ Served'
      /\ NoNextInv' /\ ExpectInv' /\ AnswersOwnRequest'
  BY WriteLoopStopsEffect DEF ConnInv, RetriedInv, At, Closed, OneAsker, Asking, AnswersInv,
     Pending, BodyInv, Readers, Ending, Served, Failed, NoNextInv, NoNext, ExpectInv, Expected,
     AnswersOwnRequest, Returned
<1> QED BY <1>1, <1>2, <1>3, <1>4, <1>5, <1>6, <1>7, <1>8 DEF ConnInv

\* Bytes are written for a request that is owed an answer.
LEMMA WriteBytesKeeps ==
  ASSUME ConnInv, WriteBytes
  PROVE  ConnInv'
<1>1. TypeOK' BY WriteBytesEffect DEF ConnInv
<1>2. CountedInv' BY WriteBytesEffect DEF ConnInv, CountedInv
<1>3. RetriedInv' BY WriteBytesEffect DEF ConnInv, RetriedInv, At, Closed
<1>4. Unstarted' BY WriteBytesEffect DEF ConnInv, Unstarted, At, Failed
<1>5. AtRest' BY WriteBytesEffect DEF ConnInv, AtRest, Quiet
<1>6. WriteInv' BY WriteBytesEffect DEF ConnInv, WriteInv
<1>7. OwedInv' BY WriteBytesEffect DEF ConnInv, OwedInv, Owed, Asking, Ending
<1>8. AnswersInv' BY WriteBytesEffect DEF ConnInv, AnswersInv, TypeOK, PeerType
<1>9. FailInv' BY WriteBytesEffect DEF ConnInv, FailInv, At, Failed, Closed, Ending
<1>10. /\ OneAsker' /\ Pending' /\ BodyInv' /\ Readers' /\ Served' /\ NoNextInv' /\ ExpectInv'
       /\ AnswersOwnRequest'
  BY WriteBytesEffect DEF ConnInv, OneAsker, Asking, Pending, BodyInv, At, Readers, Ending, Served,
     Failed, NoNextInv, NoNext, Closed, ExpectInv, Expected, AnswersOwnRequest, Returned
<1> QED BY <1>1, <1>2, <1>3, <1>4, <1>5, <1>6, <1>7, <1>8, <1>9, <1>10 DEF ConnInv

\* From here on nwrite has counted the request.
LEMMA WriteEndsKeeps ==
  ASSUME ConnInv, WriteEnds
  PROVE  ConnInv'
<1>1. TypeOK' BY WriteEndsEffect DEF ConnInv
<1>2. CountedInv' BY WriteEndsEffect DEF ConnInv, CountedInv
<1>3. Unstarted' BY WriteEndsEffect DEF ConnInv, Unstarted, At, Failed
<1>4. AtRest' BY WriteEndsEffect DEF ConnInv, AtRest, Quiet
<1>5. WriteInv' BY WriteEndsEffect DEF ConnInv, WriteInv
<1>6. OwedInv' BY WriteEndsEffect DEF ConnInv, OwedInv, Owed, Asking, Ending
<1>7. FailInv' BY WriteEndsEffect DEF ConnInv, FailInv, At, Failed, Closed, Ending
<1>8. /\ RetriedInv' /\ OneAsker' /\ AnswersInv' /\ Pending' /\ BodyInv' /\ Readers' /\ Served'
      /\ NoNextInv' /\ ExpectInv' /\ AnswersOwnRequest'
  BY WriteEndsEffect DEF ConnInv, RetriedInv, At, Closed, OneAsker, Asking, AnswersInv, Pending,
     BodyInv, Readers, Ending, Served, Failed, NoNextInv, NoNext, ExpectInv, Expected,
     AnswersOwnRequest, Returned
<1> QED BY <1>1, <1>2, <1>3, <1>4, <1>5, <1>6, <1>7, <1>8 DEF ConnInv

\* readLoop is told of one write at a time.
LEMMA ReportToReadLoopKeeps ==
  ASSUME ConnInv, ReportToReadLoop
  PROVE  ConnInv'
<1>1. TypeOK' BY ReportToReadLoopEffect DEF ConnInv
<1>2. CountedInv' BY ReportToReadLoopEffect DEF ConnInv, CountedInv
<1>3. OneAsker' BY ReportToReadLoopEffect DEF ConnInv, OneAsker, Asking
<1>4. Unstarted' BY ReportToReadLoopEffect DEF ConnInv, Unstarted, At, Failed
<1>5. AtRest' BY ReportToReadLoopEffect DEF ConnInv, AtRest, Quiet
<1>6. WriteInv' BY ReportToReadLoopEffect DEF ConnInv, WriteInv
<1>7. OwedInv' BY ReportToReadLoopEffect DEF ConnInv, OwedInv, Owed, Asking, Ending
<1>8. Pending' BY ReportToReadLoopEffect DEF ConnInv, Pending, Asking
<1>9. BodyInv' BY ReportToReadLoopEffect DEF ConnInv, BodyInv, At
<1>10. Readers' BY ReportToReadLoopEffect DEF ConnInv, Readers, At, Ending
<1>11. Served' BY ReportToReadLoopEffect DEF ConnInv, Served, At, Failed
<1>12. NoNextInv' BY ReportToReadLoopEffect DEF ConnInv, NoNextInv, NoNext, Asking, Closed
<1>13. FailInv' BY ReportToReadLoopEffect DEF ConnInv, FailInv, At, Failed, Closed, Ending
<1>14. ExpectInv' BY ReportToReadLoopEffect DEF ConnInv, ExpectInv, Ending, Expected
<1>15. RetriedInv' /\ AnswersInv' /\ AnswersOwnRequest'
  BY ReportToReadLoopEffect DEF ConnInv, RetriedInv, At, Closed, AnswersInv, AnswersOwnRequest,
     Returned
<1> QED BY <1>1, <1>2, <1>3, <1>4, <1>5, <1>6, <1>7, <1>8, <1>9, <1>10, <1>11, <1>12, <1>13, <1>14,
           <1>15 DEF ConnInv

\* writeLoop is idle again only after success.
LEMMA ReportToRoundTripKeeps ==
  ASSUME ConnInv, ReportToRoundTrip
  PROVE  ConnInv'
<1>1. TypeOK' BY ReportToRoundTripEffect DEF ConnInv
<1>2. CountedInv' BY ReportToRoundTripEffect DEF ConnInv, CountedInv
<1>3. OneAsker' BY ReportToRoundTripEffect DEF ConnInv, OneAsker, Asking
<1>4. Unstarted' BY ReportToRoundTripEffect DEF ConnInv, Unstarted, At, Failed
<1>5. AtRest' BY ReportToRoundTripEffect DEF ConnInv, AtRest, Quiet
<1>6. WriteInv' BY ReportToRoundTripEffect DEF ConnInv, WriteInv
<1>7. OwedInv' BY ReportToRoundTripEffect DEF ConnInv, OwedInv, Owed, Asking, Ending
<1>8. Pending' BY ReportToRoundTripEffect DEF ConnInv, Pending, Asking
<1>9. BodyInv' BY ReportToRoundTripEffect DEF ConnInv, BodyInv, At
<1>10. Readers' BY ReportToRoundTripEffect DEF ConnInv, Readers, At, Ending
<1>11. Served' BY ReportToRoundTripEffect DEF ConnInv, Served, At, Failed
<1>12. NoNextInv' BY ReportToRoundTripEffect DEF ConnInv, NoNextInv, NoNext, Asking, Closed
<1>13. FailInv' BY ReportToRoundTripEffect DEF ConnInv, FailInv, At, Failed, Closed, Ending
<1>14. ExpectInv' BY ReportToRoundTripEffect DEF ConnInv, ExpectInv, Ending, Expected
<1>15. RetriedInv' /\ AnswersInv' /\ AnswersOwnRequest'
  BY ReportToRoundTripEffect DEF ConnInv, RetriedInv, At, Closed, AnswersInv, AnswersOwnRequest,
     Returned
<1> QED BY <1>1, <1>2, <1>3, <1>4, <1>5, <1>6, <1>7, <1>8, <1>9, <1>10, <1>11, <1>12, <1>13, <1>14,
           <1>15 DEF ConnInv

\* An error closes the connection.
LEMMA WriteLoopClosesKeeps ==
  ASSUME ConnInv, WriteLoopCloses
  PROVE  ConnInv'
<1>1. TypeOK' BY WriteLoopClosesEffect DEF ConnInv
<1>2. CountedInv' BY WriteLoopClosesEffect DEF ConnInv, CountedInv
<1>3. RetriedInv' BY WriteLoopClosesEffect DEF ConnInv, RetriedInv, At, Closed
<1>4. OneAsker' BY WriteLoopClosesEffect DEF ConnInv, OneAsker, Asking
<1>5. Unstarted' BY WriteLoopClosesEffect DEF ConnInv, Unstarted, At, Failed
<1>6. AtRest' BY WriteLoopClosesEffect DEF ConnInv, AtRest, Quiet
<1>7. WriteInv' BY WriteLoopClosesEffect DEF ConnInv, WriteInv
<1>8. OwedInv' BY WriteLoopClosesEffect DEF ConnInv, OwedInv, Owed, Asking, Ending
<1>9. NoNextInv' BY WriteLoopClosesEffect DEF ConnInv, NoNextInv, NoNext, Asking, Closed
<1>10. FailInv' BY WriteLoopClosesEffect DEF ConnInv, FailInv, At, Failed, Closed, Ending
<1>11. ExpectInv' BY WriteLoopClosesEffect DEF ConnInv, ExpectInv, Ending, Expected
<1>12. AnswersInv' /\ Pending' /\ BodyInv' /\ Readers' /\ Served' /\ AnswersOwnRequest'
  BY WriteLoopClosesEffect DEF ConnInv, AnswersInv, Pending, Asking, BodyInv, At, Readers, Ending,
     Served, Failed, AnswersOwnRequest, Returned
<1> QED BY <1>1, <1>2, <1>3, <1>4, <1>5, <1>6, <1>7, <1>8, <1>9, <1>10, <1>11, <1>12 DEF ConnInv

\* An answer nobody expects ends the connection.
LEMMA PeekKeeps ==
  ASSUME ConnInv, Peek
  PROVE  ConnInv'
<1>1. TypeOK' BY PeekEffect DEF ConnInv
<1>2. RetriedInv' BY PeekEffect DEF ConnInv, RetriedInv, At, Closed
<1>3. OneAsker' BY PeekEffect DEF ConnInv, OneAsker, Asking
<1>4. AtRest' BY PeekEffect DEF ConnInv, AtRest, Quiet
<1>5. OwedInv' BY PeekEffect DEF ConnInv, OwedInv, Owed, Asking, Ending
<1>6. Pending' BY PeekEffect DEF ConnInv, Pending, Asking
<1>7. BodyInv' BY PeekEffect DEF ConnInv, BodyInv, At
<1>8. Readers' BY PeekEffect DEF ConnInv, Readers, At, Ending
<1>9. Served' BY PeekEffect DEF ConnInv, Served, At, Failed
<1>10. NoNextInv' BY PeekEffect DEF ConnInv, NoNextInv, NoNext, Asking, Closed
<1>11. FailInv' BY PeekEffect DEF ConnInv, FailInv, At, Failed, Closed, Ending
<1>12. ExpectInv' BY PeekEffect DEF ConnInv, ExpectInv, Ending, Expected
<1>13. CountedInv' /\ Unstarted' /\ WriteInv' /\ AnswersInv' /\ AnswersOwnRequest'
  BY PeekEffect DEF ConnInv, CountedInv, Unstarted, At, Failed, WriteInv, AnswersInv,
     AnswersOwnRequest, Returned
<1> QED BY <1>1, <1>2, <1>3, <1>4, <1>5, <1>6, <1>7, <1>8, <1>9, <1>10, <1>11, <1>12, <1>13 DEF
           ConnInv

\* The only answer unread is the one to the request taken, which nobody asks after.
LEMMA TakeReqKeeps ==
  ASSUME ConnInv, TakeReq
  PROVE  ConnInv'
<1>a. chans.req \in Reqs /\ rl.at = "take" BY DEF ConnInv, TypeOK, ChansType, TakeReq
<1>b. pc.expected > 0 BY <1>a DEF ConnInv, ExpectInv, Ending, Expected
<1>c. rl.err = "none" => answers # <<>> BY <1>a DEF ConnInv, Pending
<1>d. /\ ~pc.idle /\ \A s \in Reqs : Asking(s) => s = chans.req
      /\ rt[chans.req].at \in {"select", "calling", "map"} \/ Failed(chans.req)
  BY <1>a DEF ConnInv, OneAsker, Asking, Unstarted
<1>e. \A s \in Reqs : ~Asking(s)' /\ ~Expected(s)'
  BY <1>b, <1>c, TakeReqEffect, ConstantsAssumption, <1>d DEF ConnInv, Asking, Expected, Failed, At
<1>f. \A i \in DOMAIN answers : answers[i].to = chans.req
  BY <1>a, <1>d DEF ConnInv, Pending
<1>g. rl.err = "none" => Head(answers).to = chans.req /\ Tail(answers) = <<>> /\ chans.req \in peer.answered
  BY <1>f, <1>c, OneElement DEF ConnInv, AnswersInv, TypeOK
<1>h. \/ rl'.at = "error" /\ answers' = answers
      \/ /\ rl'.at # "error"
         /\ answers' = <<>> \/ answers' = <<[Head(answers) EXCEPT !.body = FALSE]>>
         /\ rl'.answer = Head(answers) /\ rl'.answer.to = chans.req /\ chans.req \in peer.answered
         /\ [Head(answers) EXCEPT !.body = FALSE].to = chans.req
         /\ rl'.at = IF rl'.answer.body THEN "deliver" ELSE "clear"
         /\ ~rl'.answer.body => answers' = <<>>
  <2>1. CASE rl'.at = "error"
    BY <1>a, <1>b, <1>c, <2>1, TakeReqEffect DEF ConnInv
  <2>2. CASE rl'.at # "error"
    <3>1. /\ rl.err = "none" /\ rl'.answer = Head(answers)
          /\ answers' = (IF Head(answers).body THEN <<[Head(answers) EXCEPT !.body = FALSE]>> ELSE <<>>)
                        \o Tail(answers)
          /\ rl'.at = IF Head(answers).body THEN "deliver" ELSE "clear"
      BY <1>b, <1>c, <2>2, TakeReqEffect DEF ConnInv
    <3>2. Head(answers) \in Answers BY <1>c, <3>1 DEF ConnInv, TypeOK
    <3>3. answers' = IF Head(answers).body THEN <<[Head(answers) EXCEPT !.body = FALSE]>> ELSE <<>>
      BY <3>2, <1>g, <3>1, Single DEF Answers
    <3>4. [Head(answers) EXCEPT !.body = FALSE].to = Head(answers).to BY <3>2 DEF Answers
    <3> QED BY <1>g, <2>2, <3>1, <3>3, <3>4
  <2> QED BY <2>1, <2>2
<1>0. TypeOK' /\ rl'.req = chans.req /\ chans'.req = None BY <1>b, <1>c, TakeReqEffect DEF ConnInv
<1>1. RetriedInv' BY <1>b, <1>c, TakeReqEffect DEF ConnInv, RetriedInv, At, Closed
<1>2. OneAsker' BY <1>e DEF OneAsker
<1>3. Unstarted'
  BY <1>0, <1>b, <1>c, TakeReqEffect, ConstantsAssumption DEF ConnInv, Unstarted, At, Failed
<1>4. AtRest' BY <1>b, <1>c, TakeReqEffect DEF ConnInv, AtRest, Quiet
<1>5. WriteInv' BY <1>b, <1>c, TakeReqEffect DEF ConnInv, WriteInv
<1>6. OwedInv'
  BY <1>b, <1>c, TakeReqEffect, <1>a, <1>d, <1>h DEF ConnInv, Owed, Ending, OwedInv
<1>7. AnswersInv'
  <2>1. UNCHANGED <<sent, peer>> BY <1>b, <1>c, TakeReqEffect DEF ConnInv
  <2>2. CASE answers' = answers BY <2>1, <2>2 DEF ConnInv, AnswersInv
  <2>3. CASE answers' = <<>> BY <2>1, <2>3 DEF ConnInv, AnswersInv
  <2>4. CASE answers' = <<[Head(answers) EXCEPT !.body = FALSE]>> /\ rl'.at # "error"
    <3>1. \A i \in DOMAIN answers' : i = 1 /\ answers'[i].to \in peer.answered
      <4> DEFINE x == [Head(answers) EXCEPT !.body = FALSE]
      <4>1. x \in {x} OBVIOUS
      <4> HIDE DEF x
      <4>2. DOMAIN <<x>> = {1} /\ <<x>>[1] = x BY <4>1, Single
      <4>3. answers' = <<x>> /\ x.to = chans.req /\ chans.req \in peer.answered BY <1>h, <2>4 DEF x
      <4> QED BY <4>2, <4>3
    <3> QED BY <2>1, <3>1 DEF ConnInv, AnswersInv
  <2> QED BY <1>h, <2>2, <2>3, <2>4
<1>8. Pending' BY <1>h DEF Pending
<1>9. BodyInv'
  <2>1. CASE rl'.at = "error" BY <2>1 DEF BodyInv
  <2>2. CASE rl'.at # "error"
    <3>1. Len(answers') <= 1
      <4>1. CASE answers' = <<>> BY <4>1
      <4>2. CASE answers' = <<[Head(answers) EXCEPT !.body = FALSE]>> BY <4>2
      <4> QED BY <1>h, <2>2, <4>1, <4>2
    <3>2. rl'.at = IF rl'.answer.body THEN "deliver" ELSE "clear" BY <1>h, <2>2
    <3>3. rl'.err = "none" BY <1>b, <1>c, <2>2, TakeReqEffect DEF ConnInv
    <3> QED BY <3>1, <3>2, <3>3 DEF BodyInv
  <2> QED BY <2>1, <2>2
<1>10. Readers' BY <1>b, <1>c, TakeReqEffect DEF ConnInv, Readers, At, Ending
<1>11. Served'
  BY <1>0, <1>a, <1>b, <1>c, <1>d, <1>h, TakeReqEffect, ConstantsAssumption DEF ConnInv, Served,
     Failed, At
<1>12. NoNextInv' BY <1>b, <1>c, <1>d, <1>e, TakeReqEffect DEF ConnInv, NoNextInv, NoNext
<1>13. FailInv' BY <1>b, <1>c, TakeReqEffect DEF ConnInv, FailInv, At, Failed, Closed, Ending
<1>14. ExpectInv'
  <2>1. CASE rl'.at = "error" BY <2>1 DEF ExpectInv, Ending
  <2>2. CASE rl'.at # "error"
    <3>1. pc.expected \in Nat /\ pc.expected <= 1
      BY <1>a DEF ConnInv, ExpectInv, Ending, TypeOK, PcType
    <3>2. pc'.expected = 0
      <4>1. pc'.expected = pc.expected - 1 BY <1>b, <1>c, <2>2, TakeReqEffect DEF ConnInv
      <4> QED BY <1>b, <3>1, <4>1
    <3> QED BY <1>e, <3>2 DEF ExpectInv
  <2> QED BY <2>1, <2>2
<1>15. CountedInv' /\ AnswersOwnRequest'
  BY <1>b, <1>c, TakeReqEffect DEF ConnInv, CountedInv, AnswersOwnRequest, Returned
<1> QED BY <1>0, <1>1, <1>2, <1>3, <1>4, <1>5, <1>6, <1>7, <1>8, <1>9, <1>10, <1>11, <1>12, <1>13,
           <1>14, <1>15 DEF ConnInv

\* readLoop is already about to close.
LEMMA DeliverErrorKeeps ==
  ASSUME ConnInv, DeliverError
  PROVE  ConnInv'
<1>1. TypeOK' BY DeliverErrorEffect DEF ConnInv
<1>2. RetriedInv' BY DeliverErrorEffect DEF ConnInv, RetriedInv, At, Closed, TypeOK, RlType, Others
<1>3. OneAsker' BY DeliverErrorEffect DEF ConnInv, OneAsker, Asking, Others
<1>4. Unstarted' BY DeliverErrorEffect DEF ConnInv, Unstarted, At, Failed, Others
<1>5. AtRest' BY DeliverErrorEffect DEF ConnInv, AtRest, Quiet, Others
<1>6. OwedInv' BY DeliverErrorEffect DEF ConnInv, OwedInv, Owed, Asking, Ending, Others
<1>7. Pending' BY DeliverErrorEffect DEF ConnInv, Pending, Asking, Others
<1>8. BodyInv' BY DeliverErrorEffect DEF ConnInv, BodyInv, At, Others
<1>9. Readers' BY DeliverErrorEffect DEF ConnInv, Readers, At, Ending, Others
<1>10. Served' BY DeliverErrorEffect DEF ConnInv, Served, At, Failed, Others
<1>11. NoNextInv' BY DeliverErrorEffect DEF ConnInv, NoNextInv, NoNext, Asking, Closed, Others
<1>12. FailInv' BY DeliverErrorEffect DEF ConnInv, FailInv, At, Failed, Closed, Ending, Others
<1>13. ExpectInv' BY DeliverErrorEffect DEF ConnInv, ExpectInv, Ending, Expected, Others
<1>14. AnswersOwnRequest' BY DeliverErrorEffect DEF ConnInv, AnswersOwnRequest, Returned, Others
<1>15. CountedInv' /\ WriteInv' /\ AnswersInv'
  BY DeliverErrorEffect DEF ConnInv, CountedInv, WriteInv, AnswersInv
<1> QED BY <1>1, <1>2, <1>3, <1>4, <1>5, <1>6, <1>7, <1>8, <1>9, <1>10, <1>11, <1>12, <1>13, <1>14,
           <1>15 DEF ConnInv

\* Only readLoop moves.
LEMMA ClearCancelerKeeps ==
  ASSUME ConnInv, ClearCanceler
  PROVE  ConnInv'
<1>1. TypeOK' BY ClearCancelerEffect DEF ConnInv
<1>2. OwedInv' BY ClearCancelerEffect DEF ConnInv, OwedInv, Owed, Asking, Ending
<1>3. Pending' BY ClearCancelerEffect DEF ConnInv, Pending, Asking
<1>4. BodyInv' BY ClearCancelerEffect DEF ConnInv, BodyInv, At
<1>5. Readers' BY ClearCancelerEffect DEF ConnInv, Readers, At, Ending
<1>6. Served' BY ClearCancelerEffect DEF ConnInv, Served, At, Failed
<1>7. NoNextInv' BY ClearCancelerEffect DEF ConnInv, NoNextInv, NoNext, Asking, Closed
<1>8. FailInv' BY ClearCancelerEffect DEF ConnInv, FailInv, At, Failed, Closed, Ending
<1>9. ExpectInv' BY ClearCancelerEffect DEF ConnInv, ExpectInv, Ending, Expected
<1>10. /\ CountedInv' /\ RetriedInv' /\ OneAsker' /\ Unstarted' /\ AtRest' /\ WriteInv'
       /\ AnswersInv' /\ AnswersOwnRequest'
  BY ClearCancelerEffect DEF ConnInv, CountedInv, RetriedInv, At, Closed, OneAsker, Asking,
     Unstarted, Failed, AtRest, Quiet, WriteInv, AnswersInv, AnswersOwnRequest, Returned
<1> QED BY <1>1, <1>2, <1>3, <1>4, <1>5, <1>6, <1>7, <1>8, <1>9, <1>10 DEF ConnInv

\* What goes back to the pool was written in full and is read in full.
LEMMA PutBackKeeps ==
  ASSUME ConnInv, PutBack
  PROVE  ConnInv'
<1>1. TypeOK' BY PutBackEffect DEF ConnInv
<1>2. RetriedInv' BY PutBackEffect DEF ConnInv, RetriedInv, At, Closed
<1>3. OneAsker' BY PutBackEffect DEF ConnInv, OneAsker, Asking, NoNextInv, NoNext, Closed
<1>4. Unstarted' BY PutBackEffect DEF ConnInv, Unstarted, At, Failed
<1>5. AtRest'
  BY PutBackEffect DEF ConnInv, AtRest, Quiet, NoNextInv, NoNext, Asking, Closed, WriteInv
<1>6. WriteInv' BY PutBackEffect DEF ConnInv, WriteInv
<1>7. OwedInv' BY PutBackEffect DEF ConnInv, OwedInv, Owed, Asking, Ending
<1>8. Pending' BY PutBackEffect DEF ConnInv, Pending, Asking, BodyInv, At, NoNextInv, NoNext, Closed
<1>9. BodyInv' BY PutBackEffect DEF ConnInv, BodyInv, At
<1>10. Readers' BY PutBackEffect DEF ConnInv, Readers, At, Ending
<1>11. Served' BY PutBackEffect DEF ConnInv, Served, At, Failed
<1>12. NoNextInv' BY PutBackEffect DEF ConnInv, NoNextInv, NoNext, Asking, Closed
<1>13. FailInv' BY PutBackEffect DEF ConnInv, FailInv, At, Failed, Closed, Ending
<1>14. ExpectInv' BY PutBackEffect DEF ConnInv, ExpectInv, Ending, Expected
<1>15. CountedInv' /\ AnswersInv' /\ AnswersOwnRequest'
  BY PutBackEffect DEF ConnInv, CountedInv, AnswersInv, AnswersOwnRequest, Returned
<1> QED BY <1>1, <1>2, <1>3, <1>4, <1>5, <1>6, <1>7, <1>8, <1>9, <1>10, <1>11, <1>12, <1>13, <1>14,
           <1>15 DEF ConnInv

\* The answer is the one to the request that waits for it.
LEMMA DeliverKeeps ==
  ASSUME ConnInv, Deliver
  PROVE  ConnInv'
<1>1. TypeOK' BY DeliverEffect DEF ConnInv
<1>2. RetriedInv' BY DeliverEffect DEF ConnInv, RetriedInv, At, Closed, Others
<1>3. OneAsker' BY DeliverEffect DEF ConnInv, OneAsker, Asking, Others
<1>4. Unstarted'
  BY DeliverEffect DEF ConnInv, Unstarted, At, Failed, Served, NoNextInv, NoNext, Asking, Closed,
     Others
<1>5. AtRest' BY DeliverEffect DEF ConnInv, AtRest, Quiet, Others
<1>6. OwedInv' BY DeliverEffect DEF ConnInv, OwedInv, Owed, Asking, Ending, Others
<1>7. Pending' BY DeliverEffect DEF ConnInv, Pending, Asking, Others
<1>8. BodyInv' BY DeliverEffect DEF ConnInv, BodyInv, At, Readers, Ending, Others
<1>9. Readers' BY DeliverEffect DEF ConnInv, Readers, At, Ending, Others
<1>10. Served' BY DeliverEffect DEF ConnInv, Served, At, Failed, Others
<1>11. NoNextInv'
  BY DeliverEffect DEF ConnInv, NoNextInv, NoNext, Asking, Closed, FailInv, At, Failed, Ending,
     Served, TypeOK, RlType, Serving, Others
<1>12. FailInv' BY DeliverEffect DEF ConnInv, FailInv, At, Failed, Closed, Ending, Others
<1>13. ExpectInv' BY DeliverEffect DEF ConnInv, ExpectInv, Ending, Expected, Others
<1>14. AnswersOwnRequest'
  BY DeliverEffect DEF ConnInv, AnswersOwnRequest, Returned, Served, At, Failed, Others
<1>15. CountedInv' /\ WriteInv' /\ AnswersInv'
  BY DeliverEffect DEF ConnInv, CountedInv, WriteInv, AnswersInv
<1> QED BY <1>1, <1>2, <1>3, <1>4, <1>5, <1>6, <1>7, <1>8, <1>9, <1>10, <1>11, <1>12, <1>13, <1>14,
           <1>15 DEF ConnInv

\* readLoop leaves the body and ends.
LEMMA BodyCanceledKeeps ==
  ASSUME ConnInv, BodyCanceled
  PROVE  ConnInv'
<1>1. TypeOK' BY BodyCanceledEffect DEF ConnInv
<1>2. OwedInv' BY BodyCanceledEffect DEF ConnInv, OwedInv, Owed, Asking, Ending
<1>3. Pending' BY BodyCanceledEffect DEF ConnInv, Pending, Asking
<1>4. BodyInv' BY BodyCanceledEffect DEF ConnInv, BodyInv, At
<1>5. Readers' BY BodyCanceledEffect DEF ConnInv, Readers, At, Ending
<1>6. Served' BY BodyCanceledEffect DEF ConnInv, Served, At, Failed
<1>7. NoNextInv' BY BodyCanceledEffect DEF ConnInv, NoNextInv, NoNext, Asking, Closed
<1>8. FailInv' BY BodyCanceledEffect DEF ConnInv, FailInv, At, Failed, Closed, Ending
<1>9. ExpectInv' BY BodyCanceledEffect DEF ConnInv, ExpectInv, Ending, Expected
<1>10. /\ CountedInv' /\ RetriedInv' /\ OneAsker' /\ Unstarted' /\ AtRest' /\ WriteInv'
       /\ AnswersInv' /\ AnswersOwnRequest'
  BY BodyCanceledEffect DEF ConnInv, CountedInv, RetriedInv, At, Closed, OneAsker, Asking,
     Unstarted, Failed, AtRest, Quiet, WriteInv, AnswersInv, AnswersOwnRequest, Returned
<1> QED BY <1>1, <1>2, <1>3, <1>4, <1>5, <1>6, <1>7, <1>8, <1>9, <1>10 DEF ConnInv

\* So does it here.
LEMMA BodyConnClosedKeeps ==
  ASSUME ConnInv, BodyConnClosed
  PROVE  ConnInv'
<1>1. TypeOK' BY BodyConnClosedEffect DEF ConnInv
<1>2. OwedInv' BY BodyConnClosedEffect DEF ConnInv, OwedInv, Owed, Asking, Ending
<1>3. Pending' BY BodyConnClosedEffect DEF ConnInv, Pending, Asking
<1>4. BodyInv' BY BodyConnClosedEffect DEF ConnInv, BodyInv, At
<1>5. Readers' BY BodyConnClosedEffect DEF ConnInv, Readers, At, Ending
<1>6. Served' BY BodyConnClosedEffect DEF ConnInv, Served, At, Failed
<1>7. NoNextInv' BY BodyConnClosedEffect DEF ConnInv, NoNextInv, NoNext, Asking, Closed
<1>8. FailInv' BY BodyConnClosedEffect DEF ConnInv, FailInv, At, Failed, Closed, Ending
<1>9. ExpectInv' BY BodyConnClosedEffect DEF ConnInv, ExpectInv, Ending, Expected
<1>10. /\ CountedInv' /\ RetriedInv' /\ OneAsker' /\ Unstarted' /\ AtRest' /\ WriteInv'
       /\ AnswersInv' /\ AnswersOwnRequest'
  BY BodyConnClosedEffect DEF ConnInv, CountedInv, RetriedInv, At, Closed, OneAsker, Asking,
     Unstarted, Failed, AtRest, Quiet, WriteInv, AnswersInv, AnswersOwnRequest, Returned
<1> QED BY <1>1, <1>2, <1>3, <1>4, <1>5, <1>6, <1>7, <1>8, <1>9, <1>10 DEF ConnInv

\* And here.
LEMMA CalledKeeps ==
  ASSUME ConnInv, Called
  PROVE  ConnInv'
<1>1. TypeOK' BY CalledEffect DEF ConnInv
<1>2. OwedInv' BY CalledEffect DEF ConnInv, OwedInv, Owed, Asking, Ending
<1>3. Pending' BY CalledEffect DEF ConnInv, Pending, Asking
<1>4. BodyInv' BY CalledEffect DEF ConnInv, BodyInv, At
<1>5. Readers' BY CalledEffect DEF ConnInv, Readers, At, Ending
<1>6. Served' BY CalledEffect DEF ConnInv, Served, At, Failed
<1>7. NoNextInv' BY CalledEffect DEF ConnInv, NoNextInv, NoNext, Asking, Closed
<1>8. FailInv' BY CalledEffect DEF ConnInv, FailInv, At, Failed, Closed, Ending
<1>9. ExpectInv' BY CalledEffect DEF ConnInv, ExpectInv, Ending, Expected
<1>10. /\ CountedInv' /\ RetriedInv' /\ OneAsker' /\ Unstarted' /\ AtRest' /\ WriteInv'
       /\ AnswersInv' /\ AnswersOwnRequest'
  BY CalledEffect DEF ConnInv, CountedInv, RetriedInv, At, Closed, OneAsker, Asking, Unstarted,
     Failed, AtRest, Quiet, WriteInv, AnswersInv, AnswersOwnRequest, Returned
<1> QED BY <1>1, <1>2, <1>3, <1>4, <1>5, <1>6, <1>7, <1>8, <1>9, <1>10 DEF ConnInv

\* The connection is closed before it leaves the pool.
LEMMA ReadLoopClosesKeeps ==
  ASSUME ConnInv, ReadLoopCloses
  PROVE  ConnInv'
<1>1. TypeOK' BY ReadLoopClosesEffect DEF ConnInv
<1>2. RetriedInv' BY ReadLoopClosesEffect DEF ConnInv, RetriedInv, At, Closed
<1>3. OneAsker' BY ReadLoopClosesEffect DEF ConnInv, OneAsker, Asking
<1>4. AtRest' BY ReadLoopClosesEffect DEF ConnInv, AtRest, Quiet
<1>5. OwedInv' BY ReadLoopClosesEffect DEF ConnInv, OwedInv, Owed, Asking, Ending
<1>6. Pending' BY ReadLoopClosesEffect DEF ConnInv, Pending, Asking
<1>7. BodyInv' BY ReadLoopClosesEffect DEF ConnInv, BodyInv, At
<1>8. Readers' BY ReadLoopClosesEffect DEF ConnInv, Readers, At, Ending
<1>9. Served' BY ReadLoopClosesEffect DEF ConnInv, Served, At, Failed
<1>10. NoNextInv' BY ReadLoopClosesEffect DEF ConnInv, NoNextInv, NoNext, Asking, Closed
<1>11. FailInv' BY ReadLoopClosesEffect DEF ConnInv, FailInv, At, Failed, Closed, Ending
<1>12. ExpectInv' BY ReadLoopClosesEffect DEF ConnInv, ExpectInv, Ending, Expected
<1>13. CountedInv' /\ Unstarted' /\ WriteInv' /\ AnswersInv' /\ AnswersOwnRequest'
  BY ReadLoopClosesEffect DEF ConnInv, CountedInv, Unstarted, At, Failed, WriteInv, AnswersInv,
     AnswersOwnRequest, Returned
<1> QED BY <1>1, <1>2, <1>3, <1>4, <1>5, <1>6, <1>7, <1>8, <1>9, <1>10, <1>11, <1>12, <1>13 DEF
           ConnInv

\* And it leaves the pool.
LEMMA ReadLoopRemovesKeeps ==
  ASSUME ConnInv, ReadLoopRemoves
  PROVE  ConnInv'
<1>1. TypeOK' BY ReadLoopRemovesEffect DEF ConnInv
<1>2. RetriedInv' BY ReadLoopRemovesEffect DEF ConnInv, RetriedInv, At, Closed
<1>3. OneAsker' BY ReadLoopRemovesEffect DEF ConnInv, OneAsker, Asking
<1>4. AtRest' BY ReadLoopRemovesEffect DEF ConnInv, AtRest, Quiet
<1>5. OwedInv' BY ReadLoopRemovesEffect DEF ConnInv, OwedInv, Owed, Asking, Ending
<1>6. Pending' BY ReadLoopRemovesEffect DEF ConnInv, Pending, Asking
<1>7. BodyInv' BY ReadLoopRemovesEffect DEF ConnInv, BodyInv, At
<1>8. Readers' BY ReadLoopRemovesEffect DEF ConnInv, Readers, At, Ending
<1>9. Served' BY ReadLoopRemovesEffect DEF ConnInv, Served, At, Failed
<1>10. NoNextInv' BY ReadLoopRemovesEffect DEF ConnInv, NoNextInv, NoNext, Asking, Closed
<1>11. FailInv' BY ReadLoopRemovesEffect DEF ConnInv, FailInv, At, Failed, Closed, Ending
<1>12. ExpectInv' BY ReadLoopRemovesEffect DEF ConnInv, ExpectInv, Ending, Expected
<1>13. CountedInv' /\ Unstarted' /\ WriteInv' /\ AnswersInv' /\ AnswersOwnRequest'
  BY ReadLoopRemovesEffect DEF ConnInv, CountedInv, Unstarted, At, Failed, WriteInv, AnswersInv,
     AnswersOwnRequest, Returned
<1> QED BY <1>1, <1>2, <1>3, <1>4, <1>5, <1>6, <1>7, <1>8, <1>9, <1>10, <1>11, <1>12, <1>13 DEF
           ConnInv

\* A closed connection is not offered.
LEMMA CloseIdleKeeps ==
  ASSUME ConnInv, CloseIdle
  PROVE  ConnInv'
<1>1. TypeOK' BY CloseIdleEffect DEF ConnInv
<1>2. RetriedInv' BY CloseIdleEffect DEF ConnInv, RetriedInv, At, Closed
<1>3. OneAsker' BY CloseIdleEffect DEF ConnInv, OneAsker, Asking
<1>4. AtRest' BY CloseIdleEffect DEF ConnInv, AtRest, Quiet
<1>5. NoNextInv' BY CloseIdleEffect DEF ConnInv, NoNextInv, NoNext, Asking, Closed
<1>6. FailInv' BY CloseIdleEffect DEF ConnInv, FailInv, At, Failed, Closed, Ending
<1>7. ExpectInv' BY CloseIdleEffect DEF ConnInv, ExpectInv, Ending, Expected
<1>8. /\ CountedInv' /\ Unstarted' /\ WriteInv' /\ OwedInv' /\ AnswersInv' /\ Pending' /\ BodyInv'
      /\ Readers' /\ Served' /\ AnswersOwnRequest'
  BY CloseIdleEffect DEF ConnInv, CountedInv, Unstarted, At, Failed, WriteInv, OwedInv, Owed,
     Asking, Ending, AnswersInv, Pending, BodyInv, Readers, Served, AnswersOwnRequest, Returned
<1> QED BY <1>1, <1>2, <1>3, <1>4, <1>5, <1>6, <1>7, <1>8 DEF ConnInv

\* The server may close at any time.
LEMMA PeerClosesKeeps ==
  ASSUME ConnInv, PeerCloses
  PROVE  ConnInv'
<1>1. TypeOK' BY PeerClosesEffect DEF ConnInv
<1>2. Unstarted' BY PeerClosesEffect DEF ConnInv, Unstarted, At, Failed
<1>3. OwedInv' BY PeerClosesEffect DEF ConnInv, OwedInv, Owed, Asking, Ending
<1>4. AnswersInv' BY PeerClosesEffect DEF ConnInv, AnswersInv
<1>5. /\ CountedInv' /\ RetriedInv' /\ OneAsker' /\ AtRest' /\ WriteInv' /\ Pending' /\ BodyInv'
      /\ Readers' /\ Served' /\ NoNextInv' /\ FailInv' /\ ExpectInv' /\ AnswersOwnRequest'
  BY PeerClosesEffect DEF ConnInv, CountedInv, RetriedInv, At, Closed, OneAsker, Asking, AtRest,
     Quiet, WriteInv, Pending, BodyInv, Readers, Ending, Served, Failed, NoNextInv, NoNext,
     FailInv, ExpectInv, Expected, AnswersOwnRequest, Returned
<1> QED BY <1>1, <1>2, <1>3, <1>4, <1>5 DEF ConnInv

-----------------------------------------------------------------------------
(* The theorems.                                                             *)

\* Initially First has the connection, and nothing else has happened.
LEMMA InitConn == ASSUME Init PROVE ConnInv
<1> USE ConstantsAssumption DEF Init, Looping, NewRequest, NoAnswer
<1>1. TypeOK
  <2>1. rt \in [Reqs -> RtType] BY DEF RtType, Points, InFlight, Errors, Reasons
  <2>2. pc \in PcType /\ chans \in ChansType BY DEF PcType, Reasons, ChansType, BodyType
  <2>3. wl \in WlType /\ rl \in RlType /\ wl.at \notin Writing /\ rl.at \notin Serving
    BY DEF WlType, RlType, RlPoints, Answers, Writing, Serving
  <2>4. sent \in [Reqs -> 0..2] /\ kind \in [Reqs -> Kinds \cup {None}] /\ answers \in Seq(Answers)
    OBVIOUS
  <2>5. peer \in PeerType /\ counted \subseteq Reqs BY DEF PeerType
  <2>6. rl.at \notin {"take", "error"} OBVIOUS
  <2> QED BY <2>1, <2>2, <2>3, <2>4, <2>5, <2>6 DEF TypeOK
<1>2. \A r \in Reqs : /\ rt[r].at \in {"new", "got"} /\ (rt[r].at = "got" => r = First)
                      /\ rt[r].err = "none"
                      /\ sent[r] = 0 /\ chans.body[r] = "none"
  OBVIOUS
<1>3. \A r \in Reqs : Asking(r) => r = First
  BY <1>2 DEF Asking
<1>4. CountedInv /\ RetriedInv BY <1>2 DEF CountedInv, RetriedInv
<1>5. OneAsker /\ Unstarted /\ AtRest /\ WriteInv
  BY <1>2, <1>3 DEF OneAsker, Unstarted, AtRest, WriteInv, Quiet, Failed, At
<1>6. OwedInv /\ AnswersInv /\ Pending /\ BodyInv BY <1>2 DEF OwedInv, AnswersInv, Pending, BodyInv
<1>7. Readers /\ Served /\ NoNextInv /\ FailInv /\ AnswersOwnRequest
  BY <1>2 DEF Readers, Served, NoNextInv, FailInv, AnswersOwnRequest, Returned, Failed, At
<1>8. ExpectInv BY <1>2 DEF ExpectInv, Expected
<1> QED BY <1>1, <1>4, <1>5, <1>6, <1>7, <1>8 DEF ConnInv

\* Every step keeps the invariant.
LEMMA NextConn == ASSUME ConnInv, [Next]_vars PROVE ConnInv'
<1>1. ASSUME NEW r \in Reqs, RoundTripStep(r) PROVE ConnInv'
  BY <1>1, EnterKeeps, ExpectKeeps, SendWriteKeeps, SendReqKeeps, SelectWrittenKeeps,
     SelectClosedKeeps, SelectContextKeeps, SelectAgainKeeps, MapErrorKeeps, ReaderReturnsKeeps
     DEF RoundTripStep
<1>2. ASSUME NEW r \in Reqs, CallStep(r) PROVE ConnInv'
  BY <1>2, CallCancelerKeeps DEF CallStep
<1>3. CASE WriteLoopStep
  BY <1>3, TakeWriteKeeps, WriteLoopStopsKeeps, WriteBytesKeeps, WriteEndsKeeps,
     ReportToReadLoopKeeps, ReportToRoundTripKeeps, WriteLoopClosesKeeps DEF WriteLoopStep
<1>4. CASE ReadLoopStep
  BY <1>4, PeekKeeps, TakeReqKeeps, DeliverErrorKeeps, ClearCancelerKeeps, PutBackKeeps,
     DeliverKeeps, BodyReadKeeps, BodyCanceledKeeps, BodyConnClosedKeeps, CalledKeeps,
     ReadLoopClosesKeeps, ReadLoopRemovesKeeps DEF ReadLoopStep
<1>5. CASE EnvironmentStep
  BY <1>5, ContextDoneKeeps, CancelRequestKeeps, GetIdleKeeps, SelectTimeoutKeeps, ReadsToEOFKeeps,
     ClosesEarlyKeeps, ReadFailsKeeps, AnswerKeeps, CloseIdleKeeps, PeerClosesKeeps DEF
     EnvironmentStep
<1>6. CASE UNCHANGED vars
  <2>1. TypeOK' /\ CountedInv' /\ RetriedInv'
    BY <1>6 DEF vars, ConnInv, TypeOK, CountedInv, RetriedInv, At, Closed
  <2>2. OneAsker' /\ Unstarted' /\ AtRest' /\ WriteInv' /\ OwedInv' /\ AnswersInv' /\ Pending'
    BY <1>6 DEF vars, ConnInv, OneAsker, Unstarted, AtRest, WriteInv, OwedInv, AnswersInv, Pending,
       Asking,
           Quiet, Owed, Ending, Failed, At
  <2>3. BodyInv' /\ Readers' /\ Served' /\ NoNextInv' /\ FailInv' /\ ExpectInv' /\ AnswersOwnRequest'
    BY <1>6 DEF vars, ConnInv, BodyInv, Readers, Served, NoNextInv, FailInv, ExpectInv,
       AnswersOwnRequest,
           Asking, NoNext, Ending, Expected, Returned, Failed, At, Closed
  <2> QED BY <2>1, <2>2, <2>3 DEF ConnInv
<1> QED BY <1>1, <1>2, <1>3, <1>4, <1>5, <1>6 DEF Next, Finished

\* The invariant holds.
LEMMA ConnInvHolds == Spec => []ConnInv
  BY InitConn, NextConn, PTL DEF Spec

\* Every variable has its type numExpectedResponses does not become negative.
THEOREM TypeCorrect == Spec => []TypeOK
<1>1. ConnInv => TypeOK BY DEF ConnInv
<1> QED BY <1>1, ConnInvHolds, PTL

\* SafeRetry, for any number of requests and cancellations: mapRoundTripError says that
\* nothing was written only after writeLoop has ended, so a request that is rewound and sent
\* again on another connection has nothing on this one, then or later.
THEOREM RetriesAreSafe == Spec => []SafeRetry
<1>1. ConnInv => SafeRetry BY DEF ConnInv, RetriedInv, SafeRetry
<1> QED BY <1>1, ConnInvHolds, PTL

\* The invariant leaves nothing on a connection in the pool.
LEMMA ConnInvApart == ASSUME ConnInv PROVE RequestsApart
<1>1. ASSUME pc.idle, ~Closed PROVE ~Ending
  BY <1>1 DEF ConnInv, NoNextInv, NoNext, FailInv, Ending
<1>2. ASSUME pc.idle, NEW r \in Reqs PROVE ~Asking(r)
  BY <1>2 DEF ConnInv, OneAsker
<1>3. ASSUME pc.idle, ~Closed PROVE pc.expected = 0
  BY <1>2, <1>3, <1>1 DEF ConnInv, TypeOK, PcType, Expected, Asking, ExpectInv
<1>4. ASSUME pc.idle, ~Closed PROVE answers = <<>>
  BY <1>1, <1>4, <1>2 DEF ConnInv, TypeOK, RlType, NoNextInv, NoNext, Ending, Pending, RlPoints
<1>5. ASSUME pc.idle, ~Closed
      PROVE  /\ chans.write = None /\ chans.req = None /\ chans.err = "none"
             /\ wl.at \in {"idle", "reportOwn"} /\ (wl.at = "reportOwn" => wl.err = "ok")
  BY <1>5, <1>2 DEF ConnInv, AtRest, FailInv, TypeOK, ChansType, Asking, Quiet
<1>6. ASSUME pc.idle, ~Closed, NEW r \in Reqs
      PROVE  ~Failed(r) /\ rt[r].at \notin {"expect", "write", "send", "map"}
  BY <1>1, <1>2, <1>6 DEF Asking, ConnInv, FailInv, At
<1>7. ReuseClean BY <1>3, <1>4, <1>5, <1>6 DEF ReuseClean
<1> QED BY <1>7 DEF RequestsApart, ConnInv

\* RequestsApart, for any number of requests and cancellations: roundTrip returns the answer to
\* its own request, and a connection in the pool that still lives has nothing left of the last.
THEOREM RequestsStayApart == Spec => []RequestsApart
<1>1. ConnInv => RequestsApart BY ConnInvApart
<1> QED BY <1>1, ConnInvHolds, PTL
=============================================================================
