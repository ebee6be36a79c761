---------------------------- MODULE TransportPool ----------------------------
(***************************************************************************)
(* The connection pool of http.Transport (http/transport.go).              *)
(*                                                                         *)
(* A request that needs a connection makes a wantConn, queues it for an     *)
(* idle connection and for permission to dial, and takes whichever comes    *)
(* first.  Connections come back to the pool from the read loop that served *)
(* a request, from a dial nobody waits for any more, or from a request      *)
(* cancelled after it was given one.  MaxConnsPerHost, MaxIdleConns and     *)
(* MaxIdleConnsPerHost bound them; CloseIdleConnections, the idle timer and *)
(* the server take them away.                                              *)
(*                                                                         *)
(* There is one variable per mutex (idleMu, connsPerHostMu, wantConn.mu,    *)
(* persistConn.mu) and one step per critical section.  A section that calls *)
(* another under its lock (tryPutIdleConn closing the oldest connection,    *)
(* closeLocked giving back its slot) is one step with it: no goroutine      *)
(* takes these locks in the opposite order.  What a persistConn does while  *)
(* a request uses it is reduced to: it answers, it fails, or it is closed.  *)
(***************************************************************************)
EXTENDS Naturals, Sequences, FiniteSets, SequencesExt

CONSTANTS
  Reqs,       \* RoundTrip calls
  Conns,      \* bound: connections that can be dialled
  Keys,       \* connectMethodKeys: hosts
  None,
  Configs,    \* the Transport settings considered, each with its bounds
  MaxTries    \* bound: getConn calls per request

Wants   == Reqs \X (1..MaxTries)
Putters == Reqs \cup Wants \cup Conns

ASSUME ConstantsAssumption ==
  /\ None \notin Conns /\ None \notin Keys
  /\ Reqs \cap Wants = {} /\ Reqs \cap Conns = {} /\ Wants \cap Conns = {}
  /\ MaxTries \in Nat \ {0}
  /\ Configs \subseteq [limit : Nat,               \* MaxConnsPerHost, 0 for none
                        keepAlives : BOOLEAN,      \* ~DisableKeepAlives
                        idlePerHost : Nat \ {0},   \* maxIdleConnsPerHost()
                        idleTotal : Nat,           \* MaxIdleConns, 0 for none
                        idleTimer : BOOLEAN,       \* IdleConnTimeout > 0
                        http2 : BOOLEAN,           \* hosts may negotiate HTTP/2
                        http2Fails : BOOLEAN,      \* and refuse requests with ErrNoCachedConn
                        hosts : SUBSET Keys,       \* bound: the hosts requests are for
                        requests : Nat,            \* bound: the requests made
                        retried : Nat,             \* bound: requests that are retried
                        closes : Nat]              \* bound: CloseIdleConnections calls

VARIABLES
  config,   \* the Transport's settings, fixed
  idle,     \* idleMu: idleConn, idleLRU (oldest first), idleConnWait, closeIdle
  slots,    \* connsPerHostMu: connsPerHost, connsPerHostWait, the dials begun, a panic
  want,     \* each wantConn's pc and err
  rt,       \* each request's goroutine: its key, control point, try and connection
  conn,     \* each persistConn
  readLoop, \* each connection's readLoop goroutine
  put,      \* the putOrCloseIdleConn call in progress in each goroutine, and its connection
  closing,  \* connections CloseIdleConnections has yet to close
  closes    \* CloseIdleConnections calls so far

vars == <<config, idle, slots, want, rt, conn, readLoop, put, closing, closes>>

NoPut == [at |-> "none", conn |-> None]

Init ==
  /\ config \in Configs
  /\ idle = [conns |-> [k \in Keys |-> <<>>], lru |-> <<>>,
             wait |-> [k \in Keys |-> <<>>], close |-> FALSE]
  /\ slots = [count |-> [k \in Keys |-> 0], wait |-> [k \in Keys |-> <<>>],
              dialing |-> {}, panic |-> FALSE]
  /\ want = [w \in Wants |-> [pc |-> None, err |-> FALSE]]
  /\ \E key \in [Reqs -> config.hosts], made \in SUBSET Reqs :
       /\ Cardinality(made) = config.requests
       /\ rt = [r \in Reqs |-> [key |-> key[r], at |-> IF r \in made THEN "start" ELSE "done",
                                try |-> 1, conn |-> None]]
  /\ conn = [c \in Conns |-> [dialed |-> FALSE, closed |-> FALSE, alt |-> FALSE,
                              reused |-> FALSE, key |-> None]]
  /\ readLoop = [c \in Conns |-> "none"]
  /\ put = [p \in Putters |-> NoPut]
  /\ closing = {} /\ closes = 0

-----------------------------------------------------------------------------
(* wantConn.  `wn` is the value of want to look at: a critical section may   *)
(* have delivered to some before it asks.                                    *)

WantOf(r)      == <<r, rt[r].try>>
KeyOfWant(w)   == rt[w[1]].key
Waiting(wn, w) == wn[w].pc = None /\ ~wn[w].err

\* tryDeliver to every wantConn of a set: those that still wait take c.
Deliver(wn, ws, c) == [w \in Wants |-> IF w \in ws /\ Waiting(wn, w)
                                       THEN [wn[w] EXCEPT !.pc = c] ELSE wn[w]]

FirstWaiting(wn, q) ==
  LET live == {i \in DOMAIN q : Waiting(wn, q[i])}
  IN  IF live = {} THEN 0 ELSE CHOOSE i \in live : \A j \in live : i <= j

\* popFront until one still waits, which is popped too.
PopWaiting(wn, q) ==
  LET i == FirstWaiting(wn, q) IN IF i = 0 THEN <<>> ELSE SubSeq(q, i + 1, Len(q))

\* cleanFront, then pushBack.
Enqueue(q, w) ==
  LET i == FirstWaiting(want, q)
  IN  Append(IF i = 0 THEN <<>> ELSE SubSeq(q, i, Len(q)), w)

-----------------------------------------------------------------------------
(* Slots: connsPerHost and the dials it permits.                             *)

\* The mutants: the slot is not handed over, or is handed over and given back too.
DecConnsPerHost_KeepsWaiters(wn, s, k) ==
  IF config.limit = 0 THEN s ELSE [s EXCEPT !.count[k] = @ - 1]
DecConnsPerHost_Twice(wn, s, k) ==
  LET i == FirstWaiting(wn, s.wait[k])
  IN  IF config.limit = 0 THEN s
      ELSE [s EXCEPT !.count[k] = @ - 1, !.wait[k] = PopWaiting(wn, @),
                     !.dialing = IF i > 0 THEN @ \cup {s.wait[k][i]} ELSE @]

\* decConnsPerHost: the slot goes to the first queued request that still waits, whose
\* dial begins, or is given back.
DecConnsPerHost(wn, s, k) ==
  LET i == FirstWaiting(wn, s.wait[k])
  IN  CASE config.limit = 0 -> s
        [] config.limit > 0 /\ s.count[k] = 0 -> [s EXCEPT !.panic = TRUE]
        [] config.limit > 0 /\ s.count[k] > 0 /\ i > 0 ->
             [s EXCEPT !.wait[k] = PopWaiting(wn, @), !.dialing = @ \cup {s.wait[k][i]}]
        [] OTHER -> [s EXCEPT !.wait[k] = <<>>, !.count[k] = @ - 1]

\* closeLocked: only the first call has an effect.
Close(wn, c) ==
  IF conn[c].closed THEN UNCHANGED <<conn, slots>>
  ELSE /\ conn' = [conn EXCEPT ![c].closed = TRUE]
       /\ slots' = DecConnsPerHost(wn, slots, conn[c].key)

-----------------------------------------------------------------------------
(* The idle pool.                                                            *)

\* removeIdleConnLocked.
RemoveIdle(i, c) == [i EXCEPT !.conns[conn[c].key] = RemoveFirst(@, c), !.lru = RemoveFirst(@, c)]

\* tryPutIdleConn of c: it is an HTTP/2 connection listed already, or a waiting request takes it.
PutTaken(c) ==
  \/ conn[c].alt /\ Contains(idle.lru, c)
  \/ ~conn[c].alt /\ FirstWaiting(want, idle.wait[conn[c].key]) > 0

PutRefused(c) ==
  ~PutTaken(c) /\ (idle.close \/ Len(idle.conns[conn[c].key]) >= config.idlePerHost)

\* c is listed; if that is one connection too many in all, the oldest is closed.
AddIdle(i, wn, c) ==
  LET added  == [i EXCEPT !.conns[conn[c].key] = Append(@, c), !.lru = Append(@, c)]
      oldest == Head(added.lru)
      over   == config.idleTotal # 0 /\ Len(added.lru) > config.idleTotal
  IN  IF ~over THEN idle' = added /\ UNCHANGED <<conn, slots>>
      ELSE idle' = RemoveIdle(added, oldest) /\ Close(wn, oldest)

\* tryPutIdleConn under idleMu.  An HTTP/1 connection goes to the first request that
\* waits; an HTTP/2 one to all of them, and to the list as well.
TryPutIdleConn(c) ==
  LET k == conn[c].key
      q == idle.wait[k]
      i == FirstWaiting(want, q)
      delivered == Deliver(want, IF conn[c].alt THEN Range(q) ELSE {}, c)
      emptied   == [idle EXCEPT !.wait[k] = <<>>]
  IN  \/ /\ PutTaken(c) /\ conn[c].alt
         /\ UNCHANGED <<idle, want, conn, slots>>
      \/ /\ PutTaken(c) /\ ~conn[c].alt
         /\ want' = Deliver(want, {q[i]}, c)
         /\ idle' = [idle EXCEPT !.wait[k] = PopWaiting(want, @)]
         /\ UNCHANGED <<conn, slots>>
      \/ /\ PutRefused(c)
         /\ want' = delivered /\ idle' = emptied
         /\ UNCHANGED <<conn, slots>>
      \/ /\ ~PutTaken(c) /\ ~PutRefused(c)
         /\ want' = delivered
         /\ AddIdle(emptied, delivered, c)

-----------------------------------------------------------------------------
(* putOrCloseIdleConn, in whichever goroutine calls it.                      *)

Put(p, a)       == [put EXCEPT ![p] = a]
PutBegins(p, c) == Put(p, [at |-> "check", conn |-> c])

\* tryPutIdleConn before it takes idleMu: DisableKeepAlives, isBroken, markReused.
PutCheck(p) ==
  LET c == put[p].conn
  IN  /\ put[p].at = "check"
      /\ IF ~config.keepAlives \/ conn[c].closed
         THEN put' = [put EXCEPT ![p].at = "close"] /\ UNCHANGED conn
         ELSE put' = [put EXCEPT ![p].at = "insert"] /\ conn' = [conn EXCEPT ![c].reused = TRUE]
      /\ UNCHANGED <<config, idle, slots, want, rt, readLoop, closing, closes>>

\* The read loop that has put its connection back waits for the next answer.
PutInsert(p) ==
  LET c == put[p].conn
  IN  /\ put[p].at = "insert"
      /\ TryPutIdleConn(c)
      /\ IF PutRefused(c)
         THEN put' = [put EXCEPT ![p].at = "close"] /\ UNCHANGED readLoop
         ELSE /\ put' = Put(p, NoPut)
              /\ readLoop' = IF p = c THEN [readLoop EXCEPT ![c] = "peek"] ELSE readLoop
      /\ UNCHANGED <<config, rt, closing, closes>>

\* The connection was refused.  For a read loop this is its deferred close, which
\* removeIdleConn follows.
PutClose(p) ==
  LET c == put[p].conn
  IN  /\ put[p].at = "close"
      /\ Close(want, c)
      /\ put' = Put(p, NoPut)
      /\ readLoop' = IF p = c THEN [readLoop EXCEPT ![c] = "remove"] ELSE readLoop
      /\ UNCHANGED <<config, idle, want, rt, closing, closes>>

-----------------------------------------------------------------------------
(* RoundTrip and getConn.                                                    *)

Goto(r, l)    == rt' = [rt EXCEPT ![r].at = l]
Takes(r, c)   == rt' = [rt EXCEPT ![r] = [@ EXCEPT !.at = "got", !.conn = c]]
Ends(r)       == rt' = [rt EXCEPT ![r] = [@ EXCEPT !.at = "done", !.conn = None]]
Retries(r)    == /\ rt[r].try < MaxTries
                 /\ Cardinality({q \in Reqs \ {r} : rt[q].try > 1}) < config.retried
                 /\ rt' = [rt EXCEPT ![r] = [@ EXCEPT !.at = "start", !.try = rt[r].try + 1,
                                                     !.conn = None]]

\* The connections of a list that are not broken; queueForIdleConn drops those at the
\* end that are, and takes the last of the others.  It leaves what it drops in the LRU.
Usable(list) ==
  LET open == {i \in DOMAIN list : ~conn[list[i]].closed}
  IN  IF open = {} THEN <<>> ELSE SubSeq(list, 1, CHOOSE i \in open : \A j \in open : j <= i)

\* queueForIdleConn: the most recently used idle connection, or a place in the queue.
QueueForIdleConn(r) ==
  LET k    == rt[r].key
      list == Usable(idle.conns[k])
      last == list[Len(list)]
  IN  /\ rt[r].at = "start"
      /\ \/ /\ ~config.keepAlives
            /\ Goto(r, "queueDial")
            /\ UNCHANGED <<idle, want>>
         \/ /\ config.keepAlives /\ list # <<>>
            /\ Takes(r, last)
            /\ want' = Deliver(want, {WantOf(r)}, last)
            /\ idle' = [idle EXCEPT !.close = FALSE,
                          !.conns[k] = IF conn[last].alt THEN list ELSE Front(list),
                          !.lru = IF conn[last].alt THEN @ ELSE RemoveFirst(@, last)]
         \/ /\ config.keepAlives /\ list = <<>>
            /\ Goto(r, "queueDial")
            /\ idle' = [idle EXCEPT !.close = FALSE, !.conns[k] = <<>>,
                          !.wait[k] = Enqueue(@, WantOf(r))]
            /\ UNCHANGED want
      /\ UNCHANGED <<config, slots, conn, readLoop, put, closing, closes>>

\* queueForDial: the dial begins, with a slot if there is a limit, or waits for one.
QueueForDial(r) ==
  LET k == rt[r].key IN
  /\ rt[r].at = "queueDial"
  /\ Goto(r, "wait")
  /\ slots' = IF config.limit = 0 THEN [slots EXCEPT !.dialing = @ \cup {WantOf(r)}]
              ELSE IF slots.count[k] < config.limit
              THEN [slots EXCEPT !.dialing = @ \cup {WantOf(r)}, !.count[k] = @ + 1]
              ELSE [slots EXCEPT !.wait[k] = Enqueue(@, WantOf(r))]
  /\ UNCHANGED <<config, idle, want, conn, readLoop, put, closing, closes>>

\* getConn's select finds w ready, with a connection or an error.
Ready(r) ==
  /\ rt[r].at = "wait" /\ ~Waiting(want, WantOf(r))
  /\ IF want[WantOf(r)].pc # None THEN Takes(r, want[WantOf(r)].pc) ELSE Ends(r)
  /\ UNCHANGED <<config, idle, slots, want, conn, readLoop, put, closing, closes>>

\* The mutant forgets a connection already delivered.
Cancelled_DropsConn(r) ==
  /\ rt[r].at = "wait"
  /\ Ends(r)
  /\ want' = [want EXCEPT ![WantOf(r)] = [pc |-> None, err |-> TRUE]]
  /\ UNCHANGED <<config, idle, slots, conn, readLoop, put, closing, closes>>

\* Or the request is cancelled: w.cancel puts back the connection it may have been given.
Cancelled(r) ==
  LET w == WantOf(r) IN
  /\ rt[r].at = "wait"
  /\ Ends(r)
  /\ want' = [want EXCEPT ![w] = [pc |-> None, err |-> TRUE]]
  /\ put' = IF want[w].pc = None THEN put ELSE PutBegins(r, want[w].pc)
  /\ UNCHANGED <<config, idle, slots, conn, readLoop, closing, closes>>

\* roundTrip uses the connection, unless CancelRequest removed the canceler since
\* getConn set it (replaceReqCanceler).  HTTP/2 requests have none.
EnterRoundTrip(r) ==
  /\ rt[r].at = "got"
  /\ \/ Goto(r, "using") /\ UNCHANGED put
     \/ ~conn[rt[r].conn].alt /\ Ends(r) /\ put' = PutBegins(r, rt[r].conn)
  /\ UNCHANGED <<config, idle, slots, want, conn, readLoop, closing, closes>>

\* The context is done before the first try, or between two.
GiveUp(r) ==
  /\ rt[r].at = "start"
  /\ Ends(r)
  /\ UNCHANGED <<config, idle, slots, want, conn, readLoop, put, closing, closes>>

Uses(r, c) == rt[r].at = "using" /\ rt[r].conn = c

\* An HTTP/1 request fails: its connection is closed or its read loop is ending.  It is
\* retried only if the connection was reused (shouldRetryRequest).
RequestFails(r) ==
  LET c == rt[r].conn IN
  /\ rt[r].at = "using" /\ ~conn[c].alt
  /\ conn[c].closed \/ readLoop[c] # "peek"
  /\ \/ Ends(r)
     \/ conn[c].reused /\ Retries(r)
  /\ UNCHANGED <<config, idle, slots, want, conn, readLoop, put, closing, closes>>

\* pconn.alt.RoundTrip returns: with an answer or an error that ends the request, or
\* because the connection takes no more requests.
HTTP2Returns(r) ==
  /\ rt[r].at = "using" /\ conn[rt[r].conn].alt
  /\ \/ Ends(r)
     \/ config.http2Fails /\ Goto(r, "removeIdle")
  /\ UNCHANGED <<config, idle, slots, want, conn, readLoop, put, closing, closes>>

\* Then RoundTrip removes the connection and gives back its slot, and retries
\* (ErrNoCachedConn) or fails (the HTTP/2 connection could not be set up).
RemoveNoCached(r) ==
  /\ rt[r].at = "removeIdle"
  /\ idle' = RemoveIdle(idle, rt[r].conn)
  /\ Goto(r, "decConns")
  /\ UNCHANGED <<config, slots, want, conn, readLoop, put, closing, closes>>

DecNoCached(r) ==
  /\ rt[r].at = "decConns"
  /\ slots' = DecConnsPerHost(want, slots, conn[rt[r].conn].key)
  /\ Ends(r) \/ Retries(r)
  /\ UNCHANGED <<config, idle, want, conn, readLoop, put, closing, closes>>

-----------------------------------------------------------------------------
(* dialConnFor, in a goroutine per dial.  A slot is held until the dial's    *)
(* error is delivered and decConnsPerHost called, or the connection closes.  *)

\* The dial succeeds.  A connection that w does not want, or may share, goes to the pool.
DialSucceeds(w, c) ==
  \E alt \in IF config.http2 THEN BOOLEAN ELSE {FALSE} :
    /\ w \in slots.dialing /\ put[w].at = "none" /\ ~conn[c].dialed
    /\ slots' = [slots EXCEPT !.dialing = @ \ {w}]
    /\ conn' = [conn EXCEPT ![c] = [@ EXCEPT !.dialed = TRUE, !.alt = alt, !.key = KeyOfWant(w)]]
    /\ readLoop' = [readLoop EXCEPT ![c] = IF alt THEN "none" ELSE "peek"]
    /\ want' = Deliver(want, {w}, c)
    /\ put' = IF alt \/ ~Waiting(want, w) THEN PutBegins(w, c) ELSE put
    /\ UNCHANGED <<config, idle, rt, closing, closes>>

\* The dial fails: its error is delivered, if w still waits.
DialFails(w) ==
  /\ w \in slots.dialing /\ put[w].at = "none"
  /\ want' = [want EXCEPT ![w].err = @ \/ Waiting(want, w)]
  /\ put' = [put EXCEPT ![w].at = "dec"]
  /\ UNCHANGED <<config, idle, slots, rt, conn, readLoop, closing, closes>>

DialDec(w) ==
  /\ put[w].at = "dec"
  /\ slots' = DecConnsPerHost(want, [slots EXCEPT !.dialing = @ \ {w}], KeyOfWant(w))
  /\ put' = Put(w, NoPut)
  /\ UNCHANGED <<config, idle, want, rt, conn, readLoop, closing, closes>>

-----------------------------------------------------------------------------
(* HTTP/1 connections.                                                       *)

\* The server answers r.  The read loop puts the connection back, or closes it because
\* one of the two does not want it kept.
Answered(r) ==
  LET c == rt[r].conn IN
  /\ rt[r].at = "using" /\ readLoop[c] = "peek"
  /\ Ends(r)
  /\ readLoop' = [readLoop EXCEPT ![c] = "ending"]
  /\ \E l \in {"check", "close"} : put' = Put(c, [at |-> l, conn |-> c])
  /\ UNCHANGED <<config, idle, slots, want, conn, closing, closes>>

\* The server closes the connection, or it was closed here: the read loop ends.
ReadFails(c) ==
  /\ readLoop[c] = "peek"
  /\ readLoop' = [readLoop EXCEPT ![c] = "ending"]
  /\ put' = Put(c, [at |-> "close", conn |-> c])
  /\ UNCHANGED <<config, idle, slots, want, rt, conn, closing, closes>>

\* removeIdleConn in the read loop's deferred function.
ReadLoopRemoves(c) ==
  /\ readLoop[c] = "remove"
  /\ idle' = RemoveIdle(idle, c)
  /\ readLoop' = [readLoop EXCEPT ![c] = "gone"]
  /\ UNCHANGED <<config, slots, want, rt, conn, put, closing, closes>>

\* A cancellation, a write error or a timeout closes a connection in use.
ClosedInUse(r) ==
  LET c == rt[r].conn IN
  /\ rt[r].at = "using" /\ ~conn[c].alt /\ ~conn[c].closed
  /\ Close(want, c)
  /\ UNCHANGED <<config, idle, want, rt, readLoop, put, closing, closes>>

\* closeConnIfStillIdle, from the idle timer, which only HTTP/1 connections have.
CloseConnIfStillIdle(c) ==
  /\ config.idleTimer /\ ~conn[c].alt /\ Contains(idle.lru, c)
  /\ idle' = RemoveIdle(idle, c)
  /\ Close(want, c)
  /\ UNCHANGED <<config, want, rt, readLoop, put, closing, closes>>

\* CloseIdleConnections takes the list under the lock, and closes what it took after.
CloseIdleConnections ==
  /\ closes < config.closes /\ closing = {}
  /\ closes' = closes + 1
  /\ closing' = UNION {Range(idle.conns[k]) : k \in Keys}
  /\ idle' = [idle EXCEPT !.conns = [k \in Keys |-> <<>>], !.lru = <<>>, !.close = TRUE]
  /\ UNCHANGED <<config, slots, want, rt, conn, readLoop, put>>

CloseTaken(c) ==
  /\ c \in closing
  /\ closing' = closing \ {c}
  /\ Close(want, c)
  /\ UNCHANGED <<config, idle, want, rt, readLoop, put, closes>>

-----------------------------------------------------------------------------
Finished ==
  /\ \A r \in Reqs : rt[r].at = "done"
  /\ \A p \in Putters : put[p].at = "none"
  /\ UNCHANGED vars

RequestStep(r) ==
  \/ QueueForIdleConn(r) \/ QueueForDial(r) \/ Ready(r) \/ EnterRoundTrip(r)
  \/ RequestFails(r) \/ HTTP2Returns(r) \/ RemoveNoCached(r) \/ DecNoCached(r)

PutStep(p) == PutCheck(p) \/ PutInsert(p) \/ PutClose(p)

DialStep(w) == (\E c \in Conns : DialSucceeds(w, c)) \/ DialFails(w) \/ DialDec(w)

\* (A panic ends the program: nothing is claimed of the states that would follow one.)
Next ==
  \/ \E r \in Reqs : RequestStep(r) \/ Answered(r) \/ Cancelled(r) \/ GiveUp(r) \/ ClosedInUse(r)
  \/ \E p \in Putters : PutStep(p)
  \/ \E w \in Wants : DialStep(w)
  \/ \E c \in Conns : ReadFails(c) \/ ReadLoopRemoves(c) \/ CloseConnIfStillIdle(c) \/ CloseTaken(c)
  \/ CloseIdleConnections
  \/ Finished

Spec == Init /\ [][Next]_vars

-----------------------------------------------------------------------------
Points   == {"start", "queueDial", "wait", "got", "using", "removeIdle", "decConns", "done"}
KeyQueue(S) == [Keys -> Seq(S)]

Open(k)    == {c \in Conns : conn[c].key = k /\ ~conn[c].closed}
Dialing(k) == {w \in slots.dialing : KeyOfWant(w) = k}

\* connsPerHost counts exactly the dials in progress and the connections not closed, and
\* never exceeds MaxConnsPerHost: no slot is lost, given twice or given back twice.
SlotsAccounted ==
  config.limit > 0 =>
    /\ ~slots.panic
    /\ \A k \in Keys : /\ slots.count[k] = Cardinality(Dialing(k)) + Cardinality(Open(k))
                       /\ slots.count[k] <= config.limit

\* A request that waits in getConn is being dialled for, or is queued for a slot while
\* all slots of its host are taken: it never waits for something nobody will give it.
DialledOrQueued ==
  \A r \in Reqs :
    LET w == WantOf(r)  k == rt[r].key IN
    rt[r].at = "wait" /\ Waiting(want, w) =>
      \/ w \in slots.dialing
      \/ Contains(slots.wait[k], w) /\ config.limit > 0 /\ slots.count[k] = config.limit

\* No idle connection is listed for a host while a request that could use it waits
\* (tryPutIdleConn: "this conn is ready first"), and every such request is queued for one.
LateBinding ==
  \A r \in Reqs :
    LET w == WantOf(r)  k == rt[r].key IN
    rt[r].at \in {"queueDial", "wait"} /\ Waiting(want, w) /\ config.keepAlives =>
      Contains(idle.wait[k], w) /\ idle.conns[k] = <<>>

\* A waiting request never waits for what nobody will give it, nor while what it needs is idle.
NeverStranded == DialledOrQueued /\ LateBinding

Listed(c)  == \E k \in Keys : Contains(idle.conns[k], c)
Puts(p, c) == put[p].conn = c /\ (put[p].at \in {"check", "insert"} \/ (put[p].at = "close" /\ p # c))
Holders(c) == Cardinality({r \in Reqs : rt[r].conn = c})
            + Cardinality({r \in Reqs : rt[r].at \in {"queueDial", "wait"} /\ want[WantOf(r)].pc = c})
            + Cardinality({p \in Putters : Puts(p, c)})
            + (IF Listed(c) THEN 1 ELSE 0)

\* An HTTP/1 connection is never in two places: with a request, on its way to one, on its
\* way back to the pool, or in the pool.  And one that lives is in one of them, or is
\* about to be closed: no cancellation or late dial leaks it.
OneHolder ==
  \A c \in Conns : ~conn[c].alt =>
    /\ Holders(c) <= 1
    /\ readLoop[c] = "peek" /\ ~conn[c].closed /\ c \notin closing => Holders(c) = 1
=============================================================================
