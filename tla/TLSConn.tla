------------------------------- MODULE TLSConn -------------------------------
(***************************************************************************)
(* One tls.Conn (tls/conn.go) shared by several goroutines.                *)
(*                                                                         *)
(* Each goroutine makes API calls: Handshake, Read, Write, Close and       *)
(* CloseWrite.  The calls contend for the three mutexes of a Conn          *)
(* (handshakeMutex, in.Mutex, out.Mutex), for the handshakeCond condition  *)
(* variable and for the activeCall word that interlocks Write with Close.  *)
(* A goroutine that blocks in the network keeps the mutexes it holds, so a *)
(* silent peer and a peer that does not read are both part of the model.   *)
(*                                                                         *)
(* The handshake protocol itself is a script of reads and writes here (the *)
(* messages are the subject of TLSHandshake); the peer is external and     *)
(* sends any records it likes.  Field names are those of the Conn struct.  *)
(***************************************************************************)
EXTENDS Integers, Sequences, FiniteSets

CONSTANTS
  G,              \* goroutines using the connection
  None,           \* no goroutine, no error
  IsClient,       \* Conn.isClient
  Renegotiation,  \* Config.Renegotiation: "never", "once" or "freely"
  Ops,            \* the API calls the goroutines may make
  PeerKinds,      \* the kinds of record the peer may send
  MaxCalls,       \* bound: API calls made in all
  Deadlines,      \* whether SetReadDeadline has been used: a network read may time out
  MaxPeer,        \* bound: records the peer sends in all
  Window          \* records the network takes before a write blocks

AllOps == {"Handshake", "Read", "Write", "Close", "CloseWrite"}

\* What readRecord can find in the next record: a well-formed handshake flight,
\* a HelloRequest, application data, a warning alert, close_notify, a fatal
\* alert, or a bad record: one that does not decrypt, has the wrong version or
\* size, or holds part of a message outside a handshake.
AllPeerKinds == {"hs", "hreq", "app", "warn", "close", "fatal", "bad"}

ASSUME ConstantsAssumption ==
  /\ None \notin G /\ IsFiniteSet(G)
  /\ IsClient \in BOOLEAN /\ Deadlines \in BOOLEAN
  /\ Renegotiation \in {"never", "once", "freely"}
  /\ Ops \subseteq AllOps
  /\ PeerKinds \subseteq AllPeerKinds
  /\ MaxCalls \in Nat /\ MaxPeer \in Nat /\ Window \in Nat \ {0}

VARIABLES
  handshakeMutex, inMutex, outMutex,  \* the goroutine holding each mutex, or None
  handshakeCond,      \* handshakeCond # nil: some goroutine is committed to the handshake
  condWait,           \* goroutines blocked in handshakeCond.Wait
  handshakeErr, handshakeComplete, handshakes,
  stale,              \* goroutines that may still read the previous handshakeComplete
  inErr, outErr,      \* in.err and out.err: None, or what they were set to
  closed, writers,    \* the low bit and the rest of activeCall
  quietClose,         \* a Close found activeCall = 0 and will use the Conn gracefully
  closeNotifySent,
  netOpen,            \* c.conn has not been closed by this side
  peerGone,           \* the peer or the network has hung up
  inbox, peerSent,    \* records that have arrived, and how many were sent in all
  input, hand,        \* c.input # nil; the messages waiting in c.hand
  buffering, sendBuf, \* records held back until flush
  wire, drained,      \* records given to the network so far, and how many the peer took
  okWrites,           \* Write calls that returned a nil error
  panicked,           \* one of the panics of Handshake was reached
  pc, op,             \* control point and current call of each goroutine
  mode, script,       \* a handshake in progress: first or renegotiation, steps left
  failed, after,      \* the handshake's result; where to go when an alert has been sent
  calls

locks     == <<handshakeMutex, inMutex, outMutex>>
hsVars    == <<handshakeCond, condWait, handshakeErr, handshakeComplete, handshakes, stale>>
closeVars == <<closed, writers, quietClose, closeNotifySent>>
netVars   == <<netOpen, peerGone, inbox, peerSent, wire, drained>>
recVars   == <<inErr, outErr, input, hand, buffering, sendBuf>>
ghosts    == <<okWrites, panicked, calls>>
local     == <<op, mode, script, failed, after>>

vars == <<locks, hsVars, closeVars, netVars, recVars, ghosts, pc, local>>

Init ==
  /\ handshakeMutex = None /\ inMutex = None /\ outMutex = None
  /\ handshakeCond = FALSE /\ condWait = {} /\ stale = {}
  /\ handshakeErr = FALSE /\ handshakeComplete = FALSE /\ handshakes = 0
  /\ inErr = None /\ outErr = None /\ input = FALSE /\ hand = <<>>
  /\ closed = FALSE /\ writers = 0 /\ quietClose = FALSE /\ closeNotifySent = FALSE
  /\ netOpen = TRUE /\ peerGone = FALSE
  /\ inbox = <<>> /\ peerSent = 0 /\ wire = <<>> /\ drained = 0
  /\ buffering = FALSE /\ sendBuf = <<>>
  /\ okWrites = 0 /\ panicked = FALSE /\ calls = 0
  /\ pc = [g \in G |-> "idle"] /\ op = [g \in G |-> "Handshake"]
  /\ mode = [g \in G |-> "first"] /\ script = [g \in G |-> <<>>]
  /\ failed = [g \in G |-> FALSE] /\ after = [g \in G |-> "idle"]

-----------------------------------------------------------------------------
(* Control and network helpers.                                            *)

At(g, l)   == pc[g] = l
Goto(g, l) == pc' = [pc EXCEPT ![g] = l]

\* A write to c.conn succeeds only while both ends are there, and blocks while
\* the peer leaves Window records unread.
NetUp == netOpen /\ ~peerGone
Room  == ~NetUp \/ Len(wire) - drained < Window

\* (c *Conn) write: into sendBuf while buffering, else to the network.
CanWrite     == buffering \/ Room
WriteFails   == ~buffering /\ ~NetUp
Put(record) ==
  /\ sendBuf' = IF buffering THEN Append(sendBuf, record) ELSE sendBuf
  /\ wire' = IF ~buffering /\ NetUp THEN Append(wire, record) ELSE wire

\* (c *Conn) flush: sendBuf and buffering are reset whether or not the network
\* write works.  It is called without out.Mutex.
Flush ==
  /\ Room
  /\ wire' = IF NetUp THEN wire \o sendBuf ELSE wire
  /\ sendBuf' = <<>>
  /\ buffering' = IF sendBuf = <<>> THEN buffering ELSE FALSE

\* Write reads handshakeComplete under out.Mutex although it is written under
\* handshakeMutex: a writer that has left Handshake may see the old value until
\* the writer of the field has released out.Mutex.
RacingWriters == {g \in G : pc[g] \in {"w_lock", "w_check"}}

-----------------------------------------------------------------------------
(* The peer and the network (external).                                    *)

PeerSend ==
  /\ ~peerGone /\ peerSent < MaxPeer
  /\ \E k \in PeerKinds : inbox' = Append(inbox, k)
  /\ peerSent' = peerSent + 1
  /\ UNCHANGED <<locks, hsVars, closeVars, netOpen, peerGone, wire, drained,
                 recVars, ghosts, pc, local>>

PeerDrain ==
  /\ ~peerGone /\ drained < Len(wire)
  /\ drained' = drained + 1
  /\ UNCHANGED <<locks, hsVars, closeVars, netOpen, peerGone, inbox, peerSent, wire,
                 recVars, ghosts, pc, local>>

PeerHangup ==
  /\ ~peerGone
  /\ peerGone' = TRUE
  /\ UNCHANGED <<locks, hsVars, closeVars, netOpen, inbox, peerSent, wire, drained,
                 recVars, ghosts, pc, local>>

-----------------------------------------------------------------------------
(* Starting a call.                                                        *)

Entry(o) == CASE o = "Write"      -> "w_enter"
              [] o = "Close"      -> "c_enter"
              [] o = "CloseWrite" -> "c_lock"
              [] OTHER            -> "hs_lock"

Call(g) ==
  /\ At(g, "idle") /\ calls < MaxCalls
  /\ \E o \in Ops : op' = [op EXCEPT ![g] = o] /\ Goto(g, Entry(o))
  /\ calls' = calls + 1
  /\ UNCHANGED <<locks, hsVars, closeVars, netVars, recVars, okWrites, panicked,
                 mode, script, failed, after>>

-----------------------------------------------------------------------------
(* Handshake.                                                              *)

\* Where a call goes on when its Handshake has returned.
HandshakeReturns(g, err) ==
  IF op[g] = "Write" THEN IF err THEN "w_exit" ELSE "w_lock"
  ELSE IF op[g] = "Read" /\ ~err THEN "r_lock" ELSE "idle"

\* What the loop needs to look at the handshake's state: handshakeMutex, and not
\* in.Mutex, which a Read may hold for as long as the network is silent.
CheckLocks == handshakeMutex = None

\* handshakeErr # nil
HasFailed_Ignored == FALSE
HasFailed         == handshakeErr

\* handshakeCond # nil
Committed_Ignored == FALSE
Committed         == handshakeCond

\* The loop at the top of Handshake, run under handshakeMutex: return the
\* result there is, wait for the goroutine that is committed, or commit.
\* Committing and waiting both release the mutex.
HandshakeCheck(g) ==
  /\ pc[g] \in {"hs_lock", "hs_wait"} /\ g \notin condWait
  /\ CheckLocks
  /\ \/ /\ HasFailed
        /\ Goto(g, HandshakeReturns(g, TRUE))
        /\ UNCHANGED <<handshakeCond, condWait>>
     \/ /\ ~HasFailed /\ handshakeComplete
        /\ Goto(g, HandshakeReturns(g, FALSE))
        /\ UNCHANGED <<handshakeCond, condWait>>
     \/ /\ ~HasFailed /\ ~handshakeComplete /\ Committed
        /\ condWait' = condWait \cup {g}
        /\ Goto(g, "hs_wait")
        /\ UNCHANGED handshakeCond
     \/ /\ ~HasFailed /\ ~handshakeComplete /\ ~Committed
        /\ handshakeCond' = TRUE
        /\ Goto(g, "hs_in")
        /\ UNCHANGED condWait
  /\ UNCHANGED <<locks, handshakeErr, handshakeComplete, handshakes, stale, closeVars,
                 netVars, recVars, ghosts, local>>

HandshakeLockIn(g) ==
  /\ At(g, "hs_in") /\ inMutex = None
  /\ inMutex' = g
  /\ Goto(g, "hs_relock")
  /\ UNCHANGED <<handshakeMutex, outMutex, hsVars, closeVars, netVars, recVars, ghosts, local>>

\* The reads and writes of clientHandshake and serverHandshake, for a full and
\* for a resumed session.  "buffer" sets c.buffering; "put" writes a flight that
\* another one will follow, "fin" the flight with this side's Finished.
FullClientScript == <<"hello", "read", "buffer", "read", "fin", "flush", "read">>
Scripts ==
  IF IsClient
  THEN {FullClientScript, <<"hello", "read", "buffer", "read", "fin", "flush">>}
  ELSE {<<"read", "buffer", "put", "flush", "read", "buffer", "fin", "flush">>,
        <<"read", "buffer", "fin", "flush", "read">>}

\* handshakeMutex is taken again, in.Mutex being held; the first panic of
\* Handshake is reached if the handshake has a result already.
HandshakeBegin(g) ==
  /\ At(g, "hs_relock") /\ handshakeMutex = None
  /\ handshakeMutex' = g
  /\ panicked' = (panicked \/ handshakeErr \/ handshakeComplete)
  /\ mode' = [mode EXCEPT ![g] = "first"]
  /\ failed' = [failed EXCEPT ![g] = FALSE]
  /\ \E s \in Scripts : script' = [script EXCEPT ![g] = s]
  /\ Goto(g, "k_run")
  /\ UNCHANGED <<inMutex, outMutex, hsVars, closeVars, netVars, recVars,
                 okWrites, calls, op, after>>

-----------------------------------------------------------------------------
(* The body of a handshake, the same for the first one and for a           *)
(* renegotiation.  It runs with in.Mutex and handshakeMutex held; writes   *)
(* take out.Mutex, flush does not.                                         *)

Step(g, s)   == At(g, "k_run") /\ script[g] # <<>> /\ Head(script[g]) = s
StepDone(g)  == script' = [script EXCEPT ![g] = Tail(script[g])]
Fail(g)      == failed' = [failed EXCEPT ![g] = TRUE] /\ Goto(g, "k_end")
AlertThen(g, l) == after' = [after EXCEPT ![g] = l] /\ Goto(g, "al_lock")

HandshakeBuffer(g) ==
  /\ Step(g, "buffer") /\ StepDone(g)
  /\ buffering' = TRUE
  /\ UNCHANGED <<locks, hsVars, closeVars, netVars, inErr, outErr, input, hand, sendBuf,
                 ghosts, pc, op, mode, failed, after>>

\* The ClientHello goes straight to the network, so writeRecord may block in it
\* with out.Mutex held.
HandshakeHelloLock(g) ==
  /\ Step(g, "hello") /\ outMutex = None
  /\ outMutex' = g /\ Goto(g, "k_hello")
  /\ UNCHANGED <<handshakeMutex, inMutex, hsVars, closeVars, netVars, recVars, ghosts, local>>

HandshakeHello(g) ==
  /\ At(g, "k_hello") /\ CanWrite
  /\ Put("hello")
  /\ outMutex' = None /\ stale' = {}
  /\ \/ ~WriteFails /\ StepDone(g) /\ Goto(g, "k_run") /\ UNCHANGED failed
     \/ WriteFails /\ Fail(g) /\ UNCHANGED script
  /\ UNCHANGED <<handshakeMutex, inMutex, handshakeCond, condWait, handshakeErr,
                 handshakeComplete, handshakes, closeVars, netOpen, peerGone, inbox,
                 peerSent, drained, inErr, outErr, input, hand, buffering, ghosts,
                 op, mode, after>>

\* These flights are written while buffering and cannot block.
HandshakePut(g) ==
  /\ \E f \in {"put", "fin"} : Step(g, f) /\ Put(f)
  /\ outMutex = None
  /\ StepDone(g) /\ stale' = {}
  /\ UNCHANGED <<locks, handshakeCond, condWait, handshakeErr, handshakeComplete,
                 handshakes, closeVars, netOpen, peerGone, inbox, peerSent, drained,
                 inErr, outErr, input, hand, buffering, ghosts, pc, op, mode, failed, after>>

HandshakeFlush(g) ==
  /\ Step(g, "flush") /\ Flush
  /\ \/ NetUp /\ StepDone(g) /\ UNCHANGED <<failed, pc>>
     \/ ~NetUp /\ Fail(g) /\ UNCHANGED script
  /\ UNCHANGED <<locks, hsVars, closeVars, netOpen, peerGone, inbox, peerSent, drained,
                 inErr, outErr, input, hand, ghosts, op, mode, after>>

\* What a network read can return besides a record: data that has arrived stays
\* readable from rawInput after the connection is closed.
NetReadFails == ~netOpen \/ (peerGone /\ inbox = <<>>)

\* readHandshake: a message left in c.hand comes first.  A deadline leaves in.err
\* alone but fails the handshake.
HandshakeRead(g) ==
  /\ Step(g, "read")
  /\ \/ /\ hand # <<>>
        /\ hand' = Tail(hand)
        /\ \/ Head(hand) = "hs" /\ StepDone(g) /\ UNCHANGED <<failed, pc, after>>
           \/ /\ Head(hand) = "hreq"
              /\ failed' = [failed EXCEPT ![g] = TRUE] /\ AlertThen(g, "k_end")
              /\ UNCHANGED script
        /\ UNCHANGED <<inErr, inbox>>
     \/ /\ hand = <<>> /\ (inErr # None \/ Deadlines)
        /\ Fail(g)
        /\ UNCHANGED <<hand, inErr, inbox, script, after>>
     \/ /\ hand = <<>> /\ inErr = None /\ NetReadFails
        /\ inErr' = "net" /\ Fail(g)
        /\ UNCHANGED <<hand, inbox, script, after>>
     \/ /\ hand = <<>> /\ inErr = None /\ inbox # <<>>
        /\ inbox' = Tail(inbox)
        /\ \/ /\ Head(inbox) \in {"hs", "hreq"}
              /\ hand' = <<Head(inbox)>>
              /\ UNCHANGED <<inErr, script, failed, pc, after>>
           \/ /\ Head(inbox) = "warn"
              /\ UNCHANGED <<hand, inErr, script, failed, pc, after>>
           \/ /\ Head(inbox) \in {"app", "bad"}
              /\ failed' = [failed EXCEPT ![g] = TRUE] /\ AlertThen(g, "k_end")
              /\ inErr' = "local"
              /\ UNCHANGED <<hand, script>>
           \/ /\ Head(inbox) \in {"close", "fatal"}
              /\ inErr' = Head(inbox) /\ Fail(g)
              /\ UNCHANGED <<hand, script, after>>
  /\ UNCHANGED <<locks, hsVars, closeVars, netOpen, peerGone, peerSent, wire, drained,
                 outErr, input, buffering, sendBuf, ghosts, op, mode>>

HandshakeFinish(g) ==
  /\ At(g, "k_run") /\ script[g] = <<>>
  /\ handshakeComplete' = TRUE /\ stale' = RacingWriters
  /\ Goto(g, "k_end")
  /\ UNCHANGED <<locks, handshakeCond, condWait, handshakeErr, handshakes, closeVars,
                 netVars, recVars, ghosts, local>>

\* handshakeCond.Broadcast(); handshakeCond = nil
Broadcast_Lost == condWait' = condWait /\ handshakeCond' = FALSE
Broadcast      == condWait' = {} /\ handshakeCond' = FALSE

\* The end of Handshake: record the result, flush after an error, wake the
\* waiters, release handshakeMutex and in.Mutex.
HandshakeEnd(g) ==
  /\ At(g, "k_end") /\ mode[g] = "first"
  /\ handshakeErr' = failed[g]
  /\ handshakes' = IF failed[g] THEN handshakes ELSE handshakes + 1
  /\ IF failed[g] /\ sendBuf # <<>> THEN Flush ELSE UNCHANGED <<wire, sendBuf, buffering>>
  /\ panicked' = (panicked \/ (~failed[g] /\ ~handshakeComplete))
  /\ Broadcast
  /\ handshakeMutex' = None /\ inMutex' = None
  /\ Goto(g, HandshakeReturns(g, failed[g]))
  /\ UNCHANGED <<outMutex, handshakeComplete, stale, closeVars, netOpen, peerGone, inbox,
                 peerSent, drained, inErr, outErr, input, hand, okWrites, calls, local>>

\* The end of handleRenegotiation: record the result, release handshakeMutex.
RenegotiationEnd(g) ==
  /\ At(g, "k_end") /\ mode[g] = "reneg"
  /\ handshakeErr' = failed[g]
  /\ handshakes' = IF failed[g] THEN handshakes ELSE handshakes + 1
  /\ handshakeMutex' = None
  /\ Goto(g, IF failed[g] THEN "r_done" ELSE "r_loop")
  /\ UNCHANGED <<inMutex, outMutex, handshakeCond, condWait, handshakeComplete, stale,
                 closeVars, netVars, recVars, ghosts, local>>

-----------------------------------------------------------------------------
(* sendAlert: out.Mutex is taken, the alert written and out.err set.       *)

AlertLock(g) ==
  /\ At(g, "al_lock") /\ outMutex = None
  /\ outMutex' = g /\ Goto(g, "al_write")
  /\ UNCHANGED <<handshakeMutex, inMutex, hsVars, closeVars, netVars, recVars, ghosts, local>>

AlertWrite(g) ==
  /\ At(g, "al_write") /\ CanWrite
  /\ Put("alert")
  /\ outErr' = "local"
  /\ outMutex' = None
  /\ Goto(g, after[g])
  /\ UNCHANGED <<handshakeMutex, inMutex, hsVars, closeVars, netOpen, peerGone, inbox,
                 peerSent, drained, inErr, input, hand, buffering, ghosts, local>>

-----------------------------------------------------------------------------
(* Read, after its Handshake.                                              *)

ReadLock(g) ==
  /\ At(g, "r_lock") /\ inMutex = None
  /\ inMutex' = g /\ Goto(g, "r_loop")
  /\ UNCHANGED <<handshakeMutex, outMutex, hsVars, closeVars, netVars, recVars, ghosts, local>>

ReadDone(g) ==
  /\ At(g, "r_done")
  /\ inMutex' = None /\ Goto(g, "idle")
  /\ UNCHANGED <<handshakeMutex, outMutex, hsVars, closeVars, netVars, recVars, ghosts, local>>

\* Application data is handed over, in full or in part; an alert that is
\* already in rawInput is then read in the same call.
ReadInput(g) ==
  /\ At(g, "r_loop") /\ inErr = None /\ input
  /\ \/ input' = TRUE /\ Goto(g, "r_done")
     \/ input' = FALSE /\ Goto(g, "r_done")
     \/ /\ input' = FALSE /\ Goto(g, "r_peek")
        /\ inbox # <<>> /\ Head(inbox) \in {"warn", "close", "fatal"}
  /\ UNCHANGED <<locks, hsVars, closeVars, netVars, inErr, outErr, hand, buffering, sendBuf,
                 ghosts, local>>

ReadError(g) ==
  /\ At(g, "r_loop") /\ inErr # None
  /\ Goto(g, "r_done")
  /\ UNCHANGED <<locks, hsVars, closeVars, netVars, recVars, ghosts, local>>

\* readRecord(recordTypeApplicationData), in the loop of Read or for the alert
\* looked for after it.  In the loop, messages in c.hand lead to
\* handleRenegotiation once a record has been read; after the look-ahead they
\* stay for the next call.
AfterRecord(g) ==
  IF At(g, "r_peek") THEN "r_done" ELSE IF hand' # <<>> THEN "r_hand" ELSE "r_loop"

\* Application data may be asked of readRecord only outside a handshake.
InSync == handshakeComplete

\* A handshake record outside a handshake is kept only by such a client.
HandshakeTaken == IsClient /\ Renegotiation # "never"

ReadRecord(g) ==
  /\ pc[g] \in {"r_loop", "r_peek"}
  /\ At(g, "r_loop") => inErr = None /\ ~input
  /\ \/ /\ ~InSync
        /\ inErr' = "local" /\ AlertThen(g, "r_done")
        /\ UNCHANGED <<inbox, input, hand>>
     \/ /\ InSync /\ Deadlines
        /\ Goto(g, "r_done")
        /\ UNCHANGED <<inErr, inbox, input, hand, after>>
     \/ /\ InSync /\ NetReadFails
        /\ inErr' = "net" /\ Goto(g, "r_done")
        /\ UNCHANGED <<inbox, input, hand, after>>
     \/ /\ InSync /\ inbox # <<>>
        /\ inbox' = Tail(inbox)
        /\ \/ /\ Head(inbox) = "app"
              /\ input' = TRUE /\ hand' = hand /\ Goto(g, AfterRecord(g))
              /\ UNCHANGED <<inErr, after>>
           \/ /\ Head(inbox) = "warn"
              /\ UNCHANGED <<inErr, input, hand, pc, after>>
           \/ /\ Head(inbox) \in {"hs", "hreq"} /\ HandshakeTaken
              /\ hand' = Append(hand, Head(inbox)) /\ Goto(g, AfterRecord(g))
              /\ UNCHANGED <<inErr, input, after>>
           \/ /\ Head(inbox) \in {"close", "fatal"}
              /\ inErr' = Head(inbox) /\ Goto(g, "r_done")
              /\ UNCHANGED <<input, hand, after>>
           \/ /\ Head(inbox) = "bad" \/ (Head(inbox) \in {"hs", "hreq"} /\ ~HandshakeTaken)
              /\ inErr' = "local" /\ AlertThen(g, "r_done")
              /\ UNCHANGED <<input, hand>>
  /\ UNCHANGED <<locks, hsVars, closeVars, netOpen, peerGone, peerSent, wire, drained,
                 outErr, buffering, sendBuf, ghosts, op, mode, script, failed>>

\* handleRenegotiation up to clientHandshake: anything but a HelloRequest is refused, and so is a
\* second renegotiation with RenegotiateOnceAsClient; these errors do not go into in.err.
MayRenegotiate       == Renegotiation = "once" => handshakes <= 1

Renegotiate(g) ==
  /\ At(g, "r_hand")
  /\ IF Head(hand) = "hreq" /\ MayRenegotiate
     THEN /\ handshakeMutex = None
          /\ handshakeMutex' = g
          /\ handshakeComplete' = FALSE /\ stale' = RacingWriters
          /\ mode' = [mode EXCEPT ![g] = "reneg"]
          /\ failed' = [failed EXCEPT ![g] = FALSE]
          /\ script' = [script EXCEPT ![g] = FullClientScript]
          /\ Goto(g, "k_run") /\ UNCHANGED after
     ELSE /\ AlertThen(g, "r_done")
          /\ UNCHANGED <<handshakeMutex, handshakeComplete, stale, mode, failed, script>>
  /\ hand' = Tail(hand)
  /\ UNCHANGED <<inMutex, outMutex, handshakeCond, condWait, handshakeErr, handshakes,
                 closeVars, netVars, inErr, outErr, input, buffering, sendBuf, ghosts, op>>

-----------------------------------------------------------------------------
(* Write.                                                                  *)

\* Mutant: the check of the closed bit is lost.
WriteEnter_Unchecked(g) ==
  /\ At(g, "w_enter")
  /\ writers' = writers + 1 /\ Goto(g, "hs_lock")
  /\ UNCHANGED <<locks, hsVars, closed, quietClose, closeNotifySent, netVars, recVars,
                 ghosts, local>>
WriteEnter(g) ==
  /\ At(g, "w_enter")
  /\ \/ closed /\ Goto(g, "idle") /\ UNCHANGED writers
     \/ ~closed /\ writers' = writers + 1 /\ Goto(g, "hs_lock")
  /\ UNCHANGED <<locks, hsVars, closed, quietClose, closeNotifySent, netVars, recVars,
                 ghosts, local>>

WriteLock(g) ==
  /\ At(g, "w_lock") /\ outMutex = None
  /\ outMutex' = g /\ Goto(g, "w_check")
  /\ UNCHANGED <<handshakeMutex, inMutex, hsVars, closeVars, netVars, recVars, ghosts, local>>

\* The value of handshakeComplete that Write may see.
SeesComplete(g) == {handshakeComplete} \cup (IF g \in stale THEN {~handshakeComplete} ELSE {})

\* The three tests Write makes with out.Mutex held, and a mutant that loses one.
WriteAllowed_IgnoresShutdown(complete) == outErr = None /\ complete
WriteAllowed(complete) == outErr = None /\ complete /\ ~closeNotifySent

WriteCheck(g) ==
  /\ At(g, "w_check")
  /\ \E complete \in SeesComplete(g) :
       IF WriteAllowed(complete)
       THEN Goto(g, "w_send") /\ UNCHANGED outMutex
       ELSE Goto(g, "w_exit") /\ outMutex' = None
  /\ stale' = stale \ {g}
  /\ UNCHANGED <<handshakeMutex, inMutex, handshakeCond, condWait, handshakeErr,
                 handshakeComplete, handshakes, closeVars, netVars, recVars, ghosts, local>>

\* writeRecordLocked of the data, out.Mutex being held; its error becomes out.err.
WriteSend(g) ==
  /\ At(g, "w_send") /\ CanWrite
  /\ Put("app")
  /\ outErr' = IF WriteFails THEN "net" ELSE None
  /\ okWrites' = IF WriteFails THEN okWrites ELSE okWrites + 1
  /\ outMutex' = None /\ Goto(g, "w_exit")
  /\ UNCHANGED <<handshakeMutex, inMutex, hsVars, closeVars, netOpen, peerGone, inbox,
                 peerSent, drained, inErr, input, hand, buffering, panicked, calls, local>>

WriteExit(g) ==
  /\ At(g, "w_exit")
  /\ writers' = writers - 1 /\ Goto(g, "idle")
  /\ UNCHANGED <<locks, hsVars, closed, quietClose, closeNotifySent, netVars, recVars,
                 ghosts, local>>

-----------------------------------------------------------------------------
(* Close and CloseWrite.                                                   *)

\* A Close that finds a Write in flight closes the network connection at once.
CloseEnter(g) ==
  /\ At(g, "c_enter")
  /\ \/ closed /\ Goto(g, "idle") /\ UNCHANGED <<closed, quietClose, netOpen>>
     \/ /\ ~closed /\ closed' = TRUE
        /\ \/ writers = 0 /\ quietClose' = TRUE /\ Goto(g, "c_lock") /\ UNCHANGED netOpen
           \/ writers # 0 /\ netOpen' = FALSE /\ Goto(g, "idle") /\ UNCHANGED quietClose
  /\ UNCHANGED <<locks, hsVars, writers, closeNotifySent, peerGone, inbox, peerSent, wire,
                 drained, recVars, ghosts, local>>

CloseLock(g) ==
  /\ At(g, "c_lock") /\ handshakeMutex = None
  /\ handshakeMutex' = g
  /\ Goto(g, IF handshakeComplete THEN "c_out" ELSE "c_end")
  /\ UNCHANGED <<inMutex, outMutex, hsVars, closeVars, netVars, recVars, ghosts, local>>

\* closeNotify
CloseNotifyLock(g) ==
  /\ At(g, "c_out") /\ outMutex = None
  /\ outMutex' = g /\ Goto(g, "c_alert")
  /\ UNCHANGED <<handshakeMutex, inMutex, hsVars, closeVars, netVars, recVars, ghosts, local>>

CloseNotify(g) ==
  /\ At(g, "c_alert")
  /\ \/ closeNotifySent /\ UNCHANGED <<closeNotifySent, sendBuf, wire>>
     \/ ~closeNotifySent /\ CanWrite /\ Put("close") /\ closeNotifySent' = TRUE
  /\ outMutex' = None /\ Goto(g, "c_end")
  /\ UNCHANGED <<handshakeMutex, inMutex, hsVars, closed, writers, quietClose, netOpen,
                 peerGone, inbox, peerSent, drained, inErr, outErr, input, hand, buffering,
                 ghosts, local>>

CloseEnd(g) ==
  /\ At(g, "c_end")
  /\ netOpen' = (netOpen /\ op[g] = "CloseWrite")
  /\ handshakeMutex' = None /\ Goto(g, "idle")
  /\ UNCHANGED <<inMutex, outMutex, hsVars, closeVars, peerGone, inbox, peerSent, wire,
                 drained, recVars, ghosts, local>>

-----------------------------------------------------------------------------
HandshakeBody(g) ==
  \/ HandshakeBuffer(g) \/ HandshakeHelloLock(g) \/ HandshakeHello(g) \/ HandshakePut(g)
  \/ HandshakeFlush(g) \/ HandshakeRead(g) \/ HandshakeFinish(g)
  \/ HandshakeEnd(g) \/ RenegotiationEnd(g)
HandshakeCall(g) == HandshakeCheck(g) \/ HandshakeLockIn(g) \/ HandshakeBegin(g)
Alert(g)     == AlertLock(g) \/ AlertWrite(g)
ReadCall(g)  == ReadLock(g) \/ ReadInput(g) \/ ReadError(g) \/ ReadRecord(g)
                \/ Renegotiate(g) \/ ReadDone(g)
WriteCall(g) == WriteEnter(g) \/ WriteLock(g) \/ WriteCheck(g) \/ WriteSend(g) \/ WriteExit(g)
CloseCall(g) == CloseEnter(g) \/ CloseLock(g) \/ CloseNotifyLock(g) \/ CloseNotify(g)
                \/ CloseEnd(g)

\* A step of a call in progress.
Run(g) == HandshakeCall(g) \/ HandshakeBody(g) \/ Alert(g) \/ ReadCall(g)
          \/ WriteCall(g) \/ CloseCall(g)

Peer == PeerSend \/ PeerDrain \/ PeerHangup

\* Every call has returned and no more will be made.
Finished == peerGone /\ calls = MaxCalls /\ \A g \in G : At(g, "idle")
Done == Finished /\ UNCHANGED vars

Next == Peer \/ Done \/ \E g \in G : Call(g) \/ Run(g)

Spec == Init /\ [][Next]_vars

\* The Go scheduler runs every goroutine that can run.  Nothing is assumed of the
\* peer, and no goroutine has to make a call.
FairSpec == Spec /\ \A g \in G : WF_vars(Run(g))

-----------------------------------------------------------------------------
(* Properties.                                                             *)

PCs == {"idle", "hs_lock", "hs_wait", "hs_in", "hs_relock", "k_run", "k_hello", "k_end",
        "al_lock", "al_write", "r_lock", "r_loop", "r_peek", "r_hand", "r_done",
        "w_enter", "w_lock", "w_check", "w_send", "w_exit",
        "c_enter", "c_lock", "c_out", "c_alert", "c_end"}
Errors      == {None, "net", "local", "close", "fatal"}
WireRecords == {"hello", "put", "fin", "alert", "app", "close"}
ScriptSteps == {"hello", "read", "buffer", "put", "fin", "flush"}

\* Every variable has the type of the field it stands for.
TypeOK ==
  /\ handshakeMutex \in G \cup {None}
  /\ inMutex \in G \cup {None} /\ outMutex \in G \cup {None}
  /\ handshakeCond \in BOOLEAN /\ condWait \subseteq G /\ stale \subseteq G
  /\ handshakeErr \in BOOLEAN /\ handshakeComplete \in BOOLEAN /\ handshakes \in Nat
  /\ inErr \in Errors /\ outErr \in Errors
  /\ closed \in BOOLEAN /\ writers \in Nat
  /\ quietClose \in BOOLEAN /\ closeNotifySent \in BOOLEAN
  /\ netOpen \in BOOLEAN /\ peerGone \in BOOLEAN
  /\ inbox \in Seq(AllPeerKinds) /\ peerSent \in Nat
  /\ input \in BOOLEAN /\ hand \in Seq({"hs", "hreq"})
  /\ buffering \in BOOLEAN /\ sendBuf \in Seq(WireRecords)
  /\ wire \in Seq(WireRecords) /\ drained \in Nat
  /\ okWrites \in Nat /\ panicked \in BOOLEAN /\ calls \in Nat
  /\ pc \in [G -> PCs] /\ op \in [G -> AllOps]
  /\ mode \in [G -> {"first", "reneg"}] /\ script \in [G -> Seq(ScriptSteps)]
  /\ failed \in [G -> BOOLEAN] /\ after \in [G -> {"idle", "k_end", "r_done"}]

\* Neither panic of Handshake is reachable: no handshake finishes between the
\* moment a goroutine sets handshakeCond and the moment it holds handshakeMutex
\* again, and a handshake that succeeds is complete.
NoPanic == ~panicked

\* The goroutine committed to the handshake never waits for in.Mutex: no Read
\* that hangs in the network can be holding it (the comment in Handshake).
CommitterGetsIn == \A g \in G : At(g, "hs_in") => inMutex = None

InWrite(g) == op[g] = "Write" /\ pc[g] \notin {"idle", "w_enter"}

\* activeCall interlocks Write and Close: once a Close has decided to use the Conn
\* (close_notify, and the mutexes it needs), no Write is or will be in progress.
CloseInterlock == quietClose => \A g \in G : ~InWrite(g)

\* close_notify ends the data this side sends, and is sent once; and data is sent only
\* between handshakes (the last handshake record before it is a Finished), although Write
\* takes neither in.Mutex nor handshakeMutex and reads handshakeComplete in a race.
WireInOrder ==
  \A j \in 1..Len(wire) :
    /\ wire[j] \in {"app", "close"} => \A i \in 1..(j - 1) : wire[i] # "close"
    /\ wire[j] = "app" => \E i \in 1..(j - 1) : /\ wire[i] = "fin"
                                                /\ \A k \in (i + 1)..(j - 1) : wire[k] \notin {"hello", "put"}

\* A Write that returned a nil error has put its data on the network: data is
\* never left behind in sendBuf by a renegotiation that is buffering.
AckedWritesOnWire ==
  okWrites = Cardinality({i \in 1..Len(wire) : wire[i] = "app"})

\* What the network gets is in order and holds the data of every Write that succeeded.
WireFaithful == WireInOrder /\ AckedWritesOnWire

\* The result of a failed handshake is permanent: no renegotiation clears it.
HandshakeErrSticky == [][handshakeErr => handshakeErr']_handshakeErr

\* When the network connection is gone every call returns: no mutex is left
\* locked, no waiter of handshakeCond is forgotten, no two calls wait for each
\* other.
CallsReturn == \A g \in G : (~NetUp /\ ~At(g, "idle")) ~> At(g, "idle")

\* A Write (or a Handshake) that finds the handshake complete returns even if a
\* Read hangs in the network holding in.Mutex, as long as the peer reads; only a
\* renegotiation, which the peer may leave unfinished, can hold it up.
NotBlockedByRead ==
  \A g \in G : (At(g, "hs_lock") /\ op[g] # "Read" /\ handshakeComplete)
               ~> (At(g, "idle") \/ ~handshakeComplete)

\* Calls end: when the connection is gone all of them, and a Write whatever a Read is waiting for.
CallsEnd == CallsReturn /\ NotBlockedByRead

\* FairSpec with a peer that reads what it is sent.
DrainSpec == FairSpec /\ WF_vars(PeerDrain)

=============================================================================
