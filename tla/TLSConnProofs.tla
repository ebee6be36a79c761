--------------------------- MODULE TLSConnProofs ---------------------------
(***************************************************************************)
(* Proofs about TLSConn for any set of goroutines, any peer and any        *)
(* bounds: its type invariant, the ownership of the three mutexes, the     *)
(* interlock of Write and Close, the commitment protocol of Handshake, the *)
(* permanence of its error, and what the network gets.                     *)
(***************************************************************************)
EXTENDS TLSConn, FiniteSetTheorems, SequenceTheorems, TLAPS

-----------------------------------------------------------------------------
(* The inductive invariant.                                                *)

\* g runs a handshake: it holds handshakeMutex and in.Mutex.
InAlert(g)     == pc[g] \in {"al_lock", "al_write"}
InHandshake(g) == pc[g] \in {"k_run", "k_hello", "k_end"} \/ (InAlert(g) /\ after[g] = "k_end")

HoldsIn(g)  == pc[g] \in {"hs_relock", "k_run", "k_hello", "k_end", "al_lock", "al_write",
                          "r_loop", "r_peek", "r_hand", "r_done"}
HoldsHs(g)  == InHandshake(g) \/ pc[g] \in {"c_out", "c_alert", "c_end"}
HoldsOut(g) == pc[g] \in {"k_hello", "al_write", "w_check", "w_send", "c_alert"}

\* Each mutex is held by the goroutine whose control point says so.
LockInv ==
  /\ \A g \in G : inMutex = g <=> HoldsIn(g)
  /\ \A g \in G : handshakeMutex = g <=> HoldsHs(g)
  /\ \A g \in G : outMutex = g <=> HoldsOut(g)

\* A goroutine is only where its call can be.
CallInv == \A g \in G :
  /\ InAlert(g) => after[g] \in {"k_end", "r_done"}
  /\ \/ pc[g] \in {"r_lock", "r_loop", "r_peek", "r_hand", "r_done"}
     \/ InAlert(g) /\ after[g] = "r_done"
     \/ InHandshake(g) /\ mode[g] = "reneg"
     => op[g] = "Read"
  /\ pc[g] \in {"w_enter", "w_lock", "w_check", "w_send", "w_exit"} => op[g] = "Write"
  /\ pc[g] \in {"c_enter", "c_lock", "c_out", "c_alert", "c_end"} => op[g] \in {"Close", "CloseWrite"}

\* The ClientHello is a step of the script.
HelloInv == \A g \in G : pc[g] = "k_hello" => script[g] # <<>>

Writing == {g \in G : InWrite(g)}

\* activeCall counts the Write calls in progress.
CountInv == /\ writers = Cardinality(Writing)
            /\ quietClose => closed /\ writers = 0

\* g is the goroutine that has set handshakeCond.
Committing(g) == pc[g] \in {"hs_in", "hs_relock"} \/ (InHandshake(g) /\ mode[g] = "first")

\* g is in the part of Read that follows a successful Handshake.
PastHandshake(g) ==
  \/ pc[g] \in {"r_lock", "r_loop", "r_peek", "r_hand", "r_done"}
  \/ InAlert(g) /\ after[g] = "r_done"
  \/ InHandshake(g) /\ mode[g] = "reneg"

\* The goroutine that has set handshakeCond is alone and the first handshake has
\* no result yet; until it has one nobody gets past Handshake.
CommitInv ==
  /\ \A g \in G : Committing(g) => handshakeCond /\ ~handshakeErr /\ handshakes = 0
  /\ \A g \in G : Committing(g) /\ ~InHandshake(g) => ~handshakeComplete
  /\ \A g \in G : PastHandshake(g) => handshakeErr \/ handshakes > 0
OneCommits == \A g, h \in G : Committing(g) /\ Committing(h) => g = h

\* The result while a handshake runs.
RunningInv == \A g \in G : InHandshake(g) =>
  /\ ~handshakeErr
  /\ pc[g] = "k_end" => (handshakeComplete <=> ~failed[g])
  /\ pc[g] # "k_end" => ~handshakeComplete
  /\ InAlert(g) => failed[g]
  /\ pc[g] \in {"k_run", "k_hello"} => ~failed[g]

\* The result between handshakes: complete, failed, or not yet known.
CompleteInv == handshakeComplete =>
  ~handshakeErr /\ (handshakes > 0 \/ \E g \in G : InHandshake(g) /\ mode[g] = "first")
RenegInv == handshakes > 0 /\ ~handshakeErr /\ ~handshakeComplete =>
  \E g \in G : InHandshake(g) /\ mode[g] = "reneg"

\* A renegotiation is only begun on a completed handshake.
HandInv == \A g \in G : pc[g] = "r_hand" => handshakeComplete /\ hand # <<>>

LocalInv == CallInv /\ HelloInv /\ RunningInv /\ HandInv
IInv == TypeOK /\ LockInv /\ LocalInv /\ CountInv /\ CommitInv /\ OneCommits
        /\ CompleteInv /\ RenegInv /\ NoPanic

USE DEF At, Goto, locks, hsVars, closeVars, netVars, recVars, ghosts, local

-----------------------------------------------------------------------------
(* Steps that leave the standing of every call as it is.                   *)

\* What a step of g leaves alone: the control state of the others, and the result
\* of the handshake with the activeCall word.
Others(g) == \A h \in G \ {g} :
  /\ pc'[h] = pc[h] /\ op'[h] = op[h] /\ mode'[h] = mode[h] /\ after'[h] = after[h]
  /\ failed'[h] = failed[h] /\ script'[h] = script[h]
ResultKept == UNCHANGED <<handshakeErr, handshakeComplete, handshakes, handshakeCond,
                          writers, closed, quietClose, panicked>>
StandingKept(g) ==
  /\ op'[g] = op[g]
  /\ InWrite(g)' <=> InWrite(g)
  /\ Committing(g)' <=> Committing(g)
  /\ InHandshake(g) => InHandshake(g)' /\ mode'[g] = mode[g]
  /\ PastHandshake(g)' => PastHandshake(g)
Quiet(g) == Others(g) /\ ResultKept /\ StandingKept(g)

\* A step that leaves the standing of every call preserves what is said about
\* the results of handshakes and about activeCall.
LEMMA QuietStep ==
  ASSUME NEW g \in G, IInv, Quiet(g)
  PROVE  CountInv' /\ CommitInv' /\ OneCommits' /\ CompleteInv' /\ RenegInv' /\ NoPanic'
<1> USE DEF IInv, Quiet, Others, ResultKept, StandingKept
<1>1. \A h \in G : /\ InWrite(h)' <=> InWrite(h)
                   /\ Committing(h)' <=> Committing(h)
                   /\ InHandshake(h) => InHandshake(h)' /\ mode'[h] = mode[h]
                   /\ PastHandshake(h)' => PastHandshake(h)
  BY DEF InWrite, Committing, InHandshake, InAlert, PastHandshake
<1>2. CountInv'
  <2>1. Writing' = Writing
    BY <1>1 DEF Writing
  <2> QED  BY <2>1 DEF CountInv
<1>3. CommitInv'
  BY <1>1 DEF CommitInv
<1>4. OneCommits'
  BY <1>1 DEF OneCommits
<1>5. CompleteInv'
  BY <1>1 DEF CompleteInv
<1>6. RenegInv'
  BY <1>1 DEF RenegInv
<1> QED  BY <1>2, <1>3, <1>4, <1>5, <1>6 DEF NoPanic

-----------------------------------------------------------------------------
(* Facts about the helpers of the actions.                                 *)

\* Dropping the first step of one goroutine's script leaves scripts.
LEMMA TailType ==
  ASSUME NEW S, NEW f \in [G -> Seq(S)], NEW g \in G, f[g] # <<>>
  PROVE  [f EXCEPT ![g] = Tail(f[g])] \in [G -> Seq(S)]
<1>1. Tail(f[g]) \in Seq(S)
  BY HeadTailProperties
<1> QED  BY <1>1

\* The step that follows from the state of g alone, once the rest is known.
LEMMA QuietLocks ==
  ASSUME NEW g \in G, IInv, Quiet(g), UNCHANGED locks,
         HoldsIn(g)' <=> HoldsIn(g), HoldsHs(g)' <=> HoldsHs(g), HoldsOut(g)' <=> HoldsOut(g)
  PROVE  LockInv'
BY DEF IInv, LockInv, Quiet, Others, HoldsIn, HoldsHs, HoldsOut, InHandshake, InAlert

\* What write does to sendBuf and to the network leaves sequences of records.
LEMMA PutType ==
  ASSUME IInv, NEW r \in WireRecords, Put(r)
  PROVE  sendBuf' \in Seq(WireRecords) /\ wire' \in Seq(WireRecords)
BY DEF IInv, TypeOK, Put

\* So does what flush does.
LEMMA FlushType ==
  ASSUME IInv, Flush
  PROVE  /\ sendBuf' \in Seq(WireRecords) /\ wire' \in Seq(WireRecords)
         /\ buffering' \in BOOLEAN
<1>1. sendBuf \in Seq(WireRecords) /\ wire \in Seq(WireRecords) /\ buffering \in BOOLEAN
  BY DEF IInv, TypeOK
<1>2. wire \o sendBuf \in Seq(WireRecords)
  BY <1>1, ConcatProperties
<1>3. wire' = wire \o sendBuf \/ wire' = wire
  BY DEF Flush
<1>4. sendBuf' = <<>> /\ (buffering' = buffering \/ buffering' = FALSE)
  BY DEF Flush
<1>5. <<>> \in Seq(WireRecords)
  OBVIOUS
<1>6. sendBuf' \in Seq(WireRecords)
  BY <1>4, <1>5
<1>7. wire' \in Seq(WireRecords)
  BY <1>1, <1>2, <1>3
<1>8. buffering' \in BOOLEAN
  BY <1>1, <1>4
<1> QED  BY <1>6, <1>7, <1>8

\* A step of a handshake leaves scripts.
LEMMA ScriptType ==
  ASSUME IInv, NEW g \in G, \/ script' = script
                            \/ script[g] # <<>> /\ script' = [script EXCEPT ![g] = Tail(script[g])]
  PROVE  script' \in [G -> Seq(ScriptSteps)]
<1>1. script \in [G -> Seq(ScriptSteps)]
  BY DEF IInv, TypeOK
<1> QED  BY <1>1, TailType

\* Finitely many Write calls are in progress.
LEMMA WritingFinite == IsFiniteSet(Writing)
BY ConstantsAssumption, FS_Subset DEF Writing

\* A Write in progress has been counted.
LEMMA WritersPositive ==
  ASSUME NEW g \in G, IInv, InWrite(g)  PROVE writers > 0
<1>1. Writing # {}
  BY DEF Writing
<1> QED  BY <1>1, WritingFinite, FS_EmptySet, FS_CardinalityType DEF IInv, CountInv, TypeOK


-----------------------------------------------------------------------------
(* Each action preserves the invariant.                                    *)

\* A goroutine commits only when no other one has; one that finds a result leaves
\* Handshake with it.
LEMMA HandshakeCheckStep ==
  ASSUME NEW g \in G, IInv, HandshakeCheck(g)  PROVE IInv'
<1>1. /\ pc[g] \in {"hs_lock", "hs_wait"} /\ handshakeMutex = None
      /\ UNCHANGED <<locks, handshakeErr, handshakeComplete, handshakes, stale, closeVars,
                     netVars, recVars, ghosts, local>>
  BY DEF HandshakeCheck, CheckLocks, HasFailed
<1>2. \A h \in G : ~InHandshake(h)
  BY <1>1, ConstantsAssumption DEF IInv, LockInv, HoldsHs
<1>3. CASE handshakeErr \/ handshakeComplete \/ handshakeCond
  <2>1. /\ \/ pc' = [pc EXCEPT ![g] = HandshakeReturns(g, TRUE)]
           \/ pc' = [pc EXCEPT ![g] = HandshakeReturns(g, FALSE)] /\ ~handshakeErr /\ handshakeComplete
           \/ pc' = [pc EXCEPT ![g] = "hs_wait"]
        /\ condWait' \subseteq G /\ handshakeCond' = handshakeCond
    BY <1>3 DEF HandshakeCheck, HasFailed, Committed, IInv, TypeOK
  <2>2. /\ HandshakeReturns(g, TRUE) \in {"idle", "w_exit"}
        /\ HandshakeReturns(g, TRUE) = "w_exit" <=> op[g] = "Write"
        /\ HandshakeReturns(g, FALSE) \in {"idle", "w_lock", "r_lock"}
        /\ HandshakeReturns(g, FALSE) = "w_lock" <=> op[g] = "Write"
        /\ HandshakeReturns(g, FALSE) = "r_lock" => op[g] = "Read"
    BY DEF HandshakeReturns
  <2>3. {"idle", "w_exit", "w_lock", "r_lock", "hs_wait"} \subseteq PCs
    BY DEF PCs
  <2>4. pc' \in [G -> PCs] /\ \A h \in G \ {g} : pc'[h] = pc[h]
    <3>1. PICK l \in {"idle", "w_exit", "w_lock", "r_lock", "hs_wait"} : pc' = [pc EXCEPT ![g] = l]
      BY <2>1, <2>2
    <3>2. l \in PCs
      BY <2>3
    <3> QED  BY <3>1, <3>2 DEF IInv, TypeOK
  <2>5. /\ pc'[g] \in {"idle", "w_exit", "w_lock", "r_lock", "hs_wait"}
        /\ pc'[g] \in {"w_exit", "w_lock"} => op[g] = "Write"
        /\ pc'[g] = "idle" => op[g] # "Write"
        /\ pc'[g] = "r_lock" => op[g] = "Read" /\ ~handshakeErr /\ handshakeComplete
    BY <2>1, <2>2 DEF IInv, TypeOK
  <2>6. TypeOK'
    BY <1>1, <2>1, <2>4 DEF IInv, TypeOK
  <2>7. LockInv'
    BY <1>1, <2>4, <2>5 DEF IInv, LockInv, HoldsIn, HoldsHs, HoldsOut, InHandshake, InAlert
  <2>8. LocalInv'
    BY <1>1, <2>4, <2>5 DEF IInv, LocalInv, CallInv, HelloInv, RunningInv, HandInv, InHandshake, InAlert
  <2>9. \A h \in G : /\ InWrite(h)' <=> InWrite(h)
                     /\ Committing(h)' <=> Committing(h)
                     /\ InHandshake(h)' <=> InHandshake(h)
    BY <1>1, <2>4, <2>5 DEF InWrite, Committing, InHandshake, InAlert
  <2>10. CountInv'
    <3>1. Writing' = Writing
      BY <2>9 DEF Writing
    <3> QED  BY <1>1, <3>1 DEF IInv, CountInv
  <2>11. CommitInv'
    BY <1>2, <2>5, <1>1, <2>4, <2>1, <2>9 DEF IInv, CompleteInv, PastHandshake, InHandshake, InAlert, CommitInv
  <2>12. OneCommits' /\ CompleteInv' /\ RenegInv' /\ NoPanic'
    BY <1>1, <2>9 DEF IInv, OneCommits, CompleteInv, RenegInv, NoPanic
  <2> QED  BY <2>6, <2>7, <2>8, <2>10, <2>11, <2>12 DEF IInv
<1>4. CASE ~handshakeErr /\ ~handshakeComplete /\ ~handshakeCond
  <2>1. pc' = [pc EXCEPT ![g] = "hs_in"] /\ handshakeCond' = TRUE /\ condWait' = condWait
    BY <1>4 DEF HandshakeCheck, HasFailed, Committed
  <2>2. pc' \in [G -> PCs] /\ pc'[g] = "hs_in" /\ \A h \in G \ {g} : pc'[h] = pc[h]
    BY <2>1 DEF IInv, TypeOK, PCs
  <2>3. handshakes = 0
    BY <1>2, <1>4 DEF IInv, TypeOK, RenegInv
  <2>4. TypeOK'
    BY <1>1, <2>1, <2>2 DEF IInv, TypeOK
  <2>5. LockInv' /\ LocalInv'
    BY <1>1, <2>2 DEF IInv, LockInv, HoldsIn, HoldsHs, HoldsOut, LocalInv, CallInv, HelloInv,
           RunningInv, HandInv, InHandshake, InAlert
  <2>6. \A h \in G : /\ InWrite(h)' <=> InWrite(h)
                     /\ Committing(h)' <=> h = g
                     /\ InHandshake(h)' <=> InHandshake(h)
                     /\ PastHandshake(h)' <=> PastHandshake(h)
    BY <1>4, <1>1, <2>2 DEF IInv, CommitInv, InWrite, Committing, PastHandshake, InHandshake, InAlert
  <2>7. CountInv'
    <3>1. Writing' = Writing
      BY <2>6 DEF Writing
    <3> QED  BY <1>1, <3>1 DEF IInv, CountInv
  <2>8. CommitInv'
    BY <1>1, <1>4, <2>1, <2>3, <2>6 DEF IInv, CommitInv
  <2>9. OneCommits' /\ CompleteInv' /\ RenegInv' /\ NoPanic'
    BY <1>1, <1>4, <2>3, <2>6 DEF IInv, OneCommits, CompleteInv, RenegInv, NoPanic
  <2> QED  BY <2>4, <2>5, <2>7, <2>8, <2>9 DEF IInv
<1> QED  BY <1>3, <1>4


\* Taking in.Mutex for the handshake.
LEMMA HandshakeLockInStep ==
  ASSUME NEW g \in G, IInv, HandshakeLockIn(g)  PROVE IInv'
<1> USE DEF HandshakeLockIn
<1>1. TypeOK'
  BY DEF IInv, TypeOK, PCs, Errors, WireRecords, ScriptSteps, AllOps, AllPeerKinds
<1>2. Quiet(g)
  BY DEF IInv, TypeOK, LocalInv, CallInv, RunningInv, CommitInv, NoPanic, Quiet, Others, ResultKept, StandingKept,
         InWrite, Committing, PastHandshake, InHandshake, InAlert
<1>3. LockInv'
  BY <1>2, ConstantsAssumption DEF IInv, TypeOK, LocalInv, CallInv, LockInv, Quiet, Others,
         HoldsIn, HoldsHs, HoldsOut, InHandshake, InAlert
<1>4. LocalInv'
  BY <1>2 DEF IInv, TypeOK, LockInv, HoldsIn, HoldsHs, LocalInv, CallInv, HelloInv, RunningInv, HandInv, Quiet, Others,
         ResultKept, StandingKept, InHandshake, InAlert
<1> QED  BY <1>1, <1>2, <1>3, <1>4, QuietStep DEF IInv

\* The handshake begins without a result: neither panic condition holds.
LEMMA HandshakeBeginStep ==
  ASSUME NEW g \in G, IInv, HandshakeBegin(g)  PROVE IInv'
<1>1. /\ pc[g] = "hs_relock" /\ pc' = [pc EXCEPT ![g] = "k_run"]
      /\ mode' = [mode EXCEPT ![g] = "first"] /\ failed' = [failed EXCEPT ![g] = FALSE]
      /\ handshakeMutex = None /\ handshakeMutex' = g
      /\ panicked' = (panicked \/ handshakeErr \/ handshakeComplete)
      /\ UNCHANGED <<inMutex, outMutex, hsVars, closeVars, netVars, recVars, okWrites,
                     calls, op, after>>
  BY DEF HandshakeBegin
<1>2. ~handshakeErr /\ ~handshakeComplete /\ panicked' = panicked
  BY <1>1 DEF IInv, TypeOK, CommitInv, Committing, InHandshake, InAlert, NoPanic
<1>3. PICK s \in Scripts : script' = [script EXCEPT ![g] = s]
  BY DEF HandshakeBegin
<1>4. s \in Seq(ScriptSteps)
  <2>1. FullClientScript \in Seq(ScriptSteps)
    BY DEF FullClientScript, ScriptSteps
  <2>2. <<"hello", "read", "buffer", "read", "fin", "flush">> \in Seq(ScriptSteps)
    BY DEF ScriptSteps
  <2>3. <<"read", "buffer", "put", "flush", "read", "buffer", "fin", "flush">> \in Seq(ScriptSteps)
    BY DEF ScriptSteps
  <2>4. <<"read", "buffer", "fin", "flush", "read">> \in Seq(ScriptSteps)
    BY DEF ScriptSteps
  <2> QED  BY <2>1, <2>2, <2>3, <2>4 DEF Scripts
<1>5. TypeOK'
  BY <1>3, <1>4, <1>1, <1>2 DEF IInv, TypeOK, PCs
<1>6. Quiet(g)
  BY <1>1, <1>2, <1>3 DEF IInv, TypeOK, Quiet, Others, ResultKept, StandingKept, InWrite,
         Committing, PastHandshake, InHandshake, InAlert
<1>7. LockInv'
  BY <1>1, ConstantsAssumption DEF IInv, TypeOK, LockInv, LocalInv, CallInv,
         HoldsIn, HoldsHs, HoldsOut, InHandshake, InAlert
<1>8. LocalInv'
  BY <1>1, <1>2, <1>6 DEF IInv, TypeOK, LocalInv, CallInv, HelloInv, RunningInv, HandInv, Quiet,
         Others, ResultKept, StandingKept, InHandshake, InAlert
<1> QED  BY <1>5, <1>6, <1>7, <1>8, QuietStep DEF IInv


\* Buffering changes nothing the invariant speaks of.
LEMMA HandshakeBufferStep ==
  ASSUME NEW g \in G, IInv, HandshakeBuffer(g)  PROVE IInv'
<1> USE DEF HandshakeBuffer, Step, StepDone
<1>1. TypeOK'
  BY DEF IInv, TypeOK, PCs, Errors, WireRecords, ScriptSteps, AllOps, AllPeerKinds
<1>2. Quiet(g)
  BY DEF IInv, TypeOK, LocalInv, CallInv, RunningInv, CommitInv, NoPanic, Quiet, Others, ResultKept, StandingKept,
         InWrite, Committing, PastHandshake, InHandshake, InAlert
<1>3. LockInv'
  BY <1>2, ConstantsAssumption DEF IInv, TypeOK, LocalInv, CallInv, LockInv, Quiet, Others,
         HoldsIn, HoldsHs, HoldsOut, InHandshake, InAlert
<1>4. LocalInv'
  BY <1>2 DEF IInv, TypeOK, LockInv, HoldsIn, HoldsHs, LocalInv, CallInv, HelloInv, RunningInv, HandInv, Quiet, Others,
         ResultKept, StandingKept, InHandshake, InAlert
<1> QED  BY <1>1, <1>2, <1>3, <1>4, QuietStep DEF IInv

\* Taking out.Mutex for the ClientHello.
LEMMA HandshakeHelloLockStep ==
  ASSUME NEW g \in G, IInv, HandshakeHelloLock(g)  PROVE IInv'
<1> USE DEF HandshakeHelloLock, Step
<1>1. TypeOK'
  BY DEF IInv, TypeOK, PCs, Errors, WireRecords, ScriptSteps, AllOps, AllPeerKinds
<1>2. Quiet(g)
  BY DEF IInv, TypeOK, LocalInv, CallInv, RunningInv, CommitInv, NoPanic, Quiet, Others, ResultKept, StandingKept,
         InWrite, Committing, PastHandshake, InHandshake, InAlert
<1>3. LockInv'
  BY <1>2, ConstantsAssumption DEF IInv, TypeOK, LocalInv, CallInv, LockInv, Quiet, Others,
         HoldsIn, HoldsHs, HoldsOut, InHandshake, InAlert
<1>4. LocalInv'
  BY <1>2 DEF IInv, TypeOK, LockInv, HoldsIn, HoldsHs, LocalInv, CallInv, HelloInv, RunningInv, HandInv, Quiet, Others,
         ResultKept, StandingKept, InHandshake, InAlert
<1> QED  BY <1>1, <1>2, <1>3, <1>4, QuietStep DEF IInv

\* The ClientHello goes out and out.Mutex is released, or the handshake fails.
LEMMA HandshakeHelloStep ==
  ASSUME NEW g \in G, IInv, HandshakeHello(g)  PROVE IInv'
<1>1. /\ pc[g] = "k_hello" /\ outMutex' = None /\ stale' = {} /\ Put("hello")
      /\ \/ /\ pc' = [pc EXCEPT ![g] = "k_run"] /\ failed' = failed
            /\ script' = [script EXCEPT ![g] = Tail(script[g])]
         \/ /\ pc' = [pc EXCEPT ![g] = "k_end"] /\ failed' = [failed EXCEPT ![g] = TRUE]
            /\ script' = script
      /\ UNCHANGED <<handshakeMutex, inMutex, handshakeCond, condWait, handshakeErr,
                     handshakeComplete, handshakes, closeVars, netOpen, peerGone, inbox,
                     peerSent, drained, inErr, outErr, input, hand, buffering, ghosts,
                     op, mode, after>>
  BY DEF HandshakeHello, StepDone, Fail
<1>2. \A h \in G \ {g} : pc'[h] = pc[h] /\ failed'[h] = failed[h] /\ script'[h] = script[h]
  BY <1>1 DEF IInv, TypeOK
<1>3. \/ pc'[g] = "k_run" /\ failed'[g] = failed[g]
      \/ pc'[g] = "k_end" /\ failed'[g]
  BY <1>1 DEF IInv, TypeOK
<1>4. TypeOK'
  <2>1. {"k_run", "k_end"} \subseteq PCs /\ "hello" \in WireRecords
    BY DEF PCs, WireRecords
  <2>2. pc' \in [G -> PCs]
    BY <1>1, <2>1 DEF IInv, TypeOK
  <2>3. sendBuf' \in Seq(WireRecords) /\ wire' \in Seq(WireRecords)
    BY <1>1, <2>1, PutType
  <2>4. script[g] # <<>>
    BY <1>1 DEF IInv, LocalInv, HelloInv
  <2>5. script' \in [G -> Seq(ScriptSteps)]
    BY <1>1, <2>4, ScriptType
  <2>6. failed' \in [G -> BOOLEAN]
    BY <1>1 DEF IInv, TypeOK
  <2> QED  BY <1>1, <2>2, <2>3, <2>5, <2>6 DEF IInv, TypeOK
<1>5. Quiet(g)
  BY <1>1, <1>2, <1>3 DEF IInv, TypeOK, Quiet, Others, ResultKept, StandingKept, InWrite,
         Committing, PastHandshake, InHandshake, InAlert
<1>6. LockInv'
  BY <1>1, <1>2, <1>3, ConstantsAssumption DEF IInv, LockInv, HoldsIn, HoldsHs, InHandshake, InAlert, HoldsOut
<1>7. LocalInv'
  BY <1>1, <1>2, <1>3 DEF IInv, LocalInv, CallInv, HelloInv, InHandshake, InAlert, RunningInv, HandInv
<1> QED  BY <1>4, <1>5, <1>6, <1>7, QuietStep DEF IInv


\* A buffered flight changes no standing.
LEMMA HandshakePutStep ==
  ASSUME NEW g \in G, IInv, HandshakePut(g)  PROVE IInv'
<1> USE DEF HandshakePut, Put, Step, StepDone
<1>1. TypeOK'
  BY DEF IInv, TypeOK, PCs, Errors, WireRecords, ScriptSteps, AllOps, AllPeerKinds
<1>2. Quiet(g)
  BY DEF IInv, TypeOK, LocalInv, CallInv, RunningInv, CommitInv, NoPanic, Quiet, Others, ResultKept, StandingKept,
         InWrite, Committing, PastHandshake, InHandshake, InAlert
<1>3. LockInv'
  BY <1>2, ConstantsAssumption DEF IInv, TypeOK, LocalInv, CallInv, LockInv, Quiet, Others,
         HoldsIn, HoldsHs, HoldsOut, InHandshake, InAlert
<1>4. LocalInv'
  BY <1>2 DEF IInv, TypeOK, LockInv, HoldsIn, HoldsHs, LocalInv, CallInv, HelloInv, RunningInv, HandInv, Quiet, Others,
         ResultKept, StandingKept, InHandshake, InAlert
<1> QED  BY <1>1, <1>2, <1>3, <1>4, QuietStep DEF IInv

\* A flush goes on with the script or fails the handshake.
LEMMA HandshakeFlushStep ==
  ASSUME NEW g \in G, IInv, HandshakeFlush(g)  PROVE IInv'
<1>1. /\ pc[g] = "k_run" /\ script[g] # <<>> /\ Flush
      /\ \/ pc' = pc /\ failed' = failed /\ script' = [script EXCEPT ![g] = Tail(script[g])]
         \/ /\ pc' = [pc EXCEPT ![g] = "k_end"] /\ failed' = [failed EXCEPT ![g] = TRUE]
            /\ script' = script
      /\ UNCHANGED <<locks, hsVars, closeVars, netOpen, peerGone, inbox, peerSent, drained,
                     inErr, outErr, input, hand, ghosts, op, mode, after>>
  BY DEF HandshakeFlush, Step, StepDone, Fail
<1>2. \A h \in G \ {g} : pc'[h] = pc[h] /\ failed'[h] = failed[h] /\ script'[h] = script[h]
  BY <1>1 DEF IInv, TypeOK
<1>3. \/ pc'[g] = "k_run" /\ failed'[g] = failed[g]
      \/ pc'[g] = "k_end" /\ failed'[g]
  BY <1>1 DEF IInv, TypeOK
<1>4. TypeOK'
  <2>1. "k_end" \in PCs
    BY DEF PCs
  <2>2. pc' \in [G -> PCs] /\ failed' \in [G -> BOOLEAN]
    BY ZenonT(60), <1>1, <2>1 DEF IInv, TypeOK
  <2>3. script' \in [G -> Seq(ScriptSteps)]
    BY <1>1, ScriptType
  <2> QED  BY <1>1, <2>2, <2>3, FlushType DEF IInv, TypeOK
<1>5. Quiet(g)
  BY <1>1, <1>2, <1>3 DEF IInv, TypeOK, Quiet, Others, ResultKept, StandingKept, InWrite,
         Committing, PastHandshake, InHandshake, InAlert
<1>6. LockInv'
  BY <1>1, <1>3, <1>5, QuietLocks DEF HoldsIn, HoldsHs, HoldsOut, InHandshake, InAlert
<1>7. LocalInv'
  BY <1>1, <1>2, <1>3 DEF IInv, LocalInv, CallInv, HelloInv, InHandshake, InAlert, RunningInv, HandInv
<1> QED  BY <1>4, <1>5, <1>6, <1>7, QuietStep DEF IInv


\* A read goes on with the script, fails the handshake, or sends an alert and
\* then fails it.
LEMMA HandshakeReadStep ==
  ASSUME NEW g \in G, IInv, HandshakeRead(g)  PROVE IInv'
<1>1. /\ pc[g] = "k_run"
      /\ \/ pc' = pc /\ failed' = failed /\ after' = after
         \/ /\ pc' = [pc EXCEPT ![g] = "k_end"] /\ failed' = [failed EXCEPT ![g] = TRUE]
            /\ after' = after
         \/ /\ pc' = [pc EXCEPT ![g] = "al_lock"] /\ failed' = [failed EXCEPT ![g] = TRUE]
            /\ after' = [after EXCEPT ![g] = "k_end"]
      /\ \/ script' = script
         \/ script[g] # <<>> /\ script' = [script EXCEPT ![g] = Tail(script[g])]
      /\ UNCHANGED <<locks, hsVars, closeVars, netOpen, peerGone, peerSent, wire, drained,
                     outErr, input, buffering, sendBuf, ghosts, op, mode>>
  BY DEF HandshakeRead, Step, StepDone, Fail, AlertThen
<1>2. \A h \in G \ {g} : /\ pc'[h] = pc[h] /\ failed'[h] = failed[h]
                         /\ after'[h] = after[h] /\ script'[h] = script[h]
  BY <1>1 DEF IInv, TypeOK
<1>3. \/ pc'[g] = "k_run" /\ failed'[g] = failed[g]
      \/ pc'[g] = "k_end" /\ failed'[g]
      \/ pc'[g] = "al_lock" /\ failed'[g] /\ after'[g] = "k_end"
  BY <1>1 DEF IInv, TypeOK
<1>4. TypeOK'
  <2>1. {"k_end", "al_lock"} \subseteq PCs
    BY DEF PCs
  <2>2. pc' \in [G -> PCs]
    BY <1>1, <2>1 DEF IInv, TypeOK
  <2>8. failed' \in [G -> BOOLEAN]
    BY <1>1 DEF IInv, TypeOK
  <2>3. after' \in [G -> {"idle", "k_end", "r_done"}]
    BY <1>1 DEF IInv, TypeOK
  <2>4. script' \in [G -> Seq(ScriptSteps)]
    BY <1>1, ScriptType
  <2>5. inErr' \in Errors
    BY DEF HandshakeRead, Errors, IInv, TypeOK
  <2>6. inbox' \in Seq(AllPeerKinds)
    <3>1. inbox' = inbox \/ (inbox # <<>> /\ inbox' = Tail(inbox))
      BY DEF HandshakeRead
    <3> QED  BY ZenonT(60), <3>1, HeadTailProperties DEF IInv, TypeOK
  <2>7. hand' \in Seq({"hs", "hreq"})
    <3>1. \/ hand' = hand \/ (hand # <<>> /\ hand' = Tail(hand))
          \/ hand' = <<"hs">> \/ hand' = <<"hreq">>
      BY DEF HandshakeRead
    <3>2. hand \in Seq({"hs", "hreq"})
      BY DEF IInv, TypeOK
    <3>3. <<"hs">> \in Seq({"hs", "hreq"}) /\ <<"hreq">> \in Seq({"hs", "hreq"})
      OBVIOUS
    <3>4. hand # <<>> => Tail(hand) \in Seq({"hs", "hreq"})
      BY <3>2, HeadTailProperties
    <3> QED  BY <3>1, <3>2, <3>3, <3>4
  <2>9. UNCHANGED <<locks, hsVars, closeVars, netOpen, peerGone, peerSent, wire, drained,
                    outErr, input, buffering, sendBuf, ghosts, op, mode>>
    BY <1>1
  <2> QED  BY <2>2, <2>3, <2>4, <2>5, <2>6, <2>7, <2>8, <2>9 DEF IInv, TypeOK
<1>5. Quiet(g)
  BY <1>1, <1>2, <1>3 DEF IInv, TypeOK, Quiet, Others, ResultKept, StandingKept, InWrite,
         Committing, PastHandshake, InHandshake, InAlert
<1>6. LockInv'
  BY <1>1, <1>3, <1>5, QuietLocks DEF HoldsIn, HoldsHs, HoldsOut, InHandshake, InAlert
<1>7. LocalInv'
  BY <1>1, <1>2, <1>3 DEF IInv, LocalInv, CallInv, HelloInv, InHandshake, InAlert, RunningInv, LockInv, HoldsIn,
     HandInv
<1> QED  BY <1>4, <1>5, <1>6, <1>7, QuietStep DEF IInv


\* handshakeComplete is set by the one goroutine that runs a handshake.
LEMMA HandshakeFinishStep ==
  ASSUME NEW g \in G, IInv, HandshakeFinish(g)  PROVE IInv'
<1>1. /\ pc[g] = "k_run" /\ pc' = [pc EXCEPT ![g] = "k_end"]
      /\ handshakeComplete' = TRUE /\ stale' = RacingWriters
      /\ UNCHANGED <<locks, handshakeCond, condWait, handshakeErr, handshakes, closeVars,
                     netVars, recVars, ghosts, local>>
  BY DEF HandshakeFinish
<1>2. pc' \in [G -> PCs] /\ pc'[g] = "k_end" /\ \A h \in G \ {g} : pc'[h] = pc[h]
  BY <1>1 DEF IInv, TypeOK, PCs
<1>3. TypeOK'
  BY <1>1, <1>2 DEF IInv, TypeOK, RacingWriters
<1>4. LockInv'
  BY <1>1, <1>2 DEF IInv, LockInv, HoldsIn, HoldsHs, HoldsOut, InHandshake, InAlert
<1>5. LocalInv'
  BY <1>1, <1>2 DEF IInv, LocalInv, CallInv, HelloInv, HandInv, InHandshake, InAlert, LockInv, HoldsHs,
     RunningInv
<1>6. \A h \in G : /\ Committing(h)' <=> Committing(h)
                   /\ InHandshake(h)' <=> InHandshake(h)
                   /\ PastHandshake(h)' <=> PastHandshake(h)
                   /\ InWrite(h)' <=> InWrite(h)
  BY <1>1, <1>2 DEF Committing, PastHandshake, InHandshake, InAlert, InWrite
<1>7. CountInv'
  <2>1. Writing' = Writing
    BY <1>6 DEF Writing
  <2> QED  BY <1>1, <2>1 DEF IInv, CountInv
<1>8. InHandshake(g) /\ mode[g] \in {"first", "reneg"} /\ ~handshakeErr
  BY <1>1 DEF IInv, TypeOK, LocalInv, RunningInv, InHandshake
<1>9. CommitInv'
  BY <1>8, <1>1, <1>6 DEF IInv, OneCommits, Committing, CommitInv, PastHandshake, TypeOK
<1>10. CompleteInv'
  BY <1>1, <1>6, <1>8 DEF CompleteInv, IInv, CommitInv, PastHandshake
<1>11. OneCommits' /\ RenegInv' /\ NoPanic'
  BY <1>1, <1>6 DEF IInv, OneCommits, RenegInv, NoPanic
<1> QED  BY <1>3, <1>4, <1>5, <1>7, <1>9, <1>10, <1>11 DEF IInv


\* The first handshake ends with exactly one result, and nobody is committed after.
LEMMA HandshakeEndStep ==
  ASSUME NEW g \in G, IInv, HandshakeEnd(g)  PROVE IInv'
<1>1. /\ pc[g] = "k_end" /\ mode[g] = "first"
      /\ pc' = [pc EXCEPT ![g] = HandshakeReturns(g, failed[g])]
      /\ handshakeErr' = failed[g]
      /\ handshakes' = IF failed[g] THEN handshakes ELSE handshakes + 1
      /\ panicked' = (panicked \/ (~failed[g] /\ ~handshakeComplete))
      /\ condWait' = {} /\ handshakeCond' = FALSE
      /\ handshakeMutex' = None /\ inMutex' = None
      /\ UNCHANGED <<outMutex, handshakeComplete, stale, closeVars, netOpen, peerGone, inbox,
                     peerSent, drained, inErr, outErr, input, hand, okWrites, calls, local>>
  BY DEF HandshakeEnd, Broadcast
<1>2. Flush \/ UNCHANGED <<wire, sendBuf, buffering>>
  BY DEF HandshakeEnd
<1>3. /\ InHandshake(g) /\ Committing(g) /\ handshakes = 0 /\ ~handshakeErr
      /\ failed[g] \in BOOLEAN /\ (handshakeComplete <=> ~failed[g])
  BY <1>1 DEF IInv, TypeOK, LocalInv, RunningInv, CommitInv, Committing, InHandshake
<1>4. /\ pc' \in [G -> PCs] /\ \A h \in G \ {g} : pc'[h] = pc[h]
      /\ pc'[g] \in {"idle", "r_lock", "w_lock", "w_exit"}
      /\ pc'[g] \in {"w_lock", "w_exit"} <=> op[g] = "Write"
      /\ pc'[g] = "r_lock" => op[g] = "Read" /\ ~failed[g]
  BY <1>1 DEF PCs, HandshakeReturns, IInv, TypeOK
<1>5. TypeOK'
  <2>1. handshakes' \in Nat /\ handshakeErr' \in BOOLEAN /\ panicked' \in BOOLEAN
    BY <1>1, <1>3 DEF IInv, TypeOK
  <2>2. /\ sendBuf' \in Seq(WireRecords) /\ wire' \in Seq(WireRecords)
        /\ buffering' \in BOOLEAN
    BY <1>2, FlushType DEF IInv, TypeOK
  <2> QED  BY <1>1, <1>4, <2>1, <2>2 DEF IInv, TypeOK
<1>6. \A h \in G \ {g} : ~InHandshake(h) /\ ~Committing(h)
  BY <1>1, <1>3 DEF IInv, LockInv, HoldsHs, OneCommits
<1>7. LockInv'
  BY <1>1, <1>4, ConstantsAssumption DEF IInv, LockInv, HoldsIn, HoldsHs, InHandshake, InAlert, HoldsOut
<1>8. LocalInv'
  BY <1>1, <1>4, <1>6 DEF IInv, LocalInv, CallInv, HelloInv, HandInv, InHandshake, InAlert, RunningInv
<1>9. CountInv'
  BY <1>1, <1>4 DEF InWrite, Writing, IInv, CountInv
<1>10. \A h \in G : ~InHandshake(h)' /\ ~Committing(h)'
  BY <1>1, <1>4, <1>6 DEF Committing, InHandshake, InAlert
<1>11. \A h \in G \ {g} : ~PastHandshake(h)
  BY <1>3 DEF IInv, CommitInv, TypeOK
<1>12. CommitInv'
  BY <1>1, <1>3, <1>4, <1>10, <1>11 DEF CommitInv, PastHandshake, InHandshake, InAlert
<1>13. OneCommits' /\ CompleteInv' /\ RenegInv' /\ NoPanic'
  <2>1. OneCommits' /\ NoPanic'
    BY <1>1, <1>3, <1>10 DEF IInv, OneCommits, NoPanic
  <2>2. CASE failed[g]
    BY <1>1, <1>3, <2>1, <2>2 DEF CompleteInv, RenegInv
  <2>3. CASE ~failed[g]
    BY <1>1, <1>3, <2>1, <2>3 DEF CompleteInv, RenegInv
  <2> QED  BY <2>2, <2>3
<1> QED  BY <1>5, <1>7, <1>8, <1>9, <1>12, <1>13 DEF IInv


\* A renegotiation ends with exactly one result.
LEMMA RenegotiationEndStep ==
  ASSUME NEW g \in G, IInv, RenegotiationEnd(g)  PROVE IInv'
<1>1. /\ pc[g] = "k_end" /\ mode[g] = "reneg"
      /\ pc' = [pc EXCEPT ![g] = IF failed[g] THEN "r_done" ELSE "r_loop"]
      /\ handshakeErr' = failed[g]
      /\ handshakes' = IF failed[g] THEN handshakes ELSE handshakes + 1
      /\ handshakeMutex' = None
      /\ UNCHANGED <<inMutex, outMutex, handshakeCond, condWait, handshakeComplete, stale,
                     closeVars, netVars, recVars, ghosts, local>>
  BY DEF RenegotiationEnd
<1>2. /\ InHandshake(g) /\ handshakes > 0 /\ ~handshakeErr /\ handshakes \in Nat
      /\ failed[g] \in BOOLEAN /\ (handshakeComplete <=> ~failed[g]) /\ op[g] = "Read"
  BY <1>1 DEF IInv, TypeOK, LocalInv, CallInv, RunningInv, CommitInv, PastHandshake, InHandshake
<1>3. /\ pc' \in [G -> PCs] /\ \A h \in G \ {g} : pc'[h] = pc[h]
      /\ pc'[g] \in {"r_done", "r_loop"}
  BY <1>1 DEF IInv, TypeOK, PCs
<1>4. TypeOK'
  BY <1>1, <1>2, <1>3 DEF IInv, TypeOK
<1>5. \A h \in G \ {g} : ~InHandshake(h)
  BY <1>1, <1>2 DEF IInv, LockInv, HoldsHs
<1>6. \A h \in G : ~Committing(h)
  BY <1>1, <1>2 DEF IInv, CommitInv
<1>7. LockInv'
  BY <1>1, <1>3, ConstantsAssumption DEF IInv, LockInv, HoldsIn, HoldsHs, InHandshake, InAlert, HoldsOut
<1>8. LocalInv'
  BY <1>1, <1>2, <1>3, <1>5 DEF IInv, LocalInv, CallInv, HelloInv, HandInv, InHandshake, InAlert, RunningInv
<1>9. CountInv'
  BY <1>1, <1>2, <1>3 DEF InWrite, Writing, IInv, CountInv
<1>10. \A h \in G : ~InHandshake(h)' /\ ~Committing(h)'
  BY <1>1, <1>3, <1>5, <1>6 DEF Committing, InHandshake, InAlert
<1>11. CommitInv'
  BY <1>1, <1>2, <1>10 DEF CommitInv
<1>12. OneCommits' /\ CompleteInv' /\ RenegInv' /\ NoPanic'
  BY <1>1, <1>2, <1>10 DEF IInv, OneCommits, CompleteInv, RenegInv, NoPanic
<1> QED  BY <1>4, <1>7, <1>8, <1>9, <1>11, <1>12 DEF IInv


\* Taking out.Mutex for an alert.
LEMMA AlertLockStep ==
  ASSUME NEW g \in G, IInv, AlertLock(g)  PROVE IInv'
<1> USE DEF AlertLock
<1>1. TypeOK'
  BY DEF IInv, TypeOK, PCs, Errors, WireRecords, ScriptSteps, AllOps, AllPeerKinds
<1>2. Quiet(g)
  BY DEF IInv, TypeOK, LocalInv, CallInv, RunningInv, CommitInv, NoPanic, Quiet, Others, ResultKept, StandingKept,
         InWrite, Committing, PastHandshake, InHandshake, InAlert
<1>3. LockInv'
  BY <1>2, ConstantsAssumption DEF IInv, TypeOK, LocalInv, CallInv, LockInv, Quiet, Others,
         HoldsIn, HoldsHs, HoldsOut, InHandshake, InAlert
<1>4. LocalInv'
  BY <1>2 DEF IInv, TypeOK, LockInv, HoldsIn, HoldsHs, LocalInv, CallInv, HelloInv, RunningInv, HandInv, Quiet, Others,
         ResultKept, StandingKept, InHandshake, InAlert
<1> QED  BY <1>1, <1>2, <1>3, <1>4, QuietStep DEF IInv

\* Sending the alert releases out.Mutex and goes on where the alert was raised.
LEMMA AlertWriteStep ==
  ASSUME NEW g \in G, IInv, AlertWrite(g)  PROVE IInv'
<1> USE DEF AlertWrite, Put
<1>1. TypeOK'
  BY DEF IInv, TypeOK, PCs, Errors, WireRecords, ScriptSteps, AllOps, AllPeerKinds
<1>2. Quiet(g)
  BY DEF IInv, TypeOK, LocalInv, CallInv, RunningInv, CommitInv, NoPanic, Quiet, Others, ResultKept, StandingKept,
         InWrite, Committing, PastHandshake, InHandshake, InAlert
<1>3. LockInv'
  BY <1>2, ConstantsAssumption DEF IInv, TypeOK, LocalInv, CallInv, LockInv, Quiet, Others,
         HoldsIn, HoldsHs, HoldsOut, InHandshake, InAlert
<1>4. LocalInv'
  BY <1>2 DEF IInv, TypeOK, LockInv, HoldsIn, HoldsHs, LocalInv, CallInv, HelloInv, RunningInv, HandInv, Quiet, Others,
         ResultKept, StandingKept, InHandshake, InAlert
<1> QED  BY <1>1, <1>2, <1>3, <1>4, QuietStep DEF IInv

\* Taking in.Mutex for a Read.
LEMMA ReadLockStep ==
  ASSUME NEW g \in G, IInv, ReadLock(g)  PROVE IInv'
<1> USE DEF ReadLock
<1>1. TypeOK'
  BY DEF IInv, TypeOK, PCs, Errors, WireRecords, ScriptSteps, AllOps, AllPeerKinds
<1>2. Quiet(g)
  BY DEF IInv, TypeOK, LocalInv, CallInv, RunningInv, CommitInv, NoPanic, Quiet, Others, ResultKept, StandingKept,
         InWrite, Committing, PastHandshake, InHandshake, InAlert
<1>3. LockInv'
  BY <1>2, ConstantsAssumption DEF IInv, TypeOK, LocalInv, CallInv, LockInv, Quiet, Others,
         HoldsIn, HoldsHs, HoldsOut, InHandshake, InAlert
<1>4. LocalInv'
  BY <1>2 DEF IInv, TypeOK, LockInv, HoldsIn, HoldsHs, LocalInv, CallInv, HelloInv, RunningInv, HandInv, Quiet, Others,
         ResultKept, StandingKept, InHandshake, InAlert
<1> QED  BY <1>1, <1>2, <1>3, <1>4, QuietStep DEF IInv

\* Handing data over changes no standing.
LEMMA ReadInputStep ==
  ASSUME NEW g \in G, IInv, ReadInput(g)  PROVE IInv'
<1>1. /\ pc[g] = "r_loop" /\ input' \in BOOLEAN
      /\ pc' = [pc EXCEPT ![g] = "r_done"] \/ pc' = [pc EXCEPT ![g] = "r_peek"]
      /\ UNCHANGED <<locks, hsVars, closeVars, netVars, inErr, outErr, hand, buffering,
                     sendBuf, ghosts, local>>
  BY DEF ReadInput
<1>2. \A h \in G \ {g} : pc'[h] = pc[h]
  BY <1>1 DEF IInv, TypeOK
<1>3. pc' \in [G -> PCs] /\ pc'[g] \in {"r_done", "r_peek"}
  BY <1>1 DEF IInv, TypeOK, PCs
<1>4. TypeOK'
  BY <1>1, <1>3 DEF IInv, TypeOK
<1>5. Quiet(g)
  BY <1>1, <1>2, <1>3 DEF Quiet, Others, ResultKept, StandingKept, InWrite, Committing,
         PastHandshake, InHandshake, InAlert
<1>6. LockInv'
  BY <1>1, <1>3, <1>5, QuietLocks DEF HoldsIn, HoldsHs, HoldsOut, InHandshake, InAlert
<1>7. LocalInv'
  BY <1>1, <1>2, <1>3 DEF IInv, LocalInv, CallInv, HelloInv, RunningInv, HandInv, InHandshake, InAlert
<1> QED  BY <1>4, <1>5, <1>6, <1>7, QuietStep DEF IInv


\* A Read that finds in.err set returns it.
LEMMA ReadErrorStep ==
  ASSUME NEW g \in G, IInv, ReadError(g)  PROVE IInv'
<1> USE DEF ReadError
<1>1. TypeOK'
  BY DEF IInv, TypeOK, PCs, Errors, WireRecords, ScriptSteps, AllOps, AllPeerKinds
<1>2. Quiet(g)
  BY DEF IInv, TypeOK, LocalInv, CallInv, RunningInv, CommitInv, NoPanic, Quiet, Others, ResultKept, StandingKept,
         InWrite, Committing, PastHandshake, InHandshake, InAlert
<1>3. LockInv'
  BY <1>2, ConstantsAssumption DEF IInv, TypeOK, LocalInv, CallInv, LockInv, Quiet, Others,
         HoldsIn, HoldsHs, HoldsOut, InHandshake, InAlert
<1>4. LocalInv'
  BY <1>2 DEF IInv, TypeOK, LockInv, HoldsIn, HoldsHs, LocalInv, CallInv, HelloInv, RunningInv, HandInv, Quiet, Others,
         ResultKept, StandingKept, InHandshake, InAlert
<1> QED  BY <1>1, <1>2, <1>3, <1>4, QuietStep DEF IInv

\* A record read for application data changes no standing.
LEMMA ReadRecordStep ==
  ASSUME NEW g \in G, IInv, ReadRecord(g)  PROVE IInv'
<1>1. /\ pc[g] \in {"r_loop", "r_peek"} /\ input' \in BOOLEAN
      /\ \/ pc' = pc /\ after' = after
         \/ pc' = [pc EXCEPT ![g] = "r_loop"] /\ after' = after
         \/ pc' = [pc EXCEPT ![g] = "r_done"] /\ after' = after
         \/ /\ pc' = [pc EXCEPT ![g] = "r_hand"] /\ after' = after
            /\ handshakeComplete /\ hand' # <<>>
         \/ pc' = [pc EXCEPT ![g] = "al_lock"] /\ after' = [after EXCEPT ![g] = "r_done"]
      /\ UNCHANGED <<locks, hsVars, closeVars, netOpen, peerGone, peerSent, wire, drained,
                     outErr, buffering, sendBuf, ghosts, op, mode, script, failed>>
  BY DEF ReadRecord, AlertThen, AfterRecord, InSync, IInv, TypeOK
<1>2. inErr' \in Errors
  BY DEF ReadRecord, Errors, IInv, TypeOK
<1>3. inbox' \in Seq(AllPeerKinds) /\ hand' \in Seq({"hs", "hreq"})
  <2>1. inbox' = inbox \/ (inbox # <<>> /\ inbox' = Tail(inbox))
    BY DEF ReadRecord
  <2>2. hand' = hand \/ hand' = Append(hand, "hs") \/ hand' = Append(hand, "hreq")
    BY DEF ReadRecord
  <2>3. inbox \in Seq(AllPeerKinds) /\ hand \in Seq({"hs", "hreq"})
    BY DEF IInv, TypeOK
  <2>4. inbox' \in Seq(AllPeerKinds)
    BY <2>1, <2>3, HeadTailProperties
  <2>5. hand' \in Seq({"hs", "hreq"})
    BY <2>2, <2>3
  <2> QED  BY <2>4, <2>5
<1>4. \A h \in G \ {g} : pc'[h] = pc[h] /\ after'[h] = after[h]
  BY <1>1 DEF IInv, TypeOK
<1>5. /\ pc'[g] \in {"r_loop", "r_peek", "r_done", "r_hand", "al_lock"}
      /\ pc'[g] = "al_lock" => after'[g] = "r_done"
      /\ pc'[g] = "r_hand" => handshakeComplete /\ hand' # <<>>
  BY <1>1 DEF IInv, TypeOK
<1>6. TypeOK'
  <2>1. {"r_loop", "r_peek", "r_done", "r_hand", "al_lock"} \subseteq PCs
    BY DEF PCs
  <2>2. pc' \in [G -> PCs]
    BY <1>1, <2>1 DEF IInv, TypeOK
  <2>3. after' \in [G -> {"idle", "k_end", "r_done"}]
    BY <1>1 DEF IInv, TypeOK
  <2> QED  BY <1>1, <1>2, <1>3, <2>2, <2>3 DEF IInv, TypeOK
<1>7. Quiet(g)
  BY <1>1, <1>4, <1>5 DEF Quiet, Others, ResultKept, StandingKept, InWrite, Committing,
         PastHandshake, InHandshake, InAlert
<1>8. LockInv'
  BY <1>1, <1>5, <1>7, QuietLocks DEF HoldsIn, HoldsHs, HoldsOut, InHandshake, InAlert
<1>9. LocalInv'
  BY <1>1, <1>4, <1>5 DEF IInv, LocalInv, CallInv, HelloInv, InHandshake, InAlert, RunningInv, LockInv, HoldsIn,
     HandInv
<1> QED  BY <1>6, <1>7, <1>8, <1>9, QuietStep DEF IInv


\* A renegotiation begins on a completed handshake and with no other running.
LEMMA RenegotiateStep ==
  ASSUME NEW g \in G, IInv, Renegotiate(g)  PROVE IInv'
<1>1. /\ pc[g] = "r_hand" /\ hand' = Tail(hand)
      /\ UNCHANGED <<inMutex, outMutex, handshakeCond, condWait, handshakeErr, handshakes,
                     closeVars, netVars, inErr, outErr, input, buffering, sendBuf, ghosts, op>>
  BY DEF Renegotiate
<1>2. handshakeComplete /\ hand # <<>> /\ ~handshakeErr /\ handshakes > 0
  BY <1>1 DEF IInv, LocalInv, HandInv, CompleteInv, CommitInv, PastHandshake
<1>3. hand' \in Seq({"hs", "hreq"})
  BY <1>1, <1>2, HeadTailProperties DEF IInv, TypeOK
<1>4. \A h \in G \ {g} : pc[h] # "r_hand"
  BY <1>1 DEF IInv, LockInv, HoldsIn
<1>5. CASE Head(hand) = "hreq" /\ MayRenegotiate
  <2>1. /\ handshakeMutex = None /\ handshakeMutex' = g
        /\ handshakeComplete' = FALSE /\ stale' = RacingWriters
        /\ mode' = [mode EXCEPT ![g] = "reneg"] /\ failed' = [failed EXCEPT ![g] = FALSE]
        /\ script' = [script EXCEPT ![g] = FullClientScript]
        /\ pc' = [pc EXCEPT ![g] = "k_run"] /\ after' = after
    BY <1>5 DEF Renegotiate
  <2>2. /\ pc' \in [G -> PCs] /\ pc'[g] = "k_run" /\ mode'[g] = "reneg" /\ ~failed'[g]
        /\ \A h \in G \ {g} : /\ pc'[h] = pc[h] /\ mode'[h] = mode[h]
                              /\ failed'[h] = failed[h] /\ script'[h] = script[h]
    BY <2>1 DEF IInv, TypeOK, PCs
  <2>3. TypeOK'
    <3>1. FullClientScript \in Seq(ScriptSteps)
      BY DEF FullClientScript, ScriptSteps
    <3>2. script' \in [G -> Seq(ScriptSteps)]
      BY <2>1, <3>1 DEF IInv, TypeOK
    <3>3. mode' \in [G -> {"first", "reneg"}] /\ failed' \in [G -> BOOLEAN] /\ stale' \subseteq G
      BY <2>1 DEF IInv, TypeOK, RacingWriters
    <3>4. /\ handshakeMutex' \in G \cup {None} /\ handshakeComplete' \in BOOLEAN
          /\ UNCHANGED <<inMutex, outMutex, handshakeCond, condWait, handshakeErr, handshakes,
                         closeVars, netVars, inErr, outErr, input, buffering, sendBuf, ghosts,
                         op, after>>
      BY <1>1, <2>1
    <3>5. pc' \in [G -> PCs]
      BY <2>2
    <3> QED  BY <1>3, <3>2, <3>3, <3>4, <3>5 DEF IInv, TypeOK
  <2>4. \A h \in G : ~InHandshake(h) /\ ~Committing(h)
    BY <1>2, <2>1, ConstantsAssumption DEF IInv, CommitInv, LockInv, HoldsHs
  <2>5. LockInv'
    BY <1>1, <2>2, <2>1, ConstantsAssumption DEF IInv, LockInv, HoldsIn, HoldsHs, InHandshake, InAlert, HoldsOut
  <2>6. LocalInv'
    BY <1>1, <1>4, <2>1, <2>2, <1>2, <2>4 DEF IInv, LocalInv, CallInv, HelloInv, HandInv, InHandshake, InAlert,
       RunningInv
  <2>7. \A h \in G : /\ InWrite(h)' <=> InWrite(h)
                     /\ ~Committing(h)'
    BY <1>1, <2>1, <2>2, <2>4 DEF InWrite, Committing, InHandshake, InAlert
  <2>8. CountInv'
    <3>1. Writing' = Writing
      BY <2>7 DEF Writing
    <3> QED  BY <1>1, <3>1 DEF IInv, CountInv
  <2>9. CommitInv' /\ OneCommits' /\ CompleteInv' /\ NoPanic'
    BY <1>1, <1>2, <2>1, <2>7 DEF IInv, CommitInv, OneCommits, CompleteInv, NoPanic
  <2>10. RenegInv'
    BY <2>2 DEF RenegInv, InHandshake
  <2> QED  BY <2>3, <2>5, <2>6, <2>8, <2>9, <2>10 DEF IInv
<1>6. CASE ~(Head(hand) = "hreq" /\ MayRenegotiate)
  <2>1. /\ pc' = [pc EXCEPT ![g] = "al_lock"] /\ after' = [after EXCEPT ![g] = "r_done"]
        /\ UNCHANGED <<handshakeMutex, handshakeComplete, stale, mode, failed, script>>
    BY <1>6 DEF Renegotiate, AlertThen
  <2>2. /\ pc' \in [G -> PCs] /\ pc'[g] = "al_lock" /\ after'[g] = "r_done"
        /\ \A h \in G \ {g} : pc'[h] = pc[h] /\ after'[h] = after[h]
    BY <2>1 DEF IInv, TypeOK, PCs
  <2>3. TypeOK'
    BY <2>1, <1>1, <1>3, <2>2 DEF IInv, TypeOK
  <2>4. Quiet(g)
    BY <1>1, <2>1, <2>2 DEF Quiet, Others, ResultKept, StandingKept, InWrite, Committing,
           PastHandshake, InHandshake, InAlert
  <2>5. LockInv'
    BY <1>1, <2>1, <2>2, <2>4, QuietLocks DEF HoldsIn, HoldsHs, HoldsOut, InHandshake, InAlert
  <2>6. LocalInv'
    BY <1>1, <2>1, <2>2, <1>4 DEF IInv, LocalInv, CallInv, HelloInv, InHandshake, InAlert, RunningInv, HandInv
  <2> QED  BY <2>3, <2>4, <2>5, <2>6, QuietStep DEF IInv
<1> QED  BY <1>5, <1>6


\* A Read that returns releases in.Mutex.
LEMMA ReadDoneStep ==
  ASSUME NEW g \in G, IInv, ReadDone(g)  PROVE IInv'
<1> USE DEF ReadDone
<1>1. TypeOK'
  BY DEF IInv, TypeOK, PCs, Errors, WireRecords, ScriptSteps, AllOps, AllPeerKinds
<1>2. Quiet(g)
  BY DEF IInv, TypeOK, LocalInv, CallInv, RunningInv, CommitInv, NoPanic, Quiet, Others, ResultKept, StandingKept,
         InWrite, Committing, PastHandshake, InHandshake, InAlert
<1>3. LockInv'
  BY <1>2, ConstantsAssumption DEF IInv, TypeOK, LocalInv, CallInv, LockInv, Quiet, Others,
         HoldsIn, HoldsHs, HoldsOut, InHandshake, InAlert
<1>4. LocalInv'
  BY <1>2 DEF IInv, TypeOK, LockInv, HoldsIn, HoldsHs, LocalInv, CallInv, HelloInv, RunningInv, HandInv, Quiet, Others,
         ResultKept, StandingKept, InHandshake, InAlert
<1> QED  BY <1>1, <1>2, <1>3, <1>4, QuietStep DEF IInv

\* A Write is counted in activeCall as it starts, and only while the closed bit is
\* clear.
LEMMA WriteEnterStep ==
  ASSUME NEW g \in G, IInv, WriteEnter(g)  PROVE IInv'
<1>1. CASE closed
  <2>1. /\ pc[g] = "w_enter" /\ pc' = [pc EXCEPT ![g] = "idle"]
        /\ UNCHANGED <<locks, hsVars, closeVars, netVars, recVars, ghosts, local>>
    BY <1>1 DEF WriteEnter
  <2>2. TypeOK'
    BY <2>1 DEF IInv, TypeOK, PCs
  <2>3. Quiet(g)
    BY <2>1 DEF IInv, TypeOK, Quiet, Others, ResultKept, StandingKept, InWrite,
           Committing, PastHandshake, InHandshake, InAlert
  <2>4. LockInv' /\ LocalInv'
    BY <2>1 DEF IInv, TypeOK, LockInv, HoldsIn, HoldsHs, HoldsOut, LocalInv, CallInv,
           HelloInv, RunningInv, HandInv, InHandshake, InAlert
  <2> QED  BY <2>2, <2>3, <2>4, QuietStep DEF IInv
<1>2. CASE ~closed
  <2>1. /\ pc[g] = "w_enter" /\ pc' = [pc EXCEPT ![g] = "hs_lock"] /\ writers' = writers + 1
        /\ UNCHANGED <<locks, hsVars, closed, quietClose, closeNotifySent, netVars, recVars,
                       ghosts, local>>
    BY <1>2 DEF WriteEnter
  <2>2. TypeOK'
    BY <2>1 DEF IInv, TypeOK, PCs
  <2>3. LockInv' /\ LocalInv'
    BY SMTT(30), <2>1 DEF IInv, TypeOK, LockInv, HoldsIn, HoldsHs, HoldsOut, LocalInv, CallInv,
           HelloInv, RunningInv, HandInv, InHandshake, InAlert
  <2>4. CountInv'
    <3>1. Writing' = Writing \cup {g} /\ g \notin Writing
      BY <2>1 DEF IInv, TypeOK, LocalInv, CallInv, Writing, InWrite
    <3>2. Cardinality(Writing') = Cardinality(Writing) + 1
      BY <3>1, WritingFinite, FS_AddElement
    <3> QED  BY <1>2, <2>1, <3>2 DEF IInv, CountInv
  <2>5. \A h \in G : /\ Committing(h)' <=> Committing(h)
                     /\ InHandshake(h)' <=> InHandshake(h)
                     /\ PastHandshake(h)' <=> PastHandshake(h)
    BY <2>1 DEF IInv, TypeOK, Committing, PastHandshake, InHandshake, InAlert
  <2>6. CommitInv' /\ OneCommits' /\ CompleteInv' /\ RenegInv' /\ NoPanic'
    BY <2>1, <2>5 DEF IInv, CommitInv, OneCommits, CompleteInv, RenegInv, NoPanic
  <2> QED  BY <2>2, <2>3, <2>4, <2>6 DEF IInv
<1> QED  BY <1>1, <1>2


\* Taking out.Mutex for a Write.
LEMMA WriteLockStep ==
  ASSUME NEW g \in G, IInv, WriteLock(g)  PROVE IInv'
<1> USE DEF WriteLock
<1>1. TypeOK'
  BY DEF IInv, TypeOK, PCs, Errors, WireRecords, ScriptSteps, AllOps, AllPeerKinds
<1>2. Quiet(g)
  BY DEF IInv, TypeOK, LocalInv, CallInv, RunningInv, CommitInv, NoPanic, Quiet, Others, ResultKept, StandingKept,
         InWrite, Committing, PastHandshake, InHandshake, InAlert
<1>3. LockInv'
  BY <1>2, ConstantsAssumption DEF IInv, TypeOK, LocalInv, CallInv, LockInv, Quiet, Others,
         HoldsIn, HoldsHs, HoldsOut, InHandshake, InAlert
<1>4. LocalInv'
  BY <1>2 DEF IInv, TypeOK, LockInv, HoldsIn, HoldsHs, LocalInv, CallInv, HelloInv, RunningInv, HandInv, Quiet, Others,
         ResultKept, StandingKept, InHandshake, InAlert
<1> QED  BY <1>1, <1>2, <1>3, <1>4, QuietStep DEF IInv

\* A Write that is refused releases out.Mutex.
LEMMA WriteCheckStep ==
  ASSUME NEW g \in G, IInv, WriteCheck(g)  PROVE IInv'
<1>1. /\ pc[g] = "w_check" /\ stale' \subseteq G
      /\ \/ pc' = [pc EXCEPT ![g] = "w_send"] /\ outMutex' = outMutex
         \/ pc' = [pc EXCEPT ![g] = "w_exit"] /\ outMutex' = None
      /\ UNCHANGED <<handshakeMutex, inMutex, handshakeCond, condWait, handshakeErr,
                     handshakeComplete, handshakes, closeVars, netVars, recVars, ghosts, local>>
  BY DEF WriteCheck, IInv, TypeOK
<1>2. \A h \in G \ {g} : pc'[h] = pc[h]
  BY <1>1 DEF IInv, TypeOK
<1>3. /\ pc' \in [G -> PCs]
      /\ \/ pc'[g] = "w_send" /\ outMutex' = outMutex
         \/ pc'[g] = "w_exit" /\ outMutex' = None
  BY <1>1 DEF PCs, IInv, TypeOK
<1>4. TypeOK'
  BY <1>1, <1>3 DEF IInv, TypeOK
<1>5. Quiet(g)
  BY <1>1, <1>2, <1>3 DEF Quiet, Others, ResultKept, StandingKept, InWrite, Committing,
         PastHandshake, InHandshake, InAlert
<1>6. LockInv'
  BY <1>1, <1>2, <1>3, ConstantsAssumption DEF IInv, LockInv, HoldsIn, HoldsHs, InHandshake, InAlert, HoldsOut
<1>7. LocalInv'
  BY <1>1, <1>2, <1>3 DEF IInv, LocalInv, CallInv, HelloInv, RunningInv, HandInv, InHandshake, InAlert
<1> QED  BY <1>4, <1>5, <1>6, <1>7, QuietStep DEF IInv


\* A Write that has sent its data releases out.Mutex.
LEMMA WriteSendStep ==
  ASSUME NEW g \in G, IInv, WriteSend(g)  PROVE IInv'
<1> USE DEF WriteSend, Put
<1>1. TypeOK'
  BY DEF IInv, TypeOK, PCs, Errors, WireRecords, ScriptSteps, AllOps, AllPeerKinds
<1>2. Quiet(g)
  BY DEF IInv, TypeOK, LocalInv, CallInv, RunningInv, CommitInv, NoPanic, Quiet, Others, ResultKept, StandingKept,
         InWrite, Committing, PastHandshake, InHandshake, InAlert
<1>3. LockInv'
  BY <1>2, ConstantsAssumption DEF IInv, TypeOK, LocalInv, CallInv, LockInv, Quiet, Others,
         HoldsIn, HoldsHs, HoldsOut, InHandshake, InAlert
<1>4. LocalInv'
  BY <1>2 DEF IInv, TypeOK, LockInv, HoldsIn, HoldsHs, LocalInv, CallInv, HelloInv, RunningInv, HandInv, Quiet, Others,
         ResultKept, StandingKept, InHandshake, InAlert
<1> QED  BY <1>1, <1>2, <1>3, <1>4, QuietStep DEF IInv

\* A Write that returns gives back the count it took.
LEMMA WriteExitStep ==
  ASSUME NEW g \in G, IInv, WriteExit(g)  PROVE IInv'
<1>1. /\ pc[g] = "w_exit" /\ pc' = [pc EXCEPT ![g] = "idle"] /\ writers' = writers - 1
      /\ UNCHANGED <<locks, hsVars, closed, quietClose, closeNotifySent, netVars, recVars,
                     ghosts, local>>
  BY DEF WriteExit
<1>2. InWrite(g) /\ writers > 0
  <2>1. InWrite(g)
    BY <1>1 DEF IInv, LocalInv, CallInv, InWrite
  <2> QED  BY <2>1, WritersPositive
<1>3. TypeOK'
  BY <1>1, <1>2 DEF IInv, TypeOK, PCs
<1>4. LockInv' /\ LocalInv'
  BY <1>1 DEF IInv, TypeOK, LockInv, HoldsIn, HoldsHs, HoldsOut, LocalInv, CallInv,
         HelloInv, RunningInv, HandInv, InHandshake, InAlert
<1>5. CountInv'
  <2>1. Writing' = Writing \ {g} /\ g \in Writing
    BY <1>1, <1>2 DEF IInv, TypeOK, Writing, InWrite
  <2>2. Cardinality(Writing') = Cardinality(Writing) - 1
    BY <2>1, WritingFinite, FS_RemoveElement
  <2>3. quietClose => FALSE
    BY <1>2 DEF IInv, CountInv
  <2> QED  BY <1>1, <2>2, <2>3 DEF IInv, CountInv
<1>6. \A h \in G : /\ Committing(h)' <=> Committing(h)
                   /\ InHandshake(h)' <=> InHandshake(h)
                   /\ PastHandshake(h)' <=> PastHandshake(h)
  BY <1>1 DEF IInv, TypeOK, Committing, PastHandshake, InHandshake, InAlert
<1>7. CommitInv' /\ OneCommits' /\ CompleteInv' /\ RenegInv' /\ NoPanic'
  BY <1>1, <1>6 DEF IInv, CommitInv, OneCommits, CompleteInv, RenegInv, NoPanic
<1> QED  BY <1>3, <1>4, <1>5, <1>7 DEF IInv


\* A Close that goes on gracefully found no Write counted.
LEMMA CloseEnterStep ==
  ASSUME NEW g \in G, IInv, CloseEnter(g)  PROVE IInv'
<1>1. /\ pc[g] = "c_enter"
      /\ pc' = [pc EXCEPT ![g] = "idle"] \/ pc' = [pc EXCEPT ![g] = "c_lock"]
      /\ closed' \in BOOLEAN /\ quietClose' \in BOOLEAN /\ netOpen' \in BOOLEAN
      /\ quietClose' => quietClose \/ writers = 0
      /\ quietClose' /\ ~quietClose => closed'
      /\ closed => closed'
      /\ UNCHANGED <<locks, hsVars, writers, closeNotifySent, peerGone, inbox, peerSent,
                     wire, drained, recVars, ghosts, local>>
  <2>1. closed \in BOOLEAN /\ quietClose \in BOOLEAN /\ netOpen \in BOOLEAN
    BY DEF IInv, TypeOK
  <2>2. CASE closed
    BY <2>1, <2>2 DEF CloseEnter
  <2>3. CASE ~closed /\ writers = 0
    BY <2>1, <2>3 DEF CloseEnter
  <2>4. CASE ~closed /\ writers # 0
    <3>1. /\ pc[g] = "c_enter" /\ closed' = TRUE /\ netOpen' = FALSE
          /\ pc' = [pc EXCEPT ![g] = "idle"]
          /\ UNCHANGED <<quietClose, locks, hsVars, writers, closeNotifySent, peerGone, inbox,
                         peerSent, wire, drained, recVars, ghosts, local>>
      BY <2>4 DEF CloseEnter
    <3> QED  BY <2>1, <3>1
  <2> QED  BY <2>2, <2>3, <2>4
<1>2. pc' \in [G -> PCs] /\ pc'[g] \in {"idle", "c_lock"}
  BY <1>1 DEF PCs, IInv, TypeOK
<1>3. \A h \in G \ {g} : pc'[h] = pc[h]
  BY <1>1 DEF IInv, TypeOK
<1>4. TypeOK'
  BY <1>1, <1>2 DEF IInv, TypeOK
<1>5. LockInv'
  BY <1>1, <1>2, <1>3 DEF IInv, LockInv, HoldsIn, HoldsHs, HoldsOut, InHandshake, InAlert
<1>6. LocalInv'
  BY <1>1, <1>2, <1>3 DEF IInv, LocalInv, CallInv, HelloInv, RunningInv, HandInv, InHandshake, InAlert
<1>7. \A h \in G : /\ Committing(h)' <=> Committing(h)
                   /\ InHandshake(h)' <=> InHandshake(h)
                   /\ PastHandshake(h)' <=> PastHandshake(h)
                   /\ InWrite(h)' <=> InWrite(h)
  <2>1. op[g] # "Write"
    BY <1>1 DEF IInv, LocalInv, CallInv
  <2> QED  BY <1>1, <1>2, <1>3, <2>1 DEF Committing, PastHandshake, InHandshake, InAlert, InWrite
<1>8. CommitInv' /\ OneCommits' /\ CompleteInv' /\ RenegInv' /\ NoPanic'
  BY <1>1, <1>7 DEF IInv, CommitInv, OneCommits, CompleteInv, RenegInv, NoPanic
<1>9. CountInv'
  <2>1. Writing' = Writing
    BY <1>7 DEF Writing
  <2> QED  BY <1>1, <2>1 DEF IInv, CountInv
<1> QED  BY <1>4, <1>5, <1>6, <1>8, <1>9 DEF IInv


\* Taking handshakeMutex for a Close.
LEMMA CloseLockStep ==
  ASSUME NEW g \in G, IInv, CloseLock(g)  PROVE IInv'
<1> USE DEF CloseLock
<1>1. TypeOK'
  BY DEF IInv, TypeOK, PCs, Errors, WireRecords, ScriptSteps, AllOps, AllPeerKinds
<1>2. Quiet(g)
  BY DEF IInv, TypeOK, LocalInv, CallInv, RunningInv, CommitInv, NoPanic, Quiet, Others, ResultKept, StandingKept,
         InWrite, Committing, PastHandshake, InHandshake, InAlert
<1>3. LockInv'
  BY <1>2, ConstantsAssumption DEF IInv, TypeOK, LocalInv, CallInv, LockInv, Quiet, Others,
         HoldsIn, HoldsHs, HoldsOut, InHandshake, InAlert
<1>4. LocalInv'
  BY <1>2 DEF IInv, TypeOK, LockInv, HoldsIn, HoldsHs, LocalInv, CallInv, HelloInv, RunningInv, HandInv, Quiet, Others,
         ResultKept, StandingKept, InHandshake, InAlert
<1> QED  BY <1>1, <1>2, <1>3, <1>4, QuietStep DEF IInv

\* Taking out.Mutex for close_notify.
LEMMA CloseNotifyLockStep ==
  ASSUME NEW g \in G, IInv, CloseNotifyLock(g)  PROVE IInv'
<1> USE DEF CloseNotifyLock
<1>1. TypeOK'
  BY DEF IInv, TypeOK, PCs
<1>2. Quiet(g)
  BY DEF IInv, TypeOK, Quiet, Others, ResultKept, StandingKept, InWrite, Committing,
         PastHandshake, InHandshake, InAlert
<1>3. LockInv'
  BY ConstantsAssumption DEF IInv, TypeOK, LockInv, HoldsIn, HoldsHs, InHandshake, InAlert, HoldsOut
<1>4. LocalInv'
  BY <1>2 DEF IInv, TypeOK, LocalInv, CallInv, HelloInv, RunningInv, HandInv, Quiet, Others,
         ResultKept, StandingKept, InHandshake, InAlert
<1> QED  BY <1>1, <1>2, <1>3, <1>4, QuietStep DEF IInv


\* Sending close_notify releases out.Mutex.
LEMMA CloseNotifyStep ==
  ASSUME NEW g \in G, IInv, CloseNotify(g)  PROVE IInv'
<1>1. /\ pc[g] = "c_alert" /\ pc' = [pc EXCEPT ![g] = "c_end"] /\ outMutex' = None
      /\ closeNotifySent' \in BOOLEAN
      /\ UNCHANGED <<handshakeMutex, inMutex, hsVars, closed, writers, quietClose, netOpen,
                     peerGone, inbox, peerSent, drained, inErr, outErr, input, hand,
                     buffering, ghosts, local>>
  BY DEF CloseNotify, IInv, TypeOK
<1>2. sendBuf' \in Seq(WireRecords) /\ wire' \in Seq(WireRecords)
  BY PutType DEF CloseNotify, WireRecords, IInv, TypeOK
<1>3. TypeOK'
  BY <1>1, <1>2 DEF IInv, TypeOK, PCs
<1>4. Quiet(g)
  BY <1>1 DEF IInv, TypeOK, Quiet, Others, ResultKept, StandingKept, InWrite, Committing,
         PastHandshake, InHandshake, InAlert
<1>5. LockInv'
  BY <1>1, <1>4, ConstantsAssumption DEF IInv, TypeOK, LockInv, Quiet, Others,
         HoldsIn, HoldsHs, HoldsOut, InHandshake, InAlert
<1>6. LocalInv'
  BY <1>1, <1>4 DEF IInv, TypeOK, LocalInv, CallInv, HelloInv, RunningInv, HandInv, Quiet, Others,
         ResultKept, StandingKept, InHandshake, InAlert
<1> QED  BY <1>3, <1>4, <1>5, <1>6, QuietStep DEF IInv


\* A Close that returns releases handshakeMutex.
LEMMA CloseEndStep ==
  ASSUME NEW g \in G, IInv, CloseEnd(g)  PROVE IInv'
<1> USE DEF CloseEnd
<1>1. TypeOK'
  BY DEF IInv, TypeOK, PCs, Errors, WireRecords, ScriptSteps, AllOps, AllPeerKinds
<1>2. Quiet(g)
  BY DEF IInv, TypeOK, LocalInv, CallInv, RunningInv, CommitInv, NoPanic, Quiet, Others, ResultKept, StandingKept,
         InWrite, Committing, PastHandshake, InHandshake, InAlert
<1>3. LockInv'
  BY <1>2, ConstantsAssumption DEF IInv, TypeOK, LocalInv, CallInv, LockInv, Quiet, Others,
         HoldsIn, HoldsHs, HoldsOut, InHandshake, InAlert
<1>4. LocalInv'
  BY <1>2 DEF IInv, TypeOK, LockInv, HoldsIn, HoldsHs, LocalInv, CallInv, HelloInv, RunningInv, HandInv, Quiet, Others,
         ResultKept, StandingKept, InHandshake, InAlert
<1> QED  BY <1>1, <1>2, <1>3, <1>4, QuietStep DEF IInv

-----------------------------------------------------------------------------
(* The peer, the start of a call, and a system that has finished.          *)

\* The peer and the network touch nothing the goroutines rely on.
LEMMA PeerStep ==
  ASSUME IInv, Peer  PROVE IInv'
<1>1. /\ inbox' \in Seq(AllPeerKinds) /\ peerSent' \in Nat /\ drained' \in Nat
      /\ peerGone' \in BOOLEAN
      /\ UNCHANGED <<locks, hsVars, closeVars, netOpen, wire, recVars, ghosts, pc, local>>
  <2>1. CASE PeerSend
    BY <2>1, ConstantsAssumption DEF PeerSend, IInv, TypeOK
  <2>2. CASE PeerDrain
    BY <2>2 DEF PeerDrain, IInv, TypeOK
  <2>3. CASE PeerHangup
    BY <2>3 DEF PeerHangup, IInv, TypeOK
  <2> QED  BY <2>1, <2>2, <2>3 DEF Peer
<1>2. TypeOK'
  BY <1>1 DEF IInv, TypeOK
<1>3. LockInv'
  BY <1>1 DEF IInv, LockInv, HoldsIn, HoldsHs, HoldsOut, InHandshake, InAlert
<1>4. LocalInv'
  BY <1>1 DEF IInv, LocalInv, CallInv, HelloInv, RunningInv, HandInv, InHandshake, InAlert
<1>5. CountInv'
  <2>1. Writing' = Writing
    BY <1>1 DEF Writing, InWrite
  <2> QED  BY <1>1, <2>1 DEF IInv, CountInv
<1>6. CommitInv' /\ OneCommits' /\ CompleteInv' /\ RenegInv' /\ NoPanic'
  BY <1>1 DEF IInv, CommitInv, OneCommits, CompleteInv, RenegInv, NoPanic, Committing,
         PastHandshake, InHandshake, InAlert
<1> QED  BY <1>2, <1>3, <1>4, <1>5, <1>6 DEF IInv

\* A new call starts outside all critical sections.
LEMMA CallStep ==
  ASSUME NEW g \in G, IInv, Call(g)  PROVE IInv'
<1>1. PICK o \in Ops : op' = [op EXCEPT ![g] = o] /\ pc' = [pc EXCEPT ![g] = Entry(o)]
  BY DEF Call
<1>2. /\ pc[g] = "idle" /\ calls' = calls + 1
      /\ UNCHANGED <<locks, hsVars, closeVars, netVars, recVars, okWrites, panicked,
                     mode, script, failed, after>>
  BY DEF Call
<1>3. o \in AllOps
  BY ConstantsAssumption
<1>4. /\ Entry(o) \in {"w_enter", "c_enter", "c_lock", "hs_lock"}
      /\ Entry(o) = "w_enter" <=> o = "Write"
      /\ Entry(o) \in {"c_enter", "c_lock"} => o \in {"Close", "CloseWrite"}
  BY <1>3 DEF Entry, AllOps
<1>5. {"w_enter", "c_enter", "c_lock", "hs_lock"} \subseteq PCs
  BY DEF PCs
<1>6. /\ pc' \in [G -> PCs] /\ pc'[g] = Entry(o) /\ op' \in [G -> AllOps] /\ op'[g] = o
      /\ \A h \in G \ {g} : pc'[h] = pc[h] /\ op'[h] = op[h]
  BY <1>1, <1>3, <1>4, <1>5 DEF IInv, TypeOK
<1>7. TypeOK'
  BY <1>2, <1>6 DEF IInv, TypeOK
<1>8. LockInv'
  BY <1>2, <1>4, <1>6 DEF IInv, LockInv, HoldsIn, HoldsHs, HoldsOut, InHandshake, InAlert
<1>9. LocalInv'
  BY <1>2, <1>4, <1>6 DEF IInv, LocalInv, CallInv, HelloInv, RunningInv, HandInv, InHandshake, InAlert
<1>10. \A h \in G : /\ InWrite(h)' <=> InWrite(h)
                    /\ Committing(h)' <=> Committing(h)
                    /\ InHandshake(h)' <=> InHandshake(h)
                    /\ PastHandshake(h)' <=> PastHandshake(h)
  BY <1>2, <1>4, <1>6 DEF InWrite, Committing, PastHandshake, InHandshake, InAlert
<1>11. CountInv'
  <2>1. Writing' = Writing
    BY <1>10 DEF Writing
  <2> QED  BY <1>2, <2>1 DEF IInv, CountInv
<1>12. CommitInv' /\ OneCommits' /\ CompleteInv' /\ RenegInv' /\ NoPanic'
  BY <1>2, <1>10 DEF IInv, CommitInv, OneCommits, CompleteInv, RenegInv, NoPanic
<1> QED  BY <1>7, <1>8, <1>9, <1>11, <1>12 DEF IInv

\* A stutter preserves the invariant.
LEMMA StutterStep ==
  ASSUME IInv, UNCHANGED vars  PROVE IInv'
<1>1. UNCHANGED <<locks, hsVars, closeVars, netVars, recVars, ghosts, pc, local>>
  BY DEF vars
<1>2. TypeOK' /\ LockInv' /\ LocalInv' /\ NoPanic'
  BY <1>1 DEF IInv, TypeOK, LockInv, HoldsIn, HoldsHs, HoldsOut, LocalInv, CallInv, HelloInv,
         RunningInv, HandInv, NoPanic, InHandshake, InAlert
<1>3. CountInv'
  <2>1. Writing' = Writing
    BY <1>1 DEF Writing, InWrite
  <2> QED  BY <1>1, <2>1 DEF IInv, CountInv
<1>4. CommitInv' /\ OneCommits' /\ CompleteInv' /\ RenegInv'
  BY <1>1 DEF IInv, CommitInv, OneCommits, CompleteInv, RenegInv, Committing,
         PastHandshake, InHandshake, InAlert
<1> QED  BY <1>2, <1>3, <1>4 DEF IInv

-----------------------------------------------------------------------------
(* The invariant.                                                          *)

\* The invariant holds of a new Conn.
LEMMA InitIInv == Init => IInv
<1> SUFFICES ASSUME Init PROVE IInv
  OBVIOUS
<1> USE DEF Init
<1>1. \A g \in G : pc[g] = "idle" /\ op[g] = "Handshake" /\ script[g] = <<>>
  OBVIOUS
<1>2. TypeOK
  <2>1. "idle" \in PCs /\ "Handshake" \in AllOps /\ None \in Errors
    BY DEF PCs, AllOps, Errors
  <2>2. /\ pc \in [G -> PCs] /\ op \in [G -> AllOps] /\ mode \in [G -> {"first", "reneg"}]
        /\ failed \in [G -> BOOLEAN] /\ after \in [G -> {"idle", "k_end", "r_done"}]
    BY <2>1
  <2>3. \A S : <<>> \in Seq(S)
    OBVIOUS
  <2>4. script \in [G -> Seq(ScriptSteps)]
    BY <2>3
  <2>5. /\ inbox \in Seq(AllPeerKinds) /\ hand \in Seq({"hs", "hreq"})
        /\ sendBuf \in Seq(WireRecords) /\ wire \in Seq(WireRecords)
    BY <2>3
  <2>6. inErr \in Errors /\ outErr \in Errors
    BY <2>1
  <2> HIDE DEF Init
  <2>7. /\ handshakeMutex = None /\ inMutex = None /\ outMutex = None
        /\ handshakeCond = FALSE /\ condWait = {} /\ stale = {}
        /\ handshakeErr = FALSE /\ handshakeComplete = FALSE /\ handshakes = 0
        /\ input = FALSE /\ closed = FALSE /\ writers = 0 /\ quietClose = FALSE
        /\ closeNotifySent = FALSE /\ netOpen = TRUE /\ peerGone = FALSE
        /\ peerSent = 0 /\ drained = 0 /\ buffering = FALSE
        /\ okWrites = 0 /\ panicked = FALSE /\ calls = 0
    BY DEF Init
  <2> QED  BY <2>2, <2>4, <2>5, <2>6, <2>7 DEF TypeOK
<1>3. LockInv
  BY <1>1, ConstantsAssumption DEF LockInv, HoldsIn, HoldsHs, HoldsOut, InHandshake, InAlert
<1>4. LocalInv
  BY <1>1 DEF LocalInv, CallInv, HelloInv, RunningInv, HandInv, InHandshake, InAlert
<1>5. CountInv
  <2>1. Writing = {}
    BY <1>1 DEF Writing, InWrite
  <2> QED  BY <2>1, FS_EmptySet DEF CountInv
<1>6. CommitInv /\ OneCommits /\ CompleteInv /\ RenegInv /\ NoPanic
  BY <1>1 DEF CommitInv, OneCommits, CompleteInv, RenegInv, NoPanic, Committing,
         PastHandshake, InHandshake, InAlert
<1> QED  BY <1>2, <1>3, <1>4, <1>5, <1>6 DEF IInv

\* Every step of the specification preserves the invariant.
LEMMA NextIInv == IInv /\ [Next]_vars => IInv'
<1> SUFFICES ASSUME IInv, [Next]_vars PROVE IInv'
  OBVIOUS
<1>1. CASE Peer
  BY <1>1, PeerStep
<1>2. CASE Done \/ UNCHANGED vars
  BY <1>2, StutterStep DEF Done
<1>3. ASSUME NEW g \in G, Call(g) PROVE IInv'
  BY <1>3, CallStep
<1>4. ASSUME NEW g \in G, HandshakeCall(g) PROVE IInv'
  BY <1>4, HandshakeCheckStep, HandshakeLockInStep, HandshakeBeginStep DEF HandshakeCall
<1>5. ASSUME NEW g \in G, HandshakeBody(g) PROVE IInv'
  BY <1>5, HandshakeBufferStep, HandshakeHelloLockStep, HandshakeHelloStep, HandshakePutStep,
     HandshakeFlushStep, HandshakeReadStep, HandshakeFinishStep, HandshakeEndStep,
     RenegotiationEndStep DEF HandshakeBody
<1>6. ASSUME NEW g \in G, Alert(g) PROVE IInv'
  BY <1>6, AlertLockStep, AlertWriteStep DEF Alert
<1>7. ASSUME NEW g \in G, ReadCall(g) PROVE IInv'
  BY <1>7, ReadLockStep, ReadInputStep, ReadErrorStep, ReadRecordStep, RenegotiateStep,
     ReadDoneStep DEF ReadCall
<1>8. ASSUME NEW g \in G, WriteCall(g) PROVE IInv'
  BY <1>8, WriteEnterStep, WriteLockStep, WriteCheckStep, WriteSendStep, WriteExitStep
     DEF WriteCall
<1>9. ASSUME NEW g \in G, CloseCall(g) PROVE IInv'
  BY <1>9, CloseEnterStep, CloseLockStep, CloseNotifyLockStep, CloseNotifyStep, CloseEndStep
     DEF CloseCall
<1> QED  BY <1>1, <1>2, <1>3, <1>4, <1>5, <1>6, <1>7, <1>8, <1>9 DEF Next, Run

\* The invariant holds in every reachable state.
THEOREM Invariance == Spec => []IInv
BY InitIInv, NextIInv, PTL DEF Spec

-----------------------------------------------------------------------------
(* What follows from it.                                                   *)

\* Every field keeps its type, the count of writers in activeCall among them: it
\* never goes below zero.
THEOREM TypeCorrect == Spec => []TypeOK
<1>1. IInv => TypeOK
  BY DEF IInv
<1> QED  BY <1>1, Invariance, PTL

\* Neither panic of Handshake is ever reached.
THEOREM NeverPanics == Spec => []NoPanic
<1>1. IInv => NoPanic
  BY DEF IInv
<1> QED  BY <1>1, Invariance, PTL

\* Once a Close has chosen to use the Conn gracefully, no Write is in progress,
\* however many goroutines call Write.
THEOREM WriteCloseInterlock == Spec => []CloseInterlock
<1>1. IInv => CloseInterlock
  BY WritersPositive DEF CloseInterlock, IInv, CountInv
<1> QED  BY <1>1, Invariance, PTL

\* The goroutine committed to the handshake finds in.Mutex free: nobody is past
\* Handshake yet, and it is the only one committed.
THEOREM CommitterNeverWaits == Spec => []CommitterGetsIn
<1>1. IInv => CommitterGetsIn
  <2> SUFFICES ASSUME IInv, NEW g \in G, pc[g] = "hs_in", inMutex # None PROVE FALSE
    BY DEF CommitterGetsIn
  <2>1. PICK h \in G : HoldsIn(h)
    BY DEF IInv, TypeOK, LockInv
  <2>2. Committing(g) /\ h # g
    BY <2>1 DEF Committing, HoldsIn
  <2>3. ~handshakeErr /\ handshakes = 0
    BY <2>2 DEF IInv, CommitInv
  <2>4. ~PastHandshake(h)
    BY <2>3 DEF IInv, CommitInv
  <2>5. Committing(h)
    BY <2>1, <2>4 DEF HoldsIn, Committing, PastHandshake, InHandshake, InAlert, IInv, TypeOK,
           LocalInv, CallInv
  <2> QED  BY <2>2, <2>5 DEF IInv, OneCommits
<1> QED  BY <1>1, Invariance, PTL

\* No step clears handshakeErr: every handshake begins without one.
THEOREM HandshakeErrorPermanent == Spec => HandshakeErrSticky
<1>1. IInv /\ [Next]_vars => [handshakeErr => handshakeErr']_handshakeErr
  <2> SUFFICES ASSUME IInv, [Next]_vars, handshakeErr PROVE handshakeErr'
    OBVIOUS
  <2>1. \A g \in G : ~InHandshake(g)
    BY DEF IInv, LocalInv, RunningInv
  <2>2. \A g \in G : ~HandshakeEnd(g) /\ ~RenegotiationEnd(g)
    BY <2>1 DEF HandshakeEnd, RenegotiationEnd, InHandshake
  <2>3. CASE Peer
    BY <2>3 DEF Peer, PeerSend, PeerDrain, PeerHangup
  <2>4. CASE Done \/ UNCHANGED vars
    BY <2>4 DEF Done, vars
  <2>5. ASSUME NEW g \in G, Call(g) PROVE handshakeErr'
    BY <2>5 DEF Call
  <2>6. ASSUME NEW g \in G, HandshakeCall(g) PROVE handshakeErr'
    BY <2>6 DEF HandshakeCall, HandshakeCheck, HasFailed, HandshakeLockIn, HandshakeBegin
  <2>7. ASSUME NEW g \in G, HandshakeBody(g) PROVE handshakeErr'
    BY <2>2, <2>7 DEF HandshakeBody, HandshakeBuffer, HandshakeHelloLock, HandshakeHello,
           HandshakePut, HandshakeFlush, HandshakeRead, HandshakeFinish
  <2>8. ASSUME NEW g \in G, Alert(g) PROVE handshakeErr'
    BY <2>8 DEF Alert, AlertLock, AlertWrite
  <2>9. ASSUME NEW g \in G, ReadCall(g) PROVE handshakeErr'
    BY <2>9 DEF ReadCall, ReadLock, ReadInput, ReadError, ReadRecord, Renegotiate, ReadDone
  <2>10. ASSUME NEW g \in G, WriteCall(g) PROVE handshakeErr'
    BY <2>10 DEF WriteCall, WriteEnter, WriteLock, WriteCheck, WriteSend, WriteExit
  <2>11. ASSUME NEW g \in G, CloseCall(g) PROVE handshakeErr'
    BY <2>11 DEF CloseCall, CloseEnter, CloseLock, CloseNotifyLock, CloseNotify, CloseEnd
  <2> QED  BY <2>3, <2>4, <2>5, <2>6, <2>7, <2>8, <2>9, <2>10, <2>11 DEF Next, Run
<1> QED  BY <1>1, Invariance, PTL DEF Spec, HandshakeErrSticky

-----------------------------------------------------------------------------
(* What the network gets: what is held back, and what may follow what.     *)

\* Nothing is held back.
Clean == ~buffering /\ sendBuf = <<>>

\* The handshake that s ends with is over: a Finished with no flight after it that
\* another one has to follow.
Open(s) == \E i \in 1..Len(s) : s[i] = "fin" /\ \A k \in (i + 1)..Len(s) : s[k] \notin {"hello", "put"}

\* What may be left of a script, by what has been held back when it is.
Greeting == {<<"hello", "read", "buffer", "read", "fin", "flush", "read">>,
             <<"hello", "read", "buffer", "read", "fin", "flush">>}
Waiting  == {<<"read", "buffer", "read", "fin", "flush", "read">>,
             <<"read", "buffer", "read", "fin", "flush">>,
             <<"buffer", "read", "fin", "flush", "read">>,
             <<"buffer", "read", "fin", "flush">>,
             <<"read", "buffer", "put", "flush", "read", "buffer", "fin", "flush">>,
             <<"buffer", "put", "flush", "read", "buffer", "fin", "flush">>,
             <<"read", "buffer", "fin", "flush">>,
             <<"buffer", "fin", "flush">>,
             <<"read", "buffer", "fin", "flush", "read">>,
             <<"buffer", "fin", "flush", "read">>}
Holding  == {<<"read", "fin", "flush", "read">>, <<"read", "fin", "flush">>,
             <<"fin", "flush", "read">>, <<"fin", "flush">>,
             <<"put", "flush", "read", "buffer", "fin", "flush">>}
Flight   == {<<"flush", "read", "buffer", "fin", "flush">>}
Closing  == {<<"flush", "read">>, <<"flush">>}
Over     == {<<"read">>, <<>>}

\* g has steps of a handshake left.
Stepping(g) == pc[g] \in {"k_run", "k_hello"}

\* What is held back, and whether the last handshake on the network is over, when
\* g has these steps left.
Stage(g) ==
  /\ script[g] \in Greeting \cup Waiting \cup Holding \cup Flight \cup Closing \cup Over
  /\ script[g] \in Greeting \cup Waiting \cup Over => Clean
  /\ script[g] \in Holding \cup Flight \cup Closing => buffering
  /\ script[g] \in Flight \cup Closing => sendBuf # <<>>
  /\ script[g] \in Closing => sendBuf[Len(sendBuf)] = "fin"
  /\ script[g] \in Over => Open(wire)
  /\ pc[g] = "k_hello" => script[g] \in Greeting
  /\ script[g] \in Greeting /\ mode[g] = "reneg" => Open(wire)
StageInv == \A g \in G : Stepping(g) => Stage(g)

\* g has begun a renegotiation and sent nothing of it yet.
AboutToGreet(g) == Stepping(g) /\ mode[g] = "reneg" /\ script[g] \in Greeting
CleanInv ==
  /\ handshakeComplete => Clean /\ Open(wire)
  /\ (\A g \in G : ~InHandshake(g)) /\ ~handshakeErr => Clean

ReadyForData == handshakeComplete \/ \E g \in G : pc[g] = "k_run" /\ AboutToGreet(g)

StaleInv == stale # {} => handshakeComplete \/ \E g \in G : AboutToGreet(g)
SendInv  == \A g \in G : pc[g] = "w_send" => ReadyForData /\ ~closeNotifySent
NotifyInv == \A g \in G : pc[g] \in {"c_out", "c_alert"} => handshakeComplete

HeldInv  == \A i \in 1..Len(sendBuf) : sendBuf[i] \notin {"app", "close"}
CloseInv == ~closeNotifySent => \A i \in 1..Len(wire) : wire[i] # "close"

WInv == StageInv /\ CleanInv /\ StaleInv /\ SendInv /\ NotifyInv /\ HeldInv /\ CloseInv /\ WireFaithful

-----------------------------------------------------------------------------
(* The steps of the scripts.                                               *)

\* The ClientHello is followed by a wait.
LEMMA GreetingSteps ==
  ASSUME NEW s \in Greeting
  PROVE  s # <<>> /\ Head(s) = "hello" /\ Tail(s) \in Waiting
<1>1. CASE s = <<"hello", "read", "buffer", "read", "fin", "flush", "read">>
  BY <1>1 DEF Waiting
<1>2. CASE s = <<"hello", "read", "buffer", "read", "fin", "flush">>
  BY <1>2 DEF Waiting
<1> QED  BY <1>1, <1>2 DEF Greeting

\* A wait ends with the beginning of the buffering.
LEMMA WaitingSteps ==
  ASSUME NEW s \in Waiting
  PROVE  /\ s # <<>> /\ Head(s) \in {"read", "buffer"}
         /\ Head(s) = "read" => Tail(s) \in Waiting
         /\ Head(s) = "buffer" => Tail(s) \in Holding
<1>1. CASE s = <<"read", "buffer", "read", "fin", "flush", "read">>
  BY <1>1 DEF Waiting
<1>2. CASE s = <<"read", "buffer", "read", "fin", "flush">>
  BY <1>2 DEF Waiting
<1>3. CASE s = <<"buffer", "read", "fin", "flush", "read">>
  BY <1>3 DEF Holding
<1>4. CASE s = <<"buffer", "read", "fin", "flush">>
  BY <1>4 DEF Holding
<1>5. CASE s = <<"read", "buffer", "put", "flush", "read", "buffer", "fin", "flush">>
  BY <1>5 DEF Waiting
<1>6. CASE s = <<"buffer", "put", "flush", "read", "buffer", "fin", "flush">>
  BY <1>6 DEF Holding
<1>7. CASE s = <<"read", "buffer", "fin", "flush">>
  BY <1>7 DEF Waiting
<1>8. CASE s = <<"buffer", "fin", "flush">>
  BY <1>8 DEF Holding
<1>9. CASE s = <<"read", "buffer", "fin", "flush", "read">>
  BY <1>9 DEF Waiting
<1>10. CASE s = <<"buffer", "fin", "flush", "read">>
  BY <1>10 DEF Holding
<1> QED  BY <1>1, <1>2, <1>3, <1>4, <1>5, <1>6, <1>7, <1>8, <1>9, <1>10 DEF Waiting

\* What is held back ends with a Finished or with a flight that another one follows.
LEMMA HoldingSteps ==
  ASSUME NEW s \in Holding
  PROVE  /\ s # <<>> /\ Head(s) \in {"read", "fin", "put"}
         /\ Head(s) = "read" => Tail(s) \in Holding
         /\ Head(s) = "fin" => Tail(s) \in Closing
         /\ Head(s) = "put" => Tail(s) \in Flight
<1>1. CASE s = <<"read", "fin", "flush", "read">>
  BY <1>1 DEF Holding
<1>2. CASE s = <<"read", "fin", "flush">>
  BY <1>2 DEF Holding
<1>3. CASE s = <<"fin", "flush", "read">>
  BY <1>3 DEF Closing
<1>4. CASE s = <<"fin", "flush">>
  BY <1>4 DEF Closing
<1>5. CASE s = <<"put", "flush", "read", "buffer", "fin", "flush">>
  BY <1>5 DEF Flight
<1> QED  BY <1>1, <1>2, <1>3, <1>4, <1>5 DEF Holding

\* The flight of a full handshake of the server is followed by a wait.
LEMMA FlightSteps ==
  ASSUME NEW s \in Flight
  PROVE  s # <<>> /\ Head(s) = "flush" /\ Tail(s) \in Waiting
<1>1. CASE s = <<"flush", "read", "buffer", "fin", "flush">>
  BY <1>1 DEF Waiting
<1> QED  BY <1>1 DEF Flight

\* After the last flush nothing is left to write.
LEMMA ClosingSteps ==
  ASSUME NEW s \in Closing
  PROVE  s # <<>> /\ Head(s) = "flush" /\ Tail(s) \in Over
<1>1. CASE s = <<"flush", "read">>
  BY <1>1 DEF Over
<1>2. CASE s = <<"flush">>
  BY <1>2 DEF Over
<1> QED  BY <1>1, <1>2 DEF Closing

\* Nothing but a message of the peer is left.
LEMMA OverSteps ==
  ASSUME NEW s \in Over
  PROVE  s # <<>> => Head(s) = "read" /\ Tail(s) \in Over
<1>1. CASE s = <<"read">>
  BY <1>1 DEF Over
<1>2. CASE s = <<>>
  BY <1>2
<1> QED  BY <1>1, <1>2 DEF Over

\* The kinds of script differ.
LEMMA KindsApart ==
  /\ Greeting \cap (Waiting \cup Holding \cup Flight \cup Closing \cup Over) = {}
  /\ Waiting \cap (Holding \cup Flight \cup Closing \cup Over) = {}
  /\ Holding \cap (Flight \cup Closing \cup Over) = {}
  /\ Flight \cap (Closing \cup Over) = {} /\ Closing \cap Over = {}
  /\ <<>> \notin Greeting \cup Waiting \cup Holding \cup Flight \cup Closing
BY DEF Greeting, Waiting, Holding, Flight, Closing, Over

-----------------------------------------------------------------------------
(* Facts about sequences of records.                                       *)

InOrder(s) ==
  \A j \in 1..Len(s) :
    /\ s[j] \in {"app", "close"} => \A i \in 1..(j - 1) : s[i] # "close"
    /\ s[j] = "app" => \E i \in 1..(j - 1) : /\ s[i] = "fin"
                                             /\ \A k \in (i + 1)..(j - 1) : s[k] \notin {"hello", "put"}
NoneIs(s, r) == \A i \in 1..Len(s) : s[i] # r
Apps(s) == {i \in 1..Len(s) : s[i] = "app"}

\* Only a message that another one follows opens a handshake again.
LEMMA OpenAppend ==
  ASSUME NEW S, NEW s \in Seq(S), NEW r \in S, Open(s), r \notin {"hello", "put"}
  PROVE  Open(Append(s, r))
BY AppendProperties DEF Open

\* A flight that ends with a Finished ends a handshake.
LEMMA OpenConcat ==
  ASSUME NEW S, NEW s \in Seq(S), NEW t \in Seq(S), t # <<>>, t[Len(t)] = "fin"
  PROVE  Open(s \o t)
<1>1. /\ Len(s \o t) = Len(s) + Len(t)
      /\ \A i \in 1..Len(s \o t) : (s \o t)[i] = IF i <= Len(s) THEN s[i] ELSE t[i - Len(s)]
  BY ConcatProperties
<1>2. Len(t) > 0 /\ Len(s) \in Nat /\ Len(t) \in Nat
  BY EmptySeq, LenProperties
<1>3. Len(s \o t) \in 1..Len(s \o t) /\ (s \o t)[Len(s \o t)] = "fin"
  BY <1>1, <1>2
<1>4. (Len(s \o t) + 1)..Len(s \o t) = {}
  BY <1>1, <1>2
<1> QED  BY <1>3, <1>4 DEF Open

\* The order is kept by a record of another kind, by data after a Finished and
\* before close_notify, and by the first close_notify.
LEMMA OrderAppend ==
  ASSUME NEW S, NEW s \in Seq(S), NEW r \in S, InOrder(s),
         r \in {"app", "close"} => NoneIs(s, "close"),
         r = "app" => Open(s)
  PROVE  InOrder(Append(s, r))
<1>1. /\ Len(Append(s, r)) = Len(s) + 1 /\ Append(s, r)[Len(s) + 1] = r
      /\ \A i \in 1..Len(s) : Append(s, r)[i] = s[i]
  BY AppendProperties
<1>a. Len(s) \in Nat
  BY LenProperties
<1> DEFINE t == Append(s, r)
<1>2. ASSUME NEW j \in 1..Len(t)
      PROVE  /\ t[j] \in {"app", "close"} => \A i \in 1..(j - 1) : t[i] # "close"
             /\ t[j] = "app" => \E i \in 1..(j - 1) : /\ t[i] = "fin"
                                                      /\ \A k \in (i + 1)..(j - 1) : t[k] \notin {"hello", "put"}
  <2>1. CASE j \in 1..Len(s)
    BY <1>1, <1>a, <2>1 DEF InOrder
  <2>2. CASE j = Len(s) + 1
    <3>1. t[j] = r /\ j - 1 = Len(s) /\ \A i \in 1..(j - 1) : t[i] = s[i]
      BY <1>1, <1>a, <2>2
    <3> HIDE DEF t
    <3>2. t[j] \in {"app", "close"} => \A i \in 1..(j - 1) : t[i] # "close"
      BY <3>1 DEF NoneIs
    <3>3. ASSUME t[j] = "app"
          PROVE  \E i \in 1..(j - 1) : t[i] = "fin" /\ \A k \in (i + 1)..(j - 1) : t[k] \notin {"hello", "put"}
      BY <3>1, <3>3, <1>a DEF Open
    <3> QED  BY <3>2, <3>3
  <2> QED  BY <1>1, <1>a, <2>1, <2>2
<1> HIDE DEF t
<1>3. InOrder(t)
  BY <1>2 DEF InOrder
<1> QED  BY <1>3 DEF t

\* So it is by records that are neither.
LEMMA OrderConcat ==
  ASSUME NEW S, NEW s \in Seq(S), NEW u \in Seq(S), InOrder(s),
         \A i \in 1..Len(u) : u[i] \notin {"app", "close"}
  PROVE  InOrder(s \o u)
<1>1. /\ Len(s \o u) = Len(s) + Len(u) /\ Len(s) \in Nat /\ Len(u) \in Nat
      /\ \A i \in 1..Len(s \o u) : (s \o u)[i] = IF i <= Len(s) THEN s[i] ELSE u[i - Len(s)]
  BY ConcatProperties, LenProperties
<1>2. PICK t : t = s \o u
  OBVIOUS
<1>3. /\ Len(t) = Len(s) + Len(u) /\ Len(s) \in Nat /\ Len(u) \in Nat
      /\ \A i \in 1..Len(t) : t[i] = IF i <= Len(s) THEN s[i] ELSE u[i - Len(s)]
  BY <1>1, <1>2
<1>4. ASSUME NEW j \in 1..Len(t)
      PROVE  /\ t[j] \in {"app", "close"} => \A i \in 1..(j - 1) : t[i] # "close"
             /\ t[j] = "app" => \E i \in 1..(j - 1) : /\ t[i] = "fin"
                                                      /\ \A k \in (i + 1)..(j - 1) : t[k] \notin {"hello", "put"}
  <2>1. CASE j <= Len(s)
    <3>1. j \in 1..Len(s) /\ \A i \in 1..j : t[i] = s[i]
      BY <1>3, <2>1
    <3>2. /\ s[j] \in {"app", "close"} => \A i \in 1..(j - 1) : s[i] # "close"
          /\ s[j] = "app" => \E i \in 1..(j - 1) : /\ s[i] = "fin"
                                                   /\ \A k \in (i + 1)..(j - 1) : s[k] \notin {"hello", "put"}
      BY <3>1 DEF InOrder
    <3> QED  BY <3>1, <3>2
  <2>2. CASE j > Len(s)
    BY <1>3, <2>2
  <2> QED  BY <1>3, <2>1, <2>2
<1> QED  BY <1>2, <1>4 DEF InOrder

\* Records that are not data leave the data as it is.
LEMMA AppsKept ==
  ASSUME NEW S, NEW s \in Seq(S), NEW r \in S, NEW u \in Seq(S), NoneIs(u, "app")
  PROVE  /\ r # "app" => Apps(Append(s, r)) = Apps(s)
         /\ Apps(s \o u) = Apps(s)
BY ConcatProperties, LenProperties, AppendProperties DEF Apps, NoneIs

\* A record of data is one more.
LEMMA AppsMore ==
  ASSUME NEW S, NEW s \in Seq(S), NEW r \in S, r = "app"
  PROVE  Cardinality(Apps(Append(s, r))) = Cardinality(Apps(s)) + 1
<1>1. /\ Len(Append(s, r)) = Len(s) + 1 /\ Append(s, r)[Len(s) + 1] = r
      /\ \A i \in 1..Len(s) : Append(s, r)[i] = s[i]
      /\ Len(s) \in Nat
  BY AppendProperties, LenProperties
<1>2. Apps(Append(s, r)) = Apps(s) \cup {Len(s) + 1}
  BY <1>1 DEF Apps
<1>3. Len(s) + 1 \notin Apps(s)
  BY <1>1 DEF Apps
<1>4. IsFiniteSet(Apps(s))
  <2>1. IsFiniteSet(1..Len(s))
    BY <1>1, FS_Interval
  <2> QED  BY <2>1, FS_Subset DEF Apps
<1> QED  BY <1>2, <1>3, <1>4, FS_AddElement

-----------------------------------------------------------------------------
(* Steps and what they keep.                                               *)

\* One handshake runs at a time.
LEMMA OneHandshake ==
  ASSUME IInv, NEW g \in G, NEW h \in G, InHandshake(g), InHandshake(h)  PROVE g = h
BY DEF IInv, LockInv, HoldsHs

OnTheWire == <<wire, sendBuf, buffering, closeNotifySent, okWrites>>

\* A step that puts nothing on the network and leaves what is held back.
LEMMA KeptStep ==
  ASSUME NEW g \in G, IInv, WInv, Others(g), UNCHANGED OnTheWire,
         handshakeErr' = handshakeErr, handshakeComplete' = handshakeComplete, stale' \subseteq stale,
         Stepping(g)' => Stage(g)',
         InHandshake(g) => InHandshake(g)',
         AboutToGreet(g) => pc'[g] = pc[g] /\ AboutToGreet(g)',
         pc'[g] = "w_send" => ReadyForData /\ ~closeNotifySent,
         pc'[g] \in {"c_out", "c_alert"} => handshakeComplete
  PROVE  WInv'
<1>1. HeldInv' /\ CloseInv' /\ WireFaithful'
  BY DEF WInv, OnTheWire, HeldInv, CloseInv, WireFaithful, WireInOrder, AckedWritesOnWire
<1>2. \A h \in G \ {g} : /\ Stepping(h)' <=> Stepping(h)
                         /\ Stage(h)' <=> Stage(h)
                         /\ AboutToGreet(h)' <=> AboutToGreet(h)
                         /\ InHandshake(h)' <=> InHandshake(h)
  BY DEF Others, OnTheWire, Stepping, Stage, AboutToGreet, InHandshake, InAlert, Clean, Open
<1>3. StageInv'
  BY <1>2 DEF WInv, StageInv
<1>4. CleanInv'
  BY <1>2 DEF WInv, CleanInv, OnTheWire, Clean, Open
<1>5. \A h \in G : AboutToGreet(h) => pc'[h] = pc[h] /\ AboutToGreet(h)'
  BY <1>2 DEF Others
<1>6. StaleInv'
  BY <1>5 DEF WInv, StaleInv
<1>7. ReadyForData => ReadyForData'
  BY <1>5 DEF ReadyForData
<1>8. SendInv' /\ NotifyInv'
  BY <1>7 DEF WInv, SendInv, NotifyInv, Others, OnTheWire
<1> QED  BY <1>1, <1>3, <1>4, <1>6, <1>8 DEF WInv

\* A step of a handshake that has greeted or is greeting: nobody is sending data.
LEMMA HandshakeStep ==
  ASSUME NEW g \in G, IInv, WInv, Others(g), Stepping(g),
         ~AboutToGreet(g) \/ (pc[g] = "k_hello" /\ stale' = {}),
         stale' \in {stale, {}},
         handshakeErr' = handshakeErr, handshakeComplete' = handshakeComplete,
         InHandshake(g)', Stepping(g)' => Stage(g)',
         HeldInv', CloseInv', WireFaithful'
  PROVE  WInv'
<1>1. InHandshake(g)
  BY DEF Stepping, InHandshake
<1>2. \A h \in G \ {g} : ~InHandshake(h) /\ ~InHandshake(h)' /\ ~Stepping(h)' /\ ~AboutToGreet(h)
  BY <1>1, OneHandshake DEF Others, InHandshake, InAlert, Stepping, AboutToGreet
<1>3. ~handshakeComplete
  BY <1>1 DEF IInv, LocalInv, RunningInv, Stepping
<1>4. StageInv'
  BY <1>2 DEF StageInv
<1>5. CleanInv'
  BY <1>3 DEF CleanInv
<1>6. stale' = {}
  BY <1>2, <1>3 DEF WInv, StaleInv
<1>7. \A h \in G : pc[h] # "w_send"
  BY <1>2, <1>3 DEF WInv, SendInv, ReadyForData, IInv, LockInv, HoldsOut
<1>8. pc'[g] \notin {"w_send", "c_out", "c_alert"}
  BY DEF InHandshake, InAlert
<1>9. SendInv' /\ NotifyInv'
  BY <1>7, <1>8, <1>3 DEF SendInv, WInv, NotifyInv, Others
<1> QED  BY <1>4, <1>5, <1>6, <1>9 DEF WInv, StaleInv

\* A step of the peer and a step of no call.
LEMMA CallsKept ==
  ASSUME WInv, UNCHANGED OnTheWire, UNCHANGED <<hsVars, pc, local>>
  PROVE  WInv'
BY DEF WInv, OnTheWire, StageInv, Stage, Stepping, CleanInv, Clean, Open, StaleInv, AboutToGreet, SendInv,
       ReadyForData, NotifyInv, HeldInv, CloseInv, WireFaithful, WireInOrder, AckedWritesOnWire,
       InHandshake, InAlert

-----------------------------------------------------------------------------
(* The actions that put nothing on the network.                            *)

\* Looking at the result, waiting or committing.
LEMMA HandshakeCheckKept ==
  ASSUME NEW g \in G, IInv, WInv, HandshakeCheck(g)  PROVE WInv'
<1>1. Others(g)
  BY DEF HandshakeCheck, IInv, TypeOK, Others, CheckLocks, HasFailed, Committed, HandshakeReturns
<1>2. UNCHANGED OnTheWire /\ UNCHANGED <<handshakeErr, handshakeComplete, stale>>
  BY DEF HandshakeCheck, OnTheWire
<1>3. /\ ~Stepping(g)' /\ pc'[g] # "w_send"
      /\ pc'[g] \in {"c_out", "c_alert"} => handshakeComplete
      /\ ~Stepping(g)
      /\ InHandshake(g) => InHandshake(g)'
  BY DEF HandshakeCheck, IInv, TypeOK, Stepping, InHandshake, InAlert,
         CheckLocks, HasFailed, Committed, HandshakeReturns
<1> QED  BY <1>1, <1>2, <1>3, KeptStep DEF AboutToGreet

\* Taking in.Mutex for the handshake.
LEMMA HandshakeLockInKept ==
  ASSUME NEW g \in G, IInv, WInv, HandshakeLockIn(g)  PROVE WInv'
BY KeptStep DEF HandshakeLockIn, IInv, TypeOK, Others, OnTheWire, Stepping, InHandshake, InAlert, AboutToGreet

\* Taking in.Mutex in Read.
LEMMA ReadLockKept ==
  ASSUME NEW g \in G, IInv, WInv, ReadLock(g)  PROVE WInv'
BY KeptStep DEF ReadLock, IInv, TypeOK, Others, OnTheWire, Stepping, InHandshake, InAlert, AboutToGreet

\* Releasing in.Mutex in Read.
LEMMA ReadDoneKept ==
  ASSUME NEW g \in G, IInv, WInv, ReadDone(g)  PROVE WInv'
BY KeptStep DEF ReadDone, IInv, TypeOK, Others, OnTheWire, Stepping, InHandshake, InAlert, AboutToGreet

\* Handing over data that has been read.
LEMMA ReadInputKept ==
  ASSUME NEW g \in G, IInv, WInv, ReadInput(g)  PROVE WInv'
BY KeptStep DEF ReadInput, IInv, TypeOK, Others, OnTheWire, Stepping, InHandshake, InAlert, AboutToGreet

\* Returning the error that is there.
LEMMA ReadErrorKept ==
  ASSUME NEW g \in G, IInv, WInv, ReadError(g)  PROVE WInv'
BY KeptStep DEF ReadError, IInv, TypeOK, Others, OnTheWire, Stepping, InHandshake, InAlert, AboutToGreet

\* A record is read outside a handshake.
LEMMA ReadRecordKept ==
  ASSUME NEW g \in G, IInv, WInv, ReadRecord(g)  PROVE WInv'
<1>1. Others(g)
  BY DEF ReadRecord, IInv, TypeOK, Others, AfterRecord, AlertThen, InSync, HandshakeTaken
<1>2. UNCHANGED OnTheWire /\ UNCHANGED <<handshakeErr, handshakeComplete, stale>>
  BY DEF ReadRecord, OnTheWire
<1>3. /\ ~Stepping(g)' /\ pc'[g] # "w_send"
      /\ pc'[g] \in {"c_out", "c_alert"} => handshakeComplete
      /\ ~Stepping(g)
      /\ InHandshake(g) => InHandshake(g)'
  BY DEF ReadRecord, IInv, TypeOK, Stepping, InHandshake, InAlert,
         AfterRecord, AlertThen, InSync, HandshakeTaken
<1> QED  BY <1>1, <1>2, <1>3, KeptStep DEF AboutToGreet

\* Taking out.Mutex for an alert.
LEMMA AlertLockKept ==
  ASSUME NEW g \in G, IInv, WInv, AlertLock(g)  PROVE WInv'
BY KeptStep DEF AlertLock, IInv, TypeOK, Others, OnTheWire, Stepping, InHandshake, InAlert, AboutToGreet

\* A Write is counted, or refused.
LEMMA WriteEnterKept ==
  ASSUME NEW g \in G, IInv, WInv, WriteEnter(g)  PROVE WInv'
BY KeptStep DEF WriteEnter, IInv, TypeOK, Others, OnTheWire, Stepping, InHandshake, InAlert, AboutToGreet

\* Taking out.Mutex in Write.
LEMMA WriteLockKept ==
  ASSUME NEW g \in G, IInv, WInv, WriteLock(g)  PROVE WInv'
BY KeptStep DEF WriteLock, IInv, TypeOK, Others, OnTheWire, Stepping, InHandshake, InAlert, AboutToGreet

\* The end of a Write.
LEMMA WriteExitKept ==
  ASSUME NEW g \in G, IInv, WInv, WriteExit(g)  PROVE WInv'
BY KeptStep DEF WriteExit, IInv, TypeOK, Others, OnTheWire, Stepping, InHandshake, InAlert, AboutToGreet

\* Close reads activeCall.
LEMMA CloseEnterKept ==
  ASSUME NEW g \in G, IInv, WInv, CloseEnter(g)  PROVE WInv'
BY KeptStep DEF CloseEnter, IInv, TypeOK, Others, OnTheWire, Stepping, InHandshake, InAlert, AboutToGreet

\* Taking out.Mutex for close_notify.
LEMMA CloseNotifyLockKept ==
  ASSUME NEW g \in G, IInv, WInv, CloseNotifyLock(g)  PROVE WInv'
BY KeptStep DEF CloseNotifyLock, IInv, TypeOK, Others, OnTheWire, WInv, NotifyInv, Stepping, InHandshake,
   InAlert, AboutToGreet

\* The end of a Close.
LEMMA CloseEndKept ==
  ASSUME NEW g \in G, IInv, WInv, CloseEnd(g)  PROVE WInv'
BY KeptStep DEF CloseEnd, IInv, TypeOK, Others, OnTheWire, Stepping, InHandshake, InAlert, AboutToGreet

\* Close goes on to close_notify if the handshake is complete, which it has seen under handshakeMutex.
LEMMA CloseLockKept ==
  ASSUME NEW g \in G, IInv, WInv, CloseLock(g)  PROVE WInv'
BY KeptStep DEF CloseLock, IInv, TypeOK, Others, OnTheWire, Stepping, InHandshake, InAlert, AboutToGreet

\* A call begins.
LEMMA CallKept ==
  ASSUME NEW g \in G, IInv, WInv, Call(g)  PROVE WInv'
BY KeptStep DEF Call, IInv, TypeOK, Others, Entry, OnTheWire, Stepping, InHandshake, InAlert, AboutToGreet

\* Write may see a complete handshake that is not complete any more, as long as
\* the ClientHello of the renegotiation has not been sent; with out.Mutex held it
\* will not be.
LEMMA WriteCheckKept ==
  ASSUME NEW g \in G, IInv, WInv, WriteCheck(g)  PROVE WInv'
<1>1. Others(g) /\ UNCHANGED OnTheWire /\ UNCHANGED <<handshakeErr, handshakeComplete>>
      /\ stale' \subseteq stale /\ pc[g] = "w_check" /\ pc'[g] \in {"w_send", "w_exit"}
  BY DEF WriteCheck, IInv, TypeOK, Others, OnTheWire
<1>2. ASSUME pc'[g] = "w_send"  PROVE ReadyForData /\ ~closeNotifySent
  BY <1>1, <1>2 DEF WriteCheck, IInv, TypeOK, WriteAllowed, ReadyForData, SeesComplete, WInv, StaleInv, LockInv,
     HoldsOut, AboutToGreet, Stepping
<1>3. ~Stepping(g) /\ ~Stepping(g)' /\ ~InHandshake(g)
  BY <1>1 DEF Stepping, InHandshake, InAlert
<1>4. pc'[g] \notin {"c_out", "c_alert"} /\ ~AboutToGreet(g)
  BY <1>1, <1>3 DEF AboutToGreet
<1> QED  BY <1>1, <1>2, <1>3, <1>4, KeptStep

\* Where a script goes when its first step is taken.
LEMMA StageOf ==
  ASSUME NEW g \in G, WInv, Stepping(g)  PROVE Stage(g)
BY DEF WInv, StageInv

\* Whoever is about to greet may only send the ClientHello.
LEMMA GreetingHead ==
  ASSUME NEW g \in G, AboutToGreet(g)  PROVE script[g] # <<>> /\ Head(script[g]) = "hello"
BY GreetingSteps DEF AboutToGreet

\* Taking out.Mutex for the ClientHello: nobody is sending data.
LEMMA HandshakeHelloLockKept ==
  ASSUME NEW g \in G, IInv, WInv, HandshakeHelloLock(g)  PROVE WInv'
<1>1. /\ pc[g] = "k_run" /\ pc'[g] = "k_hello" /\ Others(g) /\ outMutex = None
      /\ script' = script /\ mode' = mode /\ stale' = stale
      /\ script[g] # <<>> /\ Head(script[g]) = "hello"
      /\ UNCHANGED OnTheWire /\ UNCHANGED <<handshakeErr, handshakeComplete>>
  BY DEF HandshakeHelloLock, Step, IInv, TypeOK, Others, OnTheWire
<1>2. Stepping(g) /\ Stepping(g)' /\ InHandshake(g) /\ InHandshake(g)' /\ Stage(g)
  BY <1>1, StageOf DEF Stepping, InHandshake
<1>3. script[g] \in Greeting
  BY <1>1, <1>2, WaitingSteps, HoldingSteps, FlightSteps, ClosingSteps, OverSteps DEF Stage
<1>4. Stage(g)'
  BY <1>1, <1>2, <1>3 DEF Stage, OnTheWire, Clean, Open
<1>5. \A h \in G : pc[h] # "w_send"
  BY <1>1, ConstantsAssumption DEF IInv, LockInv, HoldsOut
<1>6. HeldInv' /\ CloseInv' /\ WireFaithful'
  BY <1>1 DEF WInv, OnTheWire, HeldInv, CloseInv, WireFaithful, WireInOrder, AckedWritesOnWire
<1>7. \A h \in G \ {g} : ~InHandshake(h) /\ ~InHandshake(h)' /\ ~Stepping(h)' /\ ~AboutToGreet(h)
  BY <1>1, <1>2, OneHandshake DEF Others, InHandshake, InAlert, Stepping, AboutToGreet
<1>8. StageInv' /\ CleanInv'
  BY <1>1, <1>2, <1>4, <1>7 DEF WInv, StageInv, CleanInv, OnTheWire, Clean, Open
<1>9. StaleInv'
  BY <1>1, <1>2, <1>7 DEF AboutToGreet, WInv, StaleInv
<1>10. SendInv' /\ NotifyInv'
  BY <1>1, <1>5 DEF WInv, SendInv, NotifyInv, Others
<1> QED  BY <1>6, <1>8, <1>9, <1>10 DEF WInv

\* A message of the peer is read.
LEMMA HandshakeReadKept ==
  ASSUME NEW g \in G, IInv, WInv, HandshakeRead(g)  PROVE WInv'
<1>1. /\ pc[g] = "k_run" /\ Others(g) /\ mode' = mode
      /\ script[g] # <<>> /\ Head(script[g]) = "read"
      /\ UNCHANGED OnTheWire /\ UNCHANGED <<handshakeErr, handshakeComplete, stale>>
  BY DEF HandshakeRead, Step, StepDone, Fail, AlertThen, IInv, TypeOK, Others, OnTheWire
<1>2. \/ pc'[g] = "k_run" /\ script'[g] = script[g]
      \/ pc'[g] = "k_run" /\ script'[g] = Tail(script[g])
      \/ pc'[g] = "k_end"
      \/ pc'[g] = "al_lock" /\ after'[g] = "k_end"
  BY DEF HandshakeRead, Step, StepDone, Fail, AlertThen, IInv, TypeOK
<1>3. Stepping(g) /\ Stage(g) /\ ~AboutToGreet(g)
  BY <1>1, StageOf, GreetingHead DEF Stepping
<1>4. InHandshake(g)'
  BY <1>2 DEF InHandshake, InAlert
<1>5. ASSUME pc'[g] = "k_run", script'[g] = Tail(script[g])  PROVE Stage(g)'
  <2>1. \/ script[g] \in Waiting /\ script'[g] \in Waiting
        \/ script[g] \in Holding /\ script'[g] \in Holding
        \/ script[g] \in Over /\ script'[g] \in Over
    BY <1>1, <1>3, <1>5, GreetingSteps, WaitingSteps, HoldingSteps, FlightSteps, ClosingSteps, OverSteps DEF Stage
  <2> QED  BY <1>1, <1>3, <1>5, <2>1, KindsApart DEF Stage, OnTheWire, Clean, Open
<1>6. ASSUME pc'[g] = "k_run", script'[g] = script[g]  PROVE Stage(g)'
  BY <1>1, <1>3, <1>6 DEF Stage, OnTheWire, Clean, Open
<1>7. Stepping(g)' => Stage(g)'
  BY <1>2, <1>5, <1>6 DEF Stepping
<1>8. HeldInv' /\ CloseInv' /\ WireFaithful'
  BY <1>1 DEF WInv, OnTheWire, HeldInv, CloseInv, WireFaithful, WireInOrder, AckedWritesOnWire
<1> QED  BY <1>1, <1>3, <1>4, <1>7, <1>8, HandshakeStep

\* Buffering begins.
LEMMA HandshakeBufferKept ==
  ASSUME NEW g \in G, IInv, WInv, HandshakeBuffer(g)  PROVE WInv'
<1>1. /\ pc[g] = "k_run" /\ pc'[g] = "k_run" /\ Others(g) /\ mode' = mode
      /\ script[g] # <<>> /\ Head(script[g]) = "buffer" /\ script'[g] = Tail(script[g])
      /\ buffering' = TRUE /\ UNCHANGED <<wire, sendBuf, closeNotifySent, okWrites>>
      /\ UNCHANGED <<handshakeErr, handshakeComplete, stale>>
  BY DEF HandshakeBuffer, Step, StepDone, IInv, TypeOK, Others
<1>2. Stepping(g) /\ Stepping(g)' /\ Stage(g) /\ ~AboutToGreet(g) /\ InHandshake(g)'
  BY <1>1, StageOf, GreetingHead DEF Stepping, InHandshake
<1>3. script'[g] \in Holding
  BY <1>1, <1>2, GreetingSteps, WaitingSteps, HoldingSteps, FlightSteps, ClosingSteps, OverSteps DEF Stage
<1>4. Stage(g)'
  BY <1>1, <1>3, KindsApart DEF Stage
<1>5. HeldInv' /\ CloseInv' /\ WireFaithful'
  BY <1>1 DEF WInv, HeldInv, CloseInv, WireFaithful, WireInOrder, AckedWritesOnWire
<1> QED  BY <1>1, <1>2, <1>4, <1>5, HandshakeStep

-----------------------------------------------------------------------------
(* The actions that put something on the network.                          *)

\* What write does to the network and to what is held back.
LEMMA PutCases ==
  ASSUME IInv, NEW r \in WireRecords, Put(r)
  PROVE  /\ wire \in Seq(WireRecords) /\ sendBuf \in Seq(WireRecords)
         /\ buffering => wire' = wire /\ sendBuf' = Append(sendBuf, r)
         /\ ~buffering => sendBuf' = sendBuf /\ (wire' = wire \/ wire' = Append(wire, r))
BY DEF Put, IInv, TypeOK

\* A record that is neither data nor close_notify keeps the network in order.
LEMMA PutKeepsOrder ==
  ASSUME IInv, WInv, NEW r \in WireRecords, Put(r), r \notin {"app", "close"},
         closeNotifySent' = closeNotifySent, okWrites' = okWrites
  PROVE  HeldInv' /\ CloseInv' /\ WireFaithful'
<1>1. /\ wire \in Seq(WireRecords) /\ sendBuf \in Seq(WireRecords)
      /\ wire' \in {wire, Append(wire, r)} /\ sendBuf' \in {sendBuf, Append(sendBuf, r)}
  BY PutCases
<1>2. HeldInv'
  BY <1>1, AppendProperties DEF WInv, HeldInv
<1>3. InOrder(wire) /\ okWrites = Cardinality(Apps(wire))
  BY DEF WInv, WireFaithful, WireInOrder, AckedWritesOnWire, InOrder, Apps
<1>4. CASE wire' = wire
  BY <1>2, <1>4 DEF WInv, CloseInv, WireFaithful, WireInOrder, AckedWritesOnWire
<1>5. CASE wire' = Append(wire, r)
  <2>1. InOrder(wire')
    BY <1>1, <1>3, <1>5, OrderAppend
  <2>2. Apps(wire') = Apps(wire)
    <3>1. NoneIs(<<>>, "app") /\ <<>> \in Seq(WireRecords)
      BY DEF NoneIs
    <3> QED  BY <1>1, <1>5, <3>1, AppsKept
  <2>3. CloseInv'
    BY <1>1, <1>5, AppendProperties DEF WInv, CloseInv
  <2>4. WireInOrder' /\ AckedWritesOnWire'
    BY <1>3, <2>1, <2>2 DEF WireInOrder, AckedWritesOnWire, InOrder, Apps
  <2> QED  BY <1>2, <2>3, <2>4 DEF WireFaithful
<1> QED  BY <1>1, <1>4, <1>5

\* So does a flush.
LEMMA FlushKeepsOrder ==
  ASSUME IInv, WInv, Flush, closeNotifySent' = closeNotifySent, okWrites' = okWrites
  PROVE  HeldInv' /\ CloseInv' /\ WireFaithful'
<1>1. /\ wire \in Seq(WireRecords) /\ sendBuf \in Seq(WireRecords)
      /\ wire' \in {wire, wire \o sendBuf} /\ sendBuf' = <<>>
  BY DEF Flush, IInv, TypeOK
<1>2. HeldInv'
  BY <1>1 DEF HeldInv
<1>3. InOrder(wire) /\ okWrites = Cardinality(Apps(wire))
  BY DEF WInv, WireFaithful, WireInOrder, AckedWritesOnWire, InOrder, Apps
<1>4. CASE wire' = wire
  BY <1>2, <1>4 DEF WInv, CloseInv, WireFaithful, WireInOrder, AckedWritesOnWire
<1>5. CASE wire' = wire \o sendBuf
  <2>1. \A i \in 1..Len(sendBuf) : sendBuf[i] \notin {"app", "close"}
    BY DEF WInv, HeldInv
  <2>2. InOrder(wire')
    BY <1>1, <1>3, <1>5, <2>1, OrderConcat
  <2>3. Apps(wire') = Apps(wire)
    BY <2>1, <1>1, <1>5, AppsKept DEF NoneIs, WireRecords
  <2>4. CloseInv'
    <3>1. /\ Len(wire \o sendBuf) = Len(wire) + Len(sendBuf) /\ Len(wire) \in Nat /\ Len(sendBuf) \in Nat
          /\ \A i \in 1..Len(wire \o sendBuf) :
               (wire \o sendBuf)[i] = IF i <= Len(wire) THEN wire[i] ELSE sendBuf[i - Len(wire)]
      BY <1>1, ConcatProperties, LenProperties
    <3>2. ASSUME ~closeNotifySent, NEW i \in 1..Len(wire \o sendBuf)  PROVE (wire \o sendBuf)[i] # "close"
      BY <3>1, <3>2, <2>1 DEF WInv, CloseInv
    <3> QED  BY <1>5, <3>2 DEF CloseInv
  <2>5. WireInOrder' /\ AckedWritesOnWire'
    BY <1>3, <2>2, <2>3 DEF WireInOrder, AckedWritesOnWire, InOrder, Apps
  <2> QED  BY <1>2, <2>4, <2>5 DEF WireFaithful
<1> QED  BY <1>1, <1>4, <1>5

\* The ClientHello goes out before anything is held back.
LEMMA HandshakeHelloKept ==
  ASSUME NEW g \in G, IInv, WInv, HandshakeHello(g)  PROVE WInv'
<1>1. /\ pc[g] = "k_hello" /\ Others(g) /\ mode' = mode /\ stale' = {} /\ Put("hello")
      /\ UNCHANGED <<buffering, closeNotifySent, okWrites, handshakeErr, handshakeComplete>>
  BY DEF HandshakeHello, StepDone, Fail, IInv, TypeOK, Others
<1>2. \/ pc'[g] = "k_run" /\ script'[g] = Tail(script[g])
      \/ pc'[g] = "k_end"
  BY DEF HandshakeHello, StepDone, Fail, IInv, TypeOK
<1>3. Stepping(g) /\ Stage(g) /\ script[g] \in Greeting /\ Clean
  BY <1>1, StageOf DEF Stepping, Stage
<1>4. InHandshake(g)'
  BY <1>2 DEF InHandshake, InAlert
<1>5. "hello" \in WireRecords
  BY DEF WireRecords
<1>6. HeldInv' /\ CloseInv' /\ WireFaithful'
  BY <1>1, <1>5, PutKeepsOrder
<1>7. ASSUME pc'[g] = "k_run", script'[g] = Tail(script[g])  PROVE Stage(g)'
  BY <1>3, <1>7, GreetingSteps, <1>1, <1>5, PutCases, KindsApart DEF Clean, Stage
<1>8. Stepping(g)' => Stage(g)'
  BY <1>2, <1>7 DEF Stepping
<1> QED  BY <1>1, <1>3, <1>4, <1>6, <1>8, HandshakeStep

\* A flight is written while buffering.
LEMMA HandshakePutKept ==
  ASSUME NEW g \in G, IInv, WInv, HandshakePut(g)  PROVE WInv'
<1>1. PICK f \in {"put", "fin"} : Step(g, f) /\ Put(f)
  BY DEF HandshakePut
<1>2. /\ pc[g] = "k_run" /\ pc'[g] = "k_run" /\ Others(g) /\ mode' = mode /\ stale' = {}
      /\ script[g] # <<>> /\ Head(script[g]) = f /\ script'[g] = Tail(script[g])
      /\ UNCHANGED <<buffering, closeNotifySent, okWrites, handshakeErr, handshakeComplete>>
  BY <1>1 DEF HandshakePut, Step, StepDone, IInv, TypeOK, Others
<1>3. f \in WireRecords /\ f \notin {"hello", "app", "close", "read", "buffer", "flush"}
  BY DEF WireRecords
<1>4. Stepping(g) /\ Stepping(g)' /\ Stage(g) /\ ~AboutToGreet(g) /\ InHandshake(g)'
  BY <1>2, <1>3, StageOf, GreetingHead DEF Stepping, InHandshake
<1>5. /\ script[g] \in Holding
      /\ \/ script'[g] \in Closing /\ f = "fin"
         \/ script'[g] \in Flight
  BY <1>2, <1>3, <1>4, GreetingSteps, WaitingSteps, HoldingSteps, FlightSteps, ClosingSteps, OverSteps DEF Stage
<1>6. buffering /\ sendBuf' = Append(sendBuf, f) /\ sendBuf \in Seq(WireRecords)
  BY <1>1, <1>3, <1>4, <1>5, PutCases DEF Stage
<1>7. sendBuf' # <<>> /\ sendBuf'[Len(sendBuf')] = f
  BY <1>3, <1>6, AppendProperties
<1>8. Stage(g)'
  BY <1>2, <1>5, <1>6, <1>7, KindsApart DEF Stage
<1>9. HeldInv' /\ CloseInv' /\ WireFaithful'
  BY <1>1, <1>2, <1>3, PutKeepsOrder
<1> QED  BY <1>2, <1>4, <1>8, <1>9, HandshakeStep

\* A flush ends the buffering, since something has been written; the last one ends
\* the handshake on the network.
LEMMA HandshakeFlushKept ==
  ASSUME NEW g \in G, IInv, WInv, HandshakeFlush(g)  PROVE WInv'
<1>1. /\ pc[g] = "k_run" /\ Others(g) /\ mode' = mode /\ stale' = stale /\ Flush
      /\ script[g] # <<>> /\ Head(script[g]) = "flush"
      /\ UNCHANGED <<closeNotifySent, okWrites, handshakeErr, handshakeComplete>>
  BY DEF HandshakeFlush, Step, StepDone, Fail, IInv, TypeOK, Others
<1>2. \/ pc'[g] = "k_run" /\ script'[g] = Tail(script[g]) /\ NetUp
      \/ pc'[g] = "k_end"
  BY DEF HandshakeFlush, Step, StepDone, Fail, IInv, TypeOK
<1>3. Stepping(g) /\ Stage(g) /\ ~AboutToGreet(g)
  BY <1>1, StageOf, GreetingHead DEF Stepping
<1>4. InHandshake(g)'
  BY <1>2 DEF InHandshake, InAlert
<1>5. HeldInv' /\ CloseInv' /\ WireFaithful'
  BY <1>1, FlushKeepsOrder
<1>6. ASSUME pc'[g] = "k_run", script'[g] = Tail(script[g]), NetUp  PROVE Stage(g)'
  <2>1. \/ script[g] \in Flight /\ script'[g] \in Waiting
        \/ script[g] \in Closing /\ script'[g] \in Over
    BY <1>1, <1>3, <1>6, GreetingSteps, WaitingSteps, HoldingSteps, FlightSteps, ClosingSteps, OverSteps DEF Stage
  <2>2. sendBuf # <<>>
    BY <1>3, <2>1 DEF Stage
  <2>3. Clean' /\ wire' = wire \o sendBuf
    BY <1>1, <1>6, <2>2 DEF Flush, Clean
  <2>4. CASE script[g] \in Flight /\ script'[g] \in Waiting
    BY <1>6, <2>3, <2>4, KindsApart DEF Stage
  <2>5. CASE script[g] \in Closing /\ script'[g] \in Over
    BY <1>3, <2>5, <2>2, <2>3, OpenConcat, <1>6, KindsApart DEF Stage, IInv, TypeOK, Open
  <2> QED  BY <2>1, <2>4, <2>5
<1>7. Stepping(g)' => Stage(g)'
  BY <1>2, <1>6 DEF Stepping
<1> QED  BY <1>1, <1>3, <1>4, <1>5, <1>7, HandshakeStep

-----------------------------------------------------------------------------
(* The beginning and the end of a handshake.                               *)

\* The first handshake begins with nothing held back.
LEMMA HandshakeBeginKept ==
  ASSUME NEW g \in G, IInv, WInv, HandshakeBegin(g)  PROVE WInv'
<1>1. /\ pc[g] = "hs_relock" /\ pc'[g] = "k_run" /\ Others(g) /\ mode'[g] = "first"
      /\ handshakeMutex = None /\ script'[g] \in Scripts
      /\ UNCHANGED OnTheWire /\ UNCHANGED <<handshakeErr, handshakeComplete, stale>>
  BY DEF HandshakeBegin, IInv, TypeOK, Others, OnTheWire
<1>2. \A h \in G : ~InHandshake(h)
  BY <1>1, ConstantsAssumption DEF IInv, LockInv, HoldsHs
<1>3. ~handshakeErr
  BY <1>1 DEF IInv, CommitInv, Committing
<1>4. Clean
  BY <1>2, <1>3 DEF WInv, CleanInv
<1>5. script'[g] \in Greeting \cup Waiting
  BY <1>1 DEF Scripts, FullClientScript, Greeting, Waiting
<1>6. Stage(g)'
  BY <1>1, <1>4, <1>5, KindsApart DEF Stage, Clean, OnTheWire
<1>7. ~InHandshake(g) /\ ~AboutToGreet(g)
  BY <1>1 DEF InHandshake, InAlert, AboutToGreet, Stepping
<1>8. pc'[g] \notin {"w_send", "c_out", "c_alert"}
  BY <1>1
<1> QED  BY <1>1, <1>6, <1>7, <1>8, KeptStep

\* It ends with nothing held back and with a Finished on the network.
LEMMA HandshakeFinishKept ==
  ASSUME NEW g \in G, IInv, WInv, HandshakeFinish(g)  PROVE WInv'
<1>1. /\ pc[g] = "k_run" /\ pc'[g] = "k_end" /\ Others(g) /\ script[g] = <<>>
      /\ handshakeComplete' = TRUE /\ handshakeErr' = handshakeErr /\ UNCHANGED OnTheWire
  BY DEF HandshakeFinish, IInv, TypeOK, Others, OnTheWire
<1>2. Stepping(g) /\ ~Stepping(g)' /\ InHandshake(g) /\ InHandshake(g)' /\ Stage(g)
  BY <1>1, StageOf DEF Stepping, InHandshake
<1>3. Clean /\ Open(wire)
  <2>1. script[g] \in Over
    BY <1>1 DEF Over
  <2> QED  BY <1>2, <2>1 DEF Stage
<1>4. HeldInv' /\ CloseInv' /\ WireFaithful'
  BY <1>1 DEF WInv, OnTheWire, HeldInv, CloseInv, WireFaithful, WireInOrder, AckedWritesOnWire
<1>5. \A h \in G \ {g} : ~InHandshake(h)
  BY <1>2, OneHandshake
<1>6. StageInv'
  BY <1>1, <1>2, <1>5 DEF StageInv, Others, Stepping, InHandshake
<1>7. CleanInv' /\ StaleInv' /\ NotifyInv'
  BY <1>1, <1>3 DEF CleanInv, StaleInv, NotifyInv, OnTheWire, Clean, Open
<1>8. SendInv'
  BY <1>1 DEF WInv, SendInv, ReadyForData, Others, OnTheWire
<1> QED  BY <1>4, <1>6, <1>7, <1>8 DEF WInv

\* What holds when a handshake has ended, with its result.
LEMMA EndKept ==
  ASSUME NEW g \in G, IInv, WInv, Others(g), pc[g] = "k_end",
         ~Stepping(g)', pc'[g] \notin {"w_send", "c_out", "c_alert"},
         handshakeComplete' = handshakeComplete, stale' = stale, handshakeErr' = failed[g],
         UNCHANGED <<closeNotifySent, okWrites>>,
         handshakeComplete => UNCHANGED <<wire, sendBuf, buffering>>,
         HeldInv', CloseInv', WireFaithful'
  PROVE  WInv'
<1>1. InHandshake(g) /\ ~Stepping(g)
  BY DEF InHandshake, Stepping
<1>2. \A h \in G \ {g} : ~InHandshake(h) /\ ~Stepping(h)' /\ ~Stepping(h)
  BY <1>1, OneHandshake DEF Others, InHandshake, Stepping
<1>3. handshakeComplete <=> ~failed[g]
  BY <1>1 DEF IInv, LocalInv, RunningInv
<1>4. \A h \in G : ~AboutToGreet(h)
  BY <1>1, <1>2 DEF AboutToGreet
<1>5. StageInv'
  BY <1>2 DEF StageInv
<1>6. CleanInv'
  BY <1>3 DEF WInv, CleanInv, Clean, Open
<1>7. StaleInv' /\ NotifyInv'
  BY <1>4 DEF WInv, StaleInv, NotifyInv, Others
<1>8. SendInv'
  BY <1>4 DEF WInv, SendInv, ReadyForData, Others
<1> QED  BY <1>5, <1>6, <1>7, <1>8 DEF WInv

\* A handshake that failed flushes what is held back.
LEMMA HandshakeEndKept ==
  ASSUME NEW g \in G, IInv, WInv, HandshakeEnd(g)  PROVE WInv'
<1>1. /\ pc[g] = "k_end" /\ Others(g) /\ handshakeErr' = failed[g]
      /\ pc'[g] = HandshakeReturns(g, failed[g])
      /\ IF failed[g] /\ sendBuf # <<>> THEN Flush ELSE UNCHANGED <<wire, sendBuf, buffering>>
      /\ UNCHANGED <<handshakeComplete, stale, closeNotifySent, okWrites>>
  BY DEF HandshakeEnd, IInv, TypeOK, Others
<1>2. pc'[g] \in {"idle", "w_exit", "w_lock", "r_lock"}
  BY <1>1 DEF HandshakeReturns
<1>3. ~Stepping(g)' /\ pc'[g] \notin {"w_send", "c_out", "c_alert"}
  BY <1>2 DEF Stepping
<1>4. handshakeComplete => ~failed[g]
  BY <1>1 DEF IInv, LocalInv, RunningInv, InHandshake
<1>5. HeldInv' /\ CloseInv' /\ WireFaithful'
  BY <1>1, FlushKeepsOrder DEF WInv, HeldInv, CloseInv, WireFaithful, WireInOrder, AckedWritesOnWire
<1> QED  BY <1>1, <1>3, <1>4, <1>5, EndKept

\* A renegotiation that failed leaves it.
LEMMA RenegotiationEndKept ==
  ASSUME NEW g \in G, IInv, WInv, RenegotiationEnd(g)  PROVE WInv'
<1>1. /\ pc[g] = "k_end" /\ Others(g) /\ handshakeErr' = failed[g]
      /\ pc'[g] \in {"r_done", "r_loop"}
      /\ UNCHANGED <<wire, sendBuf, buffering>>
      /\ UNCHANGED <<handshakeComplete, stale, closeNotifySent, okWrites>>
  BY DEF RenegotiationEnd, IInv, TypeOK, Others
<1>2. ~Stepping(g)' /\ pc'[g] \notin {"w_send", "c_out", "c_alert"}
  BY <1>1 DEF Stepping
<1>3. HeldInv' /\ CloseInv' /\ WireFaithful'
  BY <1>1 DEF WInv, HeldInv, CloseInv, WireFaithful, WireInOrder, AckedWritesOnWire
<1> QED  BY <1>1, <1>2, <1>3, EndKept

\* A renegotiation begins on a complete handshake: nothing is held back, and data may
\* still follow the last Finished.
LEMMA RenegotiateKept ==
  ASSUME NEW g \in G, IInv, WInv, Renegotiate(g)  PROVE WInv'
<1>1. /\ pc[g] = "r_hand" /\ Others(g) /\ UNCHANGED OnTheWire /\ handshakeErr' = handshakeErr
      /\ pc'[g] \in {"k_run", "al_lock"}
  BY DEF Renegotiate, AlertThen, IInv, TypeOK, Others, OnTheWire
<1>2. ~Stepping(g) /\ ~InHandshake(g) /\ ~AboutToGreet(g) /\ handshakeComplete
  BY <1>1 DEF Stepping, InHandshake, InAlert, AboutToGreet, IInv, LocalInv, HandInv
<1>3. CASE Head(hand) = "hreq" /\ MayRenegotiate
  <2>1. /\ handshakeMutex = None /\ pc'[g] = "k_run" /\ mode'[g] = "reneg"
        /\ script'[g] = FullClientScript
    BY <1>3 DEF Renegotiate, IInv, TypeOK
  <2>2. \A h \in G : ~InHandshake(h)
    BY <2>1, ConstantsAssumption DEF IInv, LockInv, HoldsHs
  <2>3. \A h \in G : pc[h] \notin {"c_out", "c_alert"}
    BY <2>1, ConstantsAssumption DEF IInv, LockInv, HoldsHs
  <2>4. Clean /\ Open(wire)
    BY <1>2 DEF WInv, CleanInv
  <2>5. script'[g] \in Greeting
    BY <2>1 DEF FullClientScript, Greeting
  <2>6. Stage(g)'
    BY <1>1, <2>1, <2>4, <2>5, KindsApart DEF Stage, Clean, Open, OnTheWire
  <2>7. pc'[g] = "k_run" /\ AboutToGreet(g)' /\ InHandshake(g)'
    BY <2>1, <2>5 DEF AboutToGreet, Stepping, InHandshake
  <2>8. \A h \in G \ {g} : ~Stepping(h)'
    BY <1>1, <2>2 DEF Others, Stepping, InHandshake
  <2>9. HeldInv' /\ CloseInv' /\ WireFaithful'
    BY <1>1 DEF WInv, OnTheWire, HeldInv, CloseInv, WireFaithful, WireInOrder, AckedWritesOnWire
  <2>10. StageInv'
    BY <2>6, <2>8 DEF StageInv
  <2>11. CleanInv'
    BY <1>1, <2>4, <2>7 DEF CleanInv, Clean, Open, OnTheWire
  <2>12. StaleInv'
    BY <2>7 DEF StaleInv
  <2>13. ReadyForData'
    BY <2>7 DEF ReadyForData
  <2>14. SendInv' /\ NotifyInv'
    BY <1>1, <2>1, <2>3, <2>13 DEF WInv, SendInv, NotifyInv, Others, OnTheWire
  <2> QED  BY <2>9, <2>10, <2>11, <2>12, <2>14 DEF WInv
<1>4. CASE ~(Head(hand) = "hreq" /\ MayRenegotiate)
  BY <1>4, <1>1, <1>2, KeptStep DEF Renegotiate, AlertThen, IInv, TypeOK, Stepping
<1> QED  BY <1>3, <1>4

-----------------------------------------------------------------------------
(* Alerts, data and close_notify.                                          *)

\* An alert is sent outside a handshake or by the handshake that has failed.
LEMMA AlertWriteKept ==
  ASSUME NEW g \in G, IInv, WInv, AlertWrite(g)  PROVE WInv'
<1>1. /\ pc[g] = "al_write" /\ pc'[g] = after[g] /\ Others(g) /\ Put("alert") /\ after[g] \in {"k_end", "r_done"}
      /\ UNCHANGED <<handshakeErr, handshakeComplete, stale, buffering, closeNotifySent, okWrites>>
  BY DEF AlertWrite, IInv, TypeOK, Others, LocalInv, CallInv, InAlert
<1>2. \A h \in G : ~Stepping(h) /\ ~Stepping(h)' /\ ~AboutToGreet(h)
  BY <1>1 DEF IInv, LockInv, HoldsIn, Others, Stepping, AboutToGreet
<1>3. \A h \in G : pc[h] # "w_send"
  BY <1>1 DEF IInv, LockInv, HoldsOut
<1>4. "alert" \in WireRecords
  BY DEF WireRecords
<1>5. HeldInv' /\ CloseInv' /\ WireFaithful'
  BY <1>1, <1>4, PutKeepsOrder
<1>6. StageInv'
  BY <1>2 DEF StageInv
<1>7. Clean => Clean'
  BY <1>1, <1>4, PutCases DEF Clean
<1>8. Clean /\ Open(wire) => Open(wire)'
  <2>1. ASSUME Clean, Open(wire)  PROVE Open(wire)'
    <3>1. wire \in Seq(WireRecords) /\ (wire' = wire \/ wire' = Append(wire, "alert"))
      BY <1>1, <1>4, <2>1, PutCases DEF Clean
    <3>2. Open(Append(wire, "alert"))
      BY <1>4, <2>1, <3>1, OpenAppend
    <3>3. Open(wire')
      BY <2>1, <3>1, <3>2
    <3> QED  BY <3>3 DEF Open
  <2> QED  BY <2>1
<1>9. CleanInv'
  BY <1>1, <1>7, <1>8 DEF Others, InHandshake, InAlert, WInv, CleanInv
<1>10. StaleInv' /\ SendInv' /\ NotifyInv'
  BY <1>1, <1>2, <1>3 DEF WInv, StaleInv, SendInv, NotifyInv, Others
<1> QED  BY <1>5, <1>6, <1>9, <1>10 DEF WInv

\* Data goes out with nothing held back, after a Finished and before close_notify.
LEMMA WriteSendKept ==
  ASSUME NEW g \in G, IInv, WInv, WriteSend(g)  PROVE WInv'
<1>1. /\ pc[g] = "w_send" /\ pc'[g] = "w_exit" /\ Others(g) /\ Put("app")
      /\ okWrites' = IF WriteFails THEN okWrites ELSE okWrites + 1
      /\ UNCHANGED <<handshakeErr, handshakeComplete, stale, buffering, closeNotifySent>>
  BY DEF WriteSend, IInv, TypeOK, Others
<1>2. ReadyForData /\ ~closeNotifySent
  BY <1>1 DEF WInv, SendInv
<1>3. Clean /\ Open(wire)
  BY StageOf, <1>2 DEF AboutToGreet, Stage, ReadyForData, WInv, CleanInv
<1>4. /\ wire \in Seq(WireRecords) /\ sendBuf' = sendBuf /\ "app" \in WireRecords
      /\ \/ wire' = wire /\ okWrites' = okWrites
         \/ wire' = Append(wire, "app") /\ okWrites' = okWrites + 1
  BY <1>1, <1>3 DEF Clean, Put, WriteFails, IInv, TypeOK, WireRecords
<1>5. NoneIs(wire, "close")
  BY <1>2 DEF WInv, CloseInv, NoneIs
<1>6. Open(wire)'
  <2>1. Open(Append(wire, "app"))
    BY <1>3, <1>4, OpenAppend
  <2>2. Open(wire')
    BY <1>3, <1>4, <2>1
  <2> QED  BY <2>2 DEF Open
<1>7. HeldInv' /\ CloseInv'
  BY <1>1, <1>4, <1>5, AppendProperties DEF WInv, HeldInv, CloseInv, NoneIs
<1>8. WireFaithful'
  <2>1. InOrder(wire) /\ okWrites = Cardinality(Apps(wire))
    BY DEF WInv, WireFaithful, WireInOrder, AckedWritesOnWire, InOrder, Apps
  <2>2. CASE wire' = wire /\ okWrites' = okWrites
    BY <2>2 DEF WInv, WireFaithful, WireInOrder, AckedWritesOnWire
  <2>3. CASE wire' = Append(wire, "app") /\ okWrites' = okWrites + 1
    <3>1. InOrder(wire')
      BY <1>3, <1>4, <1>5, <2>1, <2>3, OrderAppend
    <3>2. okWrites' = Cardinality(Apps(wire'))
      BY <1>4, <2>1, <2>3, AppsMore
    <3> QED  BY <3>1, <3>2 DEF WireFaithful, WireInOrder, AckedWritesOnWire, InOrder, Apps
  <2> QED  BY <1>4, <2>2, <2>3
<1>9. ~Stepping(g)' /\ ~InHandshake(g) /\ ~Stepping(g) /\ ~AboutToGreet(g)
  BY <1>1 DEF Stepping, InHandshake, InAlert, AboutToGreet
<1>10. \A h \in G \ {g} : /\ Stepping(h)' <=> Stepping(h)
                          /\ Stage(h) => Stage(h)'
                          /\ AboutToGreet(h)' <=> AboutToGreet(h)
                          /\ InHandshake(h)' <=> InHandshake(h)
  BY <1>1, <1>4, <1>6 DEF Others, Stepping, Stage, AboutToGreet, InHandshake, InAlert, Clean
<1>11. StageInv' /\ StaleInv'
  BY <1>1, <1>9, <1>10 DEF WInv, StageInv, StaleInv
<1>12. CleanInv'
  BY <1>1, <1>3, <1>4, <1>6 DEF CleanInv, Clean
<1>13. SendInv'
  BY <1>1 DEF IInv, LockInv, HoldsOut, Others, SendInv
<1>14. NotifyInv'
  BY <1>1 DEF WInv, NotifyInv, Others
<1> QED  BY <1>7, <1>8, <1>11, <1>12, <1>13, <1>14 DEF WInv

\* close_notify goes out once, outside a handshake and while no Write sends data.
LEMMA CloseNotifyKept ==
  ASSUME NEW g \in G, IInv, WInv, CloseNotify(g)  PROVE WInv'
<1>1. /\ pc[g] = "c_alert" /\ pc'[g] = "c_end" /\ Others(g)
      /\ \/ closeNotifySent' = closeNotifySent /\ UNCHANGED <<wire, sendBuf>>
         \/ ~closeNotifySent /\ Put("close") /\ closeNotifySent' = TRUE
      /\ UNCHANGED <<handshakeErr, handshakeComplete, stale, buffering, okWrites>>
  BY DEF CloseNotify, IInv, TypeOK, Others
<1>2. Clean /\ Open(wire) /\ handshakeComplete
  BY <1>1 DEF WInv, NotifyInv, CleanInv
<1>3. /\ wire \in Seq(WireRecords) /\ sendBuf' = sendBuf /\ "close" \in WireRecords
      /\ \/ wire' = wire /\ (closeNotifySent' \/ closeNotifySent' = closeNotifySent)
         \/ wire' = Append(wire, "close") /\ ~closeNotifySent /\ closeNotifySent'
  BY <1>1, <1>2 DEF Clean, Put, IInv, TypeOK, WireRecords
<1>4. Open(wire)'
  <2>1. Open(Append(wire, "close"))
    BY <1>2, <1>3, OpenAppend
  <2>2. Open(wire')
    BY <1>2, <1>3, <2>1
  <2> QED  BY <2>2 DEF Open
<1>5. HeldInv' /\ CloseInv'
  BY <1>3 DEF WInv, HeldInv, CloseInv
<1>6. WireFaithful'
  <2>1. InOrder(wire) /\ okWrites = Cardinality(Apps(wire))
    BY DEF WInv, WireFaithful, WireInOrder, AckedWritesOnWire, InOrder, Apps
  <2>2. CASE wire' = wire
    BY <1>1, <2>2 DEF WInv, WireFaithful, WireInOrder, AckedWritesOnWire
  <2>3. CASE wire' = Append(wire, "close") /\ ~closeNotifySent
    <3>1. NoneIs(wire, "close")
      BY <2>3 DEF WInv, CloseInv, NoneIs
    <3>2. InOrder(wire')
      BY <1>3, <2>1, <2>3, <3>1, OrderAppend
    <3>3. Apps(wire') = Apps(wire)
      <4>1. NoneIs(<<>>, "app") /\ <<>> \in Seq(WireRecords)
        BY DEF NoneIs
      <4> QED  BY <1>3, <2>3, <4>1, AppsKept
    <3> QED  BY <1>1, <2>1, <3>2, <3>3 DEF WireFaithful, WireInOrder, AckedWritesOnWire, InOrder, Apps
  <2> QED  BY <1>3, <2>2, <2>3
<1>7. \A h \in G : ~Stepping(h)'
  BY <1>1 DEF IInv, LockInv, HoldsHs, InHandshake, Others, Stepping
<1>8. StageInv' /\ CleanInv' /\ StaleInv'
  BY <1>1, <1>2, <1>3, <1>4, <1>7 DEF StageInv, CleanInv, StaleInv, Clean
<1>9. SendInv'
  BY <1>1 DEF IInv, LockInv, HoldsOut, SendInv, Others
<1>10. NotifyInv'
  BY <1>1, <1>2 DEF NotifyInv
<1> QED  BY <1>5, <1>6, <1>8, <1>9, <1>10 DEF WInv

-----------------------------------------------------------------------------
(* The theorem.                                                            *)

LEMMA InitWInv == Init => WInv
<1> SUFFICES ASSUME Init  PROVE WInv
  OBVIOUS
<1>1. wire = <<>> /\ sendBuf = <<>> /\ okWrites = 0 /\ ~buffering /\ ~handshakeComplete /\ stale = {}
  BY DEF Init
<1>2. \A g \in G : pc[g] = "idle"
  BY DEF Init
<1>3. StageInv /\ CleanInv /\ StaleInv /\ SendInv /\ NotifyInv
  BY <1>1, <1>2 DEF StageInv, Stepping, CleanInv, Clean, StaleInv, SendInv, NotifyInv
<1>4. HeldInv /\ CloseInv /\ WireInOrder
  BY <1>1 DEF HeldInv, CloseInv, WireInOrder
<1>5. AckedWritesOnWire
  BY <1>1, FS_EmptySet DEF AckedWritesOnWire
<1> QED  BY <1>3, <1>4, <1>5 DEF WInv, WireFaithful

LEMMA NextWInv == IInv /\ WInv /\ [Next]_vars => WInv'
<1> SUFFICES ASSUME IInv, WInv, [Next]_vars  PROVE WInv'
  OBVIOUS
<1>1. CASE UNCHANGED vars \/ Done
  BY <1>1, CallsKept DEF vars, Done, OnTheWire
<1>2. CASE Peer
  BY CallsKept, <1>2 DEF PeerSend, OnTheWire, PeerDrain, PeerHangup, Peer
<1>3. ASSUME NEW g \in G, Call(g) \/ Run(g)  PROVE WInv'
  <2>1. CASE Call(g) \/ HandshakeCall(g)
    BY <2>1, CallKept, HandshakeCheckKept, HandshakeLockInKept, HandshakeBeginKept DEF HandshakeCall
  <2>2. CASE HandshakeBody(g)
    BY <2>2, HandshakeBufferKept, HandshakeHelloLockKept, HandshakeHelloKept, HandshakePutKept,
       HandshakeFlushKept, HandshakeReadKept, HandshakeFinishKept, HandshakeEndKept, RenegotiationEndKept
       DEF HandshakeBody
  <2>3. CASE Alert(g) \/ ReadCall(g)
    BY <2>3, AlertLockKept, AlertWriteKept, ReadLockKept, ReadInputKept, ReadErrorKept, ReadRecordKept,
       RenegotiateKept, ReadDoneKept DEF Alert, ReadCall
  <2>4. CASE WriteCall(g)
    BY <2>4, WriteEnterKept, WriteLockKept, WriteCheckKept, WriteSendKept, WriteExitKept DEF WriteCall
  <2>5. CASE CloseCall(g)
    BY <2>5, CloseEnterKept, CloseLockKept, CloseNotifyLockKept, CloseNotifyKept, CloseEndKept DEF CloseCall
  <2> QED  BY <1>3, <2>1, <2>2, <2>3, <2>4, <2>5 DEF Run
<1> QED  BY <1>1, <1>2, <1>3 DEF Next

\* What the network gets is in order and holds the data of every Write that
\* succeeded (Write, writeRecordLocked, flush and closeNotify), although Write reads
\* handshakeComplete in a race with a renegotiation.
THEOREM WireIsFaithful == Spec => []WireFaithful
<1>1. Init => IInv /\ WInv
  BY InitIInv, InitWInv
<1>2. IInv /\ WInv /\ [Next]_vars => (IInv /\ WInv)'
  BY NextIInv, NextWInv
<1>3. IInv /\ WInv => WireFaithful
  BY DEF WInv
<1> QED  BY <1>1, <1>2, <1>3, PTL DEF Spec

==============================================================================
