-------------------------- MODULE TLSHandshakeProofs --------------------------
(***************************************************************************)
(* Proofs about TLSHandshake for any series of configs, any number of      *)
(* rotations of the ticket keys and any failures of the network: no key is *)
(* installed twice, the server's ClientAuth is obeyed, a resumed           *)
(* connection is like the full one that its session comes from, what is    *)
(* negotiated is the best that both Configs allow, and two ends of which   *)
(* one is complete agree.                                                  *)
(*                                                                         *)
(* The inductive invariant has a part for each.  What a handler does is    *)
(* split into what it reads and computes, which is a lemma of its own, and *)
(* the step it then takes by Moves, which ClientStep, ServerStep and       *)
(* FailStep treat once for all handlers.                                   *)
(***************************************************************************)
EXTENDS TLSHandshake, SequenceTheorems, FiniteSetTheorems, TLAPS

-----------------------------------------------------------------------------
(* The inductive invariant.                                                *)

Fields == {"vers", "suite", "hello", "serverHello", "session", "resume", "transcript", "buffer",
           "master", "peer", "proto", "skx", "certReq", "own", "newSession"}

\* The shape of the state: one entry for each side, with all its fields.
Shapes ==
  /\ conn \in Nat
  /\ DOMAIN pc = Sides /\ DOMAIN hs = Sides /\ DOMAIN out = Sides /\ DOMAIN chan = Sides
  /\ \A s \in Sides : DOMAIN hs[s] = Fields /\ DOMAIN out[s] = {"key", "next", "seq"}

\* ClientAuth, said of the certificate of the client as the server knows it.
AuthObeyed(sc, peer) ==
  /\ sc.auth = 0 => peer = None
  /\ sc.auth \in {2, 4} => peer # None
  /\ sc.auth \in {3, 4} /\ peer # None => Verifies(peer, sc.cas)

\* The server waits for a certificate only if it asked for one, and is past that
\* point only with what ClientAuth wants.
AuthInv ==
  /\ pc["server"] = "clientCertificate" => config.server.auth # 0
  /\ pc["server"] \in {"clientKeyExchange", "certificateVerify", "clientCCS", "clientFinished",
                       "complete"} => AuthObeyed(config.server, hs["server"].peer)

\* At l, with state h, side s has its keys prepared and not in use, or has none yet.
Ready(s, l, h) ==
  \/ s = "client" /\ l \in {"newSessionTicket", "serverCCS", "serverFinished"} /\ h.resume
  \/ s = "server" /\ l \in {"clientCCS", "clientFinished"} /\ ~h.resume
Keyless(s, l) ==
  \/ s = "client" /\ l \in {"start", "serverHello", "serverCertificate", "certificateStatus",
                            "serverKeyExchange", "certificateRequest", "serverHelloDone"}
  \/ s = "server" /\ l \in {"clientHello", "clientCertificate", "clientKeyExchange",
                            "certificateVerify"}
Unspent(s, l, h) == Keyless(s, l) \/ Ready(s, l, h)

\* A key is of a direction and of a connection.
IsKey(k, s) == k[1] = s /\ k[5] = conn

\* No side that is still to change ciphers has had a key in use on this connection.
KeyInv ==
  /\ ~reused
  /\ \A k \in installed : k[5] \in Nat /\ k[5] <= conn
  /\ \A s \in Sides : Unspent(s, pc[s], hs[s]) => \A k \in installed : ~IsKey(k, s)
  /\ \A s \in Sides : Ready(s, pc[s], hs[s]) => IsKey(out[s].next, s)

\* A session of the client, a ticket and the server's state come from one of the full
\* handshakes of M.
SessionGood(M, x) ==
  \E m \in M : m.master = x.master /\ m.vers = x.vers /\ m.suite = x.suite /\ m.serverCert = x.peer
TicketGood(M, t) ==
  \E m \in M : m.master = t.master /\ m.vers = t.vers /\ m.suite = t.suite /\ m.clientCert = t.cert
ServerDerived(M, h) ==
  \E m \in M : m.master = h.master /\ m.vers = h.vers /\ m.suite = h.suite /\ m.clientCert = h.peer

\* What is true of a message that s sends.
MessageGood(M, s, m) ==
  /\ s = "client" /\ m.type = "clientHello" /\ m.ticket # None => TicketGood(M, m.ticket)
  /\ s = "server" /\ m.type = "certificate" => m.cert = config.server.cert
  /\ s = "server" /\ m.type = "newSessionTicket" => TicketGood(M, m.ticket)
  /\ s = "server" /\ m.type = "finished" =>
       \E x \in M : x.vers = m.verify[2] /\ x.suite = m.verify[3] /\ x.master = m.verify[4]

IsSequence(q) == q \in Seq(Elems(q))
ChannelsGood == \A s \in Sides :
  IsSequence(chan[s]) /\ \A r \in Elems(chan[s]) : MessageGood(masters, s, r.msg)

\* A master secret of this connection is of a handshake with this server.
MastersGood == \A m \in masters :
  /\ m.master[2] \in Nat /\ m.master[2] <= conn
  /\ m.master[2] = conn => m.serverCert = config.server.cert

CacheGood == cache # None => SessionGood(masters, cache) /\ TicketGood(masters, cache.ticket)

\* The session a client is about to keep is that of its connection.
NewSessionGood(M, h) == h.newSession # None =>
  /\ TicketGood(M, h.newSession.ticket) /\ h.newSession.master = h.master
  /\ h.newSession.vers = h.vers /\ h.newSession.suite = h.suite /\ h.newSession.peer = h.peer

ClientGood(M, l, h) ==
  /\ l \notin {"clientCCS", "clientFinished"}
  /\ l = "serverHello" =>
       h.newSession = None
       /\ (h.session # None => SessionGood(M, h.session) /\ TicketGood(M, h.session.ticket))
  /\ l \in {"serverCertificate", "certificateStatus", "serverKeyExchange", "certificateRequest",
            "serverHelloDone"} => h.newSession = None /\ ~h.resume
  /\ l \in {"certificateStatus", "serverKeyExchange", "certificateRequest", "serverHelloDone"} =>
       h.peer = config.server.cert
  /\ l \in {"newSessionTicket", "serverCCS", "serverFinished"} =>
       /\ h.resume => SessionGood(M, h)
       /\ ~h.resume => h.peer = config.server.cert /\ h.master[2] = conn
       /\ NewSessionGood(M, h)
  /\ l = "complete" /\ h.resume => SessionGood(M, h)

ServerGood(M, l, h) ==
  /\ l \notin {"serverCCS", "serverFinished"}
  /\ l \in {"clientCertificate", "clientKeyExchange", "certificateVerify"} => ~h.resume
  /\ l = "certificateVerify" => h.master[2] = conn
  /\ l \in {"clientCCS", "clientFinished", "complete"} => ServerDerived(M, h)

SessionInv ==
  /\ MastersGood /\ CacheGood /\ ChannelsGood
  /\ ClientGood(masters, pc["client"], hs["client"])
  /\ ServerGood(masters, pc["server"], hs["server"])

IInv == Shapes /\ AuthInv /\ KeyInv /\ SessionInv

-----------------------------------------------------------------------------
(* Sequences by their elements.                                            *)

LEMMA SequenceOf ==
  ASSUME NEW S, NEW q \in Seq(S)
  PROVE  IsSequence(q) /\ Elems(q) \subseteq S
BY LenProperties, IsASeq DEF Elems, IsSequence

LEMMA ElemsOfTuples ==
  /\ IsSequence(<<>>) /\ Elems(<<>>) = {}
  /\ \A a : IsSequence(<<a>>) /\ Elems(<<a>>) = {a}
  /\ \A a, b : IsSequence(<<a, b>>) /\ Elems(<<a, b>>) = {a, b}
<1>1. IsSequence(<<>>) /\ Elems(<<>>) = {}
  BY DEF IsSequence, Elems
<1>2. ASSUME NEW a  PROVE IsSequence(<<a>>) /\ Elems(<<a>>) = {a}
  <2>1. Elems(<<a>>) = {a}
    BY DEF Elems
  <2> QED  BY <2>1 DEF IsSequence
<1>3. ASSUME NEW a, NEW b  PROVE IsSequence(<<a, b>>) /\ Elems(<<a, b>>) = {a, b}
  <2>1. Elems(<<a, b>>) = {a, b}
    BY DEF Elems
  <2> QED  BY <2>1 DEF IsSequence
<1> QED  BY <1>1, <1>2, <1>3

LEMMA ElemsOfConcat ==
  ASSUME NEW p, NEW q, IsSequence(p), IsSequence(q)
  PROVE  /\ IsSequence(p \o q) /\ Elems(p \o q) \subseteq Elems(p) \cup Elems(q)
         /\ Len(p \o q) = Len(p) + Len(q) /\ Len(p) \in Nat /\ Len(q) \in Nat
<1> DEFINE S == Elems(p) \cup Elems(q)
<1>1. p \in Seq(S) /\ q \in Seq(S)
  BY SeqMonotonic DEF IsSequence
<1>2. p \o q \in Seq(S) /\ Len(p \o q) = Len(p) + Len(q)
  BY <1>1, ConcatProperties
<1>3. Len(p) \in Nat /\ Len(q) \in Nat
  BY <1>1, LenProperties
<1> QED  BY <1>2, <1>3, SequenceOf

LEMMA ElemsOfAppend ==
  ASSUME NEW q, NEW a, IsSequence(q)
  PROVE  IsSequence(Append(q, a)) /\ Elems(Append(q, a)) \subseteq Elems(q) \cup {a}
<1> DEFINE S == Elems(q) \cup {a}
<1>1. q \in Seq(S)
  BY SeqMonotonic DEF IsSequence
<1>2. Append(q, a) \in Seq(S)
  BY <1>1, AppendProperties
<1> QED  BY <1>2, SequenceOf

LEMMA ElemsOfPrefix ==
  ASSUME NEW q, IsSequence(q), NEW n \in Nat, n <= Len(q)
  PROVE  IsSequence(SubSeq(q, 1, n)) /\ Elems(SubSeq(q, 1, n)) \subseteq Elems(q)
<1>1. \A i \in 1..n : q[i] \in Elems(q)
  BY LenProperties, ElementOfSeq DEF IsSequence
<1>2. SubSeq(q, 1, n) \in Seq(Elems(q))
  BY <1>1, SubSeqProperties
<1> QED  BY <1>2, SequenceOf

LEMMA ElemsOfHeadTail ==
  ASSUME NEW q, IsSequence(q), q # <<>>
  PROVE  Head(q) \in Elems(q) /\ IsSequence(Tail(q)) /\ Elems(Tail(q)) \subseteq Elems(q)
BY HeadTailProperties, SequenceOf DEF IsSequence

\* The records of a flight carry its messages.
LEMMA ElemsOfSealed ==
  ASSUME NEW half, NEW vers, NEW msgs, IsSequence(msgs)
  PROVE  /\ IsSequence(Sealed(half, vers, msgs))
         /\ \A r \in Elems(Sealed(half, vers, msgs)) : r.msg \in Elems(msgs)
<1> DEFINE q == Sealed(half, vers, msgs)
<1>1. DOMAIN msgs = 1..Len(msgs) /\ Len(msgs) \in Nat
  BY LenProperties DEF IsSequence
<1>2. q \in [1..Len(msgs) -> Elems(q)]
  BY <1>1 DEF Sealed, Elems
<1>3. IsSequence(q)
  BY <1>1, <1>2, IsASeq DEF IsSequence
<1>4. \A i \in DOMAIN msgs : q[i].msg = msgs[i]
  BY DEF Sealed
<1>5. DOMAIN q = DOMAIN msgs
  BY DEF Sealed
<1> QED  BY <1>3, <1>4, <1>5 DEF Elems

-----------------------------------------------------------------------------
(* The tests of a handler.                                                 *)

LEMMA FirstOfNone ==
  ASSUME NEW checks, NEW n \in 1..6, DOMAIN checks = 1..n,
         \A i \in 1..n : checks[i][2] # None, FirstOf(checks) = None
  PROVE  \A i \in 1..n : ~checks[i][1]
<1> DEFINE I == {i \in DOMAIN checks : checks[i][1]}
           least == CHOOSE i \in I : \A j \in I : i <= j
<1>1. SUFFICES ASSUME I # {}  PROVE FALSE
  OBVIOUS
<1>2. I \subseteq 1..6
  OBVIOUS
<1>3. \E i \in I : \A j \in I : i <= j
  BY <1>2, <1>1
<1>4. least \in I
  BY <1>3
<1>5. FirstOf(checks) = checks[least][2]
  BY <1>1 DEF FirstOf
<1> QED  BY <1>4, <1>5

\* Of one test and of two.
LEMMA OneTest ==
  ASSUME NEW p \in BOOLEAN, NEW a, a # None, FirstOf(<< <<p, a>> >>) = None
  PROVE  ~p
BY FirstOfNone

LEMMA TwoTests ==
  ASSUME NEW p \in BOOLEAN, NEW q \in BOOLEAN, NEW a, NEW b, a # None, b # None,
         FirstOf(<< <<p, a>>, <<q, b>> >>) = None
  PROVE  ~p /\ ~q
BY FirstOfNone

-----------------------------------------------------------------------------
(* What any handler does.                                                  *)

LEMMA MovesShapes ==
  ASSUME Shapes, NEW s \in Sides, NEW h, NEW l, NEW msgs, NEW est \in BOOLEAN, NEW e,
         DOMAIN h = Fields, Moves(s, h, l, msgs, est, e)
  PROVE  /\ Shapes' /\ UNCHANGED <<conn, config, ticketKeys>>
         /\ pc'[s] = l /\ hs'[s] = h
         /\ \A t \in Sides \ {s} : pc'[t] = pc[t] /\ hs'[t] = hs[t] /\ out'[t] = out[t]
<1> USE DEF Shapes, Moves
<1>1. UNCHANGED <<conn, config, ticketKeys>>
  OBVIOUS
<1>2. DOMAIN pc' = Sides /\ DOMAIN hs' = Sides /\ DOMAIN out' = Sides /\ DOMAIN chan' = Sides
  OBVIOUS
<1>3. pc'[s] = l /\ hs'[s] = h /\ \A t \in Sides \ {s} : pc'[t] = pc[t] /\ hs'[t] = hs[t]
  OBVIOUS
<1>4. \A t \in Sides \ {s} : out'[t] = out[t]
  OBVIOUS
<1>5. DOMAIN out'[s] = {"key", "next", "seq"}
  <2> DEFINE o == IF est THEN [out[s] EXCEPT !.next = Key(s, h)] ELSE out[s]
  <2>1. out'[s] = Written(o, msgs)
    OBVIOUS
  <2>2. DOMAIN o = {"key", "next", "seq"}
    OBVIOUS
  <2> HIDE DEF o
  <2> QED  BY <2>1, <2>2 DEF Written, Switched
<1> QED  BY <1>1, <1>2, <1>3, <1>4, <1>5

NoCCS(msgs) == \A j \in DOMAIN msgs : msgs[j].type # "ccs"

\* The keys: a flight without ChangeCipherSpec leaves those in use as they are; one
\* with it needs prepared keys, and a side that has not changed yet.
LEMMA KeysKept ==
  ASSUME Shapes, KeyInv, NEW s \in Sides, NEW h, NEW l, NEW msgs, NEW est \in BOOLEAN, NEW e,
         DOMAIN h = Fields, Moves(s, h, l, msgs, est, e), NoCCS(msgs),
         Unspent(s, l, h) => Unspent(s, pc[s], hs[s]),
         Ready(s, l, h) => est \/ Ready(s, pc[s], hs[s])
  PROVE  KeyInv'
<1>1. Shapes' /\ conn' = conn /\ pc'[s] = l /\ hs'[s] = h
      /\ \A t \in Sides \ {s} : pc'[t] = pc[t] /\ hs'[t] = hs[t] /\ out'[t] = out[t]
  BY MovesShapes
<1>2. installed' = installed /\ ~reused'
  BY DEF NoCCS, Moves, KeyInv
<1>3. out'[s].next = IF est THEN Key(s, h) ELSE out[s].next
  <2> DEFINE o == IF est THEN [out[s] EXCEPT !.next = Key(s, h)] ELSE out[s]
  <2>1. out'[s] = Written(o, msgs)
    BY DEF Moves, Shapes
  <2>2. DOMAIN o = {"key", "next", "seq"} /\ o.next = IF est THEN Key(s, h) ELSE out[s].next
    BY DEF Shapes
  <2> HIDE DEF o
  <2>3. Written(o, msgs).next = o.next
    BY <2>2 DEF Written, NoCCS
  <2> QED  BY <2>1, <2>2, <2>3
<1>4. IsKey(Key(s, h), s)
  BY DEF IsKey, Key
<1>5. \A t \in Sides : Unspent(t, pc'[t], hs'[t]) => Unspent(t, pc[t], hs[t])
  BY <1>1
<1>6. \A t \in Sides : Ready(t, pc'[t], hs'[t]) => IsKey(out'[t].next, t)
  BY <1>1, <1>3, <1>4 DEF KeyInv
<1> QED  BY <1>1, <1>2, <1>5, <1>6 DEF KeyInv, IsKey

LEMMA KeysSpent ==
  ASSUME Shapes, KeyInv, NEW s \in Sides, NEW h, NEW l, NEW msgs, NEW est \in BOOLEAN, NEW e,
         DOMAIN h = Fields, Moves(s, h, l, msgs, est, e),
         Unspent(s, pc[s], hs[s]), est \/ Ready(s, pc[s], hs[s]), ~Unspent(s, l, h)
  PROVE  KeyInv'
<1> DEFINE k == IF est THEN Key(s, h) ELSE out[s].next
<1>1. Shapes' /\ conn' = conn /\ pc'[s] = l /\ hs'[s] = h
      /\ \A t \in Sides \ {s} : pc'[t] = pc[t] /\ hs'[t] = hs[t] /\ out'[t] = out[t]
  BY MovesShapes
<1>2. IsKey(k, s)
  BY DEF IsKey, Key, KeyInv
<1>3. k \notin installed
  BY <1>2 DEF KeyInv
<1> DEFINE o == IF est THEN [out[s] EXCEPT !.next = Key(s, h)] ELSE out[s]
<1>4. o.next = k
  BY DEF Shapes
<1>5. ~reused' /\ (installed' = installed \/ installed' = installed \cup {k})
  BY <1>3, <1>4 DEF Moves, KeyInv
<1>6. k[5] \in Nat /\ k[5] <= conn /\ \A t \in Sides \ {s} : ~IsKey(k, t)
  BY <1>2 DEF IsKey, Shapes
<1>7. \A t \in Sides : Unspent(t, pc'[t], hs'[t]) => t # s /\ Unspent(t, pc[t], hs[t])
  BY <1>1
<1>8. \A t \in Sides : Ready(t, pc'[t], hs'[t]) => IsKey(out'[t].next, t)
  BY <1>1, <1>7 DEF KeyInv, Unspent, IsKey
<1> HIDE DEF k
<1> QED  BY <1>1, <1>5, <1>6, <1>7, <1>8 DEF KeyInv, IsKey

-----------------------------------------------------------------------------
(* What the handshakes derived stays derived.                              *)

LEMMA GoodGrows ==
  ASSUME NEW M, NEW N, M \subseteq N
  PROVE  /\ \A x : SessionGood(M, x) => SessionGood(N, x)
         /\ \A t : TicketGood(M, t) => TicketGood(N, t)
         /\ \A h : ServerDerived(M, h) => ServerDerived(N, h)
         /\ \A s, m : MessageGood(M, s, m) => MessageGood(N, s, m)
BY DEF SessionGood, TicketGood, ServerDerived, MessageGood

LEMMA SideGoodGrows ==
  ASSUME NEW M, NEW N, M \subseteq N
  PROVE  /\ \A l, h : ClientGood(M, l, h) => ClientGood(N, l, h)
         /\ \A l, h : ServerGood(M, l, h) => ServerGood(N, l, h)
BY GoodGrows DEF ClientGood, NewSessionGood, ServerGood

\* What s may send.
Sendable(M, s, msgs) == IsSequence(msgs) /\ \A m \in Elems(msgs) : MessageGood(M, s, m)

\* A handler that sends good messages and ends in a good state, with the master
\* secrets that were there and perhaps one more.
LEMMA SessionsKept ==
  ASSUME Shapes, SessionInv, NEW s \in Sides, NEW h, NEW l, NEW msgs, NEW est \in BOOLEAN, NEW e,
         DOMAIN h = Fields, Moves(s, h, l, msgs, est, e),
         NEW M, M = masters', masters \subseteq M, MastersGood', CacheGood', Sendable(M, s, msgs),
         s = "client" => ClientGood(M, l, h), s = "server" => ServerGood(M, l, h),
         pc[s] # "start" => chan[Peer(s)] # <<>>
  PROVE  SessionInv'
<1>1. UNCHANGED <<conn, config>> /\ pc'[s] = l /\ hs'[s] = h
      /\ \A t \in Sides \ {s} : pc'[t] = pc[t] /\ hs'[t] = hs[t]
  BY MovesShapes
<1>2. \A t \in Sides : IsSequence(chan'[t]) /\ \A r \in Elems(chan'[t]) : MessageGood(M, t, r.msg)
  <2>1. \A t \in Sides :
          IsSequence(chan[t]) /\ \A r \in Elems(chan[t]) : MessageGood(M, t, r.msg)
    BY GoodGrows DEF SessionInv, ChannelsGood
  <2> DEFINE o == IF est THEN [out[s] EXCEPT !.next = Key(s, h)] ELSE out[s]
             q == Sealed(o, h.vers, msgs)
  <2>2. chan'[s] = chan[s] \o q /\ chan'[Peer(s)] \in {chan[Peer(s)], Tail(chan[Peer(s)])}
        /\ (chan'[Peer(s)] # chan[Peer(s)] => chan[Peer(s)] # <<>>)
    BY DEF Moves, Shapes, Sides, Peer
  <2>3. IsSequence(q) /\ \A r \in Elems(q) : MessageGood(M, s, r.msg)
    BY ElemsOfSealed DEF Sendable
  <2> HIDE DEF q
  <2>4. IsSequence(chan'[s]) /\ \A r \in Elems(chan'[s]) : MessageGood(M, s, r.msg)
    BY <2>1, <2>2, <2>3, ElemsOfConcat
  <2>5. Peer(s) \in Sides
    BY DEF Peer, Sides
  <2>6. IsSequence(chan'[Peer(s)])
        /\ \A r \in Elems(chan'[Peer(s)]) : MessageGood(M, Peer(s), r.msg)
    BY <2>1, <2>2, <2>5, ElemsOfHeadTail
  <2> QED  BY <2>4, <2>6 DEF Sides, Peer
<1>3. ChannelsGood'
  BY <1>1, <1>2 DEF ChannelsGood, MessageGood
<1>4. ClientGood(M, pc'["client"], hs'["client"])
  BY <1>1, SideGoodGrows DEF SessionInv, Sides
<1>5. ServerGood(M, pc'["server"], hs'["server"])
  BY <1>1, SideGoodGrows DEF SessionInv, Sides
<1>6. ClientGood(masters, pc["client"], hs["client"])'
  BY <1>1, <1>4 DEF ClientGood
<1>7. ServerGood(masters, pc["server"], hs["server"])'
  BY <1>1, <1>5 DEF ServerGood
<1> QED  BY <1>3, <1>6, <1>7 DEF SessionInv

\* Most handlers derive nothing and remember nothing.
LEMMA NothingDerived ==
  ASSUME SessionInv, UNCHANGED <<conn, config, masters>>
  PROVE  MastersGood' /\ (UNCHANGED cache => CacheGood')
BY DEF SessionInv, MastersGood, CacheGood

\* The message that has arrived is a good one.
LEMMA ArrivedGood ==
  ASSUME Shapes, SessionInv, NEW s \in Sides, chan[Peer(s)] # <<>>
  PROVE  MessageGood(masters, Peer(s), Message(s))
<1>1. Peer(s) \in Sides
  BY DEF Peer, Sides
<1> QED  BY <1>1, ElemsOfHeadTail DEF SessionInv, ChannelsGood, Message

-----------------------------------------------------------------------------
(* A handler of one side, in all.                                          *)

\* The use of ChangeCipherSpec by a handler that takes s to l with state h.
KeyStep(s, h, l, msgs, est) ==
  \/ /\ NoCCS(msgs)
     /\ Unspent(s, l, h) => Unspent(s, pc[s], hs[s])
     /\ Ready(s, l, h) => est \/ Ready(s, pc[s], hs[s])
  \/ /\ Unspent(s, pc[s], hs[s]) /\ ~Unspent(s, l, h)
     /\ est \/ Ready(s, pc[s], hs[s])

LEMMA KeyStepKeeps ==
  ASSUME Shapes, KeyInv, NEW s \in Sides, NEW h, NEW l, NEW msgs, NEW est \in BOOLEAN, NEW e,
         DOMAIN h = Fields, Moves(s, h, l, msgs, est, e), KeyStep(s, h, l, msgs, est)
  PROVE  KeyInv'
BY KeysKept, KeysSpent DEF KeyStep

LEMMA ClientStep ==
  ASSUME IInv, NEW h, NEW l, NEW msgs, NEW est \in BOOLEAN, NEW e, DOMAIN h = Fields,
         Moves("client", h, l, msgs, est, e), pc["client"] # "start" => chan["server"] # <<>>,
         UNCHANGED masters, CacheGood' \/ UNCHANGED cache,
         KeyStep("client", h, l, msgs, est), Sendable(masters, "client", msgs),
         ClientGood(masters, l, h)
  PROVE  IInv'
BY MovesShapes, KeyStepKeeps, NothingDerived, SessionsKept DEF IInv, Sides, AuthInv, AuthObeyed, Peer

LEMMA ServerStep ==
  ASSUME IInv, NEW h, NEW l, NEW msgs, NEW est \in BOOLEAN, NEW e, DOMAIN h = Fields,
         Moves("server", h, l, msgs, est, e), chan["client"] # <<>>,
         NEW M, M = masters', masters \subseteq M, MastersGood', UNCHANGED cache,
         KeyStep("server", h, l, msgs, est), Sendable(M, "server", msgs),
         ServerGood(M, l, h),
         l = "clientCertificate" => config.server.auth # 0,
         l \in {"clientKeyExchange", "certificateVerify", "clientCCS", "clientFinished",
                "complete"} => AuthObeyed(config.server, h.peer)
  PROVE  IInv'
<1>1. Shapes' /\ UNCHANGED <<conn, config>> /\ pc'["server"] = l /\ hs'["server"] = h
  BY MovesShapes DEF IInv, Sides
<1>2. AuthInv'
  BY <1>1 DEF AuthInv, AuthObeyed
<1>3. KeyInv'
  BY KeyStepKeeps DEF IInv, Sides
<1>4. CacheGood'
  BY GoodGrows DEF IInv, SessionInv, CacheGood
<1>5. SessionInv'
  BY <1>4, SessionsKept DEF IInv, Sides, Peer
<1> QED  BY <1>1, <1>2, <1>3, <1>5 DEF IInv

\* With no full handshake concluded.
LEMMA PlainServerStep ==
  ASSUME IInv, NEW h, NEW l, NEW msgs, NEW est \in BOOLEAN, NEW e, DOMAIN h = Fields,
         Moves("server", h, l, msgs, est, e), chan["client"] # <<>>, UNCHANGED <<cache, masters>>,
         KeyStep("server", h, l, msgs, est), Sendable(masters, "server", msgs),
         ServerGood(masters, l, h),
         l = "clientCertificate" => config.server.auth # 0,
         l \in {"clientKeyExchange", "certificateVerify", "clientCCS", "clientFinished",
                "complete"} => AuthObeyed(config.server, h.peer)
  PROVE  IInv'
BY MovesShapes, NothingDerived, ServerStep DEF IInv, Sides

LEMMA FailStep ==
  ASSUME IInv, NEW s \in Sides, NEW h, NEW msgs, NEW why, DOMAIN h = Fields,
         Fails(s, h, msgs, why), chan[Peer(s)] # <<>>, UNCHANGED <<cache, masters>>,
         Sendable(masters, s, msgs), \A m \in Elems(msgs) : m.type # "ccs"
  PROVE  IInv'
<1> DEFINE sent == IF why \in Panics THEN <<>>
                   ELSE IF why \in Silent THEN msgs ELSE Append(msgs, Alert(why))
<1>1. \E e : Moves(s, h, "failed", sent, FALSE, e)
  BY DEF Fails
<1>2. IsSequence(sent) /\ Elems(sent) \subseteq Elems(msgs) \cup {Alert(why)}
  BY ElemsOfTuples, ElemsOfAppend DEF Sendable
<1> HIDE DEF sent
<1>3. \A m \in Elems(sent) : m.type # "ccs" /\ MessageGood(masters, s, m)
  BY <1>2 DEF Sendable, Alert, MessageGood
<1>4. NoCCS(sent) /\ Sendable(masters, s, sent)
  BY <1>2, <1>3 DEF NoCCS, Elems, Sendable
<1>5. KeyStep(s, h, "failed", sent, FALSE)
  BY <1>4 DEF KeyStep, Unspent, Ready, Keyless
<1>6. ClientGood(masters, "failed", h) /\ ServerGood(masters, "failed", h)
  BY DEF ClientGood, ServerGood
<1>7. Shapes' /\ UNCHANGED <<conn, config>>
  BY <1>1, MovesShapes DEF IInv
<1>8. MastersGood' /\ CacheGood'
  BY <1>7, NothingDerived DEF IInv
<1>9. CASE s = "client"
  BY <1>1, <1>4, <1>5, <1>6, <1>8, <1>9, ClientStep DEF Peer
<1>10. CASE s = "server"
  BY <1>1, <1>4, <1>5, <1>6, <1>8, <1>10, ServerStep DEF Peer
<1> QED  BY <1>9, <1>10 DEF Sides

-----------------------------------------------------------------------------
(* The client.                                                             *)

\* Reading has something to read.
LEMMA ReadsSomething ==
  ASSUME NEW s, NEW type, Arrived(s, type)
  PROVE  /\ chan[Peer(s)] # <<>> /\ pc[s] \in DOMAIN Expected /\ type \in Expected[pc[s]]
         /\ Message(s).type = type
BY DEF Arrived, Waits, Message

\* The points at which each message may arrive.
LEMMA PointsOf ==
  ASSUME NEW p \in DOMAIN Expected
  PROVE  /\ "serverHello" \in Expected[p] => p = "serverHello"
         /\ "certificate" \in Expected[p] => p \in {"clientCertificate", "serverCertificate"}
         /\ "certificateStatus" \in Expected[p] => p = "certificateStatus"
         /\ "serverKeyExchange" \in Expected[p] => p = "serverKeyExchange"
         /\ "certificateRequest" \in Expected[p] => p \in {"serverKeyExchange", "certificateRequest"}
         /\ "serverHelloDone" \in Expected[p] =>
              p \in {"serverKeyExchange", "certificateRequest", "serverHelloDone"}
         /\ "newSessionTicket" \in Expected[p] => p = "newSessionTicket"
         /\ "ccs" \in Expected[p] => p \in {"clientCCS", "serverCCS"}
         /\ "finished" \in Expected[p] => p \in {"clientFinished", "serverFinished"}
         /\ "clientHello" \in Expected[p] => p = "clientHello"
         /\ "clientKeyExchange" \in Expected[p] => p = "clientKeyExchange"
         /\ "certificateVerify" \in Expected[p] => p = "certificateVerify"
BY DEF Expected

\* Writing nothing, and a state with its fields.
LEMMA NothingSent == \A M, s : NoCCS(<<>>) /\ Sendable(M, s, <<>>) /\ \A m \in Elems(<<>>) : m.type # "ccs"
BY ElemsOfTuples DEF NoCCS, Sendable

LEMMA NoStateFields == DOMAIN NoState = Fields
BY DEF NoState, Fields

\* What the operators on the transcript leave alone.
LEMMA HashedFields ==
  ASSUME NEW h, DOMAIN h = Fields, NEW msgs
  PROVE  /\ DOMAIN Hashed(h, msgs) = Fields
         /\ \A f \in Fields \ {"transcript"} : Hashed(h, msgs)[f] = h[f]
BY DEF Hashed, Fields

LEMMA DiscardedFields ==
  ASSUME NEW h, DOMAIN h = Fields
  PROVE  /\ DOMAIN Discarded(h) = Fields
         /\ \A f \in Fields \ {"buffer"} : Discarded(h)[f] = h[f]
BY DEF Discarded, Fields

LEMMA NewHashFields ==
  ASSUME NEW h, DOMAIN h = Fields
  PROVE  /\ DOMAIN NewHash(h) = Fields
         /\ \A f \in Fields \ {"transcript", "buffer"} : NewHash(h)[f] = h[f]
BY DEF NewHash, Fields

LEMMA SendClientHelloStep == IInv /\ SendClientHello => IInv'
<1> SUFFICES ASSUME IInv, SendClientHello  PROVE IInv'
  OBVIOUS
<1> DEFINE c == config.client
           usable == c.cache /\ cache # None /\ cache.suite \in Elems(Advertised(c))
                     /\ cache.vers \in c.min..c.max
           session == IF usable THEN cache ELSE None
           hello == [type |-> "clientHello", vers |-> c.max, suites |-> Advertised(c),
                     curves |-> c.curves, protos |-> c.protos, tickets |-> c.cache,
                     sigs |-> IF c.max = TLS12 THEN supportedSignatureAlgorithms ELSE <<>>,
                     ticket |-> IF usable THEN cache.ticket ELSE None,
                     sessionId |-> IF usable THEN conn ELSE None]
<1>1. /\ Continues("client", [NoState EXCEPT !.hello = hello, !.session = session],
                   "serverHello", <<hello>>)
      /\ pc["client"] = "start" /\ UNCHANGED <<cache, masters>>
  BY DEF SendClientHello
<1>0. /\ hello.type = "clientHello"
      /\ hello.ticket # None => cache # None /\ hello.ticket = cache.ticket
      /\ session # None => cache # None /\ session = cache
  OBVIOUS
<1> HIDE DEF hello, session
<1>2. PICK h : h = [NoState EXCEPT !.hello = hello, !.session = session]
  OBVIOUS
<1>3. DOMAIN h = Fields /\ h.newSession = None /\ h.session = session
  BY <1>2 DEF NoState, Fields
<1>4. Sendable(masters, "client", <<hello>>) /\ NoCCS(<<hello>>)
  BY <1>0, ElemsOfTuples DEF Sendable, NoCCS, MessageGood, IInv, SessionInv, CacheGood
<1>5. KeyStep("client", h, "serverHello", <<hello>>, FALSE)
  BY <1>1, <1>4 DEF KeyStep, Unspent, Ready, Keyless
<1>6. ClientGood(masters, "serverHello", h)
  BY <1>0, <1>3 DEF ClientGood, IInv, SessionInv, CacheGood
<1> QED  BY <1>1, <1>2, <1>3, <1>4, <1>5, <1>6, ClientStep DEF Continues

LEMMA ReadServerCertificateStep == IInv /\ ReadServerCertificate => IInv'
<1> SUFFICES ASSUME IInv, ReadServerCertificate  PROVE IInv'
  OBVIOUS
<1>1. chan["server"] # <<>> /\ pc["client"] = "serverCertificate" /\ UNCHANGED <<cache, masters>>
      /\ Message("client").type = "certificate"
  BY ReadsSomething DEF ReadServerCertificate, Peer
<1>2. PICK c : c = Message("client").cert
  OBVIOUS
<1>3. c = config.server.cert
  BY <1>1, <1>2, ArrivedGood DEF IInv, MessageGood, Sides, Peer
<1>4. PICK h : h = hs["client"]
  OBVIOUS
<1>5. DOMAIN h = Fields /\ h.newSession = None /\ ~h.resume
  BY <1>1, <1>4 DEF IInv, Shapes, SessionInv, ClientGood, Sides
<1>6. CASE Fails("client", h, <<>>, "bad_certificate")
  BY <1>1, <1>5, <1>6, NothingSent, FailStep DEF Peer, Sides
<1>7. CASE ~Fails("client", h, <<>>, "bad_certificate")
  <2>1. PICK h1 : h1 = Hashed([h EXCEPT !.peer = c], <<Message("client")>>)
    OBVIOUS
  <2>2. PICK l : /\ l \in {"certificateStatus", "serverKeyExchange"}
                 /\ Continues("client", h1, l, <<>>)
    BY <1>2, <1>4, <1>7, <2>1 DEF ReadServerCertificate
  <2>3. DOMAIN h1 = Fields /\ h1.newSession = None /\ ~h1.resume /\ h1.peer = config.server.cert
    BY <1>3, <1>5, <2>1, HashedFields DEF Fields
  <2>4. KeyStep("client", h1, l, <<>>, FALSE)
    BY <1>1, <2>2, NothingSent DEF KeyStep, Unspent, Ready, Keyless
  <2>5. ClientGood(masters, l, h1)
    BY <2>2, <2>3 DEF ClientGood
  <2> QED  BY <1>1, <2>2, <2>3, <2>4, <2>5, NothingSent, ClientStep DEF Continues
<1> QED  BY <1>6, <1>7

\* The messages of a full handshake that only carry the client on.
LEMMA CarriedOn ==
  ASSUME IInv, NEW h1, DOMAIN h1 = Fields, NEW l, chan["server"] # <<>>,
         l \in {"serverKeyExchange", "certificateRequest", "serverHelloDone"},
         pc["client"] \in {"certificateStatus", "serverKeyExchange", "certificateRequest",
                           "serverHelloDone"},
         \A f \in {"newSession", "resume", "peer"} : h1[f] = hs["client"][f],
         Continues("client", h1, l, <<>>), UNCHANGED <<cache, masters>>
  PROVE  IInv'
BY NothingSent, ClientStep DEF IInv, SessionInv, ClientGood, KeyStep, Unspent, Ready, Keyless, Continues

LEMMA ReadCertificateStatusStep == IInv /\ ReadCertificateStatus => IInv'
<1> SUFFICES ASSUME IInv, ReadCertificateStatus  PROVE IInv'
  OBVIOUS
<1>1. chan["server"] # <<>> /\ pc["client"] = "certificateStatus" /\ UNCHANGED <<cache, masters>>
  BY ReadsSomething, PointsOf DEF ReadCertificateStatus, Peer
<1>2. PICK h : h = Hashed(hs["client"], <<Message("client")>>)
  OBVIOUS
<1>3. Continues("client", h, "serverKeyExchange", <<>>)
  BY <1>2 DEF ReadCertificateStatus
<1>4. DOMAIN hs["client"] = Fields
  BY DEF IInv, Shapes, Sides
<1>5. DOMAIN h = Fields /\ \A f \in {"newSession", "resume", "peer"} : h[f] = hs["client"][f]
  BY <1>2, <1>4, HashedFields DEF Fields
<1> QED  BY <1>1, <1>3, <1>5, CarriedOn

LEMMA ReadServerKeyExchangeStep == IInv /\ ReadServerKeyExchange => IInv'
<1> SUFFICES ASSUME IInv, ReadServerKeyExchange  PROVE IInv'
  OBVIOUS
<1>1. chan["server"] # <<>> /\ pc["client"] = "serverKeyExchange" /\ UNCHANGED <<cache, masters>>
  BY ReadsSomething, PointsOf DEF ReadServerKeyExchange, Peer
<1>2. PICK m : m = Message("client")
  OBVIOUS
<1>3. PICK h : h = hs["client"]
  OBVIOUS
<1>4. PICK h1 : h1 = Hashed([h EXCEPT !.skx = m.curve], <<m>>)
  OBVIOUS
<1>5. DOMAIN h = Fields
  BY <1>3 DEF IInv, Shapes, Sides
<1>6. DOMAIN h1 = Fields /\ \A f \in {"newSession", "resume", "peer"} : h1[f] = h[f]
  BY <1>4, <1>5, HashedFields DEF Fields
<1>7. \/ \E why : Fails("client", h, <<>>, why)
      \/ Continues("client", h1, "certificateRequest", <<>>)
  BY <1>2, <1>3, <1>4 DEF ReadServerKeyExchange
<1>8. CASE \E why : Fails("client", h, <<>>, why)
  BY <1>1, <1>5, <1>8, NothingSent, FailStep DEF Peer, Sides
<1>9. CASE Continues("client", h1, "certificateRequest", <<>>)
  BY <1>1, <1>3, <1>6, <1>9, CarriedOn
<1> QED  BY <1>7, <1>8, <1>9

LEMMA ReadCertificateRequestStep == IInv /\ ReadCertificateRequest => IInv'
<1> SUFFICES ASSUME IInv, ReadCertificateRequest  PROVE IInv'
  OBVIOUS
<1>1. /\ chan["server"] # <<>> /\ pc["client"] \in {"serverKeyExchange", "certificateRequest"}
      /\ UNCHANGED <<cache, masters>>
  BY ReadsSomething, PointsOf DEF ReadCertificateRequest, Peer
<1>2. PICK m : m = Message("client")
  OBVIOUS
<1>3. PICK h : h = hs["client"]
  OBVIOUS
<1>4. PICK own : own = ClientCertificate(config.client.certs, m.authorities)
  OBVIOUS
<1>5. PICK h1 : h1 = Hashed([h EXCEPT !.certReq = m, !.own = own], <<m>>)
  OBVIOUS
<1>6. DOMAIN h = Fields
  BY <1>3 DEF IInv, Shapes, Sides
<1>7. DOMAIN h1 = Fields /\ \A f \in {"newSession", "resume", "peer"} : h1[f] = h[f]
  <2>1. PICK g : g = [h EXCEPT !.certReq = m, !.own = own]
    OBVIOUS
  <2>2. DOMAIN g = Fields /\ \A f \in {"newSession", "resume", "peer"} : g[f] = h[f]
    BY <1>6, <2>1 DEF Fields
  <2>3. h1 = Hashed(g, <<m>>)
    BY <1>5, <2>1
  <2> QED  BY <2>2, <2>3, HashedFields DEF Fields
<1>8. Continues("client", h1, "serverHelloDone", <<>>)
  BY <1>2, <1>3, <1>4, <1>5 DEF ReadCertificateRequest
<1> QED  BY <1>1, <1>3, <1>7, <1>8, CarriedOn

LEMMA ReadNewSessionTicketStep == IInv /\ ReadNewSessionTicket => IInv'
<1> SUFFICES ASSUME IInv, ReadNewSessionTicket  PROVE IInv'
  OBVIOUS
<1>1. chan["server"] # <<>> /\ pc["client"] = "newSessionTicket" /\ UNCHANGED <<cache, masters>>
      /\ Message("client").type = "newSessionTicket"
  BY ReadsSomething, PointsOf DEF ReadNewSessionTicket, Peer
<1>2. PICK m : m = Message("client")
  OBVIOUS
<1>3. TicketGood(masters, m.ticket)
  BY <1>1, <1>2, ArrivedGood DEF IInv, MessageGood, Sides, Peer
<1>4. PICK h : h = hs["client"]
  OBVIOUS
<1>5. DOMAIN h = Fields
  BY <1>4 DEF IInv, Shapes, Sides
<1>6. PICK n : n = [ticket |-> m.ticket, vers |-> h.vers, suite |-> h.suite,
                    master |-> h.master, peer |-> h.peer]
  OBVIOUS
<1>7. PICK h1 : h1 = Hashed([h EXCEPT !.newSession = n], <<m>>)
  OBVIOUS
<1>8. /\ DOMAIN h1 = Fields /\ h1.newSession = n
      /\ h1.resume = h.resume /\ h1.peer = h.peer /\ h1.master = h.master
      /\ h1.vers = h.vers /\ h1.suite = h.suite
  BY <1>5, <1>7, HashedFields DEF Fields
<1>9. Continues("client", h1, "serverCCS", <<>>)
  BY <1>2, <1>4, <1>6, <1>7 DEF ReadNewSessionTicket
<1>10. NewSessionGood(masters, h1)
  BY <1>3, <1>6, <1>8 DEF NewSessionGood
<1>11. /\ h.resume => SessionGood(masters, h)
       /\ ~h.resume => h.peer = config.server.cert /\ h.master[2] = conn
  BY <1>1, <1>4 DEF IInv, SessionInv, ClientGood
<1>12. ClientGood(masters, "serverCCS", h1)
  BY <1>8, <1>10, <1>11 DEF ClientGood, SessionGood
<1>13. KeyStep("client", h1, "serverCCS", <<>>, FALSE)
  BY <1>1, <1>4, <1>8, NothingSent DEF KeyStep, Unspent, Ready, Keyless
<1> QED  BY <1>1, <1>8, <1>9, <1>12, <1>13, NothingSent, ClientStep DEF Continues

LEMMA ReadServerCCSStep == IInv /\ ReadServerCCS => IInv'
<1> SUFFICES ASSUME IInv, ReadServerCCS  PROVE IInv'
  OBVIOUS
<1>1. chan["server"] # <<>> /\ pc["client"] \in {"clientCCS", "serverCCS"}
      /\ UNCHANGED <<cache, masters>>
  BY ReadsSomething, PointsOf DEF ReadServerCCS, Peer
<1>2. PICK h : h = hs["client"]
  OBVIOUS
<1>3. DOMAIN h = Fields
  BY <1>2 DEF IInv, Shapes, Sides
<1>4. Continues("client", h, "serverFinished", <<>>)
  BY <1>2 DEF ReadServerCCS
<1>5. pc["client"] = "serverCCS"
  BY <1>1 DEF IInv, SessionInv, ClientGood
<1>6. ClientGood(masters, "serverFinished", h)
  BY <1>2, <1>5 DEF IInv, SessionInv, ClientGood
<1>7. KeyStep("client", h, "serverFinished", <<>>, FALSE)
  BY <1>2, <1>5, NothingSent DEF KeyStep, Unspent, Ready, Keyless
<1> QED  BY <1>1, <1>3, <1>4, <1>6, <1>7, NothingSent, ClientStep DEF Continues

\* A Finished that is accepted is of a server with the same secrets.
LEMMA FinishedAccepted ==
  ASSUME NEW M, NEW m, m.type = "finished", MessageGood(M, "server", m),
         NEW h, m.verify = VerifyData("server", h)
  PROVE  \E x \in M : x.vers = h.vers /\ x.suite = h.suite /\ x.master = h.master
BY DEF VerifyData, MessageGood

LEMMA ReadServerFinishedStep == IInv /\ ReadServerFinished => IInv'
<1> SUFFICES ASSUME IInv, ReadServerFinished  PROVE IInv'
  OBVIOUS
<1>1. chan["server"] # <<>> /\ pc["client"] \in {"clientFinished", "serverFinished"}
      /\ UNCHANGED masters /\ Message("client").type = "finished"
  BY ReadsSomething, PointsOf DEF ReadServerFinished, Peer
<1>2. pc["client"] = "serverFinished"
  BY <1>1 DEF IInv, SessionInv, ClientGood
<1>3. PICK m : m = Message("client")
  OBVIOUS
<1>4. m.type = "finished" /\ MessageGood(masters, "server", m)
  BY <1>1, <1>3, ArrivedGood DEF IInv, Sides, Peer
<1>5. PICK h : h = hs["client"]
  OBVIOUS
<1>6. DOMAIN h = Fields
  BY <1>5 DEF IInv, Shapes, Sides
<1>7. /\ h.resume => SessionGood(masters, h)
      /\ ~h.resume => h.peer = config.server.cert /\ h.master[2] = conn
      /\ NewSessionGood(masters, h)
  BY <1>2, <1>5 DEF IInv, SessionInv, ClientGood
<1> DEFINE checks == << <<m.verify # VerifyData("server", h), "handshake_failure">> >>
<1>8. CASE FirstOf(checks) # None
  BY <1>3, <1>5, <1>8, <1>1, <1>6, NothingSent, FailStep DEF ReadServerFinished, Peer, Sides
<1>9. CASE FirstOf(checks) = None
  <2>1. m.verify = VerifyData("server", h)
    BY <1>9, NoneAssumption, OneTest DEF NoneAssumption, Alerts
  <2>2. \E x \in masters : x.vers = h.vers /\ x.suite = h.suite /\ x.master = h.master
    BY <1>4, <2>1, FinishedAccepted
  <2>3. SessionGood(masters, h)
    <3>1. CASE ~h.resume
      BY <1>7, <2>2, <3>1 DEF SessionGood, IInv, SessionInv, MastersGood
    <3> QED  BY <1>7, <3>1
  <2>4. cache' = cache \/ (cache' = h.newSession /\ h.newSession # None)
    BY <1>3, <1>5, <1>9 DEF ReadServerFinished, Remembered
  <2>5. h.newSession # None => SessionGood(masters, h.newSession) /\ TicketGood(masters, h.newSession.ticket)
    BY <1>7, <2>3 DEF NewSessionGood, SessionGood
  <2>6. PICK h1 : h1 = Hashed(h, <<m>>)
    OBVIOUS
  <2>7. PICK fin : fin = Finished("client", h1)
    OBVIOUS
  <2>8. PICK h2 : h2 = Hashed(h1, <<fin>>)
    OBVIOUS
  <2>9. /\ DOMAIN h1 = Fields /\ DOMAIN h2 = Fields
        /\ \A f \in {"vers", "suite", "master", "peer", "resume"} : h1[f] = h[f] /\ h2[f] = h[f]
    BY <1>6, <2>6, <2>8, HashedFields DEF Fields
  <2>10. IF h.resume THEN Continues("client", h2, "complete", <<CCS, fin>>)
         ELSE Continues("client", h1, "complete", <<>>)
    BY <1>3, <1>5, <1>9, <2>6, <2>7, <2>8 DEF ReadServerFinished
  <2>11. ClientGood(masters, "complete", h1) /\ ClientGood(masters, "complete", h2)
    BY <2>3, <2>9 DEF ClientGood, SessionGood
  <2>12. CacheGood' \/ UNCHANGED cache
    BY <1>1, <2>4, <2>5 DEF CacheGood
  <2>13. CASE ~h.resume
    BY NothingSent, <1>1, <2>9, <2>10, <2>11, <2>12, <2>13, ClientStep DEF KeyStep, Unspent, Ready, Keyless,
       Continues
  <2>14. CASE h.resume
    <3>1. KeyStep("client", h2, "complete", <<CCS, fin>>, FALSE)
      BY <1>2, <1>5, <2>14 DEF KeyStep, Unspent, Ready, Keyless
    <3>2. Sendable(masters, "client", <<CCS, fin>>)
      BY <2>7, ElemsOfTuples DEF Sendable, MessageGood, CCS, Finished
    <3> QED  BY <1>1, <2>9, <2>10, <2>11, <2>12, <2>14, <3>1, <3>2, ClientStep DEF Continues
  <2> QED  BY <2>13, <2>14
<1> QED  BY <1>8, <1>9

LEMMA ReadServerHelloStep == IInv /\ ReadServerHello => IInv'
<1> SUFFICES ASSUME IInv, ReadServerHello  PROVE IInv'
  OBVIOUS
<1> DEFINE c == config.client
           h == hs["client"]
           m == Message("client")
           vers == MutualVersion(c, m.vers)
           suiteOk == m.suite \in Elems(h.hello.suites)
           resume == h.session # None /\ m.sessionId = h.hello.sessionId
           versOk == vers # None /\ vers \in TLS10..TLS12
           h1 == [h EXCEPT !.vers = IF versOk THEN vers ELSE None]
           h1s == [h1 EXCEPT !.suite = m.suite, !.serverHello = m, !.proto = TakesProto(m),
                             !.resume = resume]
           h2 == NewHash(h1s)
           h2b == [h2 EXCEPT !.buffer = @ /\ KeepsBuffer(c, resume)]
           h3 == Hashed(h2b, <<h.hello, m>>)
           h4 == [h3 EXCEPT !.master = h.session.master, !.peer = h.session.peer]
           why == FirstOf(<<
             <<~versOk, "protocol_version">>,
             <<~suiteOk, "handshake_failure">>,
             <<h.hello.protos = <<>> /\ m.proto # None, "handshake_failure">>,
             <<resume /\ h.session.vers # vers, "handshake_failure">>,
             <<resume /\ h.session.suite # m.suite, "handshake_failure">>,
             <<versOk /\ NilMD5(vers, m.suite), "nil MD5">> >>)
<1>1. chan["server"] # <<>> /\ pc["client"] = "serverHello" /\ UNCHANGED <<cache, masters>>
  BY ReadsSomething, PointsOf DEF ReadServerHello, Peer
<1>2. \/ why # None /\ Fails("client", h1, <<>>, why)
      \/ why = None /\ resume /\ Establishes("client", h4, AfterDone(h4), <<>>)
      \/ why = None /\ ~resume /\ Continues("client", h3, "serverCertificate", <<>>)
  BY DEF ReadServerHello
<1>3. DOMAIN h = Fields /\ h.newSession = None
      /\ (h.session # None => SessionGood(masters, h.session))
  BY <1>1 DEF IInv, Shapes, SessionInv, ClientGood, Sides
<1>4. DOMAIN h1 = Fields /\ h1.newSession = None /\ (versOk => h1.vers = vers)
  BY <1>3 DEF Fields
<1>5. /\ DOMAIN h1s = Fields /\ h1s.newSession = None /\ h1s.vers = h1.vers
      /\ h1s.suite = m.suite /\ h1s.resume = resume
  <2> HIDE DEF h1, resume, m
  <2> QED  BY <1>4 DEF Fields
<1>6. /\ DOMAIN h3 = Fields /\ h3.newSession = None /\ h3.vers = h1.vers
      /\ h3.suite = m.suite /\ h3.resume = resume
  <2> HIDE DEF h1s, h1, resume, m, h2b
  <2>1. /\ DOMAIN h2 = Fields /\ h2.newSession = None /\ h2.vers = h1.vers
        /\ h2.suite = m.suite /\ h2.resume = resume
    BY <1>5, NewHashFields DEF Fields
  <2> HIDE DEF h2
  <2>2. /\ DOMAIN h2b = Fields /\ h2b.newSession = None /\ h2b.vers = h1.vers
        /\ h2b.suite = m.suite /\ h2b.resume = resume
    BY <2>1 DEF Fields, h2b
  <2> QED  BY <2>2, HashedFields DEF Fields
<1>7. CASE why # None /\ Fails("client", h1, <<>>, why)
  <2> HIDE DEF h1, why
  <2> QED  BY <1>1, <1>4, <1>7, NothingSent, FailStep DEF Peer, Sides
<1>8. CASE why = None /\ ~resume /\ Continues("client", h3, "serverCertificate", <<>>)
  <2> HIDE DEF h3, why, resume
  <2>1. ClientGood(masters, "serverCertificate", h3)
    BY <1>6, <1>8 DEF ClientGood
  <2>2. KeyStep("client", h3, "serverCertificate", <<>>, FALSE)
    BY <1>1, NothingSent DEF KeyStep, Unspent, Ready, Keyless
  <2> QED  BY <1>1, <1>6, <1>8, <2>1, <2>2, NothingSent, ClientStep DEF Continues
<1>9. CASE why = None /\ resume /\ Establishes("client", h4, AfterDone(h4), <<>>)
  <2>1. versOk /\ h.session.vers = vers /\ h.session.suite = m.suite
    <3> HIDE DEF versOk, vers, m, suiteOk, resume, h
    <3>1. PICK p1 \in BOOLEAN : p1 <=> ~versOk
      OBVIOUS
    <3>2. PICK p2 \in BOOLEAN : p2 <=> ~suiteOk
      OBVIOUS
    <3>3. PICK p3 \in BOOLEAN : p3 <=> (h.hello.protos = <<>> /\ m.proto # None)
      OBVIOUS
    <3>4. PICK p4 \in BOOLEAN : p4 <=> (resume /\ h.session.vers # vers)
      OBVIOUS
    <3>5. PICK p5 \in BOOLEAN : p5 <=> (resume /\ h.session.suite # m.suite)
      OBVIOUS
    <3>6. PICK p6 \in BOOLEAN : p6 <=> (versOk /\ NilMD5(vers, m.suite))
      OBVIOUS
    <3>7. PICK a \in Alerts, b \in Alerts, d \in Silent :
            a = "protocol_version" /\ b = "handshake_failure" /\ d = "nil MD5"
      BY DEF Alerts, Silent, Panics
    <3>8. FirstOf(<< <<p1, a>>, <<p2, b>>, <<p3, b>>, <<p4, b>>, <<p5, b>>, <<p6, d>> >>) = None
      BY <1>9, <3>1, <3>2, <3>3, <3>4, <3>5, <3>6, <3>7
    <3>9. ~p1 /\ ~p4 /\ ~p5
      <4>1. PICK checks :
              checks = << <<p1, a>>, <<p2, b>>, <<p3, b>>, <<p4, b>>, <<p5, b>>, <<p6, d>> >>
        OBVIOUS
      <4>2. /\ DOMAIN checks = 1..6
            /\ checks[1] = <<p1, a>> /\ checks[2] = <<p2, b>> /\ checks[3] = <<p3, b>>
            /\ checks[4] = <<p4, b>> /\ checks[5] = <<p5, b>> /\ checks[6] = <<p6, d>>
        BY <4>1
      <4>3. \A i \in 1..6 : checks[i][2] \in Alerts \cup Silent
        <5>1. a \in Alerts /\ b \in Alerts /\ d \in Silent
          BY <3>7
        <5> QED  BY <4>2, <5>1
      <4>4. \A i \in 1..6 : ~checks[i][1]
        BY <3>8, <4>1, <4>2, <4>3, NoneAssumption, FirstOfNone DEF NoneAssumption
      <4> QED  BY <3>1, <3>4, <3>5, <4>2, <4>4
    <3> QED  BY <1>9, <3>1, <3>4, <3>5, <3>9
  <2> HIDE DEF h3, why, resume, h, versOk, vers, m, h1
  <2>2. /\ DOMAIN h4 = Fields /\ h4.newSession = None /\ h4.vers = h.session.vers
        /\ h4.suite = h.session.suite /\ h4.resume
        /\ h4.master = h.session.master /\ h4.peer = h.session.peer
    BY <1>4, <1>6, <1>9, <2>1 DEF Fields
  <2>3. SessionGood(masters, h.session)
    BY <1>3, <1>9 DEF resume
  <2> HIDE DEF h4
  <2>4. PICK l \in {"newSessionTicket", "serverCCS"} :
          Establishes("client", h4, l, <<>>)
    BY <1>9 DEF AfterDone
  <2>5. ClientGood(masters, l, h4)
    BY <2>2, <2>3 DEF ClientGood, SessionGood, NewSessionGood
  <2>6. KeyStep("client", h4, l, <<>>, TRUE)
    BY <1>1, <2>2, NothingSent DEF KeyStep, Unspent, Ready, Keyless
  <2> QED  BY <1>1, <2>2, <2>4, <2>5, <2>6, NothingSent, ClientStep DEF Establishes
<1> QED  BY <1>2, <1>7, <1>8, <1>9

\* The flight of a client after the ServerHelloDone: none of it is a ClientHello.
LEMMA ClientFlight ==
  ASSUME NEW msgs, IsSequence(msgs), \A m \in Elems(msgs) : m.type # "clientHello"
  PROVE  \A M : Sendable(M, "client", msgs)
BY DEF Sendable, MessageGood

LEMMA ReadServerHelloDoneStep == IInv /\ ReadServerHelloDone => IInv'
<1> SUFFICES ASSUME IInv, ReadServerHelloDone  PROVE IInv'
  OBVIOUS
<1> DEFINE h == hs["client"]
           c == config.client
           cert == IF h.certReq = None THEN <<>> ELSE <<[type |-> "certificate", cert |-> h.own]>>
           ckx == [type |-> "clientKeyExchange", pre |-> conn]
           h1 == Hashed(h, <<Message("client")>> \o cert \o <<ckx>>)
           noShare == SigType[h.suite] # None /\ h.skx = None
           alg == selectClientCertSignatureAlgorithm(h.vers, h.certReq.sigs, h.own.alg)
           verify == IF h.own = None THEN <<>>
                     ELSE <<[type |-> "certificateVerify", alg |-> alg,
                             signature |-> <<h.own, Digest(h1, alg)>>]>>
           h1m == [h1 EXCEPT !.master = MasterSecret(ckx.pre)]
           h1v == Hashed(h1m, verify)
           h2 == Discarded(h1v)
           fin == Finished("client", h2)
           why == FirstOf(<<
             <<noShare, "internal_error">>,
             <<SigType[h.suite] = None /\ h.peer.alg # "RSA", "key type assertion">>,
             <<h.suite = "sm2" /\ c.randNil /\ h.skx # "X25519", "nil Rand">>,
             <<h.own # None /\ alg = None, "internal_error">>,
             <<h.own # None /\ BufferGone(h1), "discarded buffer">> >>)
           partial == IF noShare THEN cert ELSE Append(cert, ckx)
           flight == cert \o <<ckx>> \o verify \o <<CCS, fin>>
           h3 == Hashed(h2, <<fin>>)
<1>1. /\ chan["server"] # <<>>
      /\ pc["client"] \in {"serverKeyExchange", "certificateRequest", "serverHelloDone"}
      /\ UNCHANGED <<cache, masters>>
  BY ReadsSomething, PointsOf DEF ReadServerHelloDone, Peer
<1>2. \/ why # None /\ Fails("client", h1, partial, why)
      \/ Establishes("client", h3, AfterDone(h), flight)
  BY DEF ReadServerHelloDone
<1>3. DOMAIN h = Fields /\ h.newSession = None /\ ~h.resume /\ h.peer = config.server.cert
  BY <1>1 DEF IInv, Shapes, SessionInv, ClientGood, Sides
<1>4. DOMAIN h1 = Fields /\ h1.newSession = None /\ ~h1.resume /\ h1.peer = h.peer
  <2> HIDE DEF h
  <2> QED  BY <1>3, HashedFields DEF Fields
<1>5. ckx.type = "clientKeyExchange" /\ CCS.type = "ccs" /\ fin.type = "finished"
  BY DEF CCS, Finished
<1>6. IsSequence(cert) /\ \A m \in Elems(cert) : m.type = "certificate"
  <2>1. PICK m : m = [type |-> "certificate", cert |-> h.own]
    OBVIOUS
  <2>2. cert \in {<<>>, <<m>>} /\ m.type = "certificate"
    BY <2>1
  <2> HIDE DEF cert
  <2> QED  BY <2>2, ElemsOfTuples
<1>7. IsSequence(verify) /\ \A m \in Elems(verify) : m.type = "certificateVerify"
  <2>1. PICK m : m = [type |-> "certificateVerify", alg |-> alg,
                      signature |-> <<h.own, Digest(h1, alg)>>]
    OBVIOUS
  <2>2. verify \in {<<>>, <<m>>} /\ m.type = "certificateVerify"
    BY <2>1
  <2> HIDE DEF verify
  <2> QED  BY <2>2, ElemsOfTuples
<1> HIDE DEF cert, ckx, verify, fin
<1>8. IsSequence(partial) /\ \A m \in Elems(partial) : m.type \in {"certificate", "clientKeyExchange"}
  BY <1>5, <1>6, ElemsOfAppend
<1>9. IsSequence(flight) /\ \A m \in Elems(flight) : m.type # "clientHello"
  BY <1>6, ElemsOfTuples, ElemsOfConcat, <1>7, <1>5
<1> HIDE DEF partial, flight, h1, why
<1>10. CASE why # None /\ Fails("client", h1, partial, why)
  BY <1>8, ClientFlight, <1>1, <1>4, <1>10, FailStep DEF Peer, Sides
<1>11. CASE Establishes("client", h3, AfterDone(h), flight)
  <2>1. /\ DOMAIN h1m = Fields /\ h1m.newSession = None /\ ~h1m.resume
        /\ h1m.peer = h.peer /\ h1m.master = MasterSecret(ckx.pre)
    BY <1>4 DEF Fields
  <2> HIDE DEF h1m, h
  <2>2. /\ DOMAIN h3 = Fields /\ h3.newSession = None /\ ~h3.resume
        /\ h3.peer = h.peer /\ h3.master[2] = conn
    <3>1. /\ DOMAIN h1v = Fields
          /\ \A f \in Fields \ {"transcript"} : h1v[f] = h1m[f]
      BY <2>1, HashedFields
    <3> HIDE DEF h1v
    <3>2. /\ DOMAIN h2 = Fields
          /\ \A f \in Fields \ {"transcript", "buffer"} : h2[f] = h1m[f]
      BY <3>1, DiscardedFields
    <3> HIDE DEF h2
    <3>3. /\ DOMAIN h3 = Fields
          /\ \A f \in Fields \ {"transcript", "buffer"} : h3[f] = h1m[f]
      BY <3>2, HashedFields
    <3> HIDE DEF h3
    <3> QED  BY <2>1, <3>3 DEF Fields, MasterSecret
  <2> HIDE DEF h3
  <2>3. PICK l \in {"newSessionTicket", "serverCCS"} : Establishes("client", h3, l, flight)
    BY <1>11 DEF AfterDone
  <2>4. ClientGood(masters, l, h3)
    BY <1>3, <2>2 DEF ClientGood, NewSessionGood
  <2>5. KeyStep("client", h3, l, flight, TRUE)
    BY <1>1, <2>2, <2>3 DEF KeyStep, Unspent, Ready, Keyless
  <2>6. Sendable(masters, "client", flight)
    BY <1>9, ClientFlight
  <2> QED  BY <1>1, <2>2, <2>3, <2>4, <2>5, <2>6, ClientStep DEF Establishes
<1> QED  BY <1>2, <1>10, <1>11

-----------------------------------------------------------------------------
(* The server.                                                             *)

\* A server that has derived its secrets sends good tickets and a good Finished.
LEMMA ServerEndGood ==
  ASSUME NEW M, NEW h, DOMAIN h = Fields, ServerDerived(M, h)
  PROVE  /\ Sendable(M, "server", ServerEnd(h).msgs)
         /\ DOMAIN ServerEnd(h).hs = Fields
         /\ \A f \in Fields \ {"transcript"} : ServerEnd(h).hs[f] = h[f]
<1> DEFINE t == NewSessionTicket(h)
           h1 == Hashed(h, t)
           fin == Finished("server", h1)
           h2 == Hashed(h1, <<fin>>)
<1>1. ServerEnd(h).msgs = t \o <<CCS, fin>> /\ ServerEnd(h).hs = h2
  BY DEF ServerEnd
<1>2. IsSequence(t) /\ \A m \in Elems(t) : MessageGood(M, "server", m)
  <2>1. PICK m : m = [type |-> "newSessionTicket", ticket |-> Ticket(h, h.peer)]
    OBVIOUS
  <2>2. t \in {<<>>, <<m>>}
    BY <2>1 DEF NewSessionTicket
  <2>3. TicketGood(M, Ticket(h, h.peer))
    BY DEF Ticket, TicketGood, ServerDerived
  <2>4. MessageGood(M, "server", m)
    BY <2>1, <2>3 DEF MessageGood
  <2> HIDE DEF t
  <2> QED  BY <2>2, <2>4, ElemsOfTuples
<1> HIDE DEF t
<1>3. /\ DOMAIN h1 = Fields
      /\ \A f \in Fields \ {"transcript"} : h1[f] = h[f]
  BY HashedFields
<1> HIDE DEF h1
<1>4. MessageGood(M, "server", fin)
  BY <1>3 DEF Finished, VerifyData, Fields, ServerDerived, MessageGood
<1>5. MessageGood(M, "server", CCS)
  BY DEF MessageGood, CCS
<1> HIDE DEF fin
<1>6. Sendable(M, "server", t \o <<CCS, fin>>)
  BY <1>2, <1>4, <1>5, ElemsOfTuples, ElemsOfConcat DEF Sendable
<1>7. /\ DOMAIN h2 = Fields
      /\ \A f \in Fields \ {"transcript"} : h2[f] = h[f]
  BY <1>3, HashedFields
<1> QED  BY <1>1, <1>6, <1>7

LEMMA ReadClientCertificateStep == IInv /\ ReadClientCertificate => IInv'
<1> SUFFICES ASSUME IInv, ReadClientCertificate  PROVE IInv'
  OBVIOUS
<1>1. chan["client"] # <<>> /\ pc["server"] = "clientCertificate" /\ UNCHANGED <<cache, masters>>
  BY ReadsSomething DEF ReadClientCertificate, Peer
<1>2. PICK sc : sc = config.server
  OBVIOUS
<1>3. PICK h : h = hs["server"]
  OBVIOUS
<1>4. PICK m : m = Message("server")
  OBVIOUS
<1>5. PICK h1 : h1 = Hashed([h EXCEPT !.peer = m.cert], <<m>>)
  OBVIOUS
<1>6. DOMAIN h = Fields /\ ~h.resume /\ sc.auth # 0
  BY <1>1, <1>2, <1>3 DEF IInv, Shapes, SessionInv, ServerGood, AuthInv, Sides
<1>7. DOMAIN h1 = Fields /\ ~h1.resume /\ h1.peer = m.cert
  BY <1>6, <1>5, HashedFields DEF Fields
<1> DEFINE why == FirstOf(<<
             <<m.cert = None /\ sc.auth \in {2, 4}, "bad_certificate">>,
             <<~ClientCertOk(sc, m.cert), "bad_certificate">> >>)
<1>8. \/ why # None /\ Fails("server", h, <<>>, why)
      \/ why = None /\ Continues("server", h1, "clientKeyExchange", <<>>)
  BY <1>2, <1>3, <1>4, <1>5 DEF ReadClientCertificate
<1>9. CASE why # None /\ Fails("server", h, <<>>, why)
  <2> HIDE DEF why
  <2> QED  BY <1>1, <1>6, <1>9, NothingSent, FailStep DEF Peer, Sides
<1>10. CASE why = None /\ Continues("server", h1, "clientKeyExchange", <<>>)
  <2>1. ~(m.cert = None /\ sc.auth \in {2, 4}) /\ ClientCertOk(sc, m.cert)
    BY <1>10, NoneAssumption, TwoTests DEF NoneAssumption, Alerts
  <2>2. AuthObeyed(config.server, h1.peer)
    BY <1>2, <1>6, <1>7, <2>1 DEF AuthObeyed, ClientCertOk
  <2>3. ServerGood(masters, "clientKeyExchange", h1)
    BY <1>7 DEF ServerGood
  <2>4. KeyStep("server", h1, "clientKeyExchange", <<>>, FALSE)
    BY <1>1, NothingSent DEF KeyStep, Unspent, Ready, Keyless
  <2> QED  BY <1>1, <1>7, <1>10, <2>2, <2>3, <2>4, NothingSent, PlainServerStep DEF Continues
<1> QED  BY <1>8, <1>9, <1>10

\* A full handshake concluded by the server: what it has derived is one of the masters.
LEMMA Concluded ==
  ASSUME IInv, NEW h, NEW h1, DOMAIN h1 = Fields, ~h1.resume, AuthObeyed(config.server, h1.peer),
         h.master[2] = conn,
         \A f \in {"master", "vers", "suite", "peer"} : h1[f] = h[f],
         pc["server"] \in {"clientKeyExchange", "certificateVerify"}, chan["client"] # <<>>,
         Establishes("server", h1, "clientCCS", <<>>), UNCHANGED cache,
         masters' = masters \cup {Master(h)}
  PROVE  IInv'
<1>1. UNCHANGED <<conn, config>>
  BY MovesShapes DEF IInv, Sides, Establishes
<1>2. PICK M : M = masters'
  OBVIOUS
<1>3. PICK x : x = Master(h)
  OBVIOUS
<1>4. /\ x.master = h1.master /\ x.vers = h1.vers /\ x.suite = h1.suite
      /\ x.clientCert = h1.peer /\ x.serverCert = config.server.cert /\ x.master[2] = conn
  BY <1>3 DEF Master
<1>5. masters \subseteq M /\ x \in M /\ \A y \in M : y \in masters \/ y = x
  BY <1>2, <1>3
<1>6. MastersGood'
  BY <1>1, <1>2, <1>4, <1>5 DEF IInv, Shapes, SessionInv, MastersGood
<1>7. ServerGood(M, "clientCCS", h1)
  BY <1>4, <1>5 DEF ServerGood, ServerDerived
<1>8. KeyStep("server", h1, "clientCCS", <<>>, TRUE)
  BY NothingSent DEF KeyStep, Unspent, Ready, Keyless
<1> QED  BY <1>2, <1>5, <1>6, <1>7, <1>8, NothingSent, ServerStep DEF Establishes

LEMMA ReadClientKeyExchangeStep == IInv /\ ReadClientKeyExchange => IInv'
<1> SUFFICES ASSUME IInv, ReadClientKeyExchange  PROVE IInv'
  OBVIOUS
<1>1. chan["client"] # <<>> /\ pc["server"] = "clientKeyExchange" /\ UNCHANGED cache
  BY ReadsSomething, PointsOf DEF ReadClientKeyExchange, Peer
<1>2. PICK h : h = hs["server"]
  OBVIOUS
<1>3. PICK m : m = Message("server")
  OBVIOUS
<1>4. PICK h1 : h1 = Hashed([h EXCEPT !.master = MasterSecret(m.pre)], <<m>>)
  OBVIOUS
<1>5. DOMAIN h = Fields /\ ~h.resume /\ AuthObeyed(config.server, h.peer)
  BY <1>1, <1>2 DEF IInv, Shapes, SessionInv, ServerGood, AuthInv, Sides
<1>6. /\ DOMAIN h1 = Fields /\ ~h1.resume /\ h1.peer = h.peer /\ h1.master[2] = conn
  BY <1>5, <1>4, HashedFields DEF Fields, MasterSecret
<1>7. CASE Establishes("server", Discarded(h1), "clientCCS", <<>>)
           /\ masters' = masters \cup {Master(h1)}
  BY <1>6, DiscardedFields, <1>1, <1>5, <1>7, Concluded DEF Fields
<1>8. CASE Continues("server", h1, "certificateVerify", <<>>) /\ UNCHANGED masters
  <2>1. KeyStep("server", h1, "certificateVerify", <<>>, FALSE)
    BY <1>1, NothingSent DEF KeyStep, Unspent, Ready, Keyless
  <2>2. ServerGood(masters, "certificateVerify", h1)
    BY <1>6 DEF ServerGood
  <2> QED  BY <1>1, <1>5, <1>6, <1>8, <2>1, <2>2, NothingSent, PlainServerStep DEF Continues
<1> QED  BY <1>2, <1>3, <1>4, <1>7, <1>8 DEF ReadClientKeyExchange

LEMMA ReadCertificateVerifyStep == IInv /\ ReadCertificateVerify => IInv'
<1> SUFFICES ASSUME IInv, ReadCertificateVerify  PROVE IInv'
  OBVIOUS
<1>1. chan["client"] # <<>> /\ pc["server"] = "certificateVerify" /\ UNCHANGED cache
  BY ReadsSomething, PointsOf DEF ReadCertificateVerify, Peer
<1>2. PICK h : h = hs["server"]
  OBVIOUS
<1>3. PICK m : m = Message("server")
  OBVIOUS
<1>4. PICK h1 : h1 = Discarded(Hashed(h, <<m>>))
  OBVIOUS
<1>5. DOMAIN h = Fields /\ ~h.resume /\ AuthObeyed(config.server, h.peer) /\ h.master[2] = conn
  BY <1>1, <1>2 DEF IInv, Shapes, SessionInv, ServerGood, AuthInv, Sides
<1>6. /\ DOMAIN h1 = Fields
      /\ \A f \in {"master", "vers", "suite", "peer", "resume"} : h1[f] = h[f]
  BY <1>4, <1>5, HashedFields, DiscardedFields DEF Fields
<1>7. \/ \E why : Fails("server", h, <<>>, why) /\ UNCHANGED masters
      \/ Establishes("server", h1, "clientCCS", <<>>) /\ masters' = masters \cup {Master(h)}
  BY <1>2, <1>3, <1>4 DEF ReadCertificateVerify
<1>8. CASE \E why : Fails("server", h, <<>>, why) /\ UNCHANGED masters
  BY <1>1, <1>5, <1>8, NothingSent, FailStep DEF Peer, Sides
<1>9. CASE Establishes("server", h1, "clientCCS", <<>>) /\ masters' = masters \cup {Master(h)}
  BY <1>1, <1>5, <1>6, <1>9, Concluded
<1> QED  BY <1>7, <1>8, <1>9

LEMMA ReadClientCCSStep == IInv /\ ReadClientCCS => IInv'
<1> SUFFICES ASSUME IInv, ReadClientCCS  PROVE IInv'
  OBVIOUS
<1>1. chan["client"] # <<>> /\ pc["server"] \in {"clientCCS", "serverCCS"}
      /\ UNCHANGED <<cache, masters>>
  BY ReadsSomething, PointsOf DEF ReadClientCCS, Peer
<1>2. PICK h : h = hs["server"]
  OBVIOUS
<1>3. pc["server"] = "clientCCS"
  BY <1>1 DEF IInv, SessionInv, ServerGood
<1>4. DOMAIN h = Fields /\ AuthObeyed(config.server, h.peer) /\ ServerDerived(masters, h)
  BY <1>2, <1>3 DEF IInv, Shapes, SessionInv, ServerGood, AuthInv, Sides
<1>5. Continues("server", h, "clientFinished", <<>>)
  BY <1>2 DEF ReadClientCCS
<1>6. ServerGood(masters, "clientFinished", h)
  BY <1>4 DEF ServerGood
<1>7. KeyStep("server", h, "clientFinished", <<>>, FALSE)
  BY <1>2, <1>3, NothingSent DEF KeyStep, Unspent, Ready, Keyless
<1> QED  BY <1>1, <1>4, <1>5, <1>6, <1>7, NothingSent, PlainServerStep DEF Continues

LEMMA ReadClientFinishedStep == IInv /\ ReadClientFinished => IInv'
<1> SUFFICES ASSUME IInv, ReadClientFinished  PROVE IInv'
  OBVIOUS
<1>1. chan["client"] # <<>> /\ pc["server"] \in {"clientFinished", "serverFinished"}
      /\ UNCHANGED <<cache, masters>>
  BY ReadsSomething, PointsOf DEF ReadClientFinished, Peer
<1>2. PICK h : h = hs["server"]
  OBVIOUS
<1>3. PICK m : m = Message("server")
  OBVIOUS
<1>4. pc["server"] = "clientFinished"
  BY <1>1 DEF IInv, SessionInv, ServerGood
<1>5. DOMAIN h = Fields /\ AuthObeyed(config.server, h.peer) /\ ServerDerived(masters, h)
  BY <1>2, <1>4 DEF IInv, Shapes, SessionInv, ServerGood, AuthInv, Sides
<1>6. PICK h1 : h1 = Hashed(h, <<m>>)
  OBVIOUS
<1>7. /\ DOMAIN h1 = Fields
      /\ \A f \in {"master", "vers", "suite", "peer", "resume"} : h1[f] = h[f]
  BY <1>5, <1>6, HashedFields DEF Fields
<1>8. PICK h2 : h2 = ServerEnd(h1).hs
  OBVIOUS
<1>9. PICK msgs : msgs = ServerEnd(h1).msgs
  OBVIOUS
<1>10. ServerDerived(masters, h1)
  BY <1>5, <1>7 DEF ServerDerived
<1>11. /\ DOMAIN h2 = Fields /\ Sendable(masters, "server", msgs)
       /\ \A f \in {"master", "vers", "suite", "peer", "resume"} : h2[f] = h1[f]
  BY <1>7, <1>8, <1>9, <1>10, ServerEndGood DEF Fields
<1>12. \/ \E why : Fails("server", h, <<>>, why)
       \/ h.resume /\ Continues("server", h1, "complete", <<>>)
       \/ ~h.resume /\ Continues("server", h2, "complete", msgs)
  BY <1>2, <1>3, <1>6, <1>8, <1>9 DEF ReadClientFinished
<1>13. CASE \E why : Fails("server", h, <<>>, why)
  BY <1>1, <1>5, <1>13, NothingSent, FailStep DEF Peer, Sides
<1>14. CASE h.resume /\ Continues("server", h1, "complete", <<>>)
  <2>1. ServerGood(masters, "complete", h1)
    BY <1>10 DEF ServerGood
  <2>2. KeyStep("server", h1, "complete", <<>>, FALSE)
    BY NothingSent DEF KeyStep, Unspent, Ready, Keyless
  <2>3. AuthObeyed(config.server, h1.peer)
    BY <1>5, <1>7
  <2> QED  BY <1>1, <1>7, <1>14, <2>1, <2>2, <2>3, NothingSent, PlainServerStep DEF Continues
<1>15. CASE ~h.resume /\ Continues("server", h2, "complete", msgs)
  <2>1. ServerGood(masters, "complete", h2)
    BY <1>10, <1>11 DEF ServerGood, ServerDerived
  <2>2. KeyStep("server", h2, "complete", msgs, FALSE)
    BY <1>2, <1>4, <1>15 DEF KeyStep, Unspent, Ready, Keyless
  <2>3. AuthObeyed(config.server, h2.peer)
    BY <1>5, <1>7, <1>11
  <2> QED  BY <1>1, <1>11, <1>15, <2>1, <2>2, <2>3, PlainServerStep DEF Continues
<1> QED  BY <1>12, <1>13, <1>14, <1>15

\* The flight of a full handshake: its only certificate is the server's own.
LEMMA ServerFlightGood ==
  ASSUME NEW sc, sc = config.server, NEW hello, hello.type = "serverHello", NEW skx,
         IsSequence(skx), \A m \in Elems(skx) : m.type = "serverKeyExchange"
  PROVE  /\ IsSequence(ServerFlight(sc, hello, skx))
         /\ \A m \in Elems(ServerFlight(sc, hello, skx)) :
              /\ m.type # "ccs" /\ \A M : MessageGood(M, "server", m)
              /\ m = hello \/ m.type \notin {"clientHello", "serverHello", "finished"}
         /\ Len(ServerFlight(sc, hello, skx)) >= IF hello.staple THEN 3 ELSE 2
<1>1. PICK cert : cert = [type |-> "certificate", cert |-> sc.cert]
  OBVIOUS
<1>2. PICK staple : staple = IF hello.staple THEN <<[type |-> "certificateStatus"]>> ELSE <<>>
  OBVIOUS
<1>3. PICK request : request =
        IF sc.auth = 0 THEN <<>>
        ELSE <<[type |-> "certificateRequest", authorities |-> sc.cas,
                sigs |-> IF hello.vers = TLS12 THEN supportedSignatureAlgorithms ELSE <<>>]>>
  OBVIOUS
<1>4. PICK done : done = [type |-> "serverHelloDone"]
  OBVIOUS
<1>5. ServerFlight(sc, hello, skx) = <<hello, cert>> \o staple \o skx \o request \o <<done>>
  BY <1>1, <1>2, <1>3, <1>4 DEF ServerFlight
<1>6. /\ IsSequence(staple) /\ \A m \in Elems(staple) : m.type = "certificateStatus"
      /\ hello.staple => Len(staple) = 1
  BY <1>2, ElemsOfTuples
<1>7. IsSequence(request) /\ \A m \in Elems(request) : m.type = "certificateRequest"
  BY <1>3, ElemsOfTuples
<1>8. cert.type = "certificate" /\ cert.cert = config.server.cert /\ done.type = "serverHelloDone"
  BY <1>1, <1>4
<1>9. PICK q1 : q1 = <<hello, cert>> \o staple
  OBVIOUS
<1>10. PICK q2 : q2 = q1 \o skx
  OBVIOUS
<1>11. PICK q3 : q3 = q2 \o request
  OBVIOUS
<1>12. PICK q4 : q4 = q3 \o <<done>>
  OBVIOUS
<1>13. IsSequence(q1) /\ Elems(q1) \subseteq {hello, cert} \cup Elems(staple)
       /\ Len(q1) = 2 + Len(staple) /\ Len(staple) \in Nat /\ Len(q1) \in Nat
  BY ElemsOfTuples, <1>6, <1>9, ElemsOfConcat
<1>14. IsSequence(q2) /\ Elems(q2) \subseteq Elems(q1) \cup Elems(skx)
       /\ Len(q2) >= Len(q1) /\ Len(q2) \in Nat
  BY <1>10, <1>13, ElemsOfConcat
<1>15. IsSequence(q3) /\ Elems(q3) \subseteq Elems(q2) \cup Elems(request)
       /\ Len(q3) >= Len(q2) /\ Len(q3) \in Nat
  BY <1>7, <1>11, <1>14, ElemsOfConcat
<1>16. IsSequence(q4) /\ Elems(q4) \subseteq Elems(q3) \cup {done}
       /\ Len(q4) >= Len(q3) /\ Len(q4) \in Nat
  BY <1>12, <1>15, ElemsOfTuples, ElemsOfConcat
<1>17. \A m \in Elems(q4) :
         \/ m = hello
         \/ m.type \in {"certificateStatus", "serverKeyExchange", "certificateRequest",
                        "serverHelloDone"}
         \/ m.type = "certificate" /\ m.cert = config.server.cert
  BY <1>6, <1>7, <1>8, <1>13, <1>14, <1>15, <1>16
<1>18. \A m \in Elems(q4) :
         /\ m.type # "ccs" /\ \A M : MessageGood(M, "server", m)
         /\ m = hello \/ m.type \notin {"clientHello", "serverHello", "finished"}
  BY <1>17 DEF MessageGood
<1>19. Len(q4) >= IF hello.staple THEN 3 ELSE 2
  BY <1>6, <1>13, <1>14, <1>15, <1>16
<1> QED  BY <1>5, <1>9, <1>10, <1>11, <1>12, <1>16, <1>18, <1>19

\* doFullHandshake from the state of readClientHello.
LEMMA OffersStep ==
  ASSUME IInv, pc["server"] = "clientHello", chan["client"] # <<>>, UNCHANGED <<cache, masters>>,
         NEW h, DOMAIN h = Fields, ~h.resume, h.peer = None,
         NEW hello, DOMAIN hello = {"type", "vers", "suite", "proto", "tickets", "staple", "sessionId"},
         hello.type = "serverHello", NEW m, NEW suite, NEW curve, Offers(h, hello, m, suite, curve)
  PROVE  IInv'
<1> DEFINE sc == config.server
           full == [hello EXCEPT !.suite = suite, !.tickets = m.tickets /\ sc.tickets,
                                 !.staple = sc.staple]
           a == SKXAlgorithm(suite, h.vers, m.sigs, sc.cert.alg)
           unsigned == SigType[suite] # None /\ (a = None \/ curve = None)
           skx == IF SigType[suite] = None \/ unsigned THEN <<>>
                  ELSE <<[type |-> "serverKeyExchange", curve |-> curve, alg |-> a,
                          signature |-> <<sc.cert, SKXDigest(a, curve)>>]>>
           flight == ServerFlight(sc, full, skx)
           g == [h EXCEPT !.suite = suite, !.serverHello = full]
           h1 == NewHash(g)
           h1b == [h1 EXCEPT !.buffer = @ /\ sc.auth # 0]
           h2 == Hashed(h1b, <<m>> \o flight)
           why == FirstOf(<< <<NilMD5(h.vers, suite), "nil MD5">>,
                             <<unsigned, "handshake_failure">> >>)
           some == SubSeq(flight, 1, IF full.staple THEN 3 ELSE 2)
           l == IF sc.auth = 0 THEN "clientKeyExchange" ELSE "clientCertificate"
<1>1. \/ why # None /\ Fails("server", h1, some, why)
      \/ Continues("server", h2, l, flight)
  BY DEF Offers
<1>2. full.type = "serverHello"
  OBVIOUS
<1>3. IsSequence(skx) /\ \A x \in Elems(skx) : x.type = "serverKeyExchange"
  <2>1. PICK x : x = [type |-> "serverKeyExchange", curve |-> curve, alg |-> a,
                      signature |-> <<sc.cert, SKXDigest(a, curve)>>]
    OBVIOUS
  <2>2. x.type = "serverKeyExchange" /\ (skx = <<>> \/ skx = <<x>>)
    BY <2>1
  <2> HIDE DEF skx
  <2> QED  BY <2>2, ElemsOfTuples
<1> HIDE DEF skx, why
<1>4. DOMAIN g = Fields /\ ~g.resume /\ g.peer = None
  <2> HIDE DEF full
  <2> QED  BY DEF Fields
<1> HIDE DEF full
<1>5. /\ IsSequence(flight) /\ \A x \in Elems(flight) : x.type # "ccs"
      /\ \A x \in Elems(flight) : MessageGood(masters, "server", x)
      /\ Len(flight) >= IF full.staple THEN 3 ELSE 2
  BY <1>2, <1>3, ServerFlightGood
<1> HIDE DEF flight, g
<1>6. DOMAIN h1 = Fields /\ ~h1.resume /\ h1.peer = None
  BY <1>4, NewHashFields DEF Fields
<1> HIDE DEF h1
<1>7. DOMAIN h2 = Fields /\ ~h2.resume /\ h2.peer = None
  <2>1. DOMAIN h1b = Fields /\ ~h1b.resume /\ h1b.peer = None
    BY <1>6 DEF Fields
  <2> HIDE DEF h1b
  <2>2. PICK q : q = <<m>> \o flight
    OBVIOUS
  <2>3. h2 = Hashed(h1b, q)
    BY <2>2
  <2> HIDE DEF h2
  <2>4. DOMAIN h2 = Fields /\ \A f \in Fields \ {"transcript"} : h2[f] = h1b[f]
    BY <2>1, <2>3, HashedFields
  <2> QED  BY <2>1, <2>4 DEF Fields
<1> HIDE DEF h2
<1>8. CASE Fails("server", h1, some, why)
  <2>1. IsSequence(some) /\ Elems(some) \subseteq Elems(flight)
    BY <1>5, ElemsOfPrefix
  <2> HIDE DEF some
  <2>2. Sendable(masters, "server", some) /\ \A x \in Elems(some) : x.type # "ccs"
    BY <1>5, <2>1 DEF Sendable
  <2> QED  BY <1>6, <1>8, <2>2, FailStep DEF Peer, Sides
<1>9. CASE Continues("server", h2, l, flight)
  <2>1. l \in {"clientKeyExchange", "clientCertificate"}
        /\ (l = "clientCertificate" => sc.auth # 0)
        /\ (l = "clientKeyExchange" => sc.auth = 0)
    OBVIOUS
  <2> HIDE DEF l
  <2>2. l = "clientKeyExchange" => AuthObeyed(config.server, h2.peer)
    BY <1>7, <2>1 DEF AuthObeyed
  <2>3. ServerGood(masters, l, h2)
    BY <1>7, <2>1 DEF ServerGood
  <2>4. NoCCS(flight) /\ Sendable(masters, "server", flight)
    BY <1>5 DEF NoCCS, Elems, Sendable
  <2>5. KeyStep("server", h2, l, flight, FALSE)
    BY <2>1, <2>4 DEF KeyStep, Unspent, Ready, Keyless
  <2> QED  BY <1>7, <1>9, <2>1, <2>2, <2>3, <2>4, <2>5, PlainServerStep DEF Continues
<1> QED  BY <1>1, <1>8, <1>9

\* doResumeHandshake from the state of readClientHello, with a ticket that is accepted.
LEMMA ResumesStep ==
  ASSUME IInv, pc["server"] = "clientHello", chan["client"] # <<>>, UNCHANGED <<cache, masters>>,
         NEW h, DOMAIN h = Fields,
         NEW hello, DOMAIN hello = {"type", "vers", "suite", "proto", "tickets", "staple", "sessionId"},
         hello.type = "serverHello",
         NEW m, TicketGood(masters, m.ticket), m.ticket.vers = h.vers,
         config.server.auth \in {2, 4} => m.ticket.cert # None,
         config.server.auth = 0 => m.ticket.cert = None,
         Resumes(h, hello, m)
  PROVE  IInv'
<1> DEFINE t == m.ticket
           full == [hello EXCEPT !.suite = t.suite, !.sessionId = m.sessionId,
                                 !.tickets = t.key # Head(ticketKeys)]
           g == [h EXCEPT !.suite = t.suite, !.serverHello = full, !.resume = TRUE]
           g1 == NewHash(g)
           g2 == Discarded(g1)
           h1 == Hashed(g2, <<m, full>>)
           h2 == [h1 EXCEPT !.peer = ResumedCert(t), !.master = t.master]
           end == ServerEnd(h2)
           flight == <<full>> \o end.msgs
<1>1. \/ ClientCertOk(config.server, t.cert) /\ Establishes("server", end.hs, "clientCCS", flight)
      \/ Fails("server", h1, <<full>>, "bad_certificate")
  BY DEF Resumes
<1>2. full.type = "serverHello"
  OBVIOUS
<1> HIDE DEF full
<1>3. DOMAIN g = Fields /\ g.resume /\ g.suite = t.suite /\ g.vers = h.vers
  BY DEF Fields
<1> HIDE DEF g
<1>4. DOMAIN h1 = Fields /\ h1.resume /\ h1.suite = t.suite /\ h1.vers = h.vers
  <2>1. DOMAIN g1 = Fields /\ \A f \in Fields \ {"transcript", "buffer"} : g1[f] = g[f]
    BY <1>3, NewHashFields
  <2> HIDE DEF g1
  <2>2. DOMAIN g2 = Fields /\ \A f \in Fields \ {"transcript", "buffer"} : g2[f] = g[f]
    BY <2>1, DiscardedFields
  <2> HIDE DEF g2
  <2>3. DOMAIN h1 = Fields /\ \A f \in Fields \ {"transcript", "buffer"} : h1[f] = g[f]
    BY <2>2, HashedFields
  <2> HIDE DEF h1
  <2> QED  BY <1>3, <2>3 DEF Fields
<1> HIDE DEF h1
<1>5. /\ IsSequence(<<full>>)
      /\ \A x \in Elems(<<full>>) : x.type # "ccs" /\ MessageGood(masters, "server", x)
  BY <1>2, ElemsOfTuples DEF MessageGood
<1>6. CASE Fails("server", h1, <<full>>, "bad_certificate")
  BY <1>5, <1>4, <1>6, FailStep DEF Sendable, Peer, Sides
<1>7. CASE ClientCertOk(config.server, t.cert)
           /\ Establishes("server", end.hs, "clientCCS", flight)
  <2>1. /\ DOMAIN h2 = Fields /\ h2.resume /\ h2.suite = t.suite /\ h2.vers = t.vers
        /\ h2.peer = t.cert /\ h2.master = t.master
    BY <1>4 DEF Fields, ResumedCert
  <2> HIDE DEF h2
  <2>2. ServerDerived(masters, h2)
    BY <2>1 DEF ServerDerived, TicketGood
  <2>3. /\ Sendable(masters, "server", end.msgs) /\ DOMAIN end.hs = Fields
        /\ \A f \in Fields \ {"transcript"} : end.hs[f] = h2[f]
    BY <2>1, <2>2, ServerEndGood
  <2>4. PICK h3 : h3 = end.hs
    OBVIOUS
  <2> HIDE DEF end
  <2>5. DOMAIN h3 = Fields /\ h3.resume /\ h3.peer = t.cert /\ ServerDerived(masters, h3)
    BY <2>1, <2>2, <2>3, <2>4 DEF Fields, ServerDerived
  <2>6. Sendable(masters, "server", flight)
    BY <1>5, <2>3, ElemsOfConcat DEF Sendable
  <2> HIDE DEF flight
  <2>7. AuthObeyed(config.server, h3.peer)
    BY <1>7, <2>5 DEF AuthObeyed, ClientCertOk
  <2>8. ServerGood(masters, "clientCCS", h3)
    BY <2>5 DEF ServerGood
  <2>9. KeyStep("server", h3, "clientCCS", flight, TRUE)
    BY <2>5 DEF KeyStep, Unspent, Ready, Keyless
  <2> QED  BY <1>7, <2>4, <2>5, <2>6, <2>7, <2>8, <2>9, PlainServerStep DEF Establishes
<1> QED  BY <1>1, <1>6, <1>7

LEMMA ReadClientHelloStep == IInv /\ ReadClientHello => IInv'
<1> SUFFICES ASSUME IInv, ReadClientHello  PROVE IInv'
  OBVIOUS
<1> DEFINE sc == config.server
           m == Message("server")
           vers == MutualVersion(sc, m.vers)
           alg == IF sc.cert = None THEN None ELSE sc.cert.alg
           curve == ChooseCurve(sc, m.curves)
           proto == MutualProtocol(m.protos, sc.protos)
           resume == Resumable(sc, m, vers, alg, curve)
           suite == ChooseSuite(sc, m.suites, alg, curve # None, vers)
           h == [NoState EXCEPT !.hello = m, !.vers = vers, !.proto = proto]
           hello == [type |-> "serverHello", vers |-> vers, suite |-> None, proto |-> proto,
                     tickets |-> FALSE, staple |-> FALSE, sessionId |-> None]
           why == FirstOf(<<
             <<vers = None, "protocol_version">>,
             <<sc.cert = None, "internal_error">>,
             <<~resume /\ suite = None, "handshake_failure">> >>)
<1>1. /\ chan["client"] # <<>> /\ pc["server"] = "clientHello" /\ UNCHANGED <<cache, masters>>
      /\ m.type = "clientHello"
  BY ReadsSomething, PointsOf DEF ReadClientHello, Peer
<1>2. \/ Fails("server", h, <<>>, why)
      \/ resume /\ Resumes(h, hello, m)
      \/ Offers(h, hello, m, suite, curve)
  BY DEF ReadClientHello
<1>3. DOMAIN h = Fields /\ ~h.resume /\ h.peer = None /\ h.vers = vers
  <2> HIDE DEF m, vers, proto
  <2> QED  BY DEF NoState, Fields
<1>4. DOMAIN hello = {"type", "vers", "suite", "proto", "tickets", "staple", "sessionId"}
      /\ hello.type = "serverHello"
  OBVIOUS
<1>5. m.ticket # None => TicketGood(masters, m.ticket)
  BY <1>1, ArrivedGood DEF IInv, MessageGood, Sides, Peer
<1> HIDE DEF h, hello, why, m, suite, curve
<1>6. CASE Fails("server", h, <<>>, why)
  BY <1>1, <1>3, <1>6, NothingSent, FailStep DEF Peer, Sides
<1>7. CASE resume /\ Resumes(h, hello, m)
  BY <1>7, <1>1, <1>3, <1>4, <1>5, ResumesStep DEF Resumable
<1>8. CASE Offers(h, hello, m, suite, curve)
  BY <1>1, <1>3, <1>4, <1>8, OffersStep
<1> QED  BY <1>2, <1>6, <1>7, <1>8

-----------------------------------------------------------------------------
(* Failures, connections, time.                                            *)

LEMMA RefuseRecordStep == ASSUME IInv, NEW s \in Sides, RefuseRecord(s)  PROVE IInv'
BY NothingSent, FailStep DEF RefuseRecord, IInv, Shapes

\* A side that stays where it is, or ends, and writes nothing.
LEMMA AlertStep ==
  ASSUME IInv, NEW s \in Sides, NEW l, l \in {pc[s], "failed"}, NEW e,
         Moves(s, hs[s], l, <<>>, FALSE, e), chan[Peer(s)] # <<>>, UNCHANGED <<cache, masters>>
  PROVE  IInv'
<1>1. PICK h : h = hs[s]
  OBVIOUS
<1>2. DOMAIN h = Fields
  BY <1>1 DEF IInv, Shapes
<1>3. KeyStep(s, h, l, <<>>, FALSE)
  BY <1>1, NothingSent DEF KeyStep, Unspent, Ready, Keyless
<1>4. CASE s = "client"
  BY <1>1, <1>4, <1>2, <1>3, NothingSent, ClientStep DEF IInv, SessionInv, ClientGood, Peer
<1>5. CASE s = "server"
  BY <1>1, <1>5, <1>2, <1>3, NothingSent, PlainServerStep DEF IInv, SessionInv, ServerGood, AuthInv, Peer
<1> QED  BY <1>4, <1>5 DEF Sides

LEMMA ReadAlertStep == ASSUME IInv, NEW s \in Sides, ReadAlert(s)  PROVE IInv'
BY AlertStep DEF ReadAlert, Continues

LEMMA BreaksStep == ASSUME IInv, NEW s \in Sides, Breaks(s)  PROVE IInv'
<1> USE DEF IInv, Breaks
<1>1. UNCHANGED <<conn, config, hs, out, chan, cache, masters, installed, reused>>
  OBVIOUS
<1>2. DOMAIN pc' = Sides /\ pc'[s] = "failed" /\ \A t \in Sides \ {s} : pc'[t] = pc[t]
  BY DEF Shapes
<1>3. Shapes'
  BY <1>1, <1>2 DEF Shapes
<1>4. AuthInv'
  BY <1>1, <1>2 DEF AuthInv, AuthObeyed, Sides
<1>5. KeyInv'
  BY <1>1, <1>2 DEF KeyInv, Unspent, Ready, Keyless, IsKey
<1>6. MastersGood' /\ CacheGood' /\ ChannelsGood'
  BY <1>1 DEF SessionInv, MastersGood, CacheGood, ChannelsGood, MessageGood
<1>7. ClientGood(masters, pc["client"], hs["client"])'
  BY <1>1, <1>2 DEF SessionInv, ClientGood, Sides
<1>8. ServerGood(masters, pc["server"], hs["server"])'
  BY <1>1, <1>2 DEF SessionInv, ServerGood, Sides
<1> QED  BY <1>3, <1>4, <1>5, <1>6, <1>7, <1>8 DEF SessionInv

LEMMA ReconnectStep == IInv /\ Reconnect => IInv'
<1> SUFFICES ASSUME IInv, Reconnect  PROVE IInv'
  OBVIOUS
<1>1. /\ conn' = conn + 1 /\ UNCHANGED <<cache, masters, installed, reused>>
      /\ pc' = [client |-> "start", server |-> "clientHello"]
      /\ hs' = [s \in Sides |-> NoState]
      /\ out' = [s \in Sides |-> [key |-> None, next |-> None, seq |-> 0]]
      /\ chan' = [s \in Sides |-> <<>>]
  BY DEF Reconnect, Begin
<1>2. pc'["client"] = "start" /\ pc'["server"] = "clientHello" /\ DOMAIN pc' = Sides
  BY <1>1 DEF Sides
<1>3. conn \in Nat /\ conn' \in Nat
  BY <1>1 DEF IInv, Shapes
<1>4. Shapes'
  BY <1>1, <1>2, <1>3, NoStateFields DEF Shapes
<1>5. AuthInv'
  BY <1>2 DEF AuthInv
<1>6. KeyInv'
  BY <1>1, <1>3, <1>2 DEF IInv, KeyInv, Ready, Sides, IsKey
<1>7. MastersGood'
  BY <1>1, <1>3 DEF IInv, SessionInv, MastersGood
<1>8. CacheGood'
  BY <1>1 DEF IInv, SessionInv, CacheGood
<1>9. ChannelsGood'
  BY <1>1, ElemsOfTuples DEF ChannelsGood
<1>10. ClientGood(masters, pc["client"], hs["client"])'
  BY <1>2 DEF ClientGood
<1>11. ServerGood(masters, pc["server"], hs["server"])'
  BY <1>2 DEF ServerGood
<1> QED  BY <1>4, <1>5, <1>6, <1>7, <1>8, <1>9, <1>10, <1>11 DEF IInv, SessionInv

\* Steps that change nothing the invariant speaks of.
LEMMA StutterStep ==
  ASSUME IInv, UNCHANGED <<conn, config, pc, hs, out, chan, cache, masters, installed, reused>>
  PROVE  IInv'
<1>1. Shapes' /\ AuthInv'
  BY DEF IInv, Shapes, AuthInv, AuthObeyed
<1>2. KeyInv'
  BY DEF IInv, KeyInv, IsKey
<1>3. MastersGood' /\ CacheGood' /\ ChannelsGood'
  BY DEF IInv, SessionInv, MastersGood, CacheGood, ChannelsGood, MessageGood
<1>4. ClientGood(masters, pc["client"], hs["client"])'
  BY DEF IInv, SessionInv, ClientGood
<1>5. ServerGood(masters, pc["server"], hs["server"])'
  BY DEF IInv, SessionInv, ServerGood
<1> QED  BY <1>1, <1>2, <1>3, <1>4, <1>5 DEF IInv, SessionInv

-----------------------------------------------------------------------------
(* The theorems.                                                           *)

LEMMA InitIInv == Init => IInv
<1> SUFFICES ASSUME Init  PROVE IInv
  OBVIOUS
<1>1. /\ pc["client"] = "start" /\ pc["server"] = "clientHello" /\ DOMAIN pc = Sides
      /\ chan = [s \in Sides |-> <<>>]
  BY DEF Init, Sides
<1>2. Shapes
  BY <1>1, NoStateFields DEF Init, Shapes
<1>3. AuthInv
  BY <1>1 DEF AuthInv
<1>4. KeyInv
  BY <1>1 DEF Init, KeyInv, Ready, Sides
<1>5. MastersGood /\ CacheGood
  BY DEF Init, MastersGood, CacheGood
<1>6. ChannelsGood
  BY <1>1, ElemsOfTuples DEF ChannelsGood
<1>7. ClientGood(masters, pc["client"], hs["client"])
      /\ ServerGood(masters, pc["server"], hs["server"])
  BY <1>1 DEF ClientGood, ServerGood
<1> QED  BY <1>2, <1>3, <1>4, <1>5, <1>6, <1>7 DEF IInv, SessionInv

LEMMA NextIInv == IInv /\ [Next]_vars => IInv'
<1> SUFFICES ASSUME IInv, [Next]_vars  PROVE IInv'
  OBVIOUS
<1>1. CASE Client
  BY <1>1, SendClientHelloStep, ReadServerHelloStep, ReadServerCertificateStep,
     ReadCertificateStatusStep, ReadServerKeyExchangeStep, ReadCertificateRequestStep,
     ReadServerHelloDoneStep, ReadNewSessionTicketStep, ReadServerCCSStep, ReadServerFinishedStep
  DEF Client
<1>2. CASE Server
  BY <1>2, ReadClientHelloStep, ReadClientCertificateStep, ReadClientKeyExchangeStep,
     ReadCertificateVerifyStep, ReadClientCCSStep, ReadClientFinishedStep
  DEF Server
<1>3. CASE \E s \in Sides : RefuseRecord(s)
  BY <1>3, RefuseRecordStep
<1>4. CASE \E s \in Sides : ReadAlert(s)
  BY <1>4, ReadAlertStep
<1>5. CASE \E s \in Sides : ReadEOF(s) \/ NetFails(s)
  BY <1>5, BreaksStep DEF ReadEOF, NetFails
<1>6. CASE RotateTicketKeys \/ Done \/ UNCHANGED vars
  BY <1>6, StutterStep DEF RotateTicketKeys, Done, vars
<1>7. CASE Reconnect
  BY <1>7, ReconnectStep
<1> QED  BY <1>1, <1>2, <1>3, <1>4, <1>5, <1>6, <1>7 DEF Next, Reads

\* The inductive invariant holds in every behaviour.
THEOREM Invariance == Spec => []IInv
BY InitIInv, NextIInv, PTL DEF Spec

\* Whatever Configs the server uses one after the other, a handshake that it completes,
\* full or resumed, obeys the ClientAuth of the Config it is under.
THEOREM ClientAuthIsEnforced == Spec => []ClientAuthEnforced
<1>1. IInv => ClientAuthEnforced
  BY DEF IInv, AuthInv, AuthObeyed, ClientAuthEnforced
<1> QED  BY <1>1, Invariance, PTL

\* No two ciphers, of two connections or of one, are ever set up with the same key.
THEOREM KeysAreNeverReused == Spec => []KeysNeverReused
<1>1. IInv => KeysNeverReused
  BY DEF IInv, KeyInv, KeysNeverReused
<1> QED  BY <1>1, Invariance, PTL

\* However many times a session was resumed and its ticket renewed, a resumed connection
\* is one of a full handshake with the same version, suite, secret and identities.
THEOREM ResumptionIsFaithful == Spec => []ResumedLikeOriginal
<1>1. IInv => ResumedLikeOriginal
  BY DEF ResumedLikeOriginal, IInv, SessionInv, ClientGood, SessionGood, ServerGood, ServerDerived, Sides
<1> QED  BY <1>1, Invariance, PTL

-----------------------------------------------------------------------------
(* What is negotiated.                                                     *)

\* The version and the suite that these configs may end with.
Picked(v, s) ==
  LET cc == config.client  sc == config.server IN
  /\ v # None /\ v = MutualVersion(sc, cc.max)
  /\ s \in Elems(cc.suites) \cap Elems(sc.suites)
  /\ "TLS12" \in Flags[s] => v = TLS12
  /\ SigType[s] \in {None, sc.cert.alg} /\ s # "ecdhe_sm2"

\* The favourite of the server among the client's protocols.
Favourite == First(config.server.protos, Elems(config.client.protos))

\* What a message of s says of that.
MessageAgreed(s, m) ==
  /\ s = "client" /\ m.type = "clientHello" =>
       /\ m.vers = config.client.max /\ m.suites = Advertised(config.client)
       /\ m.protos = config.client.protos
  /\ s = "client" /\ m.type = "finished" => config.client.min <= m.verify[2]
  /\ s = "server" /\ m.type = "serverHello" =>
       /\ m.vers # None /\ m.vers = MutualVersion(config.server, config.client.max)
       /\ m.proto = Favourite
  /\ s = "server" /\ m.type = "finished" => Picked(m.verify[2], m.verify[3])

ClientAgreed(l, h) ==
  /\ l \notin {"start", "serverHello", "failed"} =>
       config.client.min <= h.vers /\ h.proto = Favourite
  /\ l = "complete" => Picked(h.vers, h.suite)
ServerAgreed(l, h) ==
  /\ l \notin {"clientHello", "failed"} => Picked(h.vers, h.suite) /\ h.proto = Favourite
  /\ l = "complete" => config.client.min <= h.vers

\* No session is of a suite whose key exchange no server can sign.
NegotiationInv ==
  /\ conn \in DOMAIN Configs /\ config \in Configs[conn]
  /\ \A m \in masters : m.suite # "ecdhe_sm2"
  /\ \A s \in Sides : \A r \in Elems(chan[s]) : MessageAgreed(s, r.msg)
  /\ ClientAgreed(pc["client"], hs["client"]) /\ ServerAgreed(pc["server"], hs["server"])
-----------------------------------------------------------------------------
(* Preferences: the first of a sequence, and those that are kept of it.    *)

LEMMA Least ==
  ASSUME NEW I \in SUBSET Nat, I # {}
  PROVE  \E i \in I : \A j \in I : i <= j
<1> DEFINE R == OpToRel(<, Nat)
<1>1. IsWellFoundedOn(R, Nat)
  BY NatLessThanWellFounded
<1>2. \A a, b \in Nat : a < b => <<a, b>> \in R
  BY DEF OpToRel
<1>3. \A a, b \in Nat : ~(a < b) => b <= a
  OBVIOUS
<1> HIDE DEF R
<1>4. PICK x \in I : \A y \in I : ~(<<y, x>> \in R)
  BY <1>1, WFMin
<1> QED  BY <1>2, <1>3, <1>4

LEMMA Greatest ==
  ASSUME NEW n \in Nat, NEW I \in SUBSET (0..n), I # {}
  PROVE  \E i \in I : \A j \in I : j <= i
<1> DEFINE U == {m \in Nat : \A i \in I : i <= m}
<1>1. n \in U
  OBVIOUS
<1>2. PICK m \in U : \A k \in U : m <= k
  BY <1>1, Least
<1>3. SUFFICES ASSUME m \notin I  PROVE FALSE
  BY <1>2
<1>4. \A i \in I : i <= m /\ i # m /\ i \in Nat
  BY <1>2, <1>3
<1>5. m - 1 \in Nat
  <2>1. PICK i \in I : TRUE
    OBVIOUS
  <2>2. \A a, b \in Nat : a <= b /\ a # b => b - 1 \in Nat
    OBVIOUS
  <2> QED  BY <1>2, <1>4, <2>1, <2>2
<1>6. m - 1 \in U
  BY <1>2, <1>4, <1>5
<1> QED  BY <1>2, <1>6

LEMMA FinitePart ==
  ASSUME NEW n \in Nat, NEW I \in SUBSET (1..n)
  PROVE  IsFiniteSet(I) /\ Cardinality(I) \in Nat /\ I \in SUBSET Nat /\ I \in SUBSET (0..n)
<1>1. 1 \in Int /\ n \in Int
  OBVIOUS
<1>2. IsFiniteSet(1..n)
  BY <1>1, FS_Interval
<1>3. IsFiniteSet(I) /\ Cardinality(I) \in Nat
  BY <1>2, FS_Subset, FS_CardinalityType
<1> QED  BY <1>3

\* The ranks of the elements of a set of numbers are all those up to its size.
LEMMA EveryRank ==
  ASSUME NEW n \in Nat, NEW I \in SUBSET (1..n), NEW k \in 1..Cardinality(I)
  PROVE  \E i \in I : Cardinality({j \in I : j <= i}) = k
<1> DEFINE D(i) == {j \in I : j <= i}
           J == {i \in I : k <= Cardinality(D(i))}
<1>1. IsFiniteSet(I) /\ Cardinality(I) \in Nat /\ I \in SUBSET Nat /\ I \in SUBSET (0..n)
  BY FinitePart
<1>2. \A i \in I : IsFiniteSet(D(i)) /\ Cardinality(D(i)) \in Nat
  BY <1>1, FS_Subset, FS_CardinalityType
<1>3. I # {}
  BY FS_EmptySet
<1>4. PICK top \in I : \A j \in I : j <= top
  BY <1>1, <1>3, Greatest
<1>5. D(top) = I
  BY <1>4
<1>6. top \in J
  BY <1>1, <1>4, <1>5
<1>7. J \in SUBSET Nat /\ J # {}
  BY <1>1, <1>6
<1>8. PICK i \in J : \A j \in J : i <= j
  BY <1>7, Least
<1>9. SUFFICES ASSUME Cardinality(D(i)) # k  PROVE FALSE
  BY <1>8
<1>10. Cardinality(D(i)) > k /\ i \in I /\ i \in D(i) /\ k \in Nat
  BY <1>1, <1>2, <1>8, <1>9
<1> DEFINE E == D(i) \ {i}
<1>11. IsFiniteSet(E) /\ Cardinality(E) = Cardinality(D(i)) - 1
  BY <1>2, <1>10, FS_RemoveElement
<1>12. Cardinality(E) >= k /\ k >= 1
  BY <1>1, <1>2, <1>10, <1>11
<1>13. E # {} /\ E \in SUBSET (0..n)
  <2>1. Cardinality(E) # 0
    BY <1>1, <1>2, <1>11, <1>12
  <2>2. E \in SUBSET (0..n)
    BY <1>1
  <2> HIDE DEF E
  <2> QED  BY <2>1, <2>2, FS_EmptySet
<1>14. PICK p \in E : \A j \in E : j <= p
  BY <1>13, Greatest
<1>15. p \in I /\ p <= i /\ p # i /\ p \in Nat /\ i \in Nat
  BY <1>1, <1>10, <1>14
<1>16. D(p) = E
  <2>1. \A j \in I : j \in Nat
    BY <1>1
  <2>2. ASSUME NEW j \in I, j <= p  PROVE j \in E
    BY <1>15, <2>1, <2>2
  <2>3. ASSUME NEW j \in E  PROVE j \in D(p)
    BY <1>14
  <2> QED  BY <2>2, <2>3
<1>17. p \in J
  BY <1>12, <1>15, <1>16
<1> QED  BY <1>8, <1>15, <1>17

LEMMA KeptOnly ==
  ASSUME NEW A, NEW s \in Seq(A), NEW S
  PROVE  Elems(Kept(s, S)) \subseteq Elems(s) \cap S /\ DOMAIN Kept(s, S) \in SUBSET Nat
<1> DEFINE I == {i \in DOMAIN s : s[i] \in S}
           nth(k) == CHOOSE i \in I : Cardinality({j \in I : j <= i}) = k
<1>1. DOMAIN s = 1..Len(s) /\ Len(s) \in Nat
  BY LenProperties
<1>2. I \in SUBSET (1..Len(s))
  BY <1>1
<1>3. IsFiniteSet(I) /\ Cardinality(I) \in Nat
  BY <1>1, <1>2, FinitePart
<1>4. Kept(s, S) = [k \in 1..Cardinality(I) |-> s[nth(k)]]
  BY DEF Kept
<1>5. \A k \in 1..Cardinality(I) : \E i \in I : Cardinality({j \in I : j <= i}) = k
  <2> HIDE DEF I
  <2> QED  BY <1>1, <1>2, EveryRank
<1>6. \A k \in 1..Cardinality(I) : nth(k) \in I
  BY <1>5
<1> HIDE DEF nth
<1>7. \A k \in 1..Cardinality(I) : s[nth(k)] \in Elems(s) \cap S
  BY <1>6 DEF Elems
<1> HIDE DEF I
<1> QED  BY <1>3, <1>4, <1>7 DEF Elems

LEMMA FirstIn ==
  ASSUME NEW s, DOMAIN s \in SUBSET Nat, NEW S, First(s, S) # None
  PROVE  First(s, S) \in S
<1> DEFINE I == {i \in DOMAIN s : s[i] \in S}
           least == CHOOSE i \in I : \A j \in I : i <= j
<1>1. I # {} /\ First(s, S) = s[least]
  BY DEF First
<1>2. \E i \in I : \A j \in I : i <= j
  BY <1>1, Least
<1>3. least \in I
  BY <1>2
<1> QED  BY <1>1, <1>3

-----------------------------------------------------------------------------
(* What any handler does to what is negotiated.                            *)

Tells(s, msgs) == IsSequence(msgs) /\ \A m \in Elems(msgs) : MessageAgreed(s, m)

SideAgreed(s, l, h) == (s = "client" => ClientAgreed(l, h)) /\ (s = "server" => ServerAgreed(l, h))

LEMMA AgreedStep ==
  ASSUME IInv, NegotiationInv, NEW s \in Sides, NEW h, NEW l, NEW msgs, NEW est \in BOOLEAN, NEW e,
         DOMAIN h = Fields, Moves(s, h, l, msgs, est, e), Tells(s, msgs), SideAgreed(s, l, h),
         pc[s] # "start" => chan[Peer(s)] # <<>>, \A m \in masters' : m.suite # "ecdhe_sm2"
  PROVE  NegotiationInv'
<1>1. UNCHANGED <<conn, config>> /\ pc'[s] = l /\ hs'[s] = h
      /\ \A t \in Sides \ {s} : pc'[t] = pc[t] /\ hs'[t] = hs[t]
  BY MovesShapes DEF IInv
<1>2. \A t \in Sides : \A r \in Elems(chan'[t]) : MessageAgreed(t, r.msg)
  <2>1. \A t \in Sides : IsSequence(chan[t]) /\ \A r \in Elems(chan[t]) : MessageAgreed(t, r.msg)
    BY DEF NegotiationInv, IInv, SessionInv, ChannelsGood
  <2> DEFINE o == IF est THEN [out[s] EXCEPT !.next = Key(s, h)] ELSE out[s]
             q == Sealed(o, h.vers, msgs)
  <2>2. chan'[s] = chan[s] \o q /\ chan'[Peer(s)] \in {chan[Peer(s)], Tail(chan[Peer(s)])}
        /\ (chan'[Peer(s)] # chan[Peer(s)] => chan[Peer(s)] # <<>>)
    BY DEF Moves, IInv, Shapes, Sides, Peer
  <2>3. IsSequence(q) /\ \A r \in Elems(q) : MessageAgreed(s, r.msg)
    BY ElemsOfSealed DEF Tells
  <2> HIDE DEF q
  <2>4. \A r \in Elems(chan'[s]) : MessageAgreed(s, r.msg)
    BY <2>1, <2>2, <2>3, ElemsOfConcat
  <2>5. Peer(s) \in Sides
    BY DEF Peer, Sides
  <2>6. \A r \in Elems(chan'[Peer(s)]) : MessageAgreed(Peer(s), r.msg)
    BY <2>1, <2>2, <2>5, ElemsOfHeadTail
  <2> QED  BY <2>4, <2>6 DEF Sides, Peer
<1>3. \A t, m : MessageAgreed(t, m) => MessageAgreed(t, m)'
  BY <1>1 DEF MessageAgreed, Picked, Favourite
<1>4. ClientAgreed(pc'["client"], hs'["client"]) /\ ServerAgreed(pc'["server"], hs'["server"])
  BY <1>1 DEF NegotiationInv, Sides, SideAgreed
<1>5. ClientAgreed(pc["client"], hs["client"])'
  BY <1>1, <1>4 DEF ClientAgreed, Picked, Favourite
<1>6. ServerAgreed(pc["server"], hs["server"])'
  BY <1>1, <1>4 DEF ServerAgreed, Picked, Favourite
<1>7. (\A t \in Sides : \A r \in Elems(chan[t]) : MessageAgreed(t, r.msg))'
  BY <1>2, <1>3
<1> QED  BY <1>1, <1>5, <1>6, <1>7 DEF NegotiationInv

\* The message that has arrived.
LEMMA ArrivedAgreed ==
  ASSUME IInv, NegotiationInv, NEW s \in Sides, chan[Peer(s)] # <<>>
  PROVE  MessageAgreed(Peer(s), Message(s))
<1>1. Peer(s) \in Sides
  BY DEF Peer, Sides
<1> QED  BY <1>1, ElemsOfHeadTail DEF IInv, SessionInv, ChannelsGood, NegotiationInv, Message

LEMMA TellsNothing == \A s : Tells(s, <<>>)
BY ElemsOfTuples DEF Tells

LEMMA FailAgreed ==
  ASSUME IInv, NegotiationInv, NEW s \in Sides, NEW h, NEW msgs, NEW why, DOMAIN h = Fields,
         Fails(s, h, msgs, why), chan[Peer(s)] # <<>>, UNCHANGED masters, Tells(s, msgs)
  PROVE  NegotiationInv'
<1> DEFINE sent == IF why \in Panics THEN <<>>
                   ELSE IF why \in Silent THEN msgs ELSE Append(msgs, Alert(why))
<1>1. \E e : Moves(s, h, "failed", sent, FALSE, e)
  BY DEF Fails
<1>2. IsSequence(sent) /\ Elems(sent) \subseteq Elems(msgs) \cup {Alert(why)}
  BY ElemsOfTuples, ElemsOfAppend DEF Tells
<1> HIDE DEF sent
<1>3. \A m \in Elems(sent) : MessageAgreed(s, m)
  BY <1>2 DEF Tells, Alert, MessageAgreed
<1>4. Tells(s, sent)
  BY <1>2, <1>3 DEF Tells
<1>5. SideAgreed(s, "failed", h)
  BY DEF SideAgreed, ClientAgreed, ServerAgreed
<1> QED  BY <1>1, <1>4, <1>5, AgreedStep DEF NegotiationInv

\* Once the ServerHello is there, a side that keeps what is negotiated and sends nothing
\* goes on, up to its end.
Kin(h, g) == h.vers = g.vers /\ h.suite = g.suite /\ h.proto = g.proto

LEMMA GoesOn ==
  ASSUME IInv, NegotiationInv, NEW s \in Sides, NEW h, NEW l, NEW est \in BOOLEAN, NEW e,
         DOMAIN h = Fields, Kin(h, hs[s]), Moves(s, h, l, <<>>, est, e), chan[Peer(s)] # <<>>,
         pc[s] \notin {"start", "serverHello", "clientHello", "failed"}, l # "complete",
         UNCHANGED masters
  PROVE  NegotiationInv'
BY TellsNothing, AgreedStep DEF NegotiationInv, ClientAgreed, Kin, SideAgreed, ServerAgreed, Sides

\* What these configs are.
LEMMA ConfigTypes ==
  ASSUME NegotiationInv
  PROVE  \A c \in {config.client, config.server} :
           c.min \in Nat /\ c.max \in TLS10..TLS12 /\ c.suites \in Seq(Suites)
BY HandshakeAssumption DEF HandshakeAssumption, NegotiationInv

\* The server's version is no higher than the client's.
LEMMA VersionBounds ==
  ASSUME NegotiationInv, NEW v, v # None, v = MutualVersion(config.server, config.client.max)
  PROVE  v \in TLS10..TLS12 /\ v <= config.client.max
BY ConfigTypes DEF TLS10, TLS12, MutualVersion

-----------------------------------------------------------------------------
(* What the client does to it.                                             *)

LEMMA SendClientHelloAgreed == IInv /\ NegotiationInv /\ SendClientHello => NegotiationInv'
<1> SUFFICES ASSUME IInv, NegotiationInv, SendClientHello  PROVE NegotiationInv'
  OBVIOUS
<1> DEFINE c == config.client
           usable == c.cache /\ cache # None /\ cache.suite \in Elems(Advertised(c))
                     /\ cache.vers \in c.min..c.max
           session == IF usable THEN cache ELSE None
           hello == [type |-> "clientHello", vers |-> c.max, suites |-> Advertised(c),
                     curves |-> c.curves, protos |-> c.protos, tickets |-> c.cache,
                     sigs |-> IF c.max = TLS12 THEN supportedSignatureAlgorithms ELSE <<>>,
                     ticket |-> IF usable THEN cache.ticket ELSE None,
                     sessionId |-> IF usable THEN conn ELSE None]
<1>1. /\ Continues("client", [NoState EXCEPT !.hello = hello, !.session = session],
                   "serverHello", <<hello>>)
      /\ pc["client"] = "start" /\ UNCHANGED masters
  BY DEF SendClientHello
<1>2. hello.type = "clientHello" /\ hello.vers = c.max /\ hello.suites = Advertised(c)
      /\ hello.protos = c.protos
  OBVIOUS
<1> HIDE DEF hello, session
<1>3. PICK h : h = [NoState EXCEPT !.hello = hello, !.session = session]
  OBVIOUS
<1>4. DOMAIN h = Fields
  BY <1>3 DEF NoState, Fields
<1>5. Tells("client", <<hello>>)
  BY <1>2, ElemsOfTuples DEF Tells, MessageAgreed
<1>6. SideAgreed("client", "serverHello", h)
  BY DEF SideAgreed, ClientAgreed
<1> QED  BY <1>1, <1>3, <1>4, <1>5, <1>6, AgreedStep DEF Continues, NegotiationInv, Sides

LEMMA ReadServerCertificateAgreed ==
  IInv /\ NegotiationInv /\ ReadServerCertificate => NegotiationInv'
<1> SUFFICES ASSUME IInv, NegotiationInv, ReadServerCertificate  PROVE NegotiationInv'
  OBVIOUS
<1>1. chan["server"] # <<>> /\ pc["client"] = "serverCertificate" /\ UNCHANGED masters
  BY ReadsSomething DEF ReadServerCertificate, Peer
<1>2. PICK m : m = Message("client")
  OBVIOUS
<1>3. PICK h : h = hs["client"]
  OBVIOUS
<1>4. DOMAIN h = Fields
  BY <1>3 DEF IInv, Shapes, Sides
<1>5. PICK h1 : h1 = Hashed([h EXCEPT !.peer = m.cert], <<m>>)
  OBVIOUS
<1>6. DOMAIN h1 = Fields /\ Kin(h1, h)
  BY <1>4, <1>5, HashedFields DEF Fields, Kin
<1>7. \/ Fails("client", h, <<>>, "bad_certificate")
      \/ Continues("client", h1, "certificateStatus", <<>>)
      \/ Continues("client", h1, "serverKeyExchange", <<>>)
  BY <1>2, <1>3, <1>5 DEF ReadServerCertificate
<1>8. CASE Fails("client", h, <<>>, "bad_certificate")
  BY <1>1, <1>4, <1>8, TellsNothing, FailAgreed DEF Peer, Sides
<1>9. CASE \/ Continues("client", h1, "certificateStatus", <<>>)
           \/ Continues("client", h1, "serverKeyExchange", <<>>)
  BY <1>1, <1>3, <1>6, <1>9, GoesOn DEF Continues, Peer, Sides
<1> QED  BY <1>7, <1>8, <1>9

LEMMA ReadCertificateStatusAgreed ==
  IInv /\ NegotiationInv /\ ReadCertificateStatus => NegotiationInv'
<1> SUFFICES ASSUME IInv, NegotiationInv, ReadCertificateStatus  PROVE NegotiationInv'
  OBVIOUS
<1>1. chan["server"] # <<>> /\ pc["client"] = "certificateStatus" /\ UNCHANGED masters
  BY ReadsSomething, PointsOf DEF ReadCertificateStatus, Peer
<1>2. PICK h : h = Hashed(hs["client"], <<Message("client")>>)
  OBVIOUS
<1>3. Continues("client", h, "serverKeyExchange", <<>>)
  BY <1>2 DEF ReadCertificateStatus
<1>4. DOMAIN h = Fields /\ Kin(h, hs["client"])
  BY <1>2, HashedFields DEF IInv, Shapes, Fields, Kin, Sides
<1> QED  BY <1>1, <1>3, <1>4, GoesOn DEF Continues, Peer, Sides

LEMMA ReadServerKeyExchangeAgreed ==
  IInv /\ NegotiationInv /\ ReadServerKeyExchange => NegotiationInv'
<1> SUFFICES ASSUME IInv, NegotiationInv, ReadServerKeyExchange  PROVE NegotiationInv'
  OBVIOUS
<1>1. chan["server"] # <<>> /\ pc["client"] = "serverKeyExchange" /\ UNCHANGED masters
  BY ReadsSomething, PointsOf DEF ReadServerKeyExchange, Peer
<1>2. PICK m : m = Message("client")
  OBVIOUS
<1>3. PICK h : h = hs["client"]
  OBVIOUS
<1>4. PICK h1 : h1 = Hashed([h EXCEPT !.skx = m.curve], <<m>>)
  OBVIOUS
<1>5. DOMAIN h = Fields
  BY <1>3 DEF IInv, Shapes, Sides
<1>6. DOMAIN h1 = Fields /\ Kin(h1, h)
  BY <1>4, <1>5, HashedFields DEF Fields, Kin
<1>7. \/ \E why : Fails("client", h, <<>>, why)
      \/ Continues("client", h1, "certificateRequest", <<>>)
  BY <1>2, <1>3, <1>4 DEF ReadServerKeyExchange
<1>8. CASE \E why : Fails("client", h, <<>>, why)
  BY <1>1, <1>5, <1>8, TellsNothing, FailAgreed DEF Peer, Sides
<1>9. CASE Continues("client", h1, "certificateRequest", <<>>)
  BY <1>1, <1>3, <1>6, <1>9, GoesOn DEF Continues, Peer, Sides
<1> QED  BY <1>7, <1>8, <1>9

LEMMA ReadCertificateRequestAgreed ==
  IInv /\ NegotiationInv /\ ReadCertificateRequest => NegotiationInv'
<1> SUFFICES ASSUME IInv, NegotiationInv, ReadCertificateRequest  PROVE NegotiationInv'
  OBVIOUS
<1>1. /\ chan["server"] # <<>> /\ pc["client"] \in {"serverKeyExchange", "certificateRequest"}
      /\ UNCHANGED masters
  BY ReadsSomething, PointsOf DEF ReadCertificateRequest, Peer
<1>2. PICK m : m = Message("client")
  OBVIOUS
<1>3. PICK h : h = hs["client"]
  OBVIOUS
<1>4. PICK own : own = ClientCertificate(config.client.certs, m.authorities)
  OBVIOUS
<1>5. PICK h1 : h1 = Hashed([h EXCEPT !.certReq = m, !.own = own], <<m>>)
  OBVIOUS
<1>6. DOMAIN h = Fields
  BY <1>3 DEF IInv, Shapes, Sides
<1>7. DOMAIN h1 = Fields /\ Kin(h1, h)
  <2>1. PICK g : g = [h EXCEPT !.certReq = m, !.own = own]
    OBVIOUS
  <2>2. DOMAIN g = Fields /\ Kin(g, h)
    BY <1>6, <2>1 DEF Fields, Kin
  <2>3. h1 = Hashed(g, <<m>>)
    BY <1>5, <2>1
  <2> QED  BY <2>2, <2>3, HashedFields DEF Fields, Kin
<1>8. Continues("client", h1, "serverHelloDone", <<>>)
  BY <1>2, <1>3, <1>4, <1>5 DEF ReadCertificateRequest
<1> QED  BY <1>1, <1>3, <1>7, <1>8, GoesOn DEF Continues, Peer, Sides

LEMMA ReadNewSessionTicketAgreed ==
  IInv /\ NegotiationInv /\ ReadNewSessionTicket => NegotiationInv'
<1> SUFFICES ASSUME IInv, NegotiationInv, ReadNewSessionTicket  PROVE NegotiationInv'
  OBVIOUS
<1>1. chan["server"] # <<>> /\ pc["client"] = "newSessionTicket" /\ UNCHANGED masters
  BY ReadsSomething, PointsOf DEF ReadNewSessionTicket, Peer
<1>2. PICK m : m = Message("client")
  OBVIOUS
<1>3. PICK h : h = hs["client"]
  OBVIOUS
<1>4. DOMAIN h = Fields
  BY <1>3 DEF IInv, Shapes, Sides
<1>5. PICK n : n = [ticket |-> m.ticket, vers |-> h.vers, suite |-> h.suite,
                    master |-> h.master, peer |-> h.peer]
  OBVIOUS
<1>6. PICK h1 : h1 = Hashed([h EXCEPT !.newSession = n], <<m>>)
  OBVIOUS
<1>7. DOMAIN h1 = Fields /\ Kin(h1, h)
  BY <1>4, <1>6, HashedFields DEF Fields, Kin
<1>8. Continues("client", h1, "serverCCS", <<>>)
  BY <1>2, <1>3, <1>5, <1>6 DEF ReadNewSessionTicket
<1> QED  BY <1>1, <1>3, <1>7, <1>8, GoesOn DEF Continues, Peer, Sides

LEMMA ReadServerCCSAgreed == IInv /\ NegotiationInv /\ ReadServerCCS => NegotiationInv'
BY ReadsSomething, PointsOf, GoesOn DEF ReadServerCCS, Peer, IInv, Shapes, Sides, Kin, Continues

LEMMA ReadServerHelloAgreed == IInv /\ NegotiationInv /\ ReadServerHello => NegotiationInv'
<1> SUFFICES ASSUME IInv, NegotiationInv, ReadServerHello  PROVE NegotiationInv'
  OBVIOUS
<1> DEFINE c == config.client
           h == hs["client"]
           m == Message("client")
           vers == MutualVersion(c, m.vers)
           suiteOk == m.suite \in Elems(h.hello.suites)
           resume == h.session # None /\ m.sessionId = h.hello.sessionId
           versOk == vers # None /\ vers \in TLS10..TLS12
           h1 == [h EXCEPT !.vers = IF versOk THEN vers ELSE None]
           h1s == [h1 EXCEPT !.suite = m.suite, !.serverHello = m, !.proto = TakesProto(m),
                             !.resume = resume]
           h2 == NewHash(h1s)
           h2b == [h2 EXCEPT !.buffer = @ /\ KeepsBuffer(c, resume)]
           h3 == Hashed(h2b, <<h.hello, m>>)
           h4 == [h3 EXCEPT !.master = h.session.master, !.peer = h.session.peer]
           why == FirstOf(<<
             <<~versOk, "protocol_version">>,
             <<~suiteOk, "handshake_failure">>,
             <<h.hello.protos = <<>> /\ m.proto # None, "handshake_failure">>,
             <<resume /\ h.session.vers # vers, "handshake_failure">>,
             <<resume /\ h.session.suite # m.suite, "handshake_failure">>,
             <<versOk /\ NilMD5(vers, m.suite), "nil MD5">> >>)
<1>1. chan["server"] # <<>> /\ pc["client"] = "serverHello" /\ UNCHANGED masters
      /\ m.type = "serverHello"
  BY ReadsSomething, PointsOf DEF ReadServerHello, Peer
<1>2. \/ why # None /\ Fails("client", h1, <<>>, why)
      \/ why = None /\ resume /\ Establishes("client", h4, AfterDone(h4), <<>>)
      \/ why = None /\ ~resume /\ Continues("client", h3, "serverCertificate", <<>>)
  BY DEF ReadServerHello
<1>3. DOMAIN h = Fields
  BY DEF IInv, Shapes, Sides
<1>4. DOMAIN h1 = Fields /\ (versOk => h1.vers = vers)
  BY <1>3 DEF Fields
<1>5. DOMAIN h1s = Fields /\ h1s.vers = h1.vers /\ h1s.proto = m.proto
  <2> HIDE DEF h1, resume, m
  <2> QED  BY <1>4 DEF Fields, TakesProto
<1>6. DOMAIN h3 = Fields /\ h3.vers = h1.vers /\ h3.proto = m.proto
  <2> HIDE DEF h1s, h1, resume, m, h2b
  <2>1. DOMAIN h2 = Fields /\ h2.vers = h1.vers /\ h2.proto = m.proto
    BY <1>5, NewHashFields DEF Fields
  <2> HIDE DEF h2
  <2>2. DOMAIN h2b = Fields /\ h2b.vers = h1.vers /\ h2b.proto = m.proto
    BY <2>1 DEF Fields, h2b
  <2> QED  BY <2>2, HashedFields DEF Fields
<1>7. CASE why # None /\ Fails("client", h1, <<>>, why)
  <2> HIDE DEF h1, why
  <2> QED  BY <1>1, <1>4, <1>7, TellsNothing, FailAgreed DEF Peer, Sides
<1>8. m.vers # None /\ m.vers = MutualVersion(config.server, c.max) /\ m.proto = Favourite
  BY <1>1, ArrivedAgreed DEF MessageAgreed, Peer, Sides
<1>9. versOk => c.min <= vers
  <2>1. PICK v : v = m.vers
    OBVIOUS
  <2>2. v \in TLS10..TLS12 /\ v <= c.max /\ c.min \in Nat
    BY <1>8, <2>1, VersionBounds, ConfigTypes
  <2>3. vers = IF v < c.min THEN None ELSE IF v > c.max THEN c.max ELSE v
    BY <2>1 DEF MutualVersion
  <2>4. \A a \in 1..3, b \in Nat : ~(a < b) => b <= a
    OBVIOUS
  <2>5. v \in 1..3
    BY <2>2 DEF TLS10, TLS12
  <2>6. c.max \in 1..3
    BY ConfigTypes DEF TLS10, TLS12
  <2>7. \A a, b \in 1..3 : a <= b => ~(a > b)
    OBVIOUS
  <2> HIDE DEF c, vers
  <2> QED  BY <2>2, <2>3, <2>4, <2>5, <2>6, <2>7
<1>10. ASSUME why = None  PROVE versOk
  <2> HIDE DEF versOk, vers, m, suiteOk, resume, h
  <2>1. PICK p1 \in BOOLEAN : p1 <=> ~versOk
    OBVIOUS
  <2>2. PICK p2 \in BOOLEAN : p2 <=> ~suiteOk
    OBVIOUS
  <2>3. PICK p3 \in BOOLEAN : p3 <=> (h.hello.protos = <<>> /\ m.proto # None)
    OBVIOUS
  <2>4. PICK p4 \in BOOLEAN : p4 <=> (resume /\ h.session.vers # vers)
    OBVIOUS
  <2>5. PICK p5 \in BOOLEAN : p5 <=> (resume /\ h.session.suite # m.suite)
    OBVIOUS
  <2>6. PICK p6 \in BOOLEAN : p6 <=> (versOk /\ NilMD5(vers, m.suite))
    OBVIOUS
  <2>7. PICK a \in Alerts, b \in Alerts, d \in Silent :
          a = "protocol_version" /\ b = "handshake_failure" /\ d = "nil MD5"
    BY DEF Alerts, Silent, Panics
  <2>8. PICK checks :
          checks = << <<p1, a>>, <<p2, b>>, <<p3, b>>, <<p4, b>>, <<p5, b>>, <<p6, d>> >>
    OBVIOUS
  <2>9. FirstOf(checks) = None
    BY <1>10, <2>1, <2>2, <2>3, <2>4, <2>5, <2>6, <2>7, <2>8
  <2>10. /\ DOMAIN checks = 1..6
         /\ checks[1] = <<p1, a>> /\ checks[2] = <<p2, b>> /\ checks[3] = <<p3, b>>
         /\ checks[4] = <<p4, b>> /\ checks[5] = <<p5, b>> /\ checks[6] = <<p6, d>>
    BY <2>8
  <2>11. \A i \in 1..6 : checks[i][2] \in Alerts \cup Silent
    <3>1. a \in Alerts /\ b \in Alerts /\ d \in Silent
      BY <2>7
    <3> QED  BY <2>10, <3>1
  <2>12. \A i \in 1..6 : ~checks[i][1]
    BY <2>9, <2>10, <2>11, NoneAssumption, FirstOfNone DEF NoneAssumption
  <2> QED  BY <2>1, <2>10, <2>12
<1>11. ASSUME why = None  PROVE c.min <= h3.vers /\ h3.proto = Favourite
  <2> HIDE DEF h3, why, versOk, vers, m, h1, c
  <2> QED  BY <1>4, <1>6, <1>8, <1>9, <1>10, <1>11
<1>12. CASE why = None /\ ~resume /\ Continues("client", h3, "serverCertificate", <<>>)
  <2> HIDE DEF h3, why, resume
  <2>1. SideAgreed("client", "serverCertificate", h3)
    BY <1>11, <1>12 DEF SideAgreed, ClientAgreed
  <2> QED  BY <1>1, <1>6, <1>12, <2>1, TellsNothing, AgreedStep
           DEF Continues, NegotiationInv, Peer, Sides
<1>13. CASE why = None /\ resume /\ Establishes("client", h4, AfterDone(h4), <<>>)
  <2> HIDE DEF h3, why, resume, h
  <2>1. DOMAIN h4 = Fields /\ h4.vers = h3.vers /\ h4.proto = h3.proto
    BY <1>6 DEF Fields
  <2> HIDE DEF h4
  <2>2. PICK l \in {"newSessionTicket", "serverCCS"} :
          Establishes("client", h4, l, <<>>)
    BY <1>13 DEF AfterDone
  <2>3. SideAgreed("client", l, h4)
    BY <1>11, <1>13, <2>1 DEF SideAgreed, ClientAgreed
  <2> QED  BY <1>1, <2>1, <2>2, <2>3, TellsNothing, AgreedStep
           DEF Establishes, NegotiationInv, Peer, Sides
<1> QED  BY <1>2, <1>7, <1>12, <1>13

LEMMA ReadServerHelloDoneAgreed ==
  IInv /\ NegotiationInv /\ ReadServerHelloDone => NegotiationInv'
<1> SUFFICES ASSUME IInv, NegotiationInv, ReadServerHelloDone  PROVE NegotiationInv'
  OBVIOUS
<1> DEFINE h == hs["client"]
           c == config.client
           cert == IF h.certReq = None THEN <<>> ELSE <<[type |-> "certificate", cert |-> h.own]>>
           ckx == [type |-> "clientKeyExchange", pre |-> conn]
           h1 == Hashed(h, <<Message("client")>> \o cert \o <<ckx>>)
           noShare == SigType[h.suite] # None /\ h.skx = None
           alg == selectClientCertSignatureAlgorithm(h.vers, h.certReq.sigs, h.own.alg)
           verify == IF h.own = None THEN <<>>
                     ELSE <<[type |-> "certificateVerify", alg |-> alg,
                             signature |-> <<h.own, Digest(h1, alg)>>]>>
           h1m == [h1 EXCEPT !.master = MasterSecret(ckx.pre)]
           h1v == Hashed(h1m, verify)
           h2 == Discarded(h1v)
           fin == Finished("client", h2)
           why == FirstOf(<<
             <<noShare, "internal_error">>,
             <<SigType[h.suite] = None /\ h.peer.alg # "RSA", "key type assertion">>,
             <<h.suite = "sm2" /\ c.randNil /\ h.skx # "X25519", "nil Rand">>,
             <<h.own # None /\ alg = None, "internal_error">>,
             <<h.own # None /\ BufferGone(h1), "discarded buffer">> >>)
           partial == IF noShare THEN cert ELSE Append(cert, ckx)
           flight == cert \o <<ckx>> \o verify \o <<CCS, fin>>
           h3 == Hashed(h2, <<fin>>)
<1>1. /\ chan["server"] # <<>>
      /\ pc["client"] \in {"serverKeyExchange", "certificateRequest", "serverHelloDone"}
      /\ UNCHANGED masters
  BY ReadsSomething, PointsOf DEF ReadServerHelloDone, Peer
<1>2. \/ why # None /\ Fails("client", h1, partial, why)
      \/ Establishes("client", h3, AfterDone(h), flight)
  BY DEF ReadServerHelloDone
<1>3. DOMAIN h = Fields /\ c.min <= h.vers /\ h.proto = Favourite
  BY <1>1 DEF IInv, Shapes, Sides, NegotiationInv, ClientAgreed
<1>4. DOMAIN h1 = Fields /\ Kin(h1, h)
  <2> HIDE DEF h
  <2> QED  BY <1>3, HashedFields DEF Fields, Kin
<1>5. ckx.type = "clientKeyExchange" /\ CCS.type = "ccs"
  BY DEF CCS
<1>6. IsSequence(cert) /\ \A m \in Elems(cert) : m.type = "certificate"
  <2>1. PICK m : m = [type |-> "certificate", cert |-> h.own]
    OBVIOUS
  <2>2. cert \in {<<>>, <<m>>} /\ m.type = "certificate"
    BY <2>1
  <2> HIDE DEF cert
  <2> QED  BY <2>2, ElemsOfTuples
<1>7. IsSequence(verify) /\ \A m \in Elems(verify) : m.type = "certificateVerify"
  <2>1. PICK m : m = [type |-> "certificateVerify", alg |-> alg,
                      signature |-> <<h.own, Digest(h1, alg)>>]
    OBVIOUS
  <2>2. verify \in {<<>>, <<m>>} /\ m.type = "certificateVerify"
    BY <2>1
  <2> HIDE DEF verify
  <2> QED  BY <2>2, ElemsOfTuples
<1> HIDE DEF cert, ckx, verify
<1>8. IsSequence(partial) /\ \A m \in Elems(partial) : m.type \in {"certificate", "clientKeyExchange"}
  BY <1>5, <1>6, ElemsOfAppend
<1>9. /\ IsSequence(flight)
      /\ Elems(flight) \subseteq Elems(cert) \cup {ckx} \cup Elems(verify) \cup {CCS, fin}
  <2> HIDE DEF fin
  <2>1. IsSequence(cert \o <<ckx>>) /\ Elems(cert \o <<ckx>>) \subseteq Elems(cert) \cup {ckx}
    BY <1>6, ElemsOfTuples, ElemsOfConcat
  <2>2. /\ IsSequence(cert \o <<ckx>> \o verify)
        /\ Elems(cert \o <<ckx>> \o verify) \subseteq Elems(cert) \cup {ckx} \cup Elems(verify)
    BY <1>7, <2>1, ElemsOfConcat
  <2> QED  BY <2>2, ElemsOfTuples, ElemsOfConcat
<1> HIDE DEF partial, flight, h1, why
<1>10. CASE why # None /\ Fails("client", h1, partial, why)
  <2>1. Tells("client", partial)
    BY <1>8 DEF Tells, MessageAgreed
  <2> QED  BY <1>1, <1>4, <1>10, <2>1, FailAgreed DEF Peer, Sides
<1>11. CASE Establishes("client", h3, AfterDone(h), flight)
  <2>1. DOMAIN h1m = Fields /\ Kin(h1m, h)
    <3> HIDE DEF h
    <3> QED  BY <1>4 DEF Fields, Kin
  <2> HIDE DEF h1m, h
  <2>2. DOMAIN h1v = Fields /\ Kin(h1v, h)
    BY <2>1, HashedFields DEF Fields, Kin
  <2> HIDE DEF h1v
  <2>3. DOMAIN h2 = Fields /\ Kin(h2, h)
    BY <2>2, DiscardedFields DEF Fields, Kin
  <2>4. fin.type = "finished" /\ fin.verify[2] = h2.vers
    BY DEF Finished, VerifyData
  <2> HIDE DEF h2, fin
  <2>5. DOMAIN h3 = Fields /\ Kin(h3, h)
    BY <2>3, HashedFields DEF Fields, Kin
  <2> HIDE DEF h3
  <2>6. PICK l \in {"newSessionTicket", "serverCCS"} : Establishes("client", h3, l, flight)
    BY <1>11 DEF AfterDone
  <2>7. SideAgreed("client", l, h3)
    BY <1>3, <2>5 DEF SideAgreed, ClientAgreed, Kin
  <2>8. MessageAgreed("client", fin)
    BY <1>3, <2>3, <2>4 DEF MessageAgreed, Kin
  <2>9. \A m \in Elems(flight) : MessageAgreed("client", m)
    BY <1>5, <1>6, <1>7, <1>9, <2>8 DEF MessageAgreed
  <2> QED  BY <1>1, <1>9, <2>5, <2>6, <2>7, <2>9, AgreedStep
           DEF Establishes, NegotiationInv, Tells, Peer, Sides
<1> QED  BY <1>2, <1>10, <1>11

LEMMA ReadServerFinishedAgreed == IInv /\ NegotiationInv /\ ReadServerFinished => NegotiationInv'
<1> SUFFICES ASSUME IInv, NegotiationInv, ReadServerFinished  PROVE NegotiationInv'
  OBVIOUS
<1>1. chan["server"] # <<>> /\ pc["client"] \in {"clientFinished", "serverFinished"}
      /\ UNCHANGED masters /\ Message("client").type = "finished"
  BY ReadsSomething, PointsOf DEF ReadServerFinished, Peer
<1>2. PICK m : m = Message("client")
  OBVIOUS
<1>3. Picked(m.verify[2], m.verify[3])
  BY <1>1, <1>2, ArrivedAgreed DEF MessageAgreed, Sides, Peer
<1>4. PICK h : h = hs["client"]
  OBVIOUS
<1>5. DOMAIN h = Fields /\ config.client.min <= h.vers /\ h.proto = Favourite
  BY <1>1, <1>4 DEF IInv, Shapes, Sides, NegotiationInv, ClientAgreed
<1> DEFINE checks == << <<m.verify # VerifyData("server", h), "handshake_failure">> >>
<1>6. CASE FirstOf(checks) # None
  BY <1>2, <1>4, <1>6, <1>1, <1>5, TellsNothing, FailAgreed DEF ReadServerFinished, Peer, Sides
<1>7. CASE FirstOf(checks) = None
  <2>1. m.verify = VerifyData("server", h)
    BY <1>7, NoneAssumption, OneTest DEF NoneAssumption, Alerts
  <2>2. Picked(h.vers, h.suite)
    BY <2>1, <1>3 DEF VerifyData
  <2>3. PICK h1 : h1 = Hashed(h, <<m>>)
    OBVIOUS
  <2>4. PICK fin : fin = Finished("client", h1)
    OBVIOUS
  <2>5. PICK h2 : h2 = Hashed(h1, <<fin>>)
    OBVIOUS
  <2>6. DOMAIN h1 = Fields /\ Kin(h1, h)
    BY <1>5, <2>3, HashedFields DEF Fields, Kin
  <2>7. DOMAIN h2 = Fields /\ Kin(h2, h)
    BY <2>5, <2>6, HashedFields DEF Fields, Kin
  <2>8. \/ Continues("client", h2, "complete", <<CCS, fin>>)
        \/ Continues("client", h1, "complete", <<>>)
    BY <1>2, <1>4, <1>7, <2>3, <2>4, <2>5 DEF ReadServerFinished
  <2>9. SideAgreed("client", "complete", h1) /\ SideAgreed("client", "complete", h2)
    BY <1>5, <2>2, <2>6, <2>7 DEF SideAgreed, ClientAgreed, Kin
  <2>10. CASE Continues("client", h1, "complete", <<>>)
    BY <1>1, <2>6, <2>9, <2>10, TellsNothing, AgreedStep DEF Continues, NegotiationInv, Peer, Sides
  <2>11. CASE Continues("client", h2, "complete", <<CCS, fin>>)
    <3>1. CCS.type = "ccs" /\ fin.type = "finished" /\ fin.verify[2] = h1.vers
      BY <2>4 DEF CCS, Finished, VerifyData
    <3>2. MessageAgreed("client", CCS) /\ MessageAgreed("client", fin)
      BY <1>5, <2>6, <3>1 DEF MessageAgreed, Kin
    <3>3. Tells("client", <<CCS, fin>>)
      BY <3>2, ElemsOfTuples DEF Tells
    <3> QED  BY <1>1, <2>7, <2>9, <2>11, <3>3, AgreedStep DEF Continues, NegotiationInv, Peer, Sides
  <2> QED  BY <2>8, <2>10, <2>11
<1> QED  BY <1>6, <1>7

-----------------------------------------------------------------------------
(* What the server does to it.                                             *)

\* A suite that setCipherSuite accepts fits the version and, but for one, the key.
LEMMA SuiteFits ==
  ASSUME NEW suite \in Suites, NEW alg, NEW elliptic, NEW vers,
         Acceptable(suite, alg, elliptic, vers)
  PROVE  /\ "TLS12" \in Flags[suite] => vers = TLS12
         /\ suite # "ecdhe_sm2" => SigType[suite] \in {None, alg}
         /\ suite = "ecdhe_sm2" => alg = "RSA"
BY DEF Suites, Flags, Acceptable, SigType

\* The suite that is chosen is of both lists, and accepted.
LEMMA SuiteChosen ==
  ASSUME NEW sc, NEW A, sc.suites \in Seq(A), NEW offered, DOMAIN offered \in SUBSET Nat,
         NEW alg, NEW elliptic, NEW vers, NEW suite,
         suite = ChooseSuite(sc, offered, alg, elliptic, vers), suite # None
  PROVE  /\ suite \in Elems(sc.suites) \cap Elems(offered)
         /\ Acceptable(suite, alg, elliptic, vers)
<1> DEFINE good == {s \in Elems(sc.suites) \cap Elems(offered) : Acceptable(s, alg, elliptic, vers)}
<1>1. PICK list : list = IF sc.prefer THEN sc.suites ELSE offered
  OBVIOUS
<1>2. suite = First(list, good)
  BY <1>1 DEF ChooseSuite
<1>3. DOMAIN list \in SUBSET Nat
  BY LenProperties, <1>1
<1> HIDE DEF good
<1>4. suite \in good
  BY <1>2, <1>3, FirstIn
<1> QED  BY <1>4 DEF good

\* An ephemeral share for an SM2 suite cannot be signed with an RSA key.
LEMMA Unsignable ==
  ASSUME NEW vers, NEW list  PROVE SKXAlgorithm("ecdhe_sm2", vers, list, "RSA") = None
<1>1. SigType["ecdhe_sm2"] = "SM2"
  BY DEF SigType
<1> QED  BY <1>1 DEF SKXAlgorithm

\* A server that has picked says so in its Finished.
LEMMA ServerEndAgreed ==
  ASSUME NEW h, DOMAIN h = Fields, Picked(h.vers, h.suite)
  PROVE  /\ Tells("server", ServerEnd(h).msgs)
         /\ DOMAIN ServerEnd(h).hs = Fields /\ Kin(ServerEnd(h).hs, h)
<1> DEFINE t == NewSessionTicket(h)
           h1 == Hashed(h, t)
           fin == Finished("server", h1)
           h2 == Hashed(h1, <<fin>>)
<1>1. ServerEnd(h).msgs = t \o <<CCS, fin>> /\ ServerEnd(h).hs = h2
  BY DEF ServerEnd
<1>2. IsSequence(t) /\ \A m \in Elems(t) : m.type = "newSessionTicket"
  <2>1. PICK m : m = [type |-> "newSessionTicket", ticket |-> Ticket(h, h.peer)]
    OBVIOUS
  <2>2. t \in {<<>>, <<m>>} /\ m.type = "newSessionTicket"
    BY <2>1 DEF NewSessionTicket
  <2> HIDE DEF t
  <2> QED  BY <2>2, ElemsOfTuples
<1> HIDE DEF t
<1>3. DOMAIN h1 = Fields /\ Kin(h1, h)
  BY HashedFields DEF Fields, Kin
<1>4. fin.type = "finished" /\ fin.verify[2] = h1.vers /\ fin.verify[3] = h1.suite
  BY DEF Finished, VerifyData
<1> HIDE DEF h1
<1>5. MessageAgreed("server", fin)
  BY <1>3, <1>4 DEF MessageAgreed, Kin
<1>6. MessageAgreed("server", CCS) /\ \A m \in Elems(t) : MessageAgreed("server", m)
  BY <1>2 DEF MessageAgreed, CCS
<1> HIDE DEF fin
<1>7. Tells("server", t \o <<CCS, fin>>)
  BY <1>2, <1>5, <1>6, ElemsOfTuples, ElemsOfConcat DEF Tells
<1>8. DOMAIN h2 = Fields /\ Kin(h2, h)
  BY <1>3, HashedFields DEF Fields, Kin
<1> QED  BY <1>1, <1>7, <1>8

LEMMA ReadClientCertificateAgreed ==
  IInv /\ NegotiationInv /\ ReadClientCertificate => NegotiationInv'
<1> SUFFICES ASSUME IInv, NegotiationInv, ReadClientCertificate  PROVE NegotiationInv'
  OBVIOUS
<1>1. chan["client"] # <<>> /\ pc["server"] = "clientCertificate" /\ UNCHANGED masters
  BY ReadsSomething DEF ReadClientCertificate, Peer
<1>2. PICK h : h = hs["server"]
  OBVIOUS
<1>3. PICK m : m = Message("server")
  OBVIOUS
<1>4. PICK h1 : h1 = Hashed([h EXCEPT !.peer = m.cert], <<m>>)
  OBVIOUS
<1>5. DOMAIN h = Fields
  BY <1>2 DEF IInv, Shapes, Sides
<1>6. DOMAIN h1 = Fields /\ Kin(h1, h)
  BY <1>5, <1>4, HashedFields DEF Fields, Kin
<1>7. \/ \E why : Fails("server", h, <<>>, why)
      \/ Continues("server", h1, "clientKeyExchange", <<>>)
  BY <1>2, <1>3, <1>4 DEF ReadClientCertificate
<1>8. CASE \E why : Fails("server", h, <<>>, why)
  BY <1>1, <1>5, <1>8, TellsNothing, FailAgreed DEF Peer, Sides
<1>9. CASE Continues("server", h1, "clientKeyExchange", <<>>)
  BY <1>1, <1>2, <1>6, <1>9, GoesOn DEF Continues, Peer, Sides
<1> QED  BY <1>7, <1>8, <1>9

\* A full handshake concluded by the server: the new master secret is of its suite.
LEMMA ConcludedAgreed ==
  ASSUME IInv, NegotiationInv, NEW h, DOMAIN h = Fields, Kin(h, hs["server"]),
         pc["server"] \in {"clientKeyExchange", "certificateVerify"}, chan["client"] # <<>>,
         Establishes("server", h, "clientCCS", <<>>),
         NEW g, g.suite = h.suite, masters' = masters \cup {Master(g)}
  PROVE  NegotiationInv'
<1>1. ServerAgreed("clientCCS", h) /\ h.suite # "ecdhe_sm2"
  BY DEF NegotiationInv, ServerAgreed, Kin, Picked
<1>2. SideAgreed("server", "clientCCS", h)
  BY <1>1 DEF SideAgreed
<1>3. Master(g).suite = g.suite
  BY DEF Master
<1>4. \A m \in masters' : m.suite # "ecdhe_sm2"
  BY <1>1, <1>3 DEF NegotiationInv
<1> QED  BY <1>2, <1>4, TellsNothing, AgreedStep DEF Establishes, Peer, Sides

LEMMA ReadClientKeyExchangeAgreed ==
  IInv /\ NegotiationInv /\ ReadClientKeyExchange => NegotiationInv'
<1> SUFFICES ASSUME IInv, NegotiationInv, ReadClientKeyExchange  PROVE NegotiationInv'
  OBVIOUS
<1>1. chan["client"] # <<>> /\ pc["server"] = "clientKeyExchange"
  BY ReadsSomething, PointsOf DEF ReadClientKeyExchange, Peer
<1>2. PICK h : h = hs["server"]
  OBVIOUS
<1>3. PICK m : m = Message("server")
  OBVIOUS
<1>4. PICK h1 : h1 = Hashed([h EXCEPT !.master = MasterSecret(m.pre)], <<m>>)
  OBVIOUS
<1>5. DOMAIN h = Fields
  BY <1>2 DEF IInv, Shapes, Sides
<1>6. DOMAIN h1 = Fields /\ Kin(h1, h)
  BY <1>5, <1>4, HashedFields DEF Fields, Kin
<1>7. CASE Establishes("server", Discarded(h1), "clientCCS", <<>>)
           /\ masters' = masters \cup {Master(h1)}
  BY <1>6, DiscardedFields, <1>1, <1>2, <1>7, ConcludedAgreed DEF Fields, Kin
<1>8. CASE Continues("server", h1, "certificateVerify", <<>>) /\ UNCHANGED masters
  BY <1>1, <1>2, <1>6, <1>8, GoesOn DEF Continues, Peer, Sides
<1> QED  BY <1>2, <1>3, <1>4, <1>7, <1>8 DEF ReadClientKeyExchange

LEMMA ReadCertificateVerifyAgreed ==
  IInv /\ NegotiationInv /\ ReadCertificateVerify => NegotiationInv'
<1> SUFFICES ASSUME IInv, NegotiationInv, ReadCertificateVerify  PROVE NegotiationInv'
  OBVIOUS
<1>1. chan["client"] # <<>> /\ pc["server"] = "certificateVerify"
  BY ReadsSomething, PointsOf DEF ReadCertificateVerify, Peer
<1>2. PICK h : h = hs["server"]
  OBVIOUS
<1>3. PICK m : m = Message("server")
  OBVIOUS
<1>4. PICK h1 : h1 = Discarded(Hashed(h, <<m>>))
  OBVIOUS
<1>5. DOMAIN h = Fields
  BY <1>2 DEF IInv, Shapes, Sides
<1>6. DOMAIN h1 = Fields /\ Kin(h1, h)
  BY <1>4, <1>5, HashedFields, DiscardedFields DEF Fields, Kin
<1>7. \/ \E why : Fails("server", h, <<>>, why) /\ UNCHANGED masters
      \/ Establishes("server", h1, "clientCCS", <<>>) /\ masters' = masters \cup {Master(h)}
  BY <1>2, <1>3, <1>4 DEF ReadCertificateVerify
<1>8. CASE \E why : Fails("server", h, <<>>, why) /\ UNCHANGED masters
  BY <1>1, <1>5, <1>8, TellsNothing, FailAgreed DEF Peer, Sides
<1>9. CASE Establishes("server", h1, "clientCCS", <<>>) /\ masters' = masters \cup {Master(h)}
  <2>1. h.suite = h1.suite
    BY <1>6 DEF Kin
  <2> QED  BY <1>1, <1>2, <1>6, <1>9, <2>1, ConcludedAgreed
<1> QED  BY <1>7, <1>8, <1>9

LEMMA ReadClientCCSAgreed == IInv /\ NegotiationInv /\ ReadClientCCS => NegotiationInv'
BY ReadsSomething, PointsOf, GoesOn DEF ReadClientCCS, Peer, IInv, Shapes, Sides, Kin, Continues

LEMMA ReadClientFinishedAgreed == IInv /\ NegotiationInv /\ ReadClientFinished => NegotiationInv'
<1> SUFFICES ASSUME IInv, NegotiationInv, ReadClientFinished  PROVE NegotiationInv'
  OBVIOUS
<1>1. chan["client"] # <<>> /\ pc["server"] \in {"clientFinished", "serverFinished"}
      /\ UNCHANGED masters /\ Message("server").type = "finished"
  BY ReadsSomething, PointsOf DEF ReadClientFinished, Peer
<1>2. PICK h : h = hs["server"]
  OBVIOUS
<1>3. PICK m : m = Message("server")
  OBVIOUS
<1>4. config.client.min <= m.verify[2]
  BY <1>1, <1>3, ArrivedAgreed DEF MessageAgreed, Sides, Peer
<1>5. DOMAIN h = Fields /\ Picked(h.vers, h.suite) /\ h.proto = Favourite
  BY <1>1, <1>2 DEF IInv, Shapes, Sides, NegotiationInv, ServerAgreed
<1>6. PICK h1 : h1 = Hashed(h, <<m>>)
  OBVIOUS
<1>7. DOMAIN h1 = Fields /\ Kin(h1, h)
  BY <1>5, <1>6, HashedFields DEF Fields, Kin
<1>8. PICK h2 : h2 = ServerEnd(h1).hs
  OBVIOUS
<1>9. PICK msgs : msgs = ServerEnd(h1).msgs
  OBVIOUS
<1>10. Picked(h1.vers, h1.suite)
  BY <1>5, <1>7 DEF Kin
<1>11. DOMAIN h2 = Fields /\ Tells("server", msgs) /\ Kin(h2, h1)
  BY <1>7, <1>8, <1>9, <1>10, ServerEndAgreed
<1> DEFINE checks == << <<m.verify # VerifyData("client", h), "handshake_failure">> >>
<1>12. CASE FirstOf(checks) # None
  BY <1>2, <1>3, <1>12, <1>1, <1>5, TellsNothing, FailAgreed DEF ReadClientFinished, Peer, Sides
<1>13. CASE FirstOf(checks) = None
  <2>1. m.verify = VerifyData("client", h)
    BY <1>13, NoneAssumption, OneTest DEF NoneAssumption, Alerts
  <2>2. config.client.min <= h.vers
    <3>1. m.verify[2] = h.vers
      BY <2>1 DEF VerifyData
    <3> QED  BY <1>4, <3>1
  <2>3. \/ Continues("server", h1, "complete", <<>>)
        \/ Continues("server", h2, "complete", msgs)
    BY <1>2, <1>3, <1>6, <1>8, <1>9, <1>13 DEF ReadClientFinished
  <2>4. SideAgreed("server", "complete", h1) /\ SideAgreed("server", "complete", h2)
    BY <1>5, <1>7, <1>11, <2>2 DEF SideAgreed, ServerAgreed, Kin
  <2>5. CASE Continues("server", h1, "complete", <<>>)
    BY <1>1, <1>7, <2>4, <2>5, TellsNothing, AgreedStep DEF Continues, NegotiationInv, Peer, Sides
  <2>6. CASE Continues("server", h2, "complete", msgs)
    BY <1>1, <1>11, <2>4, <2>6, AgreedStep DEF Continues, NegotiationInv, Peer, Sides
  <2> QED  BY <2>3, <2>5, <2>6
<1> QED  BY <1>12, <1>13

\* doFullHandshake.
LEMMA OffersAgreed ==
  ASSUME IInv, NegotiationInv, pc["server"] = "clientHello", chan["client"] # <<>>, UNCHANGED masters,
         NEW h, DOMAIN h = Fields, h.vers # None, h.proto = Favourite,
         h.vers = MutualVersion(config.server, config.client.max),
         NEW hello, DOMAIN hello = {"type", "vers", "suite", "proto", "tickets", "staple", "sessionId"},
         hello.type = "serverHello", hello.vers = h.vers, hello.proto = h.proto,
         NEW m, NEW suite, suite \in Elems(config.client.suites) \cap Elems(config.server.suites),
         NEW curve, Acceptable(suite, config.server.cert.alg, curve # None, h.vers),
         Offers(h, hello, m, suite, curve)
  PROVE  NegotiationInv'
<1> DEFINE sc == config.server
           full == [hello EXCEPT !.suite = suite, !.tickets = m.tickets /\ sc.tickets,
                                 !.staple = sc.staple]
           a == SKXAlgorithm(suite, h.vers, m.sigs, sc.cert.alg)
           unsigned == SigType[suite] # None /\ (a = None \/ curve = None)
           skx == IF SigType[suite] = None \/ unsigned THEN <<>>
                  ELSE <<[type |-> "serverKeyExchange", curve |-> curve, alg |-> a,
                          signature |-> <<sc.cert, SKXDigest(a, curve)>>]>>
           flight == ServerFlight(sc, full, skx)
           g == [h EXCEPT !.suite = suite, !.serverHello = full]
           h1 == NewHash(g)
           h1b == [h1 EXCEPT !.buffer = @ /\ sc.auth # 0]
           h2 == Hashed(h1b, <<m>> \o flight)
           why == FirstOf(<< <<NilMD5(h.vers, suite), "nil MD5">>,
                             <<unsigned, "handshake_failure">> >>)
           some == SubSeq(flight, 1, IF full.staple THEN 3 ELSE 2)
           l == IF sc.auth = 0 THEN "clientKeyExchange" ELSE "clientCertificate"
<1>1. \/ why # None /\ Fails("server", h1, some, why)
      \/ why = None /\ Continues("server", h2, l, flight)
  BY DEF Offers
<1>2. full.type = "serverHello" /\ full.vers = h.vers /\ full.proto = h.proto
  OBVIOUS
<1>3. IsSequence(skx) /\ \A x \in Elems(skx) : x.type = "serverKeyExchange"
  <2>1. PICK x : x = [type |-> "serverKeyExchange", curve |-> curve, alg |-> a,
                      signature |-> <<sc.cert, SKXDigest(a, curve)>>]
    OBVIOUS
  <2>2. x.type = "serverKeyExchange" /\ (skx = <<>> \/ skx = <<x>>)
    BY <2>1
  <2> HIDE DEF skx
  <2> QED  BY <2>2, ElemsOfTuples
<1>4. ASSUME why = None  PROVE ~unsigned
  <2>1. PICK p \in BOOLEAN : p <=> NilMD5(h.vers, suite)
    BY DEF NilMD5
  <2>2. PICK q \in BOOLEAN : q <=> unsigned
    OBVIOUS
  <2>3. FirstOf(<< <<p, "nil MD5">>, <<q, "handshake_failure">> >>) = None
    <3> HIDE DEF unsigned
    <3> QED  BY <1>4, <2>1, <2>2 DEF NilMD5
  <2>4. "nil MD5" # None /\ "handshake_failure" # None
    BY NoneAssumption DEF NoneAssumption, Alerts, Silent, Panics
  <2>5. ~q
    BY <2>3, <2>4, TwoTests
  <2> QED  BY <2>2, <2>5
<1>5. suite \in Suites
  BY ConfigTypes, SequenceOf
<1>6. ASSUME ~unsigned  PROVE Picked(h.vers, suite)
  BY <1>5, SuiteFits, Unsignable, NoneAssumption, <1>6 DEF NoneAssumption, SignatureTypes, SigType, Picked
<1> HIDE DEF skx, why, unsigned
<1>7. DOMAIN g = Fields /\ g.vers = h.vers /\ g.proto = h.proto /\ g.suite = suite
  <2> HIDE DEF full
  <2> QED  BY DEF Fields
<1> HIDE DEF full
<1>8. /\ IsSequence(flight)
      /\ \A x \in Elems(flight) :
           x = full \/ x.type \notin {"clientHello", "serverHello", "finished"}
      /\ Len(flight) >= IF full.staple THEN 3 ELSE 2
  BY <1>2, <1>3, ServerFlightGood
<1> HIDE DEF flight, g
<1>9. MessageAgreed("server", full)
  BY <1>2 DEF MessageAgreed
<1>10. \A x \in Elems(flight) : MessageAgreed("server", x)
  BY <1>8, <1>9 DEF MessageAgreed
<1>11. DOMAIN h1 = Fields /\ Kin(h1, g)
  BY <1>7, NewHashFields DEF Fields, Kin
<1> HIDE DEF h1
<1>12. DOMAIN h2 = Fields /\ Kin(h2, g)
  <2>1. DOMAIN h1b = Fields /\ Kin(h1b, g)
    BY <1>11 DEF Fields, Kin
  <2> HIDE DEF h1b
  <2> QED  BY <2>1, HashedFields DEF Fields, Kin
<1> HIDE DEF h2
<1>13. CASE Fails("server", h1, some, why)
  <2>1. IsSequence(some) /\ Elems(some) \subseteq Elems(flight)
    BY <1>8, ElemsOfPrefix
  <2> HIDE DEF some
  <2>2. Tells("server", some)
    BY <1>10, <2>1 DEF Tells
  <2> QED  BY <1>11, <1>13, <2>2, FailAgreed DEF Peer, Sides
<1>14. CASE why = None /\ Continues("server", h2, l, flight)
  <2>1. l \in {"clientKeyExchange", "clientCertificate"}
    OBVIOUS
  <2> HIDE DEF l
  <2>2. Picked(h2.vers, h2.suite) /\ h2.proto = Favourite
    BY <1>4, <1>6, <1>7, <1>12, <1>14 DEF Kin
  <2>3. SideAgreed("server", l, h2)
    BY <2>1, <2>2 DEF SideAgreed, ServerAgreed
  <2>4. Tells("server", flight)
    BY <1>8, <1>10 DEF Tells
  <2> QED  BY <1>12, <1>14, <2>3, <2>4, AgreedStep DEF Continues, NegotiationInv, Peer, Sides
<1> QED  BY <1>1, <1>13, <1>14

\* doResumeHandshake.
LEMMA ResumesAgreed ==
  ASSUME IInv, NegotiationInv, pc["server"] = "clientHello", chan["client"] # <<>>, UNCHANGED masters,
         NEW h, DOMAIN h = Fields, h.vers # None, h.proto = Favourite,
         h.vers = MutualVersion(config.server, config.client.max),
         NEW hello, DOMAIN hello = {"type", "vers", "suite", "proto", "tickets", "staple", "sessionId"},
         hello.type = "serverHello", hello.vers = h.vers, hello.proto = h.proto,
         NEW m, TicketGood(masters, m.ticket),
         m.ticket.suite \in Elems(config.client.suites) \cap Elems(config.server.suites),
         NEW elliptic, Acceptable(m.ticket.suite, config.server.cert.alg, elliptic, h.vers),
         Resumes(h, hello, m)
  PROVE  NegotiationInv'
<1> DEFINE t == m.ticket
           full == [hello EXCEPT !.suite = t.suite, !.sessionId = m.sessionId,
                                 !.tickets = t.key # Head(ticketKeys)]
           g == [h EXCEPT !.suite = t.suite, !.serverHello = full, !.resume = TRUE]
           g1 == NewHash(g)
           g2 == Discarded(g1)
           h1 == Hashed(g2, <<m, full>>)
           h2 == [h1 EXCEPT !.peer = ResumedCert(t), !.master = t.master]
           end == ServerEnd(h2)
           flight == <<full>> \o end.msgs
<1>1. \/ Establishes("server", end.hs, "clientCCS", flight)
      \/ Fails("server", h1, <<full>>, "bad_certificate")
  BY DEF Resumes
<1>2. full.type = "serverHello" /\ full.vers = h.vers /\ full.proto = h.proto
  OBVIOUS
<1> HIDE DEF full
<1>3. Picked(h.vers, t.suite)
  BY ConfigTypes, SequenceOf, SuiteFits DEF TicketGood, NegotiationInv, Picked
<1>4. DOMAIN g = Fields /\ g.suite = t.suite /\ g.vers = h.vers /\ g.proto = h.proto
  BY DEF Fields
<1> HIDE DEF g
<1>5. DOMAIN g1 = Fields /\ Kin(g1, g)
  BY <1>4, NewHashFields DEF Fields, Kin
<1> HIDE DEF g1
<1>6. DOMAIN g2 = Fields /\ Kin(g2, g)
  BY <1>5, DiscardedFields DEF Fields, Kin
<1> HIDE DEF g2
<1>7. DOMAIN h1 = Fields /\ Kin(h1, g)
  BY <1>6, HashedFields DEF Fields, Kin
<1> HIDE DEF h1
<1>8. DOMAIN h2 = Fields /\ Kin(h2, g)
  BY <1>7 DEF Fields, Kin
<1> HIDE DEF h2
<1>9. IsSequence(<<full>>) /\ \A x \in Elems(<<full>>) : MessageAgreed("server", x)
  BY <1>2, ElemsOfTuples DEF MessageAgreed
<1>10. CASE Fails("server", h1, <<full>>, "bad_certificate")
  <2>1. Tells("server", <<full>>)
    BY <1>9 DEF Tells
  <2> QED  BY <1>7, <1>10, <2>1, FailAgreed DEF Peer, Sides
<1>11. CASE Establishes("server", end.hs, "clientCCS", flight)
  <2>1. Picked(h2.vers, h2.suite) /\ h2.proto = Favourite
    BY <1>3, <1>4, <1>8 DEF Kin
  <2>2. Tells("server", end.msgs) /\ DOMAIN end.hs = Fields /\ Kin(end.hs, h2)
    BY <1>8, <2>1, ServerEndAgreed
  <2>3. PICK h3 : h3 = end.hs
    OBVIOUS
  <2> HIDE DEF end
  <2>4. DOMAIN h3 = Fields /\ SideAgreed("server", "clientCCS", h3)
    BY <2>1, <2>2, <2>3 DEF Kin, SideAgreed, ServerAgreed
  <2>5. Tells("server", flight)
    BY <1>9, <2>2, ElemsOfConcat DEF Tells
  <2> HIDE DEF flight
  <2> QED  BY <1>11, <2>3, <2>4, <2>5, AgreedStep DEF Establishes, NegotiationInv, Peer, Sides
<1> QED  BY <1>1, <1>10, <1>11

LEMMA ReadClientHelloAgreed == IInv /\ NegotiationInv /\ ReadClientHello => NegotiationInv'
<1> SUFFICES ASSUME IInv, NegotiationInv, ReadClientHello  PROVE NegotiationInv'
  OBVIOUS
<1> DEFINE sc == config.server
           m == Message("server")
           vers == MutualVersion(sc, m.vers)
           alg == IF sc.cert = None THEN None ELSE sc.cert.alg
           curve == ChooseCurve(sc, m.curves)
           proto == MutualProtocol(m.protos, sc.protos)
           resume == Resumable(sc, m, vers, alg, curve)
           suite == ChooseSuite(sc, m.suites, alg, curve # None, vers)
           h == [NoState EXCEPT !.hello = m, !.vers = vers, !.proto = proto]
           hello == [type |-> "serverHello", vers |-> vers, suite |-> None, proto |-> proto,
                     tickets |-> FALSE, staple |-> FALSE, sessionId |-> None]
           why == FirstOf(<<
             <<vers = None, "protocol_version">>,
             <<sc.cert = None, "internal_error">>,
             <<~resume /\ suite = None, "handshake_failure">> >>)
<1>1. /\ chan["client"] # <<>> /\ pc["server"] = "clientHello" /\ UNCHANGED masters
      /\ m.type = "clientHello"
  BY ReadsSomething, PointsOf DEF ReadClientHello, Peer
<1>2. \/ Fails("server", h, <<>>, why)
      \/ why = None /\ resume /\ Resumes(h, hello, m)
      \/ why = None /\ ~resume /\ Offers(h, hello, m, suite, curve)
  BY DEF ReadClientHello
<1>3. DOMAIN h = Fields /\ h.vers = vers /\ h.proto = proto
  <2> HIDE DEF m, vers, proto
  <2> QED  BY DEF NoState, Fields
<1>4. DOMAIN hello = {"type", "vers", "suite", "proto", "tickets", "staple", "sessionId"}
      /\ hello.type = "serverHello" /\ hello.vers = vers /\ hello.proto = proto
  OBVIOUS
<1>5. m.ticket # None => TicketGood(masters, m.ticket)
  BY <1>1, ArrivedGood DEF IInv, MessageGood, Sides, Peer
<1>6. /\ m.vers = config.client.max /\ m.suites = Advertised(config.client)
      /\ m.protos = config.client.protos
  BY <1>1, ArrivedAgreed DEF MessageAgreed, Sides, Peer
<1>7. vers = MutualVersion(config.server, config.client.max) /\ proto = Favourite
  BY <1>6 DEF MutualProtocol, Favourite
<1>8. Elems(m.suites) \subseteq Elems(config.client.suites) /\ DOMAIN m.suites \in SUBSET Nat
  BY ConfigTypes, <1>6, KeptOnly DEF Advertised
<1>9. ASSUME why = None  PROVE vers # None /\ sc.cert # None /\ ~(~resume /\ suite = None)
  <2> HIDE DEF vers, resume, suite, sc
  <2>1. PICK p1 \in BOOLEAN : p1 <=> vers = None
    OBVIOUS
  <2>2. PICK p2 \in BOOLEAN : p2 <=> sc.cert = None
    OBVIOUS
  <2>3. PICK p3 \in BOOLEAN : p3 <=> (~resume /\ suite = None)
    OBVIOUS
  <2>4. PICK a \in Alerts, b \in Alerts, d \in Alerts :
          a = "protocol_version" /\ b = "internal_error" /\ d = "handshake_failure"
    BY DEF Alerts
  <2>5. PICK checks : checks = << <<p1, a>>, <<p2, b>>, <<p3, d>> >>
    OBVIOUS
  <2>6. FirstOf(checks) = None
    BY <1>9, <2>1, <2>2, <2>3, <2>4, <2>5
  <2>7. /\ DOMAIN checks = 1..3
        /\ checks[1] = <<p1, a>> /\ checks[2] = <<p2, b>> /\ checks[3] = <<p3, d>>
    BY <2>5
  <2>8. \A i \in 1..3 : checks[i][2] \in Alerts
    BY <2>4, <2>7
  <2>9. \A i \in 1..3 : ~checks[i][1]
    BY <2>6, <2>7, <2>8, NoneAssumption, FirstOfNone DEF NoneAssumption
  <2> QED  BY <2>1, <2>2, <2>3, <2>7, <2>9
<1> HIDE DEF h, hello, why, m, curve
<1>10. CASE Fails("server", h, <<>>, why)
  BY <1>1, <1>3, <1>10, TellsNothing, FailAgreed DEF Peer, Sides
<1>11. CASE why = None /\ resume /\ Resumes(h, hello, m)
  <2>1. /\ m.ticket # None /\ m.ticket.vers = vers
        /\ m.ticket.suite \in Elems(m.suites) \cap Elems(sc.suites)
        /\ Acceptable(m.ticket.suite, alg, curve # None, vers)
    BY <1>11 DEF Resumable
  <2>2. alg = config.server.cert.alg
    BY <1>9, <1>11
  <2> HIDE DEF vers, alg, proto
  <2> QED  BY <1>1, <1>3, <1>4, <1>5, <1>7, <1>8, <1>9, <1>11, <2>1, <2>2, ResumesAgreed
<1>12. CASE why = None /\ ~resume /\ Offers(h, hello, m, suite, curve)
  <2>1. alg = config.server.cert.alg
    BY <1>9, <1>12
  <2>2. suite # None
    BY <1>9, <1>12
  <2>3. sc.suites \in Seq(Suites)
    BY ConfigTypes
  <2>4. PICK x : x = suite
    OBVIOUS
  <2>5. x \in Elems(sc.suites) \cap Elems(m.suites) /\ Acceptable(x, alg, curve # None, vers)
    BY <1>8, <2>2, <2>3, <2>4, SuiteChosen
  <2> HIDE DEF vers, alg, proto, suite
  <2> QED  BY <1>1, <1>3, <1>4, <1>7, <1>8, <1>9, <1>12, <2>1, <2>4, <2>5, OffersAgreed
<1> QED  BY <1>2, <1>10, <1>11, <1>12

-----------------------------------------------------------------------------
(* Failures, connections, time; the theorem.                               *)

LEMMA RefuseRecordAgreed ==
  ASSUME IInv, NegotiationInv, NEW s \in Sides, RefuseRecord(s)  PROVE NegotiationInv'
BY TellsNothing, FailAgreed DEF RefuseRecord, IInv, Shapes

LEMMA ReadAlertAgreed ==
  ASSUME IInv, NegotiationInv, NEW s \in Sides, ReadAlert(s)  PROVE NegotiationInv'
BY TellsNothing, AgreedStep DEF ReadAlert, Continues, IInv, Shapes, SideAgreed, NegotiationInv, ClientAgreed,
   ServerAgreed

LEMMA BreaksAgreed ==
  ASSUME IInv, NegotiationInv, NEW s \in Sides, Breaks(s)  PROVE NegotiationInv'
BY DEF Breaks, IInv, Shapes, NegotiationInv, ClientAgreed, Picked, Favourite, Sides, ServerAgreed, MessageAgreed

LEMMA BeginAgreed ==
  ASSUME pc = [client |-> "start", server |-> "clientHello"], chan = [s \in Sides |-> <<>>],
         conn \in DOMAIN Configs, config \in Configs[conn],
         \A m \in masters : m.suite # "ecdhe_sm2"
  PROVE  NegotiationInv
BY ElemsOfTuples DEF ClientAgreed, ServerAgreed, NegotiationInv

LEMMA InitAgreed == Init => NegotiationInv
BY HandshakeAssumption, BeginAgreed DEF HandshakeAssumption, Init

LEMMA ReconnectAgreed == IInv /\ NegotiationInv /\ Reconnect => NegotiationInv'
BY HandshakeAssumption, ElemsOfTuples DEF Reconnect, Begin, HandshakeAssumption, NegotiationInv, ClientAgreed,
   ServerAgreed

LEMMA NextAgreed == IInv /\ NegotiationInv /\ [Next]_vars => NegotiationInv'
<1> SUFFICES ASSUME IInv, NegotiationInv, [Next]_vars  PROVE NegotiationInv'
  OBVIOUS
<1>1. CASE Client
  BY <1>1, SendClientHelloAgreed, ReadServerHelloAgreed, ReadServerCertificateAgreed,
     ReadCertificateStatusAgreed, ReadServerKeyExchangeAgreed, ReadCertificateRequestAgreed,
     ReadServerHelloDoneAgreed, ReadNewSessionTicketAgreed, ReadServerCCSAgreed,
     ReadServerFinishedAgreed
  DEF Client
<1>2. CASE Server
  BY <1>2, ReadClientHelloAgreed, ReadClientCertificateAgreed, ReadClientKeyExchangeAgreed,
     ReadCertificateVerifyAgreed, ReadClientCCSAgreed, ReadClientFinishedAgreed
  DEF Server
<1>3. CASE \E s \in Sides : RefuseRecord(s)
  BY <1>3, RefuseRecordAgreed
<1>4. CASE \E s \in Sides : ReadAlert(s)
  BY <1>4, ReadAlertAgreed
<1>5. CASE \E s \in Sides : ReadEOF(s) \/ NetFails(s)
  BY <1>5, BreaksAgreed DEF ReadEOF, NetFails
<1>6. CASE RotateTicketKeys \/ Done \/ UNCHANGED vars
  BY <1>6 DEF RotateTicketKeys, Done, vars, NegotiationInv, ClientAgreed, ServerAgreed, MessageAgreed, Picked,
     Favourite
<1>7. CASE Reconnect
  BY <1>7, ReconnectAgreed
<1> QED  BY <1>1, <1>2, <1>3, <1>4, <1>5, <1>6, <1>7 DEF Next, Reads

\* What either side has when it is complete is what the configs call for: the highest
\* version that both have, a suite of both that fits it and the server's key, and the
\* server's favourite protocol, in resumed handshakes too.  The server's Config must
\* not contradict itself: mutualVersion gives one whose minimum is above its maximum
\* the maximum, and so a version below its minimum.
THEOREM NegotiationIsBest ==
  ASSUME \A i \in DOMAIN Configs : \A p \in Configs[i] : p.server.min <= p.server.max
  PROVE  Spec => []NegotiatedBest
<1>1. IInv /\ NegotiationInv => NegotiatedBest
  <2> SUFFICES ASSUME NegotiationInv, NEW s \in Sides, pc[s] = "complete", NEW h, h = hs[s]
               PROVE
    /\ h.vers = IF config.client.max < config.server.max THEN config.client.max ELSE config.server.max
    /\ h.vers \in (config.client.min..config.client.max) \cap (config.server.min..config.server.max)
    /\ h.suite \in Elems(config.client.suites) \cap Elems(config.server.suites)
    /\ "TLS12" \in Flags[h.suite] => h.vers = TLS12
    /\ (SigType[h.suite] = None \/ SigType[h.suite] = config.server.cert.alg)
    /\ h.proto = First(config.server.protos, Elems(config.client.protos))
    BY DEF NegotiatedBest
  <2>1. Picked(h.vers, h.suite) /\ config.client.min <= h.vers /\ h.proto = Favourite
    BY DEF NegotiationInv, ClientAgreed, ServerAgreed, Sides
  <2>2. h.vers # None /\ h.vers = MutualVersion(config.server, config.client.max)
    BY <2>1 DEF Picked
  <2>3. PICK a, b, i, j : /\ a = config.client.max /\ b = config.server.max
                          /\ i = config.client.min /\ j = config.server.min
    OBVIOUS
  <2>4. a \in 1..3 /\ b \in 1..3 /\ i \in Nat /\ j \in Nat
    BY <2>3, ConfigTypes DEF TLS10, TLS12
  <2>5. j <= b
    BY <2>3 DEF NegotiationInv
  <2>6. ~(a < j) /\ h.vers = IF a > b THEN b ELSE a
    BY <2>2, <2>3 DEF MutualVersion
  <2>7. h.vers = IF a < b THEN a ELSE b
    BY <2>4, <2>6
  <2>8. h.vers \in (i..a) \cap (j..b)
    <3>1. i <= h.vers
      BY <2>1, <2>3
    <3> QED  BY <3>1, <2>4, <2>5, <2>6
  <2> QED  BY <2>1, <2>3, <2>7, <2>8 DEF Picked, Favourite
<1>2. Spec => [](IInv /\ NegotiationInv)
  BY InitIInv, NextIInv, InitAgreed, NextAgreed, PTL DEF Spec
<1> QED  BY <1>1, <1>2, PTL

-----------------------------------------------------------------------------
(* What both ends agree on.                                                *)

\* The messages of a channel.
Msgs(q) == {r.msg : r \in Elems(q)}

\* The client is past its flight, or has nothing to send but its Finished.
ClientEnding == {"newSessionTicket", "serverCCS", "serverFinished"}

\* The client waits for a message of the server's flight.
ClientEarly == {"serverCertificate", "certificateStatus", "serverKeyExchange", "certificateRequest",
                "serverHelloDone"}

\* The server, at l with state v, has sent its Finished.
ServerSpent(l, v) == l = "complete" \/ (v.resume /\ Len(v.transcript) > 2)

\* t begins with p.
Begins(t, p) == Len(p) <= Len(t) /\ \A i \in 1..Len(p) : t[i] = p[i]

\* Transcript t ends with the server's ServerHelloDone, its first; or tells, after that, which
\* certificate the client has shown.
NotDone(t) == \A i \in DOMAIN t : t[i].type # "serverHelloDone"
Asked(t) ==
  /\ t # <<>> /\ t[Len(t)].type = "serverHelloDone"
  /\ \A i \in 1..(Len(t) - 1) : t[i].type # "serverHelloDone"
Shows(t, cert) == \E i \in DOMAIN t :
  /\ i + 1 \in DOMAIN t /\ t[i].type = "serverHelloDone" /\ \A j \in 1..(i - 1) : t[j].type # "serverHelloDone"
  /\ cert = IF t[i + 1].type = "certificate" THEN t[i + 1].cert ELSE None

\* The secrets of two states.
SameSecrets(h, g) == h.vers = g.vers /\ h.suite = g.suite /\ h.master = g.master

\* In what follows the client is at lc with state c, the server at lv with state v, and Mc and Mv are
\* the messages of each that the other has not read.

\* The hellos.
Offer(c) ==
  /\ c.hello.type = "clientHello"
  /\ c.hello.sessionId = IF c.session = None THEN None ELSE conn
Spoke(c, v) ==
  /\ v.hello = c.hello /\ v.proto = v.serverHello.proto
  /\ v.serverHello.sessionId = IF v.resume THEN conn ELSE None
  /\ v.resume \in BOOLEAN /\ (v.resume => c.hello.sessionId = conn)
HelloInv(lc, c, lv, v, Mc, Mv) ==
  /\ lc = "start" => Mc = {} /\ lv \in {"clientHello", "failed"}
  /\ lc \in {"start", "serverHello"} => c.transcript = <<>>
  /\ lc = "serverHello" => Offer(c)
  /\ \A m \in Mc : m.type = "clientHello" => m = c.hello /\ (m.ticket # None => m.sessionId = conn)
  /\ lv = "clientHello" \/ lc = "start" =>
       lc \in {"start", "serverHello", "failed"} /\ Mv = {} /\ c.transcript = <<>> /\ v.transcript = <<>>
  /\ lv \notin {"clientHello", "failed"} => Spoke(c, v)
  /\ \A m \in Mv : m.type = "serverHello" => m = v.serverHello /\ Spoke(c, v)
  /\ lc \notin {"start", "serverHello", "failed"} => c.transcript # <<>>
  /\ c.transcript # <<>> => c.resume = v.resume /\ c.proto = v.proto /\ c.serverHello = v.serverHello

\* The transcripts, and the certificates they tell of.
FlightInv(lc, c, lv, v, Mv) ==
  /\ lc \in ClientEarly => NotDone(c.transcript)
  /\ lc \in ClientEarly \cup {"serverHello"} /\ c.certReq = None => c.own = None
  /\ \A m \in Mv : m.type = "certificateRequest" => m # None
  /\ lv = "clientCertificate" => Asked(v.transcript)
  /\ lv = "clientKeyExchange" => (Asked(v.transcript) /\ v.peer = None) \/ Shows(v.transcript, v.peer)
  /\ lv = "certificateVerify" \/ (lv \in {"clientCCS", "clientFinished"} /\ ~v.resume) =>
       Shows(v.transcript, v.peer)
  /\ lv \in {"clientCCS", "clientFinished"} /\ v.resume => Len(v.transcript) > 2
  /\ v.resume /\ Len(v.transcript) > 2 /\ lv # "complete" =>
       /\ v.transcript[1] = v.hello /\ v.transcript[2] = v.serverHello
       /\ Len(v.transcript) = IF v.serverHello.tickets THEN 4 ELSE 3

\* The Finished messages.
FinishedInv(lc, c, lv, v, Mc, Mv) ==
  /\ \A m \in Mv : m.type \in {"newSessionTicket", "ccs", "finished"} => ServerSpent(lv, v)
  /\ \A m \in Mv : m.type = "finished" =>
       m.verify[2] = v.vers /\ m.verify[3] = v.suite /\ m.verify[4] = v.master
  /\ \A m \in Mc : m.type = "finished" =>
       /\ lc \in ClientEnding \cup {"complete", "failed"} /\ (c.resume => lc = "complete")
       /\ c.transcript # <<>> /\ IsSequence(m.verify[5])
       /\ m.verify[2] = c.vers /\ m.verify[3] = c.suite /\ m.verify[4] = c.master
       /\ c.transcript = m.verify[5] \o <<m>> \/ lv = "complete"
       /\ ~c.resume => Shows(m.verify[5], c.own) /\ c.peer = config.server.cert

\* How far behind the server's transcript the client's is.
DistanceInv(lc, c, lv, v, Mv) ==
  LET t == v.transcript  n == Len(t) IN
  /\ lc \in ClientEnding /\ ~ServerSpent(lv, v) =>
       lc = IF c.serverHello.tickets THEN "newSessionTicket" ELSE "serverCCS"
  /\ ServerSpent(lv, v) /\ lc # "complete" =>
       /\ Begins(t, c.transcript)
       /\ lc = "newSessionTicket" => Len(c.transcript) = n - 2
       /\ lc \in {"serverCCS", "serverFinished"} => Len(c.transcript) = n - 1
       /\ \A m \in Mv : /\ m.type = "newSessionTicket" => m = t[n - 1]
                        /\ m.type = "finished" => m = t[n]

\* Once one of them is complete.
EndInv(lc, c, lv, v) ==
  /\ lv = "complete" =>
       /\ lc \in ClientEnding \cup {"complete", "failed"} /\ c.transcript # <<>> /\ SameSecrets(c, v)
       /\ v.resume => lc = "complete"
       /\ ~v.resume => c.peer = config.server.cert /\ v.peer = c.own
  /\ lc = "complete" =>
       /\ ServerSpent(lv, v) /\ SameSecrets(c, v) /\ (c.resume \/ lv = "complete")
       /\ IF c.resume THEN Begins(c.transcript, v.transcript) ELSE Begins(v.transcript, c.transcript)

\* The keys: those prepared, then those in use.
Keyed(s, l, h, i, o) ==
  /\ l \in {"newSessionTicket", "serverCCS", "clientCCS"} => i.next = Key(Peer(s), h)
  /\ l \in {"serverFinished", "clientFinished", "complete"} => i.key = Key(Peer(s), h)
  /\ (l \in ClientEnding /\ h.resume) \/ (l \in {"clientCCS", "clientFinished"} /\ ~h.resume) =>
       o.next = Key(s, h)
  /\ (l \in ClientEnding /\ ~h.resume) \/ (l \in {"clientCCS", "clientFinished"} /\ h.resume) \/ l = "complete" =>
       o.key = Key(s, h)

AgreementInv(lc, c, lv, v, Mc, Mv) ==
  /\ IsSequence(c.transcript) /\ IsSequence(v.transcript)
  /\ HelloInv(lc, c, lv, v, Mc, Mv) /\ FlightInv(lc, c, lv, v, Mv) /\ FinishedInv(lc, c, lv, v, Mc, Mv)
  /\ DistanceInv(lc, c, lv, v, Mv) /\ EndInv(lc, c, lv, v)

AgreeInv == AgreementInv(pc["client"], hs["client"], pc["server"], hs["server"],
                         Msgs(chan["client"]), Msgs(chan["server"]))
KeyedInv ==
  /\ DOMAIN in = Sides /\ \A s \in Sides : DOMAIN in[s] = {"key", "next", "seq"}
  /\ \A s \in Sides : \A r \in Elems(chan[s]) : r.typ = Typ(r.msg)
  /\ \A s \in Sides : Keyed(s, pc[s], hs[s], in[s], out[s])

\* The master secrets are of connections of this series.
MasterInv ==
  /\ \A m \in masters : m.master \in Masters
  /\ \A m \in Msgs(chan["client"]) : m.type = "clientKeyExchange" => m.pre \in DOMAIN Configs
  /\ pc["server"] = "certificateVerify" => hs["server"].master \in Masters

-----------------------------------------------------------------------------
(* Transcripts.                                                            *)

LEMMA ConcatAt ==
  ASSUME NEW p, NEW q, IsSequence(p), IsSequence(q)
  PROVE  /\ IsSequence(p \o q) /\ DOMAIN (p \o q) = 1..Len(p \o q)
         /\ Len(p) \in Nat /\ Len(q) \in Nat /\ Len(p \o q) = Len(p) + Len(q)
         /\ \A i \in 1..Len(p) : (p \o q)[i] = p[i]
         /\ \A i \in 1..Len(q) : (p \o q)[Len(p) + i] = q[i]
<1> DEFINE S == Elems(p) \cup Elems(q)
<1>1. p \in Seq(S) /\ q \in Seq(S)
  BY SeqMonotonic DEF IsSequence
<1>2. Len(p) \in Nat /\ Len(q) \in Nat
  BY <1>1, LenProperties
<1>3. p \o q \in Seq(S) /\ Len(p \o q) = Len(p) + Len(q)
      /\ \A i \in 1..(Len(p) + Len(q)) : (p \o q)[i] = IF i <= Len(p) THEN p[i] ELSE q[i - Len(p)]
  BY <1>1, ConcatProperties
<1>4. IsSequence(p \o q) /\ DOMAIN (p \o q) = 1..Len(p \o q)
  BY <1>3, SequenceOf, LenProperties
<1>5. \A i \in 1..Len(p) : i \in 1..(Len(p) + Len(q)) /\ i <= Len(p)
  BY <1>2
<1>6. \A i \in 1..Len(q) : /\ Len(p) + i \in 1..(Len(p) + Len(q)) /\ ~(Len(p) + i <= Len(p))
                           /\ Len(p) + i - Len(p) = i
  BY <1>2
<1> QED  BY <1>2, <1>3, <1>4, <1>5, <1>6

LEMMA OneMore ==
  ASSUME NEW t, IsSequence(t), NEW m
  PROVE  /\ IsSequence(t \o <<m>>) /\ DOMAIN (t \o <<m>>) = 1..(Len(t) + 1) /\ t \o <<m>> # <<>>
         /\ Len(t) \in Nat /\ Len(t \o <<m>>) = Len(t) + 1
         /\ \A i \in 1..Len(t) : (t \o <<m>>)[i] = t[i]
         /\ (t \o <<m>>)[Len(t) + 1] = m
<1>1. IsSequence(<<m>>) /\ Len(<<m>>) = 1 /\ <<m>>[1] = m
  BY ElemsOfTuples
<1>2. 1 \in 1..1
  OBVIOUS
<1>3. /\ IsSequence(t \o <<m>>) /\ DOMAIN (t \o <<m>>) = 1..Len(t \o <<m>>)
      /\ Len(t) \in Nat /\ Len(t \o <<m>>) = Len(t) + 1
      /\ \A i \in 1..Len(t) : (t \o <<m>>)[i] = t[i]
      /\ (t \o <<m>>)[Len(t) + 1] = m
  <2> HIDE DEF IsSequence
  <2> QED  BY <1>1, <1>2, ConcatAt
<1>4. t \o <<m>> # <<>>
  BY <1>3
<1> QED  BY <1>3, <1>4

LEMMA DomainOf ==
  ASSUME NEW t, IsSequence(t)
  PROVE  DOMAIN t = 1..Len(t) /\ Len(t) \in Nat /\ (t # <<>> => Len(t) >= 1)
BY LenProperties, EmptySeq DEF IsSequence

\* What begins as t does.
LEMMA BeginsMore ==
  ASSUME NEW t, NEW p, IsSequence(t), IsSequence(p), Begins(t, p)
  PROVE  \A m : Begins(t \o <<m>>, p)
<1> SUFFICES ASSUME NEW m  PROVE Begins(t \o <<m>>, p)
  OBVIOUS
<1>1. Len(t) \in Nat /\ Len(p) \in Nat /\ Len(p) <= Len(t)
  BY DomainOf DEF Begins
<1>2. \A i \in 1..Len(p) : i \in 1..Len(t)
  BY <1>1
<1>3. Len(p) <= Len(t) + 1
  BY <1>1
<1> QED  BY <1>2, <1>3, OneMore DEF Begins

LEMMA BeginsNext ==
  ASSUME NEW t, NEW p, IsSequence(t), IsSequence(p), Begins(t, p), Len(p) + 1 <= Len(t)
  PROVE  Begins(t, p \o <<t[Len(p) + 1]>>) /\ Len(p \o <<t[Len(p) + 1]>>) = Len(p) + 1
<1>1. PICK m : m = t[Len(p) + 1]
  OBVIOUS
<1>2. PICK q : q = p \o <<m>>
  OBVIOUS
<1>3. Len(p) \in Nat /\ Len(q) = Len(p) + 1 /\ q[Len(p) + 1] = m /\ \A i \in 1..Len(p) : q[i] = p[i]
  BY <1>2, OneMore
<1>4. \A i \in 1..(Len(p) + 1) : i \in 1..Len(p) \/ i = Len(p) + 1
  BY <1>3
<1>5. \A i \in 1..Len(p) : t[i] = p[i]
  BY DEF Begins
<1>6. \A i \in 1..Len(q) : t[i] = q[i]
  BY <1>1, <1>3, <1>4, <1>5
<1> QED  BY <1>1, <1>2, <1>3, <1>6 DEF Begins

LEMMA BeginsSame == ASSUME NEW t, IsSequence(t)  PROVE Begins(t, t) /\ Begins(t, <<>>)
BY DomainOf DEF Begins

\* The same as the Prefix of the property.
LEMMA BeginsPrefix ==
  ASSUME NEW t, NEW p, IsSequence(t), IsSequence(p), Begins(t, p)
  PROVE  Prefix(p, t)
<1> DEFINE S == Elems(t) \cup Elems(p)
<1>1. t \in Seq(S) /\ p \in Seq(S)
  BY SeqMonotonic DEF IsSequence
<1>2. Len(p) \in Nat /\ Len(t) \in Nat /\ Len(p) <= Len(t)
  BY DomainOf DEF Begins
<1>3. \A i \in 1..Len(p) : i \in 1..Len(t)
  BY <1>2
<1>4. \A i \in 1..Len(p) : t[i] \in S
  BY <1>1, <1>3, ElementOfSeq
<1>5. SubSeq(t, 1, Len(p)) \in Seq(S) /\ Len(SubSeq(t, 1, Len(p))) = Len(p)
      /\ \A i \in 1..Len(p) : SubSeq(t, 1, Len(p))[i] = t[i]
  BY <1>1, <1>2, <1>4, SubSeqProperties
<1>6. SubSeq(t, 1, Len(p)) = p
  <2>1. PICK u : u = SubSeq(t, 1, Len(p))
    OBVIOUS
  <2>2. \A i \in 1..Len(u) : u[i] = p[i]
    BY <1>5, <2>1 DEF Begins
  <2>3. u \in Seq(S) /\ Len(u) = Len(p)
    BY <1>5, <2>1
  <2> HIDE DEF S
  <2> QED  BY <1>1, <2>1, <2>2, <2>3, SeqEqual
<1> QED  BY <1>2, <1>6 DEF Prefix

\* The certificate that a transcript tells of.
LEMMA NotDoneMore ==
  ASSUME NEW t, IsSequence(t), NotDone(t), NEW m
  PROVE  /\ m.type # "serverHelloDone" => NotDone(t \o <<m>>)
         /\ m.type = "serverHelloDone" => Asked(t \o <<m>>)
BY DomainOf, OneMore DEF NotDone, Asked

LEMMA ShownNext ==
  ASSUME NEW t, IsSequence(t), Asked(t), NEW m
  PROVE  Shows(t \o <<m>>, IF m.type = "certificate" THEN m.cert ELSE None)
<1>1. PICK n : n = Len(t)
  OBVIOUS
<1>2. PICK u : u = t \o <<m>>
  OBVIOUS
<1>3. PICK x : x = IF m.type = "certificate" THEN m.cert ELSE None
  OBVIOUS
<1>4. n \in Nat /\ n >= 1
  BY <1>1, DomainOf DEF Asked
<1>5. n \in 1..(n + 1) /\ n + 1 \in 1..(n + 1) /\ n \in 1..n /\ \A j \in 1..(n - 1) : j \in 1..n
  BY <1>4
<1>6. DOMAIN u = 1..(n + 1) /\ u[n + 1] = m /\ \A i \in 1..n : u[i] = t[i]
  BY <1>1, <1>2, OneMore
<1>7. u[n].type = "serverHelloDone" /\ \A j \in 1..(n - 1) : u[j].type # "serverHelloDone"
  BY <1>1, <1>5, <1>6 DEF Asked
<1>8. Shows(u, x)
  BY <1>3, <1>5, <1>6, <1>7 DEF Shows
<1> QED  BY <1>2, <1>3, <1>8

LEMMA ShowsBegins ==
  ASSUME NEW t, NEW u, IsSequence(t), IsSequence(u), Begins(u, t), NEW x, Shows(t, x)
  PROVE  Shows(u, x)
<1>1. PICK n : n = Len(t)
  OBVIOUS
<1>2. n \in Nat /\ Len(u) \in Nat /\ DOMAIN t = 1..n /\ DOMAIN u = 1..Len(u) /\ n <= Len(u)
      /\ \A i \in 1..n : u[i] = t[i]
  BY <1>1, DomainOf DEF Begins
<1>3. PICK i \in 1..n : /\ i + 1 \in 1..n /\ t[i].type = "serverHelloDone"
                        /\ \A j \in 1..(i - 1) : t[j].type # "serverHelloDone"
                        /\ x = IF t[i + 1].type = "certificate" THEN t[i + 1].cert ELSE None
  BY <1>2 DEF Shows
<1>4. i \in 1..Len(u) /\ i + 1 \in 1..Len(u) /\ \A j \in 1..(i - 1) : j \in 1..n
  BY <1>2, <1>3
<1>5. /\ u[i].type = "serverHelloDone" /\ \A j \in 1..(i - 1) : u[j].type # "serverHelloDone"
      /\ x = IF u[i + 1].type = "certificate" THEN u[i + 1].cert ELSE None
  BY <1>2, <1>3, <1>4
<1> QED  BY <1>2, <1>4, <1>5 DEF Shows

LEMMA ShowsMore ==
  ASSUME NEW t, IsSequence(t), NEW x, Shows(t, x), NEW m
  PROVE  Shows(t \o <<m>>, x)
BY OneMore, BeginsMore, BeginsSame, ShowsBegins

LEMMA ShowsOne ==
  ASSUME NEW t, IsSequence(t), NEW x, NEW y, Shows(t, x), Shows(t, y)
  PROVE  x = y
BY DomainOf DEF Shows

-----------------------------------------------------------------------------
(* Agreement, step by step.                                                *)

\* Messages that have been read say no more.
LEMMA ReadOn ==
  ASSUME NEW lc, NEW c, NEW lv, NEW v, NEW Mc, NEW Mv, AgreementInv(lc, c, lv, v, Mc, Mv),
         NEW Nc \in SUBSET Mc, NEW Nv \in SUBSET Mv
  PROVE  AgreementInv(lc, c, lv, v, Nc, Nv)
BY DEF AgreementInv, HelloInv, FlightInv, FinishedInv, DistanceInv

\* What a step does to the messages under way.
Carries(s, msgs) ==
  /\ Msgs(chan'[s]) \subseteq Msgs(chan[s]) \cup Elems(msgs)
  /\ Msgs(chan'[Peer(s)]) \subseteq Msgs(chan[Peer(s)])

LEMMA MovesMessages ==
  ASSUME IInv, NEW s \in Sides, NEW h, NEW l, NEW msgs, NEW est \in BOOLEAN, NEW e,
         DOMAIN h = Fields, Moves(s, h, l, msgs, est, e), IsSequence(msgs),
         pc[s] # "start" => chan[Peer(s)] # <<>>
  PROVE  /\ UNCHANGED <<conn, config>> /\ pc'[s] = l /\ hs'[s] = h
         /\ \A t \in Sides \ {s} : pc'[t] = pc[t] /\ hs'[t] = hs[t]
         /\ Carries(s, msgs)
<1>1. UNCHANGED <<conn, config>> /\ pc'[s] = l /\ hs'[s] = h
      /\ \A t \in Sides \ {s} : pc'[t] = pc[t] /\ hs'[t] = hs[t]
  BY MovesShapes DEF IInv
<1> DEFINE o == IF est THEN [out[s] EXCEPT !.next = Key(s, h)] ELSE out[s]
           q == Sealed(o, h.vers, msgs)
<1>2. chan'[s] = chan[s] \o q /\ chan'[Peer(s)] \in {chan[Peer(s)], Tail(chan[Peer(s)])}
      /\ (chan'[Peer(s)] # chan[Peer(s)] => chan[Peer(s)] # <<>>)
  BY DEF Moves, IInv, Shapes, Sides, Peer
<1>3. IsSequence(q) /\ \A r \in Elems(q) : r.msg \in Elems(msgs)
  BY ElemsOfSealed
<1> HIDE DEF q
<1>4. \A t \in Sides : IsSequence(chan[t])
  BY DEF IInv, SessionInv, ChannelsGood
<1>5. Elems(chan'[s]) \subseteq Elems(chan[s]) \cup Elems(q)
  BY <1>2, <1>3, <1>4, ElemsOfConcat
<1>6. Peer(s) \in Sides
  BY DEF Peer, Sides
<1>7. Elems(chan'[Peer(s)]) \subseteq Elems(chan[Peer(s)])
  BY <1>2, <1>4, <1>6, ElemsOfHeadTail
<1> QED  BY <1>1, <1>3, <1>5, <1>7 DEF Msgs, Carries

LEMMA AgreementKept ==
  ASSUME NEW lc, NEW c, NEW lv, NEW v, NEW Mc, NEW Mv, AgreementInv(lc, c, lv, v, Mc, Mv),
         UNCHANGED <<conn, config>>, pc'["client"] = lc, hs'["client"] = c, pc'["server"] = lv, hs'["server"] = v,
         Msgs(chan'["client"]) \subseteq Mc, Msgs(chan'["server"]) \subseteq Mv
  PROVE  AgreeInv'
<1>1. PICK Nc : Nc = Msgs(chan'["client"])
  OBVIOUS
<1>2. PICK Nv : Nv = Msgs(chan'["server"])
  OBVIOUS
<1>3. AgreementInv(lc, c, lv, v, Nc, Nv)
  BY <1>1, <1>2, ReadOn
<1>4. /\ HelloInv(lc, c, lv, v, Nc, Nv) <=> HelloInv(lc, c, lv, v, Nc, Nv)'
      /\ FinishedInv(lc, c, lv, v, Nc, Nv) <=> FinishedInv(lc, c, lv, v, Nc, Nv)'
      /\ EndInv(lc, c, lv, v) <=> EndInv(lc, c, lv, v)'
  BY DEF HelloInv, Spoke, Offer, FinishedInv, EndInv
<1> QED  BY <1>1, <1>2, <1>3, <1>4 DEF AgreeInv, AgreementInv

\* A step of the client, and one of the server, from what it leaves.
LEMMA ClientAgrees ==
  ASSUME IInv, NEW h, NEW l, NEW msgs, NEW est \in BOOLEAN, NEW e,
         DOMAIN h = Fields, Moves("client", h, l, msgs, est, e), IsSequence(msgs),
         pc["client"] # "start" => chan["server"] # <<>>, NEW N, Elems(msgs) \subseteq N,
         AgreementInv(l, h, pc["server"], hs["server"], Msgs(chan["client"]) \cup N, Msgs(chan["server"]))
  PROVE  AgreeInv'
<1>1. "client" \in Sides /\ "server" \in Sides \ {"client"} /\ Peer("client") = "server"
  BY DEF Sides, Peer
<1>2. /\ UNCHANGED <<conn, config>> /\ pc'["client"] = l /\ hs'["client"] = h
      /\ pc'["server"] = pc["server"] /\ hs'["server"] = hs["server"]
      /\ Carries("client", msgs)
  BY <1>1, MovesMessages
<1> QED  BY <1>1, <1>2, AgreementKept DEF Carries

LEMMA ServerAgrees ==
  ASSUME IInv, NEW h, NEW l, NEW msgs, NEW est \in BOOLEAN, NEW e,
         DOMAIN h = Fields, Moves("server", h, l, msgs, est, e), IsSequence(msgs),
         chan["client"] # <<>>, NEW N, Elems(msgs) \subseteq N,
         AgreementInv(pc["client"], hs["client"], l, h, Msgs(chan["client"]), Msgs(chan["server"]) \cup N)
  PROVE  AgreeInv'
<1>1. "server" \in Sides /\ "client" \in Sides \ {"server"} /\ Peer("server") = "client"
  BY DEF Sides, Peer
<1>2. /\ UNCHANGED <<conn, config>> /\ pc'["server"] = l /\ hs'["server"] = h
      /\ pc'["client"] = pc["client"] /\ hs'["client"] = hs["client"]
      /\ Carries("server", msgs)
  BY <1>1, MovesMessages
<1> QED  BY <1>1, <1>2, AgreementKept DEF Carries

\* What a handler that fails sends.
LEMMA FailSends ==
  ASSUME NEW s, NEW h, NEW msgs, NEW why, IsSequence(msgs), Fails(s, h, msgs, why)
  PROVE  \E sent, e : /\ Moves(s, h, "failed", sent, FALSE, e) /\ IsSequence(sent)
                      /\ Elems(sent) \subseteq Elems(msgs) \cup {Alert(why)}
<1> DEFINE sent == IF why \in Panics THEN <<>>
                   ELSE IF why \in Silent THEN msgs ELSE Append(msgs, Alert(why))
<1>1. \E e : Moves(s, h, "failed", sent, FALSE, e)
  BY DEF Fails
<1>2. IsSequence(sent) /\ Elems(sent) \subseteq Elems(msgs) \cup {Alert(why)}
  BY ElemsOfTuples, ElemsOfAppend
<1> QED  BY <1>1, <1>2

\* The message that has arrived is one of its channel.
LEMMA ArrivedMessage ==
  ASSUME IInv, NEW s \in Sides, chan[Peer(s)] # <<>>
  PROVE  Message(s) \in Msgs(chan[Peer(s)])
BY ElemsOfHeadTail DEF Peer, Sides, IInv, SessionInv, ChannelsGood, Msgs, Message

\* A side that stays, or gives up, with the state it has; the client may have learned the version.
LEMMA ClientKeeps ==
  ASSUME NEW lc, NEW c, NEW lv, NEW v, NEW Mc, NEW Mv, AgreementInv(lc, c, lv, v, Mc, Mv),
         lc \notin {"start", "complete"}, NEW l \in {lc, "failed"}, NEW h,
         h = c \/ (/\ lc = "serverHello" /\ l = "failed" /\ h.hello = c.hello /\ h.resume = c.resume
                   /\ h.proto = c.proto /\ h.serverHello = c.serverHello /\ h.transcript = c.transcript),
         NEW N, \A m \in N : m.type = "alert"
  PROVE  AgreementInv(l, h, lv, v, Mc \cup N, Mv)
BY DEF AgreementInv, HelloInv, Spoke, FlightInv, ClientEarly, FinishedInv, DistanceInv, ClientEnding, EndInv

LEMMA ServerKeeps ==
  ASSUME NEW lc, NEW c, NEW lv, NEW v, NEW Mc, NEW Mv, AgreementInv(lc, c, lv, v, Mc, Mv),
         lv # "complete", NEW l \in {lv, "failed"},
         NEW N, \A m \in N : m.type = "alert" /\ l = "failed" /\ Mc # {}
  PROVE  AgreementInv(lc, c, l, v, Mc, Mv \cup N)
BY DEF AgreementInv, HelloInv, FlightInv, ServerSpent, FinishedInv, DistanceInv, EndInv

\* A handler that fails with that.
LEMMA ClientFails ==
  ASSUME IInv, AgreeInv, NEW h, NEW why, DOMAIN h = Fields, Fails("client", h, <<>>, why),
         chan["server"] # <<>>, pc["client"] \notin {"start", "complete"},
         \/ h = hs["client"]
         \/ /\ pc["client"] = "serverHello"
            /\ h.hello = hs["client"].hello /\ h.resume = hs["client"].resume
            /\ h.proto = hs["client"].proto /\ h.serverHello = hs["client"].serverHello
            /\ h.transcript = hs["client"].transcript
  PROVE  AgreeInv'
<1>1. PICK sent, e : /\ Moves("client", h, "failed", sent, FALSE, e) /\ IsSequence(sent)
                     /\ Elems(sent) \subseteq {Alert(why)}
  BY FailSends, ElemsOfTuples
<1>2. \A m \in {Alert(why)} : m.type = "alert"
  BY DEF Alert
<1>3. AgreementInv("failed", h, pc["server"], hs["server"], Msgs(chan["client"]) \cup {Alert(why)},
                   Msgs(chan["server"]))
  BY <1>2, ClientKeeps DEF AgreeInv
<1> QED  BY <1>1, <1>3, ClientAgrees

LEMMA ServerFails ==
  ASSUME IInv, AgreeInv, NEW h, NEW why, h = hs["server"], Fails("server", h, <<>>, why),
         chan["client"] # <<>>, pc["server"] # "complete"
  PROVE  AgreeInv'
<1>1. PICK sent, e : /\ Moves("server", h, "failed", sent, FALSE, e) /\ IsSequence(sent)
                     /\ Elems(sent) \subseteq {Alert(why)}
  BY FailSends, ElemsOfTuples
<1>2. Msgs(chan["client"]) # {}
  BY ArrivedMessage DEF Sides, Peer
<1>3. \A m \in {Alert(why)} : m.type = "alert" /\ "failed" = "failed" /\ Msgs(chan["client"]) # {}
  BY <1>2 DEF Alert
<1>4. AgreementInv(pc["client"], hs["client"], "failed", h, Msgs(chan["client"]),
                   Msgs(chan["server"]) \cup {Alert(why)})
  BY <1>3, ServerKeeps DEF AgreeInv
<1>5. DOMAIN h = Fields
  BY DEF IInv, Shapes, Sides
<1> QED  BY <1>1, <1>4, <1>5, ServerAgrees

-----------------------------------------------------------------------------
(* Agreement: the client.                                                  *)

LEMMA SendClientHelloAgrees == IInv /\ AgreeInv /\ SendClientHello => AgreeInv'
<1> SUFFICES ASSUME IInv, AgreeInv, SendClientHello  PROVE AgreeInv'
  OBVIOUS
<1> DEFINE c == config.client
           usable == c.cache /\ cache # None /\ cache.suite \in Elems(Advertised(c))
                     /\ cache.vers \in c.min..c.max
           session == IF usable THEN cache ELSE None
           hello == [type |-> "clientHello", vers |-> c.max, suites |-> Advertised(c),
                     curves |-> c.curves, protos |-> c.protos, tickets |-> c.cache,
                     sigs |-> IF c.max = TLS12 THEN supportedSignatureAlgorithms ELSE <<>>,
                     ticket |-> IF usable THEN cache.ticket ELSE None,
                     sessionId |-> IF usable THEN conn ELSE None]
<1>1. /\ Continues("client", [NoState EXCEPT !.hello = hello, !.session = session],
                   "serverHello", <<hello>>)
      /\ pc["client"] = "start"
  BY DEF SendClientHello
<1>2. /\ hello.type = "clientHello" /\ (hello.ticket # None => hello.sessionId = conn)
      /\ hello.sessionId = IF session = None THEN None ELSE conn
  OBVIOUS
<1> HIDE DEF hello, session
<1>3. PICK h : h = [NoState EXCEPT !.hello = hello, !.session = session]
  OBVIOUS
<1>4. /\ DOMAIN h = Fields /\ h.hello = hello /\ h.session = session
      /\ h.transcript = <<>> /\ h.own = None
  BY <1>3 DEF NoState, Fields
<1> DEFINE lv == pc["server"]
           v == hs["server"]
           Mc == Msgs(chan["client"]) \cup {hello}
           Mv == Msgs(chan["server"])
<1>5. /\ Msgs(chan["client"]) = {} /\ Mv = {} /\ lv \in {"clientHello", "failed"}
      /\ v.transcript = <<>> /\ IsSequence(v.transcript)
  BY <1>1 DEF AgreeInv, AgreementInv, HelloInv
<1> HIDE DEF lv, v, Mv
<1>6. HelloInv("serverHello", h, lv, v, Mc, Mv)
  BY <1>2, <1>4, <1>5 DEF HelloInv, Offer
<1>7. Len(v.transcript) = 0
  BY <1>5
<1>8. FlightInv("serverHello", h, lv, v, Mv)
  BY <1>4, <1>5, <1>7 DEF FlightInv, ClientEarly
<1>9. ~ServerSpent(lv, v)
  BY <1>5, <1>7 DEF ServerSpent
<1>10. FinishedInv("serverHello", h, lv, v, Mc, Mv) /\ DistanceInv("serverHello", h, lv, v, Mv)
       /\ EndInv("serverHello", h, lv, v)
  BY <1>2, <1>5, <1>9 DEF FinishedInv, DistanceInv, EndInv, ClientEnding
<1>11. AgreementInv("serverHello", h, lv, v, Mc, Mv)
  BY <1>4, <1>5, <1>6, <1>8, <1>10, ElemsOfTuples DEF AgreementInv
<1>12. IsSequence(<<hello>>) /\ Elems(<<hello>>) \subseteq {hello}
  BY ElemsOfTuples
<1> QED  BY <1>1, <1>3, <1>4, <1>11, <1>12, ClientAgrees DEF Continues, lv, v, Mv

\* In the course of the server's flight.
LEMMA ClientEarlyKeeps ==
  ASSUME NEW lc \in ClientEarly, NEW c, NEW lv, NEW v, NEW Mc, NEW Mv,
         AgreementInv(lc, c, lv, v, Mc, Mv), ~c.resume,
         NEW l \in ClientEarly \cup {"failed"}, NEW h,
         h.hello = c.hello, h.serverHello = c.serverHello, h.proto = c.proto, h.resume = c.resume,
         IsSequence(h.transcript), h.transcript # <<>>,
         l \in ClientEarly => NotDone(h.transcript) /\ (h.certReq = None => h.own = None),
         NEW N, \A m \in N : m.type \notin {"clientHello", "finished"}
  PROVE  AgreementInv(l, h, lv, v, Mc \cup N, Mv)
BY DEF ClientEarly, ClientEnding, AgreementInv, HelloInv, EndInv, ServerSpent, Spoke, FlightInv, FinishedInv,
   DistanceInv

\* A handler that only carries the client on through it.
LEMMA EarlyAgrees ==
  ASSUME IInv, AgreeInv, NEW l, NEW g, NEW h, NEW m, DOMAIN g = Fields, h = Hashed(g, <<m>>),
         Continues("client", h, l, <<>>), chan["server"] # <<>>, m.type # "serverHelloDone",
         pc["client"] \in ClientEarly, l \in ClientEarly, g.certReq = None => g.own = None,
         g.hello = hs["client"].hello, g.serverHello = hs["client"].serverHello,
         g.proto = hs["client"].proto, g.resume = hs["client"].resume,
         g.transcript = hs["client"].transcript
  PROVE  AgreeInv'
<1> DEFINE c == hs["client"]
<1>1. IsSequence(c.transcript) /\ NotDone(c.transcript) /\ ~c.resume
  BY DEF AgreeInv, AgreementInv, FlightInv, IInv, SessionInv, ClientGood, ClientEarly
<1>2. /\ DOMAIN h = Fields /\ h.transcript = c.transcript \o <<m>>
      /\ h.hello = c.hello /\ h.serverHello = c.serverHello /\ h.proto = c.proto
      /\ h.resume = c.resume /\ h.certReq = g.certReq /\ h.own = g.own
  BY DEF Hashed, Fields
<1>3. IsSequence(h.transcript) /\ h.transcript # <<>> /\ NotDone(h.transcript)
  <2>1. PICK t : t = c.transcript
    OBVIOUS
  <2>2. IsSequence(t) /\ NotDone(t)
    BY <1>1, <2>1
  <2>3. IsSequence(t \o <<m>>) /\ t \o <<m>> # <<>> /\ NotDone(t \o <<m>>)
    BY <2>2, OneMore, NotDoneMore
  <2> QED  BY <1>2, <2>1, <2>3
<1> DEFINE Mc == Msgs(chan["client"])
           Mv == Msgs(chan["server"])
<1>4. AgreementInv(pc["client"], c, pc["server"], hs["server"], Mc, Mv)
  BY DEF AgreeInv
<1>5. PICK N : N = {}
  OBVIOUS
<1>6. AgreementInv(l, h, pc["server"], hs["server"], Mc \cup N, Mv)
  <2>1. h.certReq = None => h.own = None
    BY <1>2
  <2>2. \A x \in N : x.type \notin {"clientHello", "finished"}
    BY <1>5
  <2> HIDE DEF c, Mc, Mv
  <2> QED  BY <1>1, <1>2, <1>3, <1>4, <2>1, <2>2, ClientEarlyKeeps
<1>7. IsSequence(<<>>) /\ Elems(<<>>) \subseteq N
  BY ElemsOfTuples
<1> QED  BY <1>2, <1>6, <1>7, ClientAgrees DEF Continues

LEMMA ReadServerCertificateAgrees == IInv /\ AgreeInv /\ ReadServerCertificate => AgreeInv'
<1> SUFFICES ASSUME IInv, AgreeInv, ReadServerCertificate  PROVE AgreeInv'
  OBVIOUS
<1>1. chan["server"] # <<>> /\ pc["client"] = "serverCertificate" /\ Message("client").type = "certificate"
  BY ReadsSomething DEF ReadServerCertificate, Peer
<1>2. PICK m : m = Message("client")
  OBVIOUS
<1>3. PICK h : h = hs["client"]
  OBVIOUS
<1>4. DOMAIN h = Fields /\ (h.certReq = None => h.own = None)
  BY <1>1, <1>3 DEF IInv, Shapes, Sides, AgreeInv, AgreementInv, FlightInv, ClientEarly
<1>5. CASE Fails("client", h, <<>>, "bad_certificate")
  BY <1>1, <1>3, <1>4, <1>5, ClientFails
<1>6. CASE ~Fails("client", h, <<>>, "bad_certificate")
  <2>1. PICK g : g = [h EXCEPT !.peer = m.cert]
    OBVIOUS
  <2>2. PICK h1 : h1 = Hashed(g, <<m>>)
    OBVIOUS
  <2>3. PICK l : l \in {"certificateStatus", "serverKeyExchange"} /\ Continues("client", h1, l, <<>>)
    BY <1>2, <1>3, <1>6, <2>1, <2>2 DEF ReadServerCertificate
  <2>4. /\ DOMAIN g = Fields /\ (g.certReq = None => g.own = None)
        /\ g.hello = h.hello /\ g.serverHello = h.serverHello /\ g.proto = h.proto
        /\ g.resume = h.resume /\ g.transcript = h.transcript
    BY <1>4, <2>1 DEF Fields
  <2>5. pc["client"] \in ClientEarly /\ l \in ClientEarly /\ m.type # "serverHelloDone"
    BY <1>1, <1>2, <2>3 DEF ClientEarly
  <2> QED  BY <1>1, <1>3, <2>2, <2>3, <2>4, <2>5, EarlyAgrees
<1> QED  BY <1>5, <1>6

LEMMA ReadCertificateStatusAgrees == IInv /\ AgreeInv /\ ReadCertificateStatus => AgreeInv'
BY ReadsSomething, PointsOf, EarlyAgrees DEF ReadCertificateStatus, Peer, IInv, Shapes, Sides, AgreeInv,
   AgreementInv, FlightInv, ClientEarly

LEMMA ReadServerKeyExchangeAgrees == IInv /\ AgreeInv /\ ReadServerKeyExchange => AgreeInv'
<1> SUFFICES ASSUME IInv, AgreeInv, ReadServerKeyExchange  PROVE AgreeInv'
  OBVIOUS
<1>1. chan["server"] # <<>> /\ pc["client"] = "serverKeyExchange"
      /\ Message("client").type = "serverKeyExchange"
  BY ReadsSomething, PointsOf DEF ReadServerKeyExchange, Peer
<1>2. PICK m : m = Message("client")
  OBVIOUS
<1>3. PICK h : h = hs["client"]
  OBVIOUS
<1>4. DOMAIN h = Fields /\ (h.certReq = None => h.own = None)
  BY <1>1, <1>3 DEF IInv, Shapes, Sides, AgreeInv, AgreementInv, FlightInv, ClientEarly
<1>5. PICK g : g = [h EXCEPT !.skx = m.curve]
  OBVIOUS
<1>6. PICK h1 : h1 = Hashed(g, <<m>>)
  OBVIOUS
<1>7. \/ \E why : Fails("client", h, <<>>, why)
      \/ Continues("client", h1, "certificateRequest", <<>>)
  BY <1>2, <1>3, <1>5, <1>6 DEF ReadServerKeyExchange
<1>8. CASE \E why : Fails("client", h, <<>>, why)
  BY <1>1, <1>3, <1>4, <1>8, ClientFails
<1>9. CASE Continues("client", h1, "certificateRequest", <<>>)
  <2>1. /\ DOMAIN g = Fields /\ (g.certReq = None => g.own = None)
        /\ g.hello = h.hello /\ g.serverHello = h.serverHello /\ g.proto = h.proto
        /\ g.resume = h.resume /\ g.transcript = h.transcript
    BY <1>4, <1>5 DEF Fields
  <2>2. pc["client"] \in ClientEarly /\ "certificateRequest" \in ClientEarly /\ m.type # "serverHelloDone"
    BY <1>1, <1>2 DEF ClientEarly
  <2> QED  BY <1>1, <1>3, <1>6, <1>9, <2>1, <2>2, EarlyAgrees
<1> QED  BY <1>7, <1>8, <1>9

LEMMA ReadCertificateRequestAgrees == IInv /\ AgreeInv /\ ReadCertificateRequest => AgreeInv'
<1> SUFFICES ASSUME IInv, AgreeInv, ReadCertificateRequest  PROVE AgreeInv'
  OBVIOUS
<1>1. /\ chan["server"] # <<>> /\ pc["client"] \in {"serverKeyExchange", "certificateRequest"}
      /\ Message("client").type = "certificateRequest"
  BY ReadsSomething, PointsOf DEF ReadCertificateRequest, Peer
<1>2. PICK m : m = Message("client")
  OBVIOUS
<1>3. m.type = "certificateRequest" /\ m # None
  BY <1>1, <1>2, ArrivedMessage DEF Sides, Peer, AgreeInv, AgreementInv, FlightInv
<1>4. PICK h : h = hs["client"]
  OBVIOUS
<1>5. PICK own : own = ClientCertificate(config.client.certs, m.authorities)
  OBVIOUS
<1>6. PICK g : g = [h EXCEPT !.certReq = m, !.own = own]
  OBVIOUS
<1>7. PICK h1 : h1 = Hashed(g, <<m>>)
  OBVIOUS
<1>8. Continues("client", h1, "serverHelloDone", <<>>)
  BY <1>2, <1>4, <1>5, <1>6, <1>7 DEF ReadCertificateRequest
<1>9. DOMAIN h = Fields
  BY <1>4 DEF IInv, Shapes, Sides
<1>10. /\ DOMAIN g = Fields /\ g.certReq # None
       /\ g.hello = h.hello /\ g.serverHello = h.serverHello /\ g.proto = h.proto
       /\ g.resume = h.resume /\ g.transcript = h.transcript
  BY <1>3, <1>6, <1>9 DEF Fields
<1>11. pc["client"] \in ClientEarly /\ "serverHelloDone" \in ClientEarly /\ m.type # "serverHelloDone"
  BY <1>1, <1>3 DEF ClientEarly
<1> QED  BY <1>1, <1>4, <1>7, <1>8, <1>10, <1>11, EarlyAgrees

\* The ServerHello, from which the client knows whether it resumes.
LEMMA ServerHelloTaken ==
  ASSUME conn \in DOMAIN Configs, NEW c, NEW lv, NEW v, NEW Mc, NEW Mv,
         AgreementInv("serverHello", c, lv, v, Mc, Mv), NEW m \in Mv, m.type = "serverHello",
         NEW h, h.hello = c.hello, h.serverHello = m, h.proto = m.proto, h.resume \in BOOLEAN,
         h.resume <=> (c.session # None /\ m.sessionId = c.hello.sessionId),
         h.transcript = <<c.hello, m>>, h.certReq = c.certReq, h.own = c.own,
         NEW l, l = IF h.resume THEN AfterDone(h) ELSE "serverCertificate"
  PROVE  AgreementInv(l, h, lv, v, Mc, Mv)
<1>1. /\ Offer(c) /\ Spoke(c, v) /\ m = v.serverHello /\ c.transcript = <<>>
      /\ lv # "clientHello" /\ v.resume \in BOOLEAN
  BY DEF AgreementInv, HelloInv, Spoke
<1>2. conn # None
  BY NoneAssumption DEF NoneAssumption
<1>3. h.resume = v.resume
  BY <1>1, <1>2 DEF Offer, Spoke
<1>4. /\ IsSequence(h.transcript) /\ Len(h.transcript) = 2 /\ h.transcript # <<>>
      /\ h.transcript[1] = c.hello /\ h.transcript[2] = m /\ DOMAIN h.transcript = 1..2
  BY ElemsOfTuples
<1>5. /\ l \in {"serverCertificate", "newSessionTicket", "serverCCS"}
      /\ (l \in ClientEnding <=> h.resume)
      /\ h.resume => l = IF m.tickets THEN "newSessionTicket" ELSE "serverCCS"
  BY DEF AfterDone, ClientEnding
<1>6. lv # "complete"
  BY DEF AgreementInv, EndInv, ClientEnding
<1>7. HelloInv(l, h, lv, v, Mc, Mv)
  <2>1. Spoke(h, v)
    BY <1>1 DEF Spoke
  <2>2. h.proto = v.proto /\ h.serverHello = v.serverHello
    BY <1>1 DEF Spoke
  <2>3. l \notin {"start", "serverHello", "failed"}
    BY <1>5
  <2>4. h.transcript # <<>> /\ h.resume = v.resume
    BY <1>3, <1>4
  <2>5. HelloInv("serverHello", c, lv, v, Mc, Mv)
    BY DEF AgreementInv
  <2>6. \A x \in Mc : x.type = "clientHello" => x = h.hello /\ (x.ticket # None => x.sessionId = conn)
    BY <2>5 DEF HelloInv
  <2>7. \A x \in Mv : x.type = "serverHello" => x = v.serverHello
    BY <2>5 DEF HelloInv
  <2> HIDE DEF Spoke
  <2> QED  BY <1>1, <2>1, <2>2, <2>3, <2>4, <2>6, <2>7 DEF HelloInv
<1>8. FlightInv(l, h, lv, v, Mv)
  <2>1. NotDone(h.transcript)
    BY <1>1, <1>4 DEF NotDone, Offer
  <2> QED  BY <2>1 DEF AgreementInv, FlightInv, ClientEarly
<1>9. FinishedInv(l, h, lv, v, Mc, Mv)
  BY <1>1 DEF AgreementInv, FinishedInv
<1>10. DistanceInv(l, h, lv, v, Mv)
  <2>1. CASE ServerSpent(lv, v)
    <3>1. /\ v.resume /\ v.transcript[1] = v.hello /\ v.transcript[2] = v.serverHello
          /\ Len(v.transcript) = IF v.serverHello.tickets THEN 4 ELSE 3
      BY <1>6, <2>1 DEF AgreementInv, FlightInv, ServerSpent
    <3>2. Begins(v.transcript, h.transcript)
      BY <3>1, <1>1, <1>4 DEF Spoke, Begins
    <3>3. /\ l = "newSessionTicket" => Len(h.transcript) = Len(v.transcript) - 2
          /\ l \in {"serverCCS", "serverFinished"} => Len(h.transcript) = Len(v.transcript) - 1
      BY <1>1, <1>3, <1>4, <1>5, <3>1
    <3> QED  BY <2>1, <3>2, <3>3 DEF AgreementInv, DistanceInv
  <2>2. CASE ~ServerSpent(lv, v)
    BY <1>5, <2>2 DEF DistanceInv
  <2> QED  BY <2>1, <2>2
<1>11. EndInv(l, h, lv, v)
  BY <1>5, <1>6 DEF EndInv
<1> QED  BY <1>4, <1>7, <1>8, <1>9, <1>10, <1>11 DEF AgreementInv

LEMMA ReadServerHelloAgrees == IInv /\ NegotiationInv /\ AgreeInv /\ ReadServerHello => AgreeInv'
<1> SUFFICES ASSUME IInv, NegotiationInv, AgreeInv, ReadServerHello  PROVE AgreeInv'
  OBVIOUS
<1> DEFINE c == config.client
           h == hs["client"]
           m == Message("client")
           vers == MutualVersion(c, m.vers)
           suiteOk == m.suite \in Elems(h.hello.suites)
           resume == h.session # None /\ m.sessionId = h.hello.sessionId
           versOk == vers # None /\ vers \in TLS10..TLS12
           h1 == [h EXCEPT !.vers = IF versOk THEN vers ELSE None]
           h1s == [h1 EXCEPT !.suite = m.suite, !.serverHello = m, !.proto = TakesProto(m),
                             !.resume = resume]
           h2 == NewHash(h1s)
           h2b == [h2 EXCEPT !.buffer = @ /\ KeepsBuffer(c, resume)]
           h3 == Hashed(h2b, <<h.hello, m>>)
           h4 == [h3 EXCEPT !.master = h.session.master, !.peer = h.session.peer]
           why == FirstOf(<<
             <<~versOk, "protocol_version">>,
             <<~suiteOk, "handshake_failure">>,
             <<h.hello.protos = <<>> /\ m.proto # None, "handshake_failure">>,
             <<resume /\ h.session.vers # vers, "handshake_failure">>,
             <<resume /\ h.session.suite # m.suite, "handshake_failure">>,
             <<versOk /\ NilMD5(vers, m.suite), "nil MD5">> >>)
<1>1. chan["server"] # <<>> /\ pc["client"] = "serverHello" /\ m.type = "serverHello"
  BY ReadsSomething, PointsOf DEF ReadServerHello, Peer
<1>2. \/ why # None /\ Fails("client", h1, <<>>, why)
      \/ why = None /\ resume /\ Establishes("client", h4, AfterDone(h4), <<>>)
      \/ why = None /\ ~resume /\ Continues("client", h3, "serverCertificate", <<>>)
  BY DEF ReadServerHello
<1>3. DOMAIN h = Fields /\ resume \in BOOLEAN
  BY DEF IInv, Shapes, Sides
<1> HIDE DEF versOk
<1>4. /\ DOMAIN h1 = Fields /\ h1.hello = h.hello /\ h1.resume = h.resume /\ h1.proto = h.proto
      /\ h1.serverHello = h.serverHello /\ h1.transcript = h.transcript
      /\ h1.certReq = h.certReq /\ h1.own = h.own
  <2> HIDE DEF h
  <2> QED  BY <1>3 DEF Fields
<1> DEFINE Learnt(g) == /\ DOMAIN g = Fields /\ g.hello = h.hello /\ g.serverHello = m
                        /\ g.proto = m.proto /\ g.resume = resume
                        /\ g.certReq = h.certReq /\ g.own = h.own
<1>5. Learnt(h3) /\ h3.transcript = <<h.hello, m>>
  <2> HIDE DEF h1, resume, m, h
  <2>1. Learnt(h1s)
    BY <1>4 DEF Fields, TakesProto
  <2> HIDE DEF h1s
  <2>2. Learnt(h2) /\ h2.transcript = <<>>
    BY <2>1, NewHashFields DEF Fields, NewHash
  <2> HIDE DEF h2
  <2>3. Learnt(h2b) /\ h2b.transcript = <<>>
    BY <2>2 DEF Fields, h2b
  <2> HIDE DEF h2b
  <2>4. h3.transcript = <<>> \o <<h.hello, m>>
    BY <2>3 DEF Hashed, Fields
  <2> QED  BY <2>3, <2>4, HashedFields DEF Fields
<1>6. CASE why # None /\ Fails("client", h1, <<>>, why)
  <2> HIDE DEF h1, why
  <2> QED  BY <1>1, <1>4, <1>6, ClientFails
<1>7. m \in Msgs(chan["server"])
  BY <1>1, ArrivedMessage DEF Sides, Peer
<1>8. conn \in DOMAIN Configs
  BY DEF NegotiationInv
<1>9. AgreementInv("serverHello", h, pc["server"], hs["server"], Msgs(chan["client"]), Msgs(chan["server"]))
  BY <1>1 DEF AgreeInv
<1>10. PICK N : N = {}
  OBVIOUS
<1>11. Msgs(chan["client"]) \cup N = Msgs(chan["client"]) /\ IsSequence(<<>>) /\ Elems(<<>>) \subseteq N
  BY <1>10, ElemsOfTuples
<1> HIDE DEF why, h3
<1>12. CASE ~resume /\ Continues("client", h3, "serverCertificate", <<>>)
  <2>1. AgreementInv("serverCertificate", h3, pc["server"], hs["server"],
                     Msgs(chan["client"]) \cup N, Msgs(chan["server"]))
    <3> HIDE DEF m, h
    <3> QED  BY <1>1, <1>3, <1>5, <1>7, <1>8, <1>9, <1>11, <1>12, ServerHelloTaken
  <2> QED  BY <1>1, <1>5, <1>11, <1>12, <2>1, ClientAgrees DEF Continues
<1>13. CASE resume /\ Establishes("client", h4, AfterDone(h4), <<>>)
  <2>1. Learnt(h4) /\ h4.transcript = <<h.hello, m>>
    <3> HIDE DEF h, m, resume
    <3> QED  BY <1>5 DEF Fields
  <2> HIDE DEF h4
  <2>2. AgreementInv(AfterDone(h4), h4, pc["server"], hs["server"],
                     Msgs(chan["client"]) \cup N, Msgs(chan["server"]))
    <3> HIDE DEF m, h
    <3> QED  BY <1>1, <1>3, <1>7, <1>8, <1>9, <1>11, <1>13, <2>1, ServerHelloTaken
  <2> QED  BY <1>1, <1>11, <1>13, <2>1, <2>2, ClientAgrees DEF Establishes
<1> QED  BY <1>2, <1>6, <1>12, <1>13

\* What follows the first ServerHelloDone tells which certificate the client shows.
LEMMA ShowsAfter ==
  ASSUME NEW t, NEW q, IsSequence(t), IsSequence(q), NEW x, Shows(t, x)
  PROVE  IsSequence(t \o q) /\ Shows(t \o q, x)
<1>1. PICK u : u = t \o q
  OBVIOUS
<1>2. IsSequence(u) /\ Len(t) <= Len(u) /\ \A i \in 1..Len(t) : u[i] = t[i]
  BY <1>1, ConcatAt
<1>3. Begins(u, t)
  BY <1>2 DEF Begins
<1> QED  BY <1>1, <1>2, <1>3, ShowsBegins

LEMMA FlightShows ==
  ASSUME NEW t, IsSequence(t), NotDone(t), NEW m, m.type = "serverHelloDone",
         NEW x, NEW y, y.type = "certificate", y.cert = x,
         NEW cert, cert = <<y>> \/ (cert = <<>> /\ x = None),
         NEW z, z.type = "clientKeyExchange"
  PROVE  LET u == t \o (<<m>> \o cert \o <<z>>) IN
         IsSequence(u) /\ Shows(u, x)
<1>1. PICK q : q = <<m>> \o cert \o <<z>>
  OBVIOUS
<1>2. IsSequence(q) /\ 2 \in 1..Len(q) /\ 1 \in 1..Len(q) /\ q[1] = m /\ q[2] \in {y, z}
      /\ (q[2] = z => x = None)
  <2>0. PICK p : p = <<m>> \o cert
    OBVIOUS
  <2>1. CASE cert = <<y>>
    <3>1. IsSequence(<<m>>) /\ Len(<<m>>) = 1 /\ <<m>>[1] = m
      BY ElemsOfTuples
    <3>2. p = <<m>> \o <<y>>
      BY <2>0, <2>1
    <3>3. IsSequence(p) /\ Len(p) = 2 /\ p[1] = m /\ p[2] = y
      BY <3>1, <3>2, OneMore
    <3>4. IsSequence(q) /\ Len(q) = 3 /\ q[1] = m /\ q[2] = y
      BY <1>1, <2>0, <3>3, OneMore
    <3>5. y # z
      OBVIOUS
    <3> QED  BY <3>4, <3>5
  <2>2. CASE cert = <<>> /\ x = None
    BY ElemsOfTuples, <2>0, <2>2, ConcatAt, <1>1, OneMore
  <2> QED  BY <2>1, <2>2
<1>3. PICK u : u = t \o q
  OBVIOUS
<1>4. PICK n : n = Len(t)
  OBVIOUS
<1>5. /\ IsSequence(u) /\ DOMAIN u = 1..Len(u) /\ n \in Nat /\ Len(q) \in Nat /\ Len(u) = n + Len(q)
      /\ \A i \in 1..n : u[i] = t[i]
      /\ \A i \in 1..Len(q) : u[n + i] = q[i]
  BY <1>2, <1>3, <1>4, ConcatAt
<1>6. /\ n + 1 \in DOMAIN u /\ n + 1 + 1 \in DOMAIN u /\ n + 1 + 1 = n + 2 /\ n + 1 - 1 = n
  BY <1>2, <1>5
<1>7. u[n + 1] = m /\ u[n + 1 + 1] = q[2]
  BY <1>2, <1>5, <1>6
<1>8. \A j \in 1..n : u[j].type # "serverHelloDone"
  <2>1. \A j \in 1..n : j \in DOMAIN t
    BY <1>4, DomainOf
  <2> QED  BY <1>5, <1>6, <2>1 DEF NotDone
<1>9. x = IF q[2].type = "certificate" THEN q[2].cert ELSE None
  BY <1>2
<1>10. Shows(u, x)
  <2>1. PICK i : i = n + 1
    OBVIOUS
  <2>0. i + 1 = n + 1 + 1 /\ i - 1 = n
    BY <1>5, <2>1
  <2>2. /\ i \in DOMAIN u /\ i + 1 \in DOMAIN u /\ u[i] = m /\ u[i + 1] = q[2]
        /\ \A j \in 1..(i - 1) : u[j].type # "serverHelloDone"
    BY <1>6, <1>7, <1>8, <2>0, <2>1
  <2>3. x = IF u[i + 1].type = "certificate" THEN u[i + 1].cert ELSE None
    BY <1>9, <2>2
  <2> QED  BY <2>2, <2>3 DEF Shows
<1> QED  BY <1>1, <1>3, <1>5, <1>10

\* What the handlers of the full handshake leave alone, and a Finished of state h on t.
Continued(c, h) == /\ h.hello = c.hello /\ h.serverHello = c.serverHello
                   /\ h.proto = c.proto /\ h.resume = c.resume
Sealing(fin, h, t) == /\ fin.verify[2] = h.vers /\ fin.verify[3] = h.suite
                      /\ fin.verify[4] = h.master /\ fin.verify[5] = t
                      /\ h.transcript = t \o <<fin>>

\* The flight of the client, and its Finished: the server has not sent its own yet.
LEMMA ClientFlightSent ==
  ASSUME NEW lc \in ClientEarly, NEW c, NEW lv, NEW v, NEW Mc, NEW Mv,
         AgreementInv(lc, c, lv, v, Mc, Mv), ~c.resume,
         NEW h, Continued(c, h), h.peer = config.server.cert,
         NEW t, IsSequence(t), Shows(t, h.own), NEW fin, Sealing(fin, h, t),
         NEW N, \A m \in N : m.type # "clientHello" /\ (m.type = "finished" => m = fin),
         NEW l, l = IF c.serverHello.tickets THEN "newSessionTicket" ELSE "serverCCS"
  PROVE  AgreementInv(l, h, lv, v, Mc \cup N, Mv)
<1>1. lc \notin {"start", "serverHello", "failed", "complete"} /\ lc \notin ClientEnding
  BY DEF ClientEarly, ClientEnding
<1>2. l \notin {"start", "serverHello", "failed", "complete"} /\ l \in ClientEnding /\ l \notin ClientEarly
  BY DEF ClientEarly, ClientEnding
<1>3. c.transcript # <<>> /\ c.resume = v.resume /\ lv # "complete" /\ lv # "clientHello"
      /\ IsSequence(v.transcript)
  BY <1>1 DEF AgreementInv, HelloInv, EndInv
<1>4. ~ServerSpent(lv, v)
  BY <1>3 DEF ServerSpent
<1>5. IsSequence(h.transcript) /\ h.transcript # <<>>
  BY OneMore DEF Sealing
<1>6. HelloInv(l, h, lv, v, Mc \cup N, Mv)
  BY <1>1, <1>2, <1>3, <1>5 DEF AgreementInv, HelloInv, Spoke, Continued
<1>7. FlightInv(l, h, lv, v, Mv)
  BY <1>1, <1>2 DEF AgreementInv, FlightInv
<1>8. FinishedInv(l, h, lv, v, Mc \cup N, Mv)
  BY <1>1, <1>4, <1>2, <1>5 DEF AgreementInv, FinishedInv, Sealing, Continued
<1>9. DistanceInv(l, h, lv, v, Mv)
  BY <1>4 DEF DistanceInv, Continued
<1>10. EndInv(l, h, lv, v)
  BY <1>2, <1>3 DEF EndInv
<1> QED  BY <1>3, <1>5, <1>6, <1>7, <1>8, <1>9, <1>10 DEF AgreementInv

LEMMA ReadServerHelloDoneAgrees == IInv /\ AgreeInv /\ ReadServerHelloDone => AgreeInv'
<1> SUFFICES ASSUME IInv, AgreeInv, ReadServerHelloDone  PROVE AgreeInv'
  OBVIOUS
<1> DEFINE h == hs["client"]
           c == config.client
           own == [type |-> "certificate", cert |-> h.own]
           cert == IF h.certReq = None THEN <<>> ELSE <<own>>
           ckx == [type |-> "clientKeyExchange", pre |-> conn]
           told == <<Message("client")>> \o cert \o <<ckx>>
           h1 == Hashed(h, told)
           noShare == SigType[h.suite] # None /\ h.skx = None
           alg == selectClientCertSignatureAlgorithm(h.vers, h.certReq.sigs, h.own.alg)
           verify == IF h.own = None THEN <<>>
                     ELSE <<[type |-> "certificateVerify", alg |-> alg,
                             signature |-> <<h.own, Digest(h1, alg)>>]>>
           h1m == [h1 EXCEPT !.master = MasterSecret(ckx.pre)]
           h1v == Hashed(h1m, verify)
           h2 == Discarded(h1v)
           fin == Finished("client", h2)
           why == FirstOf(<<
             <<noShare, "internal_error">>,
             <<SigType[h.suite] = None /\ h.peer.alg # "RSA", "key type assertion">>,
             <<h.suite = "sm2" /\ c.randNil /\ h.skx # "X25519", "nil Rand">>,
             <<h.own # None /\ alg = None, "internal_error">>,
             <<h.own # None /\ BufferGone(h1), "discarded buffer">> >>)
           partial == IF noShare THEN cert ELSE Append(cert, ckx)
           flight == cert \o <<ckx>> \o verify \o <<CCS, fin>>
           h3 == Hashed(h2, <<fin>>)
<1>1. /\ chan["server"] # <<>> /\ Message("client").type = "serverHelloDone"
      /\ pc["client"] \in {"serverKeyExchange", "certificateRequest", "serverHelloDone"}
  BY ReadsSomething, PointsOf DEF ReadServerHelloDone, Peer
<1>2. \/ why # None /\ Fails("client", h1, partial, why)
      \/ Establishes("client", h3, AfterDone(h), flight)
  BY DEF ReadServerHelloDone
<1>3. /\ DOMAIN h = Fields /\ ~h.resume /\ h.peer = config.server.cert
      /\ IsSequence(h.transcript) /\ NotDone(h.transcript) /\ (h.certReq = None => h.own = None)
      /\ pc["client"] \in ClientEarly
  BY <1>1 DEF IInv, Shapes, Sides, SessionInv, ClientGood, AgreeInv, AgreementInv, FlightInv, ClientEarly
<1>4. ckx.type = "clientKeyExchange" /\ CCS.type = "ccs" /\ own.type = "certificate" /\ own.cert = h.own
  BY DEF CCS
<1>5. cert = <<own>> \/ (cert = <<>> /\ h.own = None)
  BY <1>3
<1> HIDE DEF own
<1>6. IsSequence(cert) /\ \A m \in Elems(cert) : m.type = "certificate"
  <2> HIDE DEF cert
  <2> QED  BY <1>4, <1>5, ElemsOfTuples
<1>7. IsSequence(verify) /\ \A m \in Elems(verify) : m.type = "certificateVerify"
  <2>1. PICK m : m = [type |-> "certificateVerify", alg |-> alg,
                      signature |-> <<h.own, Digest(h1, alg)>>]
    OBVIOUS
  <2>2. verify \in {<<>>, <<m>>} /\ m.type = "certificateVerify"
    BY <2>1
  <2> HIDE DEF verify
  <2> QED  BY <2>2, ElemsOfTuples
<1> HIDE DEF cert, ckx, verify
<1>8. IsSequence(partial) /\ \A m \in Elems(partial) : m.type \in {"certificate", "clientKeyExchange"}
  BY <1>4, <1>6, ElemsOfAppend
<1>9. /\ IsSequence(flight)
      /\ Elems(flight) \subseteq Elems(cert) \cup {ckx} \cup Elems(verify) \cup {CCS, fin}
  <2> HIDE DEF fin
  <2>1. IsSequence(cert \o <<ckx>>) /\ Elems(cert \o <<ckx>>) \subseteq Elems(cert) \cup {ckx}
    BY <1>6, ElemsOfTuples, ElemsOfConcat
  <2>2. /\ IsSequence(cert \o <<ckx>> \o verify)
        /\ Elems(cert \o <<ckx>> \o verify) \subseteq Elems(cert) \cup {ckx} \cup Elems(verify)
    BY <1>7, <2>1, ElemsOfConcat
  <2> QED  BY <2>2, ElemsOfTuples, ElemsOfConcat
<1>10. IsSequence(h.transcript \o told) /\ Shows(h.transcript \o told, h.own)
  BY <1>1, <1>3, <1>4, <1>5, FlightShows
<1> HIDE DEF told
<1> DEFINE Same(g) == /\ DOMAIN g = Fields /\ g.hello = h.hello /\ g.serverHello = h.serverHello
                      /\ g.proto = h.proto /\ g.resume = h.resume /\ g.peer = h.peer /\ g.own = h.own
<1>11. Same(h1) /\ h1.transcript = h.transcript \o told
  <2> HIDE DEF h
  <2> QED  BY <1>3 DEF Hashed, Fields
<1>12. h1.transcript # <<>>
  BY <1>10, <1>11 DEF Shows
<1> HIDE DEF partial, flight, h1, why
<1>13. AgreementInv(pc["client"], h, pc["server"], hs["server"], Msgs(chan["client"]), Msgs(chan["server"]))
  BY DEF AgreeInv
<1>14. CASE why # None /\ Fails("client", h1, partial, why)
  <2>2. PICK N : N = Elems(partial) \cup {Alert(why)}
    OBVIOUS
  <2>1. PICK sent, e : /\ Moves("client", h1, "failed", sent, FALSE, e) /\ IsSequence(sent)
                       /\ Elems(sent) \subseteq N
    BY <1>8, <1>14, FailSends, <2>2
  <2>3. \A m \in N : m.type \notin {"clientHello", "finished"}
    BY <1>8, <2>2 DEF Alert
  <2>4. "failed" \in ClientEarly \cup {"failed"} /\ "failed" \notin ClientEarly
    BY DEF ClientEarly
  <2>5. IsSequence(h1.transcript)
    BY <1>10, <1>11
  <2>6. AgreementInv("failed", h1, pc["server"], hs["server"], Msgs(chan["client"]) \cup N,
                     Msgs(chan["server"]))
    <3> HIDE DEF h
    <3> QED  BY <1>3, <1>11, <1>12, <1>13, <2>3, <2>4, <2>5, ClientEarlyKeeps
  <2> QED  BY <1>1, <1>11, <2>1, <2>2, <2>6, ClientAgrees
<1>15. CASE Establishes("client", h3, AfterDone(h), flight)
  <2>1. Same(h1m) /\ h1m.transcript = h1.transcript
    <3> HIDE DEF h
    <3> QED  BY <1>11 DEF Fields
  <2> HIDE DEF h1m, h
  <2>2. Same(h1v) /\ h1v.transcript = h1.transcript \o verify
    BY <2>1 DEF Fields, Hashed
  <2> HIDE DEF h1v
  <2>3. Same(h2) /\ h2.transcript = h1.transcript \o verify
    BY <2>2, DiscardedFields DEF Fields
  <2>4. /\ fin.type = "finished" /\ fin.verify[2] = h2.vers /\ fin.verify[3] = h2.suite
        /\ fin.verify[4] = h2.master /\ fin.verify[5] = h2.transcript
    BY DEF Finished, VerifyData
  <2> HIDE DEF h2, fin
  <2>5. /\ Same(h3) /\ h3.transcript = h2.transcript \o <<fin>> /\ h3.vers = h2.vers
        /\ h3.suite = h2.suite /\ h3.master = h2.master
    BY <2>3 DEF Fields, Hashed
  <2> HIDE DEF h3
  <2>6. IsSequence(h2.transcript) /\ Shows(h2.transcript, h3.own)
    BY <1>10, <1>11, <1>7, ShowsAfter, <2>3, <2>5
  <2>7. PICK N : N = Elems(cert) \cup {ckx} \cup Elems(verify) \cup {CCS, fin}
    OBVIOUS
  <2>8. \A m \in N : m.type # "clientHello" /\ (m.type = "finished" => m = fin)
    BY <1>4, <1>6, <1>7, <2>4, <2>7
  <2>9. AgreementInv(AfterDone(h), h3, pc["server"], hs["server"], Msgs(chan["client"]) \cup N,
                     Msgs(chan["server"]))
    <3>1. AfterDone(h) = IF h.serverHello.tickets THEN "newSessionTicket" ELSE "serverCCS"
      BY DEF AfterDone
    <3>2. h3.peer = config.server.cert /\ ~h.resume
      BY <1>3, <2>5
    <3>3. PICK t : t = h2.transcript
      OBVIOUS
    <3>4. IsSequence(t) /\ Shows(t, h3.own) /\ Sealing(fin, h3, t)
      BY <2>4, <2>5, <2>6, <3>3 DEF Sealing
    <3>5. pc["client"] \in ClientEarly /\ Continued(h, h3)
      BY <1>3, <2>5 DEF Continued
    <3>7. PICK l : l = AfterDone(h)
      OBVIOUS
    <3>8. l = IF h.serverHello.tickets THEN "newSessionTicket" ELSE "serverCCS"
      BY <3>1, <3>7
    <3>10. AgreementInv(l, h3, pc["server"], hs["server"], Msgs(chan["client"]) \cup N,
                        Msgs(chan["server"]))
      BY <1>13, <2>8, <3>2, <3>4, <3>5, <3>8, ClientFlightSent
    <3> QED  BY <3>7, <3>10
  <2> QED  BY <1>1, <1>9, <1>15, <2>5, <2>7, <2>9, ClientAgrees DEF Establishes
<1> QED  BY <1>2, <1>14, <1>15

\* What the handlers after the flight leave alone besides.
Secured(c, h) == SameSecrets(h, c) /\ h.peer = c.peer /\ h.own = c.own

\* The ticket, the ChangeCipherSpec and the Finished come once the server has sent its Finished.
LEMMA TicketTaken ==
  ASSUME NEW c, NEW lv, NEW v, NEW Mc, NEW Mv, AgreementInv("newSessionTicket", c, lv, v, Mc, Mv),
         NEW m \in Mv, m.type = "newSessionTicket",
         NEW h, Continued(c, h), Secured(c, h), h.transcript = c.transcript \o <<m>>
  PROVE  AgreementInv("serverCCS", h, lv, v, Mc, Mv)
<1>1. /\ ServerSpent(lv, v) /\ IsSequence(c.transcript) /\ IsSequence(v.transcript)
      /\ c.transcript # <<>> /\ c.resume = v.resume /\ lv # "clientHello"
  BY DEF AgreementInv, FinishedInv, HelloInv
<1>2. PICK t, p, n : t = v.transcript /\ p = c.transcript /\ n = Len(t)
  OBVIOUS
<1>3. /\ Begins(t, p) /\ Len(p) = n - 2 /\ m = t[n - 1]
  BY <1>1, <1>2 DEF AgreementInv, DistanceInv
<1>4. n \in Nat /\ Len(p) \in Nat /\ Len(p) + 1 <= n /\ Len(p) + 1 = n - 1
  BY <1>1, <1>2, <1>3, DomainOf
<1>5. Begins(t, p \o <<m>>) /\ Len(p \o <<m>>) = n - 1
  BY <1>1, <1>2, <1>3, <1>4, BeginsNext
<1>6. IsSequence(h.transcript) /\ h.transcript # <<>>
  BY <1>1, OneMore
<1>7. HelloInv("serverCCS", h, lv, v, Mc, Mv)
  BY <1>1, <1>6 DEF AgreementInv, HelloInv, Spoke, Continued
<1>8. FlightInv("serverCCS", h, lv, v, Mv)
  BY DEF AgreementInv, FlightInv, ClientEarly
<1>9. FinishedInv("serverCCS", h, lv, v, Mc, Mv)
  BY <1>1, <1>6 DEF AgreementInv, FinishedInv, ServerSpent, ClientEnding, Continued, Secured, SameSecrets
<1>10. DistanceInv("serverCCS", h, lv, v, Mv)
  BY <1>2, <1>5, <1>1 DEF AgreementInv, DistanceInv
<1>11. EndInv("serverCCS", h, lv, v)
  BY <1>6 DEF AgreementInv, EndInv, ClientEnding, Secured, SameSecrets
<1> QED  BY <1>1, <1>6, <1>7, <1>8, <1>9, <1>10, <1>11 DEF AgreementInv

LEMMA CCSTaken ==
  ASSUME NEW c, NEW lv, NEW v, NEW Mc, NEW Mv, AgreementInv("serverCCS", c, lv, v, Mc, Mv),
         NEW m \in Mv, m.type = "ccs"
  PROVE  AgreementInv("serverFinished", c, lv, v, Mc, Mv)
BY DEF AgreementInv, FinishedInv, HelloInv, FlightInv, ClientEarly, ClientEnding, DistanceInv, EndInv

LEMMA FinishedTaken ==
  ASSUME NEW c, NEW lv, NEW v, NEW Mc, NEW Mv, AgreementInv("serverFinished", c, lv, v, Mc, Mv),
         NEW m \in Mv, m.type = "finished",
         m.verify[2] = c.vers, m.verify[3] = c.suite, m.verify[4] = c.master
  PROVE  /\ ServerSpent(lv, v) /\ SameSecrets(c, v) /\ c.transcript # <<>> /\ c.resume = v.resume
         /\ IsSequence(c.transcript \o <<m>>) /\ IsSequence(v.transcript)
         /\ Begins(v.transcript, c.transcript \o <<m>>) /\ Begins(c.transcript \o <<m>>, v.transcript)
<1>1. /\ ServerSpent(lv, v) /\ IsSequence(c.transcript) /\ IsSequence(v.transcript)
      /\ SameSecrets(c, v) /\ c.transcript # <<>> /\ c.resume = v.resume
  BY DEF AgreementInv, FinishedInv, HelloInv, SameSecrets
<1>2. PICK t, p, n : t = v.transcript /\ p = c.transcript /\ n = Len(t)
  OBVIOUS
<1>3. Begins(t, p) /\ Len(p) = n - 1 /\ m = t[n]
  BY <1>1, <1>2 DEF AgreementInv, DistanceInv
<1>4. n \in Nat /\ Len(p) \in Nat /\ Len(p) + 1 <= n /\ Len(p) + 1 = n
  BY <1>1, <1>2, <1>3, DomainOf
<1>5. PICK u : u = p \o <<m>>
  OBVIOUS
<1>6. Begins(t, u) /\ Len(u) = n
  BY <1>1, <1>2, <1>3, <1>4, <1>5, BeginsNext
<1>7. IsSequence(u)
  BY <1>1, <1>2, <1>5, OneMore
<1>8. Begins(u, t)
  BY <1>2, <1>4, <1>6 DEF Begins
<1> QED  BY <1>1, <1>2, <1>5, <1>6, <1>7, <1>8

\* The end of a full handshake, and of a resumed one, in which the client's Finished is the last.
LEMMA ClientFinishes ==
  ASSUME NEW c, NEW lv, NEW v, NEW Mc, NEW Mv, AgreementInv("serverFinished", c, lv, v, Mc, Mv),
         ServerSpent(lv, v), SameSecrets(c, v), c.transcript # <<>>, c.resume = v.resume,
         NEW h, Continued(c, h), Secured(c, h), IsSequence(h.transcript), h.transcript # <<>>,
         IF h.resume THEN Begins(h.transcript, v.transcript) ELSE Begins(v.transcript, h.transcript),
         NEW N, NEW fin, NEW t, IsSequence(t),
         \A m \in N : m.type # "clientHello" /\ (m.type = "finished" => m = fin /\ h.resume /\ Sealing(fin, h, t))
  PROVE  AgreementInv("complete", h, lv, v, Mc \cup N, Mv)
<1>1. IsSequence(v.transcript) /\ lv # "clientHello" /\ SameSecrets(h, v) /\ h.resume = v.resume
  BY DEF AgreementInv, HelloInv, Secured, SameSecrets, Continued
<1>2. HelloInv("complete", h, lv, v, Mc \cup N, Mv)
  BY <1>1 DEF AgreementInv, HelloInv, Spoke, Continued
<1>3. FlightInv("complete", h, lv, v, Mv)
  BY DEF AgreementInv, FlightInv, ClientEarly
<1>4. FinishedInv("complete", h, lv, v, Mc \cup N, Mv)
  BY DEF AgreementInv, FinishedInv, ServerSpent, Sealing, Continued, Secured, SameSecrets
<1>5. DistanceInv("complete", h, lv, v, Mv)
  BY DEF DistanceInv, ClientEnding
<1>6. EndInv("complete", h, lv, v)
  BY <1>1 DEF Secured, AgreementInv, EndInv, ServerSpent
<1> QED  BY <1>1, <1>2, <1>3, <1>4, <1>5, <1>6 DEF AgreementInv

LEMMA ReadNewSessionTicketAgrees == IInv /\ AgreeInv /\ ReadNewSessionTicket => AgreeInv'
<1> SUFFICES ASSUME IInv, AgreeInv, ReadNewSessionTicket  PROVE AgreeInv'
  OBVIOUS
<1>1. chan["server"] # <<>> /\ pc["client"] = "newSessionTicket"
      /\ Message("client").type = "newSessionTicket"
  BY ReadsSomething, PointsOf DEF ReadNewSessionTicket, Peer
<1>2. PICK m : m = Message("client")
  OBVIOUS
<1>3. m \in Msgs(chan["server"]) /\ m.type = "newSessionTicket"
  BY <1>1, <1>2, ArrivedMessage DEF Sides, Peer
<1>4. PICK h : h = hs["client"]
  OBVIOUS
<1>5. DOMAIN h = Fields
  BY <1>4 DEF IInv, Shapes, Sides
<1>6. PICK n : n = [ticket |-> m.ticket, vers |-> h.vers, suite |-> h.suite,
                    master |-> h.master, peer |-> h.peer]
  OBVIOUS
<1>7. PICK g : g = [h EXCEPT !.newSession = n]
  OBVIOUS
<1>8. PICK h1 : h1 = Hashed(g, <<m>>)
  OBVIOUS
<1>9. Continues("client", h1, "serverCCS", <<>>)
  BY <1>2, <1>4, <1>6, <1>7, <1>8 DEF ReadNewSessionTicket
<1>10. /\ DOMAIN g = Fields /\ Continued(h, g) /\ Secured(h, g) /\ g.transcript = h.transcript
  BY <1>5, <1>7 DEF Fields, Continued, Secured, SameSecrets
<1>11. DOMAIN h1 = Fields /\ Continued(h, h1) /\ Secured(h, h1) /\ h1.transcript = h.transcript \o <<m>>
  BY <1>8, <1>10 DEF Hashed, Fields, Continued, Secured, SameSecrets
<1>12. PICK N : N = {}
  OBVIOUS
<1>13. Msgs(chan["client"]) \cup N = Msgs(chan["client"]) /\ IsSequence(<<>>) /\ Elems(<<>>) \subseteq N
  BY <1>12, ElemsOfTuples
<1>14. AgreementInv("newSessionTicket", h, pc["server"], hs["server"], Msgs(chan["client"]), Msgs(chan["server"]))
  BY <1>1, <1>4 DEF AgreeInv
<1>15. AgreementInv("serverCCS", h1, pc["server"], hs["server"], Msgs(chan["client"]) \cup N, Msgs(chan["server"]))
  BY <1>3, <1>11, <1>13, <1>14, TicketTaken
<1> QED  BY <1>1, <1>9, <1>11, <1>13, <1>15, ClientAgrees DEF Continues

LEMMA ReadServerCCSAgrees == IInv /\ AgreeInv /\ ReadServerCCS => AgreeInv'
<1> SUFFICES ASSUME IInv, AgreeInv, ReadServerCCS  PROVE AgreeInv'
  OBVIOUS
<1>1. chan["server"] # <<>> /\ pc["client"] \in {"clientCCS", "serverCCS"} /\ Message("client").type = "ccs"
  BY ReadsSomething, PointsOf DEF ReadServerCCS, Peer
<1>2. pc["client"] = "serverCCS"
  BY <1>1 DEF IInv, SessionInv, ClientGood
<1>3. PICK m : m = Message("client")
  OBVIOUS
<1>4. m \in Msgs(chan["server"]) /\ m.type = "ccs"
  BY <1>1, <1>3, ArrivedMessage DEF Sides, Peer
<1>5. PICK h : h = hs["client"]
  OBVIOUS
<1>6. DOMAIN h = Fields
  BY <1>5 DEF IInv, Shapes, Sides
<1>7. Continues("client", h, "serverFinished", <<>>)
  BY <1>5 DEF ReadServerCCS
<1>8. PICK N : N = {}
  OBVIOUS
<1>9. Msgs(chan["client"]) \cup N = Msgs(chan["client"]) /\ IsSequence(<<>>) /\ Elems(<<>>) \subseteq N
  BY <1>8, ElemsOfTuples
<1>10. AgreementInv("serverCCS", h, pc["server"], hs["server"], Msgs(chan["client"]), Msgs(chan["server"]))
  BY <1>2, <1>5 DEF AgreeInv
<1>11. AgreementInv("serverFinished", h, pc["server"], hs["server"], Msgs(chan["client"]) \cup N, Msgs(chan["server"]))
  BY <1>4, <1>9, <1>10, CCSTaken
<1> QED  BY <1>1, <1>6, <1>7, <1>9, <1>11, ClientAgrees DEF Continues

LEMMA ReadServerFinishedAgrees == IInv /\ AgreeInv /\ ReadServerFinished => AgreeInv'
<1> SUFFICES ASSUME IInv, AgreeInv, ReadServerFinished  PROVE AgreeInv'
  OBVIOUS
<1>1. chan["server"] # <<>> /\ pc["client"] \in {"clientFinished", "serverFinished"}
      /\ Message("client").type = "finished"
  BY ReadsSomething, PointsOf DEF ReadServerFinished, Peer
<1>2. pc["client"] = "serverFinished"
  BY <1>1 DEF IInv, SessionInv, ClientGood
<1>3. PICK m : m = Message("client")
  OBVIOUS
<1>4. m \in Msgs(chan["server"]) /\ m.type = "finished"
  BY <1>1, <1>3, ArrivedMessage DEF Sides, Peer
<1>5. PICK h : h = hs["client"]
  OBVIOUS
<1>6. DOMAIN h = Fields
  BY <1>5 DEF IInv, Shapes, Sides
<1> DEFINE checks == << <<m.verify # VerifyData("server", h), "handshake_failure">> >>
<1>7. CASE FirstOf(checks) # None
  BY <1>3, <1>5, <1>7, <1>1, <1>2, <1>6, ClientFails DEF ReadServerFinished
<1>8. CASE FirstOf(checks) = None
  <2>1. m.verify = VerifyData("server", h)
    BY <1>8, NoneAssumption, OneTest DEF NoneAssumption, Alerts
  <2>2. m.verify[2] = h.vers /\ m.verify[3] = h.suite /\ m.verify[4] = h.master
    BY <2>1 DEF VerifyData
  <2>3. PICK lv, v, Mc, Mv : /\ lv = pc["server"] /\ v = hs["server"]
                             /\ Mc = Msgs(chan["client"]) /\ Mv = Msgs(chan["server"])
    OBVIOUS
  <2>4. AgreementInv("serverFinished", h, lv, v, Mc, Mv) /\ m \in Mv
    BY <1>2, <1>4, <1>5, <2>3 DEF AgreeInv
  <2>5. PICK u : u = h.transcript \o <<m>>
    OBVIOUS
  <2>6. /\ ServerSpent(lv, v) /\ SameSecrets(h, v) /\ h.transcript # <<>> /\ h.resume = v.resume
        /\ IsSequence(u) /\ IsSequence(v.transcript) /\ Begins(v.transcript, u) /\ Begins(u, v.transcript)
    BY <1>4, <2>2, <2>4, <2>5, FinishedTaken
  <2>7. u # <<>>
    BY <2>4, <2>5, OneMore DEF AgreementInv
  <2>8. PICK h1 : h1 = Hashed(h, <<m>>)
    OBVIOUS
  <2>9. DOMAIN h1 = Fields /\ Continued(h, h1) /\ Secured(h, h1) /\ h1.transcript = u
    BY <1>6, <2>5, <2>8 DEF Hashed, Fields, Continued, Secured, SameSecrets
  <2>10. PICK fin : fin = Finished("client", h1)
    OBVIOUS
  <2>11. /\ fin.type = "finished" /\ fin.verify[2] = h1.vers /\ fin.verify[3] = h1.suite
         /\ fin.verify[4] = h1.master /\ fin.verify[5] = u
    BY <2>9, <2>10 DEF Finished, VerifyData
  <2>12. PICK h2 : h2 = Hashed(h1, <<fin>>)
    OBVIOUS
  <2>13. /\ DOMAIN h2 = Fields /\ Continued(h, h2) /\ Secured(h, h2) /\ h2.transcript = u \o <<fin>>
         /\ h2.vers = h1.vers /\ h2.suite = h1.suite /\ h2.master = h1.master
    BY <2>9, <2>12 DEF Hashed, Fields, Continued, Secured, SameSecrets
  <2>14. \/ h.resume /\ Continues("client", h2, "complete", <<CCS, fin>>)
         \/ ~h.resume /\ Continues("client", h1, "complete", <<>>)
    BY <1>3, <1>5, <1>8, <2>8, <2>10, <2>12 DEF ReadServerFinished
  <2>15. CASE ~h.resume /\ Continues("client", h1, "complete", <<>>)
    <3>1. PICK N : N = {}
      OBVIOUS
    <3>2. \A x \in N : x.type # "clientHello" /\ (x.type = "finished" => x = fin /\ h1.resume /\ Sealing(fin, h1, u))
      BY <3>1
    <3>3. IsSequence(h1.transcript) /\ h1.transcript # <<>> /\ ~h1.resume
          /\ Begins(v.transcript, h1.transcript)
      BY <2>6, <2>7, <2>9, <2>15 DEF Continued
    <3>4. AgreementInv("complete", h1, lv, v, Mc \cup N, Mv)
      BY <2>4, <2>6, <2>9, <3>2, <3>3, ClientFinishes
    <3>5. IsSequence(<<>>) /\ Elems(<<>>) \subseteq N
      BY ElemsOfTuples
    <3> QED  BY <1>1, <2>3, <2>9, <2>15, <3>4, <3>5, ClientAgrees DEF Continues
  <2>16. CASE h.resume /\ Continues("client", h2, "complete", <<CCS, fin>>)
    <3>1. PICK N : N = {CCS, fin}
      OBVIOUS
    <3>2. Sealing(fin, h2, u) /\ h2.resume
      BY <2>11, <2>13, <2>16 DEF Sealing, Continued
    <3>3. \A x \in N : x.type # "clientHello" /\ (x.type = "finished" => x = fin /\ h2.resume /\ Sealing(fin, h2, u))
      BY <2>11, <3>1, <3>2 DEF CCS
    <3>4. IsSequence(h2.transcript) /\ h2.transcript # <<>> /\ Begins(h2.transcript, v.transcript)
      BY <2>6, OneMore, BeginsMore, <2>13
    <3>5. AgreementInv("complete", h2, lv, v, Mc \cup N, Mv)
      BY <2>4, <2>6, <2>13, <3>2, <3>3, <3>4, ClientFinishes
    <3>6. IsSequence(<<CCS, fin>>) /\ Elems(<<CCS, fin>>) \subseteq N
      BY <3>1, ElemsOfTuples
    <3> QED  BY <1>1, <2>3, <2>13, <2>16, <3>5, <3>6, ClientAgrees DEF Continues
  <2> QED  BY <2>14, <2>15, <2>16
<1> QED  BY <1>7, <1>8

-----------------------------------------------------------------------------
(* Agreement: the server.                                                  *)

\* In the course of a full handshake, before the client's ChangeCipherSpec.
LEMMA ServerMiddle ==
  ASSUME NEW lc, NEW c, NEW lv \in {"clientCertificate", "clientKeyExchange", "certificateVerify"},
         NEW v, NEW Mc, NEW Mv, AgreementInv(lc, c, lv, v, Mc, Mv), ~v.resume,
         NEW l \in {"clientKeyExchange", "certificateVerify", "clientCCS"},
         NEW g, Continued(v, g), IsSequence(g.transcript),
         l = "clientKeyExchange" => (Asked(g.transcript) /\ g.peer = None) \/ Shows(g.transcript, g.peer),
         l # "clientKeyExchange" => Shows(g.transcript, g.peer)
  PROVE  AgreementInv(lc, c, l, g, Mc, Mv)
BY DEF ServerSpent, Continued, AgreementInv, HelloInv, EndInv, Spoke, FlightInv, FinishedInv, DistanceInv

LEMMA ClientCCSTaken ==
  ASSUME NEW lc, NEW c, NEW v, NEW Mc, NEW Mv, AgreementInv(lc, c, "clientCCS", v, Mc, Mv)
  PROVE  AgreementInv(lc, c, "clientFinished", v, Mc, Mv)
BY DEF ServerSpent, AgreementInv, HelloInv, FlightInv, FinishedInv, DistanceInv, EndInv

\* A handler of the server that goes on and sends nothing.
LEMMA ServerGoesOn ==
  ASSUME IInv, NEW h, DOMAIN h = Fields, NEW l, NEW est \in BOOLEAN, Moves("server", h, l, <<>>, est, NoError),
         chan["client"] # <<>>,
         AgreementInv(pc["client"], hs["client"], l, h, Msgs(chan["client"]), Msgs(chan["server"]))
  PROVE  AgreeInv'
<1>1. PICK N : N = {}
  OBVIOUS
<1>2. Msgs(chan["server"]) \cup N = Msgs(chan["server"]) /\ IsSequence(<<>>) /\ Elems(<<>>) \subseteq N
  BY <1>1, ElemsOfTuples
<1> QED  BY <1>2, ServerAgrees

LEMMA ReadClientCertificateAgrees == IInv /\ AgreeInv /\ ReadClientCertificate => AgreeInv'
<1> SUFFICES ASSUME IInv, AgreeInv, ReadClientCertificate  PROVE AgreeInv'
  OBVIOUS
<1>1. chan["client"] # <<>> /\ pc["server"] = "clientCertificate" /\ Message("server").type = "certificate"
  BY ReadsSomething DEF ReadClientCertificate, Peer
<1>2. PICK h : h = hs["server"]
  OBVIOUS
<1>3. PICK m : m = Message("server")
  OBVIOUS
<1>4. PICK g : g = [h EXCEPT !.peer = m.cert]
  OBVIOUS
<1>5. PICK h1 : h1 = Hashed(g, <<m>>)
  OBVIOUS
<1>6. DOMAIN h = Fields /\ ~h.resume
  BY <1>1, <1>2 DEF IInv, Shapes, Sides, SessionInv, ServerGood
<1>7. DOMAIN g = Fields /\ Continued(h, g) /\ g.transcript = h.transcript /\ g.peer = m.cert
  BY <1>4, <1>6 DEF Fields, Continued
<1>8. DOMAIN h1 = Fields /\ Continued(h, h1) /\ h1.peer = m.cert /\ h1.transcript = h.transcript \o <<m>>
  BY <1>5, <1>7 DEF Hashed, Fields, Continued
<1>9. \/ \E why : Fails("server", h, <<>>, why)
      \/ Continues("server", h1, "clientKeyExchange", <<>>)
  BY <1>2, <1>3, <1>4, <1>5 DEF ReadClientCertificate
<1>10. CASE \E why : Fails("server", h, <<>>, why)
  BY <1>1, <1>2, <1>10, ServerFails
<1>11. CASE Continues("server", h1, "clientKeyExchange", <<>>)
  <2>1. AgreementInv(pc["client"], hs["client"], "clientCertificate", h, Msgs(chan["client"]), Msgs(chan["server"]))
    BY <1>1, <1>2 DEF AgreeInv
  <2>2. IsSequence(h.transcript) /\ Asked(h.transcript)
    BY <2>1 DEF AgreementInv, FlightInv
  <2>3. PICK t : t = h.transcript
    OBVIOUS
  <2>4. Shows(t \o <<m>>, m.cert) /\ IsSequence(t \o <<m>>)
    BY <1>1, <1>3, <2>2, <2>3, ShownNext, OneMore
  <2>5. Shows(h1.transcript, h1.peer) /\ IsSequence(h1.transcript)
    BY <1>8, <2>3, <2>4
  <2>6. AgreementInv(pc["client"], hs["client"], "clientKeyExchange", h1, Msgs(chan["client"]), Msgs(chan["server"]))
    BY <1>6, <1>8, <2>1, <2>5, ServerMiddle
  <2> QED  BY <1>1, <1>8, <1>11, <2>6, ServerGoesOn DEF Continues
<1> QED  BY <1>9, <1>10, <1>11

LEMMA ReadClientKeyExchangeAgrees == IInv /\ AgreeInv /\ ReadClientKeyExchange => AgreeInv'
<1> SUFFICES ASSUME IInv, AgreeInv, ReadClientKeyExchange  PROVE AgreeInv'
  OBVIOUS
<1>1. chan["client"] # <<>> /\ pc["server"] = "clientKeyExchange" /\ Message("server").type = "clientKeyExchange"
  BY ReadsSomething, PointsOf DEF ReadClientKeyExchange, Peer
<1>2. PICK h : h = hs["server"]
  OBVIOUS
<1>3. PICK m : m = Message("server")
  OBVIOUS
<1>4. PICK g : g = [h EXCEPT !.master = MasterSecret(m.pre)]
  OBVIOUS
<1>5. PICK h1 : h1 = Hashed(g, <<m>>)
  OBVIOUS
<1>6. PICK h2 : h2 = Discarded(h1)
  OBVIOUS
<1>7. DOMAIN h = Fields /\ ~h.resume
  BY <1>1, <1>2 DEF IInv, Shapes, Sides, SessionInv, ServerGood
<1>8. DOMAIN g = Fields /\ Continued(h, g) /\ g.transcript = h.transcript /\ g.peer = h.peer
  BY <1>4, <1>7 DEF Fields, Continued
<1>9. DOMAIN h1 = Fields /\ Continued(h, h1) /\ h1.peer = h.peer /\ h1.transcript = h.transcript \o <<m>>
  BY <1>5, <1>8 DEF Hashed, Fields, Continued
<1>10. DOMAIN h2 = Fields /\ Continued(h, h2) /\ h2.peer = h.peer /\ h2.transcript = h.transcript \o <<m>>
  BY <1>6, <1>9 DEF Discarded, Fields, Continued
<1>11. AgreementInv(pc["client"], hs["client"], "clientKeyExchange", h, Msgs(chan["client"]), Msgs(chan["server"]))
  BY <1>1, <1>2 DEF AgreeInv
<1>12. IsSequence(h.transcript) /\ ((Asked(h.transcript) /\ h.peer = None) \/ Shows(h.transcript, h.peer))
  BY <1>11 DEF AgreementInv, FlightInv
<1>13. PICK t, x : t = h.transcript /\ x = h.peer
  OBVIOUS
<1>14. Shows(t \o <<m>>, x) /\ IsSequence(t \o <<m>>)
  BY <1>12, <1>13, ShownNext, <1>1, <1>3, OneMore, ShowsMore
<1>15. CASE Establishes("server", h2, "clientCCS", <<>>)
  BY <1>10, <1>13, <1>14, <1>7, <1>11, ServerMiddle, <1>1, <1>15, ServerGoesOn DEF Establishes
<1>16. CASE Continues("server", h1, "certificateVerify", <<>>)
  BY <1>9, <1>13, <1>14, <1>7, <1>11, ServerMiddle, <1>1, <1>16, ServerGoesOn DEF Continues
<1> QED  BY <1>2, <1>3, <1>4, <1>5, <1>6, <1>15, <1>16 DEF ReadClientKeyExchange

LEMMA ReadCertificateVerifyAgrees == IInv /\ AgreeInv /\ ReadCertificateVerify => AgreeInv'
<1> SUFFICES ASSUME IInv, AgreeInv, ReadCertificateVerify  PROVE AgreeInv'
  OBVIOUS
<1>1. chan["client"] # <<>> /\ pc["server"] = "certificateVerify"
  BY ReadsSomething, PointsOf DEF ReadCertificateVerify, Peer
<1>2. PICK h : h = hs["server"]
  OBVIOUS
<1>3. PICK m : m = Message("server")
  OBVIOUS
<1>4. PICK g : g = Hashed(h, <<m>>)
  OBVIOUS
<1>5. PICK h1 : h1 = Discarded(g)
  OBVIOUS
<1>6. DOMAIN h = Fields /\ ~h.resume
  BY <1>1, <1>2 DEF IInv, Shapes, Sides, SessionInv, ServerGood
<1>7. DOMAIN g = Fields /\ Continued(h, g) /\ g.peer = h.peer /\ g.transcript = h.transcript \o <<m>>
  BY <1>4, <1>6 DEF Hashed, Fields, Continued
<1>8. DOMAIN h1 = Fields /\ Continued(h, h1) /\ h1.peer = h.peer /\ h1.transcript = h.transcript \o <<m>>
  BY <1>5, <1>7 DEF Discarded, Fields, Continued
<1>9. \/ \E why : Fails("server", h, <<>>, why)
      \/ Establishes("server", h1, "clientCCS", <<>>)
  BY <1>2, <1>3, <1>4, <1>5 DEF ReadCertificateVerify
<1>10. CASE \E why : Fails("server", h, <<>>, why)
  BY <1>1, <1>2, <1>10, ServerFails
<1>11. CASE Establishes("server", h1, "clientCCS", <<>>)
  <2>1. AgreementInv(pc["client"], hs["client"], "certificateVerify", h, Msgs(chan["client"]), Msgs(chan["server"]))
    BY <1>1, <1>2 DEF AgreeInv
  <2>2. PICK t, x : t = h.transcript /\ x = h.peer
    OBVIOUS
  <2>3. IsSequence(t) /\ Shows(t, x)
    BY <2>1, <2>2 DEF AgreementInv, FlightInv
  <2>4. Shows(t \o <<m>>, x) /\ IsSequence(t \o <<m>>)
    BY <2>3, ShowsMore, OneMore
  <2>5. Shows(h1.transcript, h1.peer) /\ IsSequence(h1.transcript)
    BY <1>8, <2>2, <2>4
  <2>6. AgreementInv(pc["client"], hs["client"], "clientCCS", h1, Msgs(chan["client"]), Msgs(chan["server"]))
    BY <1>6, <1>8, <2>1, <2>5, ServerMiddle
  <2> QED  BY <1>1, <1>8, <1>11, <2>6, ServerGoesOn DEF Establishes
<1> QED  BY <1>9, <1>10, <1>11

LEMMA ReadClientCCSAgrees == IInv /\ AgreeInv /\ ReadClientCCS => AgreeInv'
<1> SUFFICES ASSUME IInv, AgreeInv, ReadClientCCS  PROVE AgreeInv'
  OBVIOUS
<1>1. chan["client"] # <<>> /\ pc["server"] \in {"clientCCS", "serverCCS"}
  BY ReadsSomething, PointsOf DEF ReadClientCCS, Peer
<1>2. pc["server"] = "clientCCS"
  BY <1>1 DEF IInv, SessionInv, ServerGood
<1>3. PICK h : h = hs["server"]
  OBVIOUS
<1>4. DOMAIN h = Fields /\ Continues("server", h, "clientFinished", <<>>)
  BY <1>3 DEF IInv, Shapes, Sides, ReadClientCCS
<1>5. AgreementInv(pc["client"], hs["client"], "clientCCS", h, Msgs(chan["client"]), Msgs(chan["server"]))
  BY <1>2, <1>3 DEF AgreeInv
<1>6. AgreementInv(pc["client"], hs["client"], "clientFinished", h, Msgs(chan["client"]), Msgs(chan["server"]))
  BY <1>5, ClientCCSTaken
<1> QED  BY <1>1, <1>4, <1>6, ServerGoesOn DEF Continues

\* The server's Finished, with its ticket: g and msgs are what ServerEnd makes of h.
Closes(g, m) ==
  /\ m.type \in {"newSessionTicket", "ccs", "finished"}
  /\ m.type = "newSessionTicket" => m = g.transcript[Len(g.transcript) - 1]
  /\ m.type = "finished" => m = g.transcript[Len(g.transcript)]
                            /\ m.verify[2] = g.vers /\ m.verify[3] = g.suite /\ m.verify[4] = g.master
Ends(h, g, msgs) ==
  /\ DOMAIN g = Fields /\ Continued(h, g) /\ Secured(h, g)
  /\ IsSequence(g.transcript) /\ Begins(g.transcript, h.transcript)
  /\ Len(h.transcript) \in Nat
  /\ Len(g.transcript) = Len(h.transcript) + IF h.serverHello.tickets THEN 2 ELSE 1
  /\ IsSequence(msgs) /\ \A m \in Elems(msgs) : Closes(g, m)

LEMMA ServerEnds ==
  ASSUME NEW h, DOMAIN h = Fields, IsSequence(h.transcript)
  PROVE  Ends(h, ServerEnd(h).hs, ServerEnd(h).msgs)
<1>1. PICK x : x = [type |-> "newSessionTicket", ticket |-> Ticket(h, h.peer)]
  OBVIOUS
<1>2. PICK t : t = NewSessionTicket(h)
  OBVIOUS
<1>3. t = (IF h.serverHello.tickets THEN <<x>> ELSE <<>>) /\ x.type = "newSessionTicket"
  BY <1>1, <1>2 DEF NewSessionTicket
<1>4. IsSequence(t) /\ Elems(t) \subseteq {x} /\ Len(t) = (IF h.serverHello.tickets THEN 1 ELSE 0)
      /\ (h.serverHello.tickets => t[1] = x) /\ (~h.serverHello.tickets => Elems(t) = {})
  BY <1>3, ElemsOfTuples
<1>5. PICK h1 : h1 = Hashed(h, t)
  OBVIOUS
<1>6. DOMAIN h1 = Fields /\ Continued(h, h1) /\ Secured(h, h1) /\ h1.transcript = h.transcript \o t
  BY <1>5 DEF Hashed, Fields, Continued, Secured, SameSecrets
<1>7. PICK fin : fin = Finished("server", h1)
  OBVIOUS
<1>8. /\ fin.type = "finished" /\ fin.verify[2] = h1.vers /\ fin.verify[3] = h1.suite
      /\ fin.verify[4] = h1.master
  BY <1>7 DEF Finished, VerifyData
<1>9. PICK h2 : h2 = Hashed(h1, <<fin>>)
  OBVIOUS
<1>10. /\ DOMAIN h2 = Fields /\ Continued(h, h2) /\ Secured(h, h2) /\ Secured(h1, h2)
       /\ h2.transcript = h1.transcript \o <<fin>>
  BY <1>6, <1>9 DEF Hashed, Fields, Continued, Secured, SameSecrets
<1>11. ServerEnd(h).msgs = t \o <<CCS, fin>> /\ ServerEnd(h).hs = h2
  BY <1>2, <1>5, <1>7, <1>9 DEF ServerEnd
<1>12. PICK p, q, n : p = h.transcript /\ q = p \o t /\ n = Len(p)
  OBVIOUS
<1>13. PICK u : u = q \o <<fin>>
  OBVIOUS
<1>14. /\ IsSequence(q) /\ n \in Nat /\ Len(t) \in Nat /\ Len(q) = n + Len(t)
       /\ \A i \in 1..n : q[i] = p[i]
       /\ \A i \in 1..Len(t) : q[n + i] = t[i]
  <2>1. IsSequence(p) /\ IsSequence(t)
    BY <1>4, <1>12
  <2>2. /\ IsSequence(p \o t) /\ Len(p) \in Nat /\ Len(t) \in Nat /\ Len(p \o t) = Len(p) + Len(t)
        /\ \A i \in 1..Len(p) : (p \o t)[i] = p[i]
        /\ \A i \in 1..Len(t) : (p \o t)[Len(p) + i] = t[i]
    BY <2>1, ConcatAt
  <2>3. q = p \o t /\ n = Len(p)
    BY <1>12
  <2> QED  BY <2>2, <2>3
<1>15. /\ IsSequence(u) /\ Len(u) = Len(q) + 1
       /\ \A i \in 1..Len(q) : u[i] = q[i]
       /\ u[Len(q) + 1] = fin
  <2>1. IsSequence(q)
    BY <1>14
  <2> QED  BY <1>13, <2>1, OneMore
<1>16. Begins(u, p)
  BY <1>14, <1>15, <1>12 DEF Begins
<1>17. Len(u) = n + IF h.serverHello.tickets THEN 2 ELSE 1
  BY <1>4, <1>14, <1>15
<1>18. h.serverHello.tickets => u[Len(u) - 1] = x
  BY <1>4, <1>14, <1>17, <1>15
<1>19. u[Len(u)] = fin
  BY <1>15
<1>20. h2.transcript = u
  BY <1>6, <1>10, <1>12, <1>13
<1>21. PICK msgs : msgs = t \o <<CCS, fin>>
  OBVIOUS
<1>22. IsSequence(msgs) /\ Elems(msgs) \subseteq Elems(t) \cup {CCS, fin}
  BY <1>4, <1>21, ElemsOfTuples, ElemsOfConcat
<1>23. ASSUME NEW m \in Elems(msgs)  PROVE Closes(h2, m)
  <2>1. (h.serverHello.tickets /\ m = x) \/ m = CCS \/ m = fin
    BY <1>4, <1>22
  <2>2. CASE h.serverHello.tickets /\ m = x
    BY <1>3, <1>18, <1>20, <2>2 DEF Closes
  <2>3. CASE m = CCS
    BY <2>3 DEF Closes, CCS
  <2>4. CASE m = fin
    BY <1>8, <1>10, <1>19, <1>20, <2>4 DEF Closes, Secured, SameSecrets
  <2> QED  BY <2>1, <2>2, <2>3, <2>4
<1>24. Ends(h, h2, msgs)
  BY <1>10, <1>12, <1>14, <1>15, <1>16, <1>17, <1>20, <1>22, <1>23 DEF Ends
<1> QED  BY <1>11, <1>21, <1>24

\* The client's Finished, as the server checks it.
Checked(m, v) == /\ m.type = "finished" /\ m.verify[2] = v.vers /\ m.verify[3] = v.suite
                 /\ m.verify[4] = v.master /\ m.verify[5] = v.transcript

\* The end of a full handshake for the server, which answers with its own Finished.
LEMMA ServerConcludes ==
  ASSUME NEW lc, NEW c, NEW v, NEW Mc, NEW Mv, AgreementInv(lc, c, "clientFinished", v, Mc, Mv),
         ~v.resume, NEW m \in Mc, Checked(m, v),
         NEW h, Continued(v, h), Secured(v, h), h.transcript = v.transcript \o <<m>>,
         NEW g, NEW msgs, Ends(h, g, msgs)
  PROVE  AgreementInv(lc, c, "complete", g, Mc, Mv \cup Elems(msgs))
<1>1. ~ServerSpent("clientFinished", v) /\ ServerSpent("complete", g)
  BY DEF ServerSpent
<1>2. /\ lc \in ClientEnding \cup {"failed"} /\ c.transcript # <<>> /\ ~c.resume /\ c.resume = v.resume
      /\ c.serverHello = v.serverHello
      /\ IsSequence(c.transcript) /\ IsSequence(v.transcript) /\ c.transcript = h.transcript
      /\ c.vers = v.vers /\ c.suite = v.suite /\ c.master = v.master
      /\ Shows(v.transcript, c.own) /\ Shows(v.transcript, v.peer) /\ c.peer = config.server.cert
  BY <1>1 DEF AgreementInv, HelloInv, FlightInv, FinishedInv, EndInv, Checked
<1>3. v.peer = c.own
  BY <1>2, ShowsOne
<1>4. /\ Continued(v, g) /\ SameSecrets(c, g) /\ g.peer = c.own /\ g.resume = c.resume
      /\ g.serverHello = c.serverHello /\ h.serverHello = c.serverHello
  BY <1>2, <1>3 DEF Ends, Continued, Secured, SameSecrets
<1>5. IsSequence(g.transcript) /\ Begins(g.transcript, c.transcript) /\ \A x \in Elems(msgs) : Closes(g, x)
  BY <1>2 DEF Ends
<1>6. Len(c.transcript) \in Nat
      /\ Len(g.transcript) = Len(c.transcript) + IF c.serverHello.tickets THEN 2 ELSE 1
  BY <1>2, <1>4 DEF Ends
<1>7. lc \notin {"start", "serverHello", "complete"} \cup ClientEarly
  BY <1>2 DEF ClientEnding, ClientEarly
<1>8. \A x \in Elems(msgs) : x.type \in {"newSessionTicket", "ccs", "finished"}
  BY <1>5 DEF Closes
<1>9. HelloInv(lc, c, "complete", g, Mc, Mv \cup Elems(msgs))
  BY <1>4, <1>2, <1>7, <1>8 DEF Spoke, Continued, AgreementInv, HelloInv
<1>10. FlightInv(lc, c, "complete", g, Mv \cup Elems(msgs))
  BY <1>7, <1>8 DEF AgreementInv, FlightInv
<1>11. \A x \in Mv : x.type \notin {"newSessionTicket", "ccs", "finished"}
  BY <1>1 DEF AgreementInv, FinishedInv
<1>12. FinishedInv(lc, c, "complete", g, Mc, Mv \cup Elems(msgs))
  BY <1>5, <1>1, <1>11 DEF Closes, AgreementInv, FinishedInv
<1>13. DistanceInv(lc, c, "complete", g, Mv \cup Elems(msgs))
  <2>1. lc \in ClientEnding => lc = IF c.serverHello.tickets THEN "newSessionTicket" ELSE "serverCCS"
    BY <1>1 DEF AgreementInv, DistanceInv
  <2>2. /\ lc = "newSessionTicket" => Len(c.transcript) = Len(g.transcript) - 2
        /\ lc \in {"serverCCS", "serverFinished"} => Len(c.transcript) = Len(g.transcript) - 1
    <3>1. PICK k, n : k = Len(c.transcript) /\ n = Len(g.transcript)
      OBVIOUS
    <3>2. k \in Nat /\ n = k + IF c.serverHello.tickets THEN 2 ELSE 1
      BY <1>6, <3>1
    <3>3. CASE c.serverHello.tickets
      BY <3>2, <3>3, <2>1, <3>1 DEF ClientEnding
    <3>4. CASE ~c.serverHello.tickets
      BY <3>2, <3>4, <2>1, <3>1 DEF ClientEnding
    <3> QED  BY <3>3, <3>4
  <2>3. \A x \in Mv \cup Elems(msgs) :
          /\ x.type = "newSessionTicket" => x = g.transcript[Len(g.transcript) - 1]
          /\ x.type = "finished" => x = g.transcript[Len(g.transcript)]
    BY <1>5, <1>11 DEF Closes
  <2> QED  BY <1>1, <1>5, <2>2, <2>3 DEF DistanceInv
<1>14. EndInv(lc, c, "complete", g)
  BY <1>2, <1>4, <1>7 DEF EndInv
<1> QED  BY <1>2, <1>5, <1>9, <1>10, <1>12, <1>13, <1>14 DEF AgreementInv

\* The end of a resumed one: the client is complete, and its Finished is the last message.
LEMMA ServerConcludesLast ==
  ASSUME NEW lc, NEW c, NEW v, NEW Mc, NEW Mv, AgreementInv(lc, c, "clientFinished", v, Mc, Mv),
         v.resume, NEW m \in Mc, Checked(m, v),
         NEW h, Continued(v, h), Secured(v, h), h.transcript = v.transcript \o <<m>>
  PROVE  AgreementInv(lc, c, "complete", h, Mc, Mv)
<1>1. /\ c.transcript # <<>> /\ c.resume = v.resume /\ lc = "complete"
      /\ IsSequence(c.transcript) /\ IsSequence(v.transcript) /\ c.transcript = h.transcript
      /\ c.vers = v.vers /\ c.suite = v.suite /\ c.master = v.master
  BY DEF AgreementInv, HelloInv, FinishedInv, Checked
<1>2. SameSecrets(c, h) /\ h.resume = v.resume /\ ServerSpent("complete", h)
  BY <1>1 DEF Continued, Secured, SameSecrets, ServerSpent
<1>3. HelloInv(lc, c, "complete", h, Mc, Mv)
  BY <1>1 DEF AgreementInv, HelloInv, Spoke, Continued
<1>4. FlightInv(lc, c, "complete", h, Mv)
  BY <1>1 DEF AgreementInv, FlightInv, ClientEarly
<1>5. FinishedInv(lc, c, "complete", h, Mc, Mv)
  BY <1>2 DEF AgreementInv, FinishedInv, Secured, SameSecrets
<1>6. DistanceInv(lc, c, "complete", h, Mv)
  BY <1>1 DEF DistanceInv, ClientEnding
<1>7. EndInv(lc, c, "complete", h)
  BY <1>1, BeginsSame, <1>2 DEF EndInv
<1>8. IsSequence(h.transcript)
  BY <1>1
<1> QED  BY <1>1, <1>3, <1>4, <1>5, <1>6, <1>7, <1>8 DEF AgreementInv

LEMMA ReadClientFinishedAgrees == IInv /\ AgreeInv /\ ReadClientFinished => AgreeInv'
<1> SUFFICES ASSUME IInv, AgreeInv, ReadClientFinished  PROVE AgreeInv'
  OBVIOUS
<1>1. chan["client"] # <<>> /\ pc["server"] \in {"clientFinished", "serverFinished"}
      /\ Message("server").type = "finished"
  BY ReadsSomething, PointsOf DEF ReadClientFinished, Peer
<1>2. pc["server"] = "clientFinished"
  BY <1>1 DEF IInv, SessionInv, ServerGood
<1>3. PICK m : m = Message("server")
  OBVIOUS
<1>4. m \in Msgs(chan["client"]) /\ m.type = "finished"
  BY <1>1, <1>3, ArrivedMessage DEF Sides, Peer
<1>5. PICK h : h = hs["server"]
  OBVIOUS
<1>6. DOMAIN h = Fields
  BY <1>5 DEF IInv, Shapes, Sides
<1> DEFINE checks == << <<m.verify # VerifyData("client", h), "handshake_failure">> >>
<1>7. CASE FirstOf(checks) # None
  BY <1>3, <1>5, <1>7, <1>1, <1>2, <1>6, ServerFails DEF ReadClientFinished
<1>8. CASE FirstOf(checks) = None
  <2>1. m.verify = VerifyData("client", h)
    BY <1>8, NoneAssumption, OneTest DEF NoneAssumption, Alerts
  <2>2. Checked(m, h)
    BY <1>4, <2>1 DEF VerifyData, Checked
  <2>3. AgreementInv(pc["client"], hs["client"], "clientFinished", h, Msgs(chan["client"]), Msgs(chan["server"]))
    BY <1>2, <1>5 DEF AgreeInv
  <2>4. PICK h1 : h1 = Hashed(h, <<m>>)
    OBVIOUS
  <2>5. DOMAIN h1 = Fields /\ Continued(h, h1) /\ Secured(h, h1) /\ h1.transcript = h.transcript \o <<m>>
    BY <1>6, <2>4 DEF Hashed, Fields, Continued, Secured, SameSecrets
  <2>6. PICK h2, msgs : h2 = ServerEnd(h1).hs /\ msgs = ServerEnd(h1).msgs
    OBVIOUS
  <2>7. Ends(h1, h2, msgs)
    BY <2>3, <2>5, OneMore, <2>6, ServerEnds DEF AgreementInv
  <2>8. \/ h.resume /\ Continues("server", h1, "complete", <<>>)
        \/ ~h.resume /\ Continues("server", h2, "complete", msgs)
    BY <1>3, <1>5, <1>8, <2>4, <2>6 DEF ReadClientFinished
  <2>9. CASE h.resume /\ Continues("server", h1, "complete", <<>>)
    BY <1>4, <2>2, <2>3, <2>5, <2>9, ServerConcludesLast, <1>1, ServerGoesOn DEF Continues
  <2>10. CASE ~h.resume /\ Continues("server", h2, "complete", msgs)
    BY <1>4, <2>2, <2>3, <2>5, <2>7, <2>10, ServerConcludes, <1>1, ServerAgrees DEF Ends, Continues
  <2> QED  BY <2>8, <2>9, <2>10
<1> QED  BY <1>7, <1>8

\* A flight up to its first ServerHelloDone, after something else.
LEMMA AskedAfter ==
  ASSUME NEW p, NEW q, IsSequence(p), IsSequence(q), NotDone(p), Asked(q)
  PROVE  IsSequence(p \o q) /\ Asked(p \o q)
<1>1. PICK u, n, k : u = p \o q /\ n = Len(p) /\ k = Len(q)
  OBVIOUS
<1>2. /\ IsSequence(u) /\ n \in Nat /\ k \in Nat /\ Len(u) = n + k
      /\ \A i \in 1..n : u[i] = p[i]
      /\ \A i \in 1..k : u[n + i] = q[i]
  BY <1>1, ConcatAt
<1>3. k >= 1 /\ q[k].type = "serverHelloDone" /\ \A i \in 1..(k - 1) : q[i].type # "serverHelloDone"
  BY <1>1, DomainOf DEF Asked
<1>4. \A i \in 1..n : p[i].type # "serverHelloDone"
  BY <1>1, DomainOf DEF NotDone
<1>5. u[Len(u)].type = "serverHelloDone"
  BY <1>2, <1>3
<1>6. ASSUME NEW i \in 1..(Len(u) - 1)  PROVE u[i].type # "serverHelloDone"
  <2>1. CASE i \in 1..n
    BY <1>2, <1>4, <2>1
  <2>2. CASE i \notin 1..n
    <3>1. PICK j : j = i - n
      OBVIOUS
    <3>2. j \in 1..(k - 1) /\ j \in 1..k /\ i = n + j
      BY <1>2, <1>6, <2>2, <3>1
    <3> QED  BY <1>2, <1>3, <3>2
  <2> QED  BY <2>1, <2>2
<1>7. u # <<>>
  BY <1>2, <1>3
<1> QED  BY <1>1, <1>2, <1>5, <1>6, <1>7 DEF Asked

\* What the server sends before it has spent its part.
Offered(hello, m) ==
  /\ m.type \notin {"newSessionTicket", "ccs", "finished"}
  /\ m.type = "serverHello" => m = hello
  /\ m.type = "certificateRequest" => m # None

LEMMA FlightOffered ==
  ASSUME conn \in DOMAIN Configs, config \in Configs[conn],
         NEW sc, sc = config.server, NEW hello, hello.type = "serverHello", NEW skx,
         IsSequence(skx), \A m \in Elems(skx) : m.type = "serverKeyExchange"
  PROVE  /\ IsSequence(ServerFlight(sc, hello, skx)) /\ Asked(ServerFlight(sc, hello, skx))
         /\ \A m \in Elems(ServerFlight(sc, hello, skx)) : Offered(hello, m)
<1>1. PICK cert : cert = [type |-> "certificate", cert |-> sc.cert]
  OBVIOUS
<1>2. PICK staple : staple = IF hello.staple THEN <<[type |-> "certificateStatus"]>> ELSE <<>>
  OBVIOUS
<1>3. PICK request : request =
        IF sc.auth = 0 THEN <<>>
        ELSE <<[type |-> "certificateRequest", authorities |-> sc.cas,
                sigs |-> IF hello.vers = TLS12 THEN supportedSignatureAlgorithms ELSE <<>>]>>
  OBVIOUS
<1>4. PICK done : done = [type |-> "serverHelloDone"]
  OBVIOUS
<1>5. ServerFlight(sc, hello, skx) = <<hello, cert>> \o staple \o skx \o request \o <<done>>
  BY <1>1, <1>2, <1>3, <1>4 DEF ServerFlight
<1>6. IsSequence(staple) /\ \A m \in Elems(staple) : m.type = "certificateStatus"
  BY <1>2, ElemsOfTuples
<1>7. IsSequence(request) /\ \A m \in Elems(request) : m.type = "certificateRequest" /\ m # None
  BY <1>3, NoneAssumption, ElemsOfTuples DEF Requests, NoneAssumption
<1>8. cert.type = "certificate" /\ done.type = "serverHelloDone"
  BY <1>1, <1>4
<1>9. PICK q1 : q1 = <<hello, cert>> \o staple
  OBVIOUS
<1>10. PICK q2 : q2 = q1 \o skx
  OBVIOUS
<1>11. PICK q3 : q3 = q2 \o request
  OBVIOUS
<1>12. PICK q4 : q4 = q3 \o <<done>>
  OBVIOUS
<1>13. IsSequence(q1) /\ Elems(q1) \subseteq {hello, cert} \cup Elems(staple)
  BY <1>6, <1>9, ElemsOfTuples, ElemsOfConcat
<1>14. IsSequence(q2) /\ Elems(q2) \subseteq Elems(q1) \cup Elems(skx)
  BY <1>10, <1>13, ElemsOfConcat
<1>15. IsSequence(q3) /\ Elems(q3) \subseteq Elems(q2) \cup Elems(request)
  BY <1>7, <1>11, <1>14, ElemsOfConcat
<1>16. IsSequence(q4) /\ Elems(q4) \subseteq Elems(q3) \cup {done}
  BY <1>12, <1>15, ElemsOfTuples, ElemsOfConcat
<1>17. \A m \in Elems(q3) :
         \/ m = hello
         \/ m.type \in {"certificateStatus", "serverKeyExchange", "certificate"}
         \/ m.type = "certificateRequest" /\ m # None
  BY <1>6, <1>7, <1>8, <1>13, <1>14, <1>15
<1>18. \A m \in Elems(q3) : Offered(hello, m) /\ m.type # "serverHelloDone"
  BY <1>17 DEF Offered
<1>19. Offered(hello, done)
  BY <1>8 DEF Offered
<1>20. Asked(q4)
  <2>1. NotDone(q3)
    BY <1>18 DEF NotDone, Elems
  <2> QED  BY <1>8, <1>12, <1>15, <2>1, NotDoneMore
<1> QED  BY <1>5, <1>9, <1>10, <1>11, <1>12, <1>16, <1>18, <1>19, <1>20

\* The answer to the ClientHello.
Answers(l, g, x) ==
  /\ x.type = "serverHello" => x = g.serverHello
  /\ x.type = "certificateRequest" => x # None
  /\ x.type \in {"newSessionTicket", "ccs", "finished"} => l = "clientCCS" /\ Closes(g, x)

Proper(l, g) ==
  /\ l \in {"failed", "clientCertificate", "clientKeyExchange", "clientCCS"} /\ IsSequence(g.transcript)
  /\ l = "clientCertificate" => Asked(g.transcript)
  /\ l = "clientKeyExchange" => Asked(g.transcript) /\ g.peer = None
  /\ l = "clientCCS" => g.resume /\ Len(g.transcript) > 2
  /\ g.resume /\ Len(g.transcript) > 2 =>
       /\ g.transcript[1] = g.hello /\ g.transcript[2] = g.serverHello
       /\ Len(g.transcript) = IF g.serverHello.tickets THEN 4 ELSE 3

LEMMA HelloHeard ==
  ASSUME NEW lc, NEW c, NEW v, NEW Mc, NEW Mv, AgreementInv(lc, c, "clientHello", v, Mc, Mv),
         NEW m \in Mc, m.type = "clientHello"
  PROVE  /\ lc \in {"serverHello", "failed"} /\ c.transcript = <<>> /\ Mv = {}
         /\ m = c.hello /\ (m.ticket # None => m.sessionId = conn)
BY DEF AgreementInv, HelloInv

LEMMA HelloAnswered ==
  ASSUME NEW lc, NEW c, NEW v, NEW Mc, NEW Mv, AgreementInv(lc, c, "clientHello", v, Mc, Mv),
         NEW m \in Mc, m.type = "clientHello",
         NEW l, NEW g, Proper(l, g), NEW N, \A x \in N : Answers(l, g, x),
         (l = "failed" /\ \A x \in N : x.type = "alert") \/ Spoke(c, g)
  PROVE  AgreementInv(lc, c, l, g, Mc, Mv \cup N)
BY HelloHeard, BeginsSame DEF Proper, AgreementInv, HelloInv, Answers, FlightInv, ClientEarly, ServerSpent,
   FinishedInv, Closes, ClientEnding, DistanceInv, EndInv

\* doFullHandshake.
LEMMA OffersAgrees ==
  ASSUME IInv, NegotiationInv, AgreeInv, pc["server"] = "clientHello", chan["client"] # <<>>,
         NEW m, m = Message("server"), m.type = "clientHello",
         NEW h, DOMAIN h = Fields, h.hello = m, h.resume = FALSE, h.peer = None,
         NEW hello, DOMAIN hello = {"type", "vers", "suite", "proto", "tickets", "staple", "sessionId"},
         hello.type = "serverHello", hello.proto = h.proto, hello.sessionId = None,
         NEW suite, NEW curve, Offers(h, hello, m, suite, curve)
  PROVE  AgreeInv'
<1> DEFINE sc == config.server
           full == [hello EXCEPT !.suite = suite, !.tickets = m.tickets /\ sc.tickets,
                                 !.staple = sc.staple]
           a == SKXAlgorithm(suite, h.vers, m.sigs, sc.cert.alg)
           unsigned == SigType[suite] # None /\ (a = None \/ curve = None)
           skx == IF SigType[suite] = None \/ unsigned THEN <<>>
                  ELSE <<[type |-> "serverKeyExchange", curve |-> curve, alg |-> a,
                          signature |-> <<sc.cert, SKXDigest(a, curve)>>]>>
           flight == ServerFlight(sc, full, skx)
           g == [h EXCEPT !.suite = suite, !.serverHello = full]
           h1 == NewHash(g)
           h1b == [h1 EXCEPT !.buffer = @ /\ sc.auth # 0]
           h2 == Hashed(h1b, <<m>> \o flight)
           why == FirstOf(<< <<NilMD5(h.vers, suite), "nil MD5">>,
                             <<unsigned, "handshake_failure">> >>)
           some == SubSeq(flight, 1, IF full.staple THEN 3 ELSE 2)
           l == IF sc.auth = 0 THEN "clientKeyExchange" ELSE "clientCertificate"
<1>1. \/ why # None /\ Fails("server", h1, some, why)
      \/ why = None /\ Continues("server", h2, l, flight)
  BY DEF Offers
<1>2. full.type = "serverHello" /\ full.proto = h.proto /\ full.sessionId = None
  OBVIOUS
<1>3. IsSequence(skx) /\ \A x \in Elems(skx) : x.type = "serverKeyExchange"
  <2>1. PICK x : x = [type |-> "serverKeyExchange", curve |-> curve, alg |-> a,
                      signature |-> <<sc.cert, SKXDigest(a, curve)>>]
    OBVIOUS
  <2>2. x.type = "serverKeyExchange" /\ (skx = <<>> \/ skx = <<x>>)
    BY <2>1
  <2> HIDE DEF skx
  <2> QED  BY <2>2, ElemsOfTuples
<1> HIDE DEF skx, why
<1>4. /\ DOMAIN g = Fields /\ g.hello = m /\ g.serverHello = full /\ g.proto = h.proto
      /\ g.resume = FALSE /\ g.peer = None
  <2> HIDE DEF full
  <2> QED  BY DEF Fields
<1>5. /\ IsSequence(flight) /\ Len(flight) >= IF full.staple THEN 3 ELSE 2
  <2> HIDE DEF full
  <2> QED  BY <1>2, <1>3, ServerFlightGood
<1>6. Asked(flight) /\ \A x \in Elems(flight) : Offered(full, x)
  <2> HIDE DEF full
  <2> QED  BY <1>2, <1>3, FlightOffered DEF NegotiationInv
<1> HIDE DEF full, flight, g
<1>7. /\ DOMAIN h1 = Fields /\ h1.hello = m /\ h1.serverHello = full /\ h1.proto = h.proto
      /\ h1.resume = FALSE /\ h1.peer = None /\ h1.transcript = <<>>
  BY <1>4 DEF NewHash, Fields
<1> HIDE DEF h1
<1>8. /\ DOMAIN h1b = Fields /\ h1b.hello = m /\ h1b.serverHello = full /\ h1b.proto = h.proto
      /\ h1b.resume = FALSE /\ h1b.peer = None /\ h1b.transcript = <<>>
  BY <1>7 DEF Fields
<1> HIDE DEF h1b
<1>9. IsSequence(<<m>> \o flight) /\ Asked(<<m>> \o flight)
  BY ElemsOfTuples, <1>5, <1>6, AskedAfter DEF NotDone
<1>10. /\ DOMAIN h2 = Fields /\ h2.hello = m /\ h2.serverHello = full /\ h2.proto = h.proto
       /\ h2.resume = FALSE /\ h2.peer = None
       /\ IsSequence(h2.transcript) /\ Asked(h2.transcript)
  BY <1>9, <1>8 DEF IsSequence, Hashed, Fields
<1> HIDE DEF h2
<1>11. AgreementInv(pc["client"], hs["client"], "clientHello", hs["server"], Msgs(chan["client"]), Msgs(chan["server"]))
  BY DEF AgreeInv
<1>12. m \in Msgs(chan["client"])
  BY ArrivedMessage DEF Sides, Peer
<1>13. m = hs["client"].hello
  BY <1>11, <1>12, HelloHeard
<1>14. Spoke(hs["client"], h1) /\ Spoke(hs["client"], h2)
  BY <1>2, <1>7, <1>10, <1>13 DEF Spoke
<1>15. CASE why # None /\ Fails("server", h1, some, why)
  <2>1. IsSequence(some) /\ Elems(some) \subseteq Elems(flight)
    BY <1>5, ElemsOfPrefix
  <2> HIDE DEF some
  <2>2. PICK w, p : w = why /\ p = some
    OBVIOUS
  <2>3. PICK N : N = Elems(p) \cup {Alert(w)}
    OBVIOUS
  <2>4. \E sent, e : /\ Moves("server", h1, "failed", sent, FALSE, e) /\ IsSequence(sent)
                     /\ Elems(sent) \subseteq N
    BY <1>15, <2>1, <2>2, <2>3, FailSends
  <2>5. \A x \in N : Answers("failed", h1, x)
    BY <1>6, <2>1, <2>2, <2>3, <1>7 DEF Alert, Answers, Offered
  <2>6. Proper("failed", h1)
    BY <1>7, ElemsOfTuples DEF Proper
  <2>7. AgreementInv(pc["client"], hs["client"], "failed", h1, Msgs(chan["client"]), Msgs(chan["server"]) \cup N)
    BY <1>11, <1>12, <1>14, <2>5, <2>6, HelloAnswered
  <2> QED  BY <1>7, <2>4, <2>7, ServerAgrees
<1>16. CASE Continues("server", h2, l, flight)
  <2>1. l \in {"clientKeyExchange", "clientCertificate"}
    OBVIOUS
  <2> HIDE DEF l
  <2>2. PICK N : N = Elems(flight)
    OBVIOUS
  <2>3. \A x \in N : Answers(l, h2, x)
    BY <1>6, <1>10, <2>2 DEF Answers, Offered
  <2>4. PICK k : k = l
    OBVIOUS
  <2>5. AgreementInv(pc["client"], hs["client"], k, h2, Msgs(chan["client"]), Msgs(chan["server"]) \cup N)
    BY <1>10, <2>1, <2>4, <1>14, <2>3, <1>11, <1>12, HelloAnswered DEF Proper
  <2> QED  BY <1>5, <1>10, <1>16, <2>2, <2>4, <2>5, ServerAgrees DEF Continues
<1> QED  BY <1>1, <1>15, <1>16

\* doResumeHandshake.
LEMMA ResumesAgrees ==
  ASSUME IInv, NegotiationInv, AgreeInv, pc["server"] = "clientHello", chan["client"] # <<>>,
         NEW m, m = Message("server"), m.type = "clientHello", m.ticket # None,
         NEW h, DOMAIN h = Fields, h.hello = m,
         NEW hello, DOMAIN hello = {"type", "vers", "suite", "proto", "tickets", "staple", "sessionId"},
         hello.type = "serverHello", hello.proto = h.proto, Resumes(h, hello, m)
  PROVE  AgreeInv'
<1> DEFINE t == m.ticket
           full == [hello EXCEPT !.suite = t.suite, !.sessionId = m.sessionId,
                                 !.tickets = t.key # Head(ticketKeys)]
           g == [h EXCEPT !.suite = t.suite, !.serverHello = full, !.resume = TRUE]
           g1 == NewHash(g)
           g2 == Discarded(g1)
           h1 == Hashed(g2, <<m, full>>)
           h2 == [h1 EXCEPT !.peer = ResumedCert(t), !.master = t.master]
           end == ServerEnd(h2)
           flight == <<full>> \o end.msgs
<1>1. \/ Establishes("server", end.hs, "clientCCS", flight)
      \/ Fails("server", h1, <<full>>, "bad_certificate")
  BY DEF Resumes
<1>2. full.type = "serverHello" /\ full.proto = h.proto /\ full.sessionId = m.sessionId
  OBVIOUS
<1> HIDE DEF full
<1> DEFINE Resumed(x) == /\ DOMAIN x = Fields /\ x.hello = m /\ x.serverHello = full
                         /\ x.proto = h.proto /\ x.resume = TRUE
<1>3. Resumed(g)
  <2> HIDE DEF t
  <2> QED  BY DEF Fields
<1> HIDE DEF g
<1>4. Resumed(g1) /\ g1.transcript = <<>>
  BY <1>3 DEF NewHash, Fields
<1> HIDE DEF g1
<1>5. Resumed(g2) /\ g2.transcript = <<>>
  BY <1>4 DEF Discarded, Fields
<1> HIDE DEF g2
<1>6. Resumed(h1) /\ h1.transcript = <<m, full>>
  BY <1>5 DEF Hashed, Fields
<1> HIDE DEF h1
<1>7. Resumed(h2) /\ h2.transcript = <<m, full>>
  BY <1>6 DEF Fields
<1> HIDE DEF h2
<1>8. /\ IsSequence(<<m, full>>) /\ Len(<<m, full>>) = 2
      /\ <<m, full>>[1] = m /\ <<m, full>>[2] = full
  BY ElemsOfTuples
<1>9. AgreementInv(pc["client"], hs["client"], "clientHello", hs["server"], Msgs(chan["client"]), Msgs(chan["server"]))
  BY DEF AgreeInv
<1>10. m \in Msgs(chan["client"])
  BY ArrivedMessage DEF Sides, Peer
<1>11. m = hs["client"].hello /\ m.sessionId = conn
  BY <1>9, <1>10, HelloHeard
<1>12. IsSequence(<<full>>) /\ Elems(<<full>>) = {full}
  BY ElemsOfTuples
<1>13. CASE Fails("server", h1, <<full>>, "bad_certificate")
  <2>1. PICK N : N = Elems(<<full>>) \cup {Alert("bad_certificate")}
    OBVIOUS
  <2>2. \E sent, e : /\ Moves("server", h1, "failed", sent, FALSE, e) /\ IsSequence(sent)
                     /\ Elems(sent) \subseteq N
    <3>1. PICK w, p : w = "bad_certificate" /\ p = <<full>>
      OBVIOUS
    <3>2. IsSequence(p) /\ Fails("server", h1, p, w)
      BY <1>12, <1>13, <3>1
    <3>3. \E sent, e : /\ Moves("server", h1, "failed", sent, FALSE, e) /\ IsSequence(sent)
                       /\ Elems(sent) \subseteq Elems(p) \cup {Alert(w)}
      BY <3>2, FailSends
    <3> QED  BY <2>1, <3>1, <3>3
  <2>3. \A x \in N : Answers("failed", h1, x)
    BY <1>2, <1>6, <1>12, <2>1 DEF Alert, Answers
  <2>4. Spoke(hs["client"], h1)
    BY <1>2, <1>6, <1>11 DEF Spoke
  <2>5. Proper("failed", h1)
    BY <1>6, <1>8 DEF Proper
  <2>6. AgreementInv(pc["client"], hs["client"], "failed", h1, Msgs(chan["client"]), Msgs(chan["server"]) \cup N)
    BY <1>9, <1>10, <2>3, <2>4, <2>5, HelloAnswered
  <2> QED  BY <1>6, <2>2, <2>6, ServerAgrees
<1>14. CASE Establishes("server", end.hs, "clientCCS", flight)
  <2>1. PICK h3, msgs : h3 = end.hs /\ msgs = end.msgs
    OBVIOUS
  <2>2. Ends(h2, h3, msgs)
    BY <1>7, <1>8, <2>1, ServerEnds
  <2>3. Establishes("server", h3, "clientCCS", <<full>> \o msgs)
    BY <1>14, <2>1
  <2> HIDE DEF end, flight
  <2>4. DOMAIN h3 = Fields /\ h3.hello = m /\ h3.serverHello = full /\ h3.proto = h.proto /\ h3.resume = TRUE
    BY <1>7, <2>2 DEF Ends, Continued
  <2>5. /\ IsSequence(h3.transcript)
        /\ Len(h3.transcript) = (IF full.tickets THEN 4 ELSE 3) /\ Len(h3.transcript) > 2
        /\ h3.transcript[1] = m /\ h3.transcript[2] = full
    BY <1>7, <1>8, <2>2 DEF Ends, Begins
  <2>6. PICK N : N = {full} \cup Elems(msgs)
    OBVIOUS
  <2>7. IsSequence(<<full>> \o msgs) /\ Elems(<<full>> \o msgs) \subseteq N
    BY <1>12, <2>2, <2>6, ElemsOfConcat DEF Ends
  <2>8. \A x \in N : Answers("clientCCS", h3, x)
    BY <2>2, <1>2, <2>4, <2>6 DEF Ends, Closes, Answers
  <2>9. Spoke(hs["client"], h3)
    BY <1>2, <1>11, <2>4 DEF Spoke
  <2>10. h3.resume /\ h3.hello = h3.transcript[1] /\ h3.serverHello = h3.transcript[2]
         /\ Len(h3.transcript) = (IF h3.serverHello.tickets THEN 4 ELSE 3)
    BY <2>4, <2>5
  <2>11. AgreementInv(pc["client"], hs["client"], "clientCCS", h3, Msgs(chan["client"]), Msgs(chan["server"]) \cup N)
    <3>1. Proper("clientCCS", h3)
      BY <2>5, <2>10 DEF Proper
    <3> QED  BY <1>9, <1>10, <2>8, <2>9, <3>1, HelloAnswered
  <2> QED  BY <2>3, <2>4, <2>7, <2>11, ServerAgrees DEF Establishes
<1> QED  BY <1>1, <1>13, <1>14

LEMMA ReadClientHelloAgrees == IInv /\ NegotiationInv /\ AgreeInv /\ ReadClientHello => AgreeInv'
<1> SUFFICES ASSUME IInv, NegotiationInv, AgreeInv, ReadClientHello  PROVE AgreeInv'
  OBVIOUS
<1> DEFINE sc == config.server
           m == Message("server")
           vers == MutualVersion(sc, m.vers)
           alg == IF sc.cert = None THEN None ELSE sc.cert.alg
           curve == ChooseCurve(sc, m.curves)
           proto == MutualProtocol(m.protos, sc.protos)
           resume == Resumable(sc, m, vers, alg, curve)
           suite == ChooseSuite(sc, m.suites, alg, curve # None, vers)
           h == [NoState EXCEPT !.hello = m, !.vers = vers, !.proto = proto]
           hello == [type |-> "serverHello", vers |-> vers, suite |-> None, proto |-> proto,
                     tickets |-> FALSE, staple |-> FALSE, sessionId |-> None]
           why == FirstOf(<<
             <<vers = None, "protocol_version">>,
             <<sc.cert = None, "internal_error">>,
             <<~resume /\ suite = None, "handshake_failure">> >>)
<1>1. chan["client"] # <<>> /\ pc["server"] = "clientHello" /\ m.type = "clientHello"
  BY ReadsSomething, PointsOf DEF ReadClientHello, Peer
<1>2. \/ Fails("server", h, <<>>, why)
      \/ resume /\ Resumes(h, hello, m)
      \/ Offers(h, hello, m, suite, curve)
  BY DEF ReadClientHello
<1>3. resume => m.ticket # None
  BY DEF Resumable
<1> HIDE DEF vers, curve, resume, suite, proto, m, why
<1>4. /\ DOMAIN h = Fields /\ h.hello = m /\ h.proto = proto /\ h.resume = FALSE /\ h.peer = None
      /\ h.transcript = <<>>
  BY DEF NoState, Fields
<1>5. DOMAIN hello = {"type", "vers", "suite", "proto", "tickets", "staple", "sessionId"}
      /\ hello.type = "serverHello" /\ hello.proto = proto /\ hello.sessionId = None
  OBVIOUS
<1> HIDE DEF h, hello
<1>6. PICK x : x = m
  OBVIOUS
<1>7. x = Message("server")
  BY <1>6 DEF m
<1>8. CASE Fails("server", h, <<>>, why)
  <2>1. PICK w : w = why
    OBVIOUS
  <2>2. PICK sent, e : /\ Moves("server", h, "failed", sent, FALSE, e) /\ IsSequence(sent)
                       /\ Elems(sent) \subseteq {Alert(w)}
    BY <1>8, <2>1, FailSends, ElemsOfTuples
  <2>3. Alert(w).type = "alert"
    BY DEF Alert
  <2>4. PICK N : N = {Alert(w)}
    OBVIOUS
  <2>5. \A y \in N : y.type = "alert" /\ Answers("failed", h, y)
    BY <2>3, <2>4 DEF Answers
  <2>6. AgreementInv(pc["client"], hs["client"], "clientHello", hs["server"], Msgs(chan["client"]), Msgs(chan["server"]))
    BY <1>1 DEF AgreeInv
  <2>7. x \in Msgs(chan["client"]) /\ x.type = "clientHello"
    BY <1>1, <1>6, <1>7, ArrivedMessage DEF Sides, Peer
  <2>8. Proper("failed", h)
    BY <1>4, ElemsOfTuples DEF Proper
  <2>9. AgreementInv(pc["client"], hs["client"], "failed", h, Msgs(chan["client"]), Msgs(chan["server"]) \cup N)
    BY <2>5, <2>6, <2>7, <2>8, HelloAnswered
  <2> QED  BY <1>1, <1>4, <2>2, <2>4, <2>9, ServerAgrees
<1>9. CASE resume /\ Resumes(h, hello, m)
  BY <1>1, <1>3, <1>4, <1>5, <1>6, <1>9, <1>7, ResumesAgrees
<1>10. CASE Offers(h, hello, m, suite, curve)
  BY <1>1, <1>4, <1>5, <1>6, <1>10, <1>7, OffersAgrees
<1> QED  BY <1>2, <1>8, <1>9, <1>10

-----------------------------------------------------------------------------
(* Agreement: failures, connections, time.                                 *)

LEMMA WaitingSide ==
  ASSUME NEW s, Waits(s)
  PROVE  pc[s] \notin {"start", "complete", "failed"}
BY DEF Waits, Expected

\* A side that stays where it is or ends, and writes nothing, after a read or a broken one.
LEMMA StaysOrEnds ==
  ASSUME AgreeInv, NEW s \in Sides, Waits(s), NEW l \in {pc[s], "failed"},
         UNCHANGED <<conn, config>>, pc'[s] = l, hs'[s] = hs[s],
         \A t \in Sides \ {s} : pc'[t] = pc[t] /\ hs'[t] = hs[t],
         \A t \in Sides : Msgs(chan'[t]) \subseteq Msgs(chan[t])
  PROVE  AgreeInv'
<1>1. PICK lc, c, lv, v, Mc, Mv :
        /\ lc = pc["client"] /\ c = hs["client"] /\ lv = pc["server"] /\ v = hs["server"]
        /\ Mc = Msgs(chan["client"]) /\ Mv = Msgs(chan["server"])
  OBVIOUS
<1>2. AgreementInv(lc, c, lv, v, Mc, Mv)
  BY <1>1 DEF AgreeInv
<1>3. Msgs(chan'["client"]) \subseteq Mc /\ Msgs(chan'["server"]) \subseteq Mv
  BY <1>1 DEF Sides
<1>4. pc[s] \notin {"start", "complete"}
  BY WaitingSide
<1>5. PICK N : N = {}
  OBVIOUS
<1>6. /\ Mc \cup N = Mc /\ Mv \cup N = Mv /\ \A m \in N : m.type = "alert"
      /\ \A m \in N : m.type = "alert" /\ "failed" = "failed" /\ Mc # {}
  BY <1>5
<1>7. CASE l = pc[s]
  BY <1>1, <1>7, <1>2, <1>3, AgreementKept DEF Sides
<1>8. CASE l = "failed" /\ s = "client"
  BY <1>1, <1>4, <1>8, <1>2, <1>6, ClientKeeps, <1>3, AgreementKept DEF Sides
<1>9. CASE l = "failed" /\ s = "server"
  <2>1. lv # "complete"
    BY <1>1, <1>4, <1>9
  <2>2. AgreementInv(lc, c, "failed", v, Mc, Mv \cup N)
    BY <1>2, <1>6, <2>1, ServerKeeps
  <2>3. pc'["client"] = lc /\ hs'["client"] = c /\ pc'["server"] = "failed" /\ hs'["server"] = v
    BY <1>1, <1>9 DEF Sides
  <2> QED  BY <1>3, <1>6, <2>2, <2>3, AgreementKept
<1> QED  BY <1>7, <1>8, <1>9 DEF Sides

LEMMA RefuseRecordAgrees == ASSUME IInv, AgreeInv, NEW s \in Sides, RefuseRecord(s)  PROVE AgreeInv'
BY WaitingSide, ClientFails, ServerFails DEF RefuseRecord, IInv, Shapes, Peer, Sides

LEMMA ReadAlertAgrees == ASSUME IInv, AgreeInv, NEW s \in Sides, ReadAlert(s)  PROVE AgreeInv'
<1>1. chan[Peer(s)] # <<>> /\ Waits(s)
  BY DEF ReadAlert
<1>2. PICK l \in {pc[s], "failed"} : \E e : Moves(s, hs[s], l, <<>>, FALSE, e)
  BY DEF ReadAlert, Continues
<1>3. PICK h, msgs : h = hs[s] /\ msgs = <<>>
  OBVIOUS
<1>4. PICK e : Moves(s, h, l, msgs, FALSE, e)
  BY <1>2, <1>3
<1>5. DOMAIN h = Fields /\ IsSequence(msgs) /\ Elems(msgs) = {}
  BY <1>3, ElemsOfTuples DEF IInv, Shapes
<1>6. /\ UNCHANGED <<conn, config>> /\ pc'[s] = l /\ hs'[s] = h
      /\ \A t \in Sides \ {s} : pc'[t] = pc[t] /\ hs'[t] = hs[t]
      /\ Carries(s, msgs)
  BY <1>1, <1>4, <1>5, MovesMessages
<1>7. \A t \in Sides : Msgs(chan'[t]) \subseteq Msgs(chan[t])
  BY <1>5, <1>6 DEF Carries, Sides, Peer
<1> QED  BY <1>1, <1>3, <1>6, <1>7, StaysOrEnds

LEMMA BreaksAgrees ==
  ASSUME IInv, AgreeInv, NEW s \in Sides, Waits(s), Breaks(s)  PROVE AgreeInv'
BY StaysOrEnds DEF Breaks, IInv, Shapes

\* A connection that begins.
LEMMA BeginAgrees ==
  ASSUME pc = [client |-> "start", server |-> "clientHello"], chan = [s \in Sides |-> <<>>],
         hs = [s \in Sides |-> NoState]
  PROVE  AgreeInv
<1>1. PICK h, N : h = NoState /\ N = {}
  OBVIOUS
<1>2. /\ h.transcript = <<>> /\ h.peer = None /\ h.own = None /\ h.resume = FALSE
      /\ h.certReq = None
  BY <1>1 DEF NoState
<1>3. IsSequence(h.transcript) /\ Len(h.transcript) = 0
  BY <1>2, ElemsOfTuples
<1>4. Msgs(<<>>) = N
  BY <1>1, ElemsOfTuples DEF Msgs
<1>5. ~ServerSpent("clientHello", h)
  BY <1>2 DEF ServerSpent
<1>6. HelloInv("start", h, "clientHello", h, N, N)
  BY <1>1, <1>2 DEF HelloInv
<1>7. FlightInv("start", h, "clientHello", h, N)
  BY <1>1, <1>2 DEF FlightInv, ClientEarly
<1>8. FinishedInv("start", h, "clientHello", h, N, N)
  BY <1>1 DEF FinishedInv
<1>9. DistanceInv("start", h, "clientHello", h, N)
  BY <1>5 DEF DistanceInv, ClientEnding
<1>10. EndInv("start", h, "clientHello", h)
  BY DEF EndInv
<1>11. AgreementInv("start", h, "clientHello", h, N, N)
  BY <1>3, <1>6, <1>7, <1>8, <1>9, <1>10 DEF AgreementInv
<1>12. /\ pc["client"] = "start" /\ pc["server"] = "clientHello" /\ hs["client"] = h /\ hs["server"] = h
       /\ chan["client"] = <<>> /\ chan["server"] = <<>>
  BY <1>1 DEF Sides
<1> QED  BY <1>4, <1>11, <1>12 DEF AgreeInv

LEMMA InitAgrees == Init => AgreeInv
BY BeginAgrees DEF Init

LEMMA ReconnectAgrees == Reconnect => AgreeInv'
<1> SUFFICES ASSUME Reconnect  PROVE AgreeInv'
  OBVIOUS
<1>1. (/\ pc = [client |-> "start", server |-> "clientHello"] /\ chan = [s \in Sides |-> <<>>]
       /\ hs = [s \in Sides |-> NoState])'
  BY DEF Reconnect, Begin
<1>2. (pc = [client |-> "start", server |-> "clientHello"] /\ chan = [s \in Sides |-> <<>>]
       /\ hs = [s \in Sides |-> NoState] => AgreeInv)'
  BY BeginAgrees, PTL
<1> QED  BY <1>1, <1>2

LEMMA NextAgrees == IInv /\ NegotiationInv /\ AgreeInv /\ [Next]_vars => AgreeInv'
<1> SUFFICES ASSUME IInv, NegotiationInv, AgreeInv, [Next]_vars  PROVE AgreeInv'
  OBVIOUS
<1>1. CASE Client
  BY <1>1, SendClientHelloAgrees, ReadServerHelloAgrees, ReadServerCertificateAgrees,
     ReadCertificateStatusAgrees, ReadServerKeyExchangeAgrees, ReadCertificateRequestAgrees,
     ReadServerHelloDoneAgrees, ReadNewSessionTicketAgrees, ReadServerCCSAgrees,
     ReadServerFinishedAgrees
  DEF Client
<1>2. CASE Server
  BY <1>2, ReadClientHelloAgrees, ReadClientCertificateAgrees, ReadClientKeyExchangeAgrees,
     ReadCertificateVerifyAgrees, ReadClientCCSAgrees, ReadClientFinishedAgrees
  DEF Server
<1>3. CASE \E s \in Sides : RefuseRecord(s)
  BY <1>3, RefuseRecordAgrees
<1>4. CASE \E s \in Sides : ReadAlert(s)
  BY <1>4, ReadAlertAgrees
<1>5. CASE \E s \in Sides : ReadEOF(s) \/ NetFails(s)
  BY <1>5, BreaksAgrees DEF ReadEOF, NetFails
<1>6. CASE RotateTicketKeys \/ Done \/ UNCHANGED vars
  BY <1>6, AgreementKept DEF RotateTicketKeys, Done, vars, AgreeInv
<1>7. CASE Reconnect
  BY <1>7, ReconnectAgrees
<1> QED  BY <1>1, <1>2, <1>3, <1>4, <1>5, <1>6, <1>7 DEF Next, Reads

-----------------------------------------------------------------------------
(* The keys that both ends use.                                            *)

\* What a step makes of the two half connections of s: rd if it read a ChangeCipherSpec, wr if it
\* wrote one, est if it prepared the keys of h.
InAfter(s, h, rd, est) ==
  [key |-> IF rd THEN in[s].next ELSE in[s].key,
   next |-> IF est THEN Key(Peer(s), h) ELSE IF rd THEN None ELSE in[s].next]
OutAfter(s, h, wr, est) ==
  LET k == IF est THEN Key(s, h) ELSE out[s].next IN
  [key |-> IF wr THEN k ELSE out[s].key, next |-> IF wr THEN None ELSE k]

\* Whether it did.
Switches(s, msgs, rd, wr) ==
  /\ rd \in BOOLEAN /\ (rd <=> pc[s] # "start" /\ Message(s).type = "ccs")
  /\ wr \in BOOLEAN /\ (wr <=> \E m \in Elems(msgs) : m.type = "ccs")

\* A step of s that keeps to its keys, and to the master secrets of this series.
Lawful(s, l, h, msgs) ==
  /\ IsSequence(msgs) /\ (pc[s] # "start" => chan[Peer(s)] # <<>>)
  /\ \A m \in Elems(msgs) : s = "client" /\ m.type = "clientKeyExchange" => m.pre \in DOMAIN Configs
  /\ s = "server" /\ l = "certificateVerify" => h.master \in Masters
MastersKept == \A m \in masters' : m \in masters \/ m.master \in Masters

KeysInv == KeyedInv /\ MasterInv

LEMMA HalvesAfter ==
  ASSUME IInv, KeyedInv, NEW s \in Sides, NEW h, NEW l, NEW msgs, NEW est \in BOOLEAN, NEW e,
         Moves(s, h, l, msgs, est, e), Lawful(s, l, h, msgs),
         NEW rd, NEW wr, Switches(s, msgs, rd, wr)
  PROVE  /\ DOMAIN in' = Sides /\ DOMAIN in'[s] = {"key", "next", "seq"}
         /\ \A t \in Sides \ {s} : in'[t] = in[t] /\ out'[t] = out[t]
         /\ in'[s].key = InAfter(s, h, rd, est).key /\ in'[s].next = InAfter(s, h, rd, est).next
         /\ out'[s].key = OutAfter(s, h, wr, est).key /\ out'[s].next = OutAfter(s, h, wr, est).next
<1> DEFINE reads == pc[s] # "start"
           r == Head(chan[Peer(s)])
           i == IF reads THEN Taken(in[s], r) ELSE in[s]
           i1 == IF est THEN [i EXCEPT !.next = Key(Peer(s), h)] ELSE i
           o == IF est THEN [out[s] EXCEPT !.next = Key(s, h)] ELSE out[s]
<1>0. /\ IsSequence(msgs) /\ (pc[s] # "start" => chan[Peer(s)] # <<>>)
      /\ rd \in BOOLEAN /\ (rd <=> pc[s] # "start" /\ Message(s).type = "ccs")
      /\ wr \in BOOLEAN /\ (wr <=> \E m \in Elems(msgs) : m.type = "ccs")
  BY DEF Lawful, Switches
<1>1. in' = [in EXCEPT ![s] = i1] /\ out' = [out EXCEPT ![s] = Written(o, msgs)]
  BY DEF Moves
<1>2. /\ DOMAIN in = Sides /\ DOMAIN out = Sides /\ DOMAIN in[s] = {"key", "next", "seq"}
      /\ DOMAIN out[s] = {"key", "next", "seq"}
  BY DEF IInv, Shapes, KeyedInv
<1>3. reads => (r.typ = "ccs" <=> rd)
  BY <1>0, ElemsOfHeadTail DEF Peer, Sides, IInv, SessionInv, ChannelsGood, KeyedInv, Typ, Message
<1>4. /\ DOMAIN i = {"key", "next", "seq"} /\ i.key = (IF rd THEN in[s].next ELSE in[s].key)
      /\ i.next = IF rd THEN None ELSE in[s].next
  <2>1. CASE rd
    BY <1>0, <1>2, <1>3, <2>1 DEF Taken, Switched
  <2>2. CASE ~rd
    <3>1. i = in[s] \/ i = [in[s] EXCEPT !.seq = @ + 1]
      BY <1>0, <1>3, <2>2 DEF Taken
    <3> HIDE DEF i
    <3> QED  BY <1>2, <2>2, <3>1
  <2> QED  BY <2>1, <2>2
<1> HIDE DEF i
<1>5. /\ DOMAIN i1 = {"key", "next", "seq"} /\ i1.key = i.key
      /\ i1.next = IF est THEN Key(Peer(s), h) ELSE i.next
  BY <1>4
<1>6. /\ DOMAIN o = {"key", "next", "seq"} /\ o.key = out[s].key
      /\ o.next = IF est THEN Key(s, h) ELSE out[s].next
  BY <1>2
<1> HIDE DEF i1, o
<1>7. wr <=> {j \in DOMAIN msgs : msgs[j].type = "ccs"} # {}
  BY <1>0 DEF Elems
<1>8. /\ Written(o, msgs).key = (IF wr THEN o.next ELSE o.key)
      /\ Written(o, msgs).next = IF wr THEN None ELSE o.next
  BY <1>7, <1>6 DEF Written, Switched
<1>9. in'[s] = i1 /\ out'[s] = Written(o, msgs) /\ DOMAIN in' = Sides
      /\ \A t \in Sides \ {s} : in'[t] = in[t] /\ out'[t] = out[t]
  BY <1>1, <1>2
<1>10. in'[s].key = InAfter(s, h, rd, est).key /\ in'[s].next = InAfter(s, h, rd, est).next
  BY <1>4, <1>5, <1>9 DEF InAfter
<1>11. out'[s].key = OutAfter(s, h, wr, est).key /\ out'[s].next = OutAfter(s, h, wr, est).next
  BY <1>6, <1>8, <1>9 DEF OutAfter
<1> QED  BY <1>5, <1>9, <1>10, <1>11

LEMMA KeysStep ==
  ASSUME IInv, KeysInv, NEW s \in Sides, NEW h, NEW l, NEW msgs, NEW est \in BOOLEAN, NEW e,
         Moves(s, h, l, msgs, est, e), Lawful(s, l, h, msgs), MastersKept,
         NEW rd, NEW wr, Switches(s, msgs, rd, wr),
         Keyed(s, l, h, InAfter(s, h, rd, est), OutAfter(s, h, wr, est))
  PROVE  KeysInv'
<1>0. KeyedInv /\ IsSequence(msgs) /\ (pc[s] # "start" => chan[Peer(s)] # <<>>)
  BY DEF KeysInv, Lawful
<1>1. /\ DOMAIN in' = Sides /\ DOMAIN in'[s] = {"key", "next", "seq"}
      /\ \A t \in Sides \ {s} : in'[t] = in[t] /\ out'[t] = out[t]
      /\ in'[s].key = InAfter(s, h, rd, est).key /\ in'[s].next = InAfter(s, h, rd, est).next
      /\ out'[s].key = OutAfter(s, h, wr, est).key /\ out'[s].next = OutAfter(s, h, wr, est).next
  BY <1>0, HalvesAfter
<1>2. /\ UNCHANGED conn /\ pc'[s] = l /\ hs'[s] = h
      /\ \A t \in Sides \ {s} : pc'[t] = pc[t] /\ hs'[t] = hs[t]
  BY DEF Moves, IInv, Shapes
<1> DEFINE o == IF est THEN [out[s] EXCEPT !.next = Key(s, h)] ELSE out[s]
           q == Sealed(o, h.vers, msgs)
<1>3. chan'[s] = chan[s] \o q /\ chan'[Peer(s)] \in {chan[Peer(s)], Tail(chan[Peer(s)])}
  BY DEF Moves, IInv, Shapes, Sides, Peer
<1>4. IsSequence(q) /\ \A r \in Elems(q) : r.msg \in Elems(msgs)
  BY ElemsOfSealed DEF Lawful
<1>5. \A r \in Elems(q) : r.typ = Typ(r.msg)
  BY DEF Sealed, Elems
<1> HIDE DEF q
<1>6. \A t \in Sides : IsSequence(chan[t])
  BY DEF IInv, SessionInv, ChannelsGood
<1>7. Elems(chan'[s]) \subseteq Elems(chan[s]) \cup Elems(q)
  BY <1>3, <1>4, <1>6, ElemsOfConcat
<1>8. Peer(s) \in Sides /\ Sides = {s, Peer(s)}
  BY DEF Peer, Sides
<1>9. Elems(chan'[Peer(s)]) \subseteq Elems(chan[Peer(s)])
  BY <1>0, <1>3, <1>6, <1>8, ElemsOfHeadTail DEF Moves, IInv, Shapes, Sides, Peer
<1>10. \A t \in Sides : \A r \in Elems(chan'[t]) : r \in Elems(chan[t]) \/ (t = s /\ r \in Elems(q))
  BY <1>7, <1>8, <1>9
<1>11. \A t \in Sides : \A r \in Elems(chan'[t]) : r.typ = Typ(r.msg)
  BY <1>5, <1>10 DEF KeysInv, KeyedInv
<1>12. \A k, g : Key(k, g)' = Key(k, g')
  BY <1>2 DEF Key
<1>13. Keyed(s, pc[s], hs[s], in[s], out[s])'
  BY <1>2, <1>1 DEF Key, Keyed, Peer
<1>14. ASSUME NEW t \in Sides \ {s}  PROVE Keyed(t, pc[t], hs[t], in[t], out[t])'
  BY <1>2, <1>1 DEF Key, KeysInv, KeyedInv, Keyed, Peer
<1>15. KeyedInv'
  BY <1>1, <1>11, <1>13, <1>14 DEF KeysInv, KeyedInv
<1>16. MasterInv'
  BY <1>4, <1>10, <1>2 DEF KeysInv, MasterInv, MastersKept, Msgs, Lawful, Sides
<1> QED  BY <1>15, <1>16 DEF KeysInv

\* Where no key has been prepared, nothing is said of the keys.
Keyful == ClientEnding \cup {"clientCCS", "clientFinished", "complete"}
Plain(s) == \E h, l, msgs, e :
  Moves(s, h, l, msgs, FALSE, e) /\ l \notin Keyful /\ Lawful(s, l, h, msgs)

LEMMA Switching == ASSUME NEW s, NEW msgs  PROVE \E rd, wr : Switches(s, msgs, rd, wr)
BY DEF Switches

LEMMA KeysPlain == ASSUME IInv, KeysInv, NEW s \in Sides, Plain(s), MastersKept  PROVE KeysInv'
BY Switching, KeysStep DEF Plain, Keyed, Keyful, ClientEnding

Harmless(msgs) == \A m \in Elems(msgs) : m.type = "clientKeyExchange" => m.pre \in DOMAIN Configs

LEMMA FailsPlainly ==
  ASSUME NEW s \in Sides, NEW h, NEW msgs, NEW why, Fails(s, h, msgs, why), IsSequence(msgs),
         chan[Peer(s)] # <<>>, s = "client" => Harmless(msgs)
  PROVE  Plain(s)
<1>0. PICK N : N = Elems(msgs) \cup {Alert(why)}
  OBVIOUS
<1>1. PICK sent, e : /\ Moves(s, h, "failed", sent, FALSE, e) /\ IsSequence(sent)
                     /\ Elems(sent) \subseteq N
  BY <1>0, FailSends
<1>2. "failed" \notin Keyful
  BY DEF Keyful, ClientEnding
<1>3. Lawful(s, "failed", h, sent)
  BY <1>0, <1>1 DEF Lawful, Alert, Harmless
<1> QED  BY <1>1, <1>2, <1>3 DEF Plain

LEMMA FailsQuietly ==
  ASSUME NEW s \in Sides, NEW h, NEW why, Fails(s, h, <<>>, why), chan[Peer(s)] # <<>>
  PROVE  Plain(s)
BY ElemsOfTuples, FailsPlainly DEF Harmless

LEMMA NothingWritten ==
  ASSUME NEW s, NEW l, NEW h, l # "certificateVerify", chan[Peer(s)] # <<>>
  PROVE  /\ Lawful(s, l, h, <<>>)
         /\ \A rd \in BOOLEAN : (rd <=> pc[s] # "start" /\ Message(s).type = "ccs") =>
              Switches(s, <<>>, rd, FALSE)
BY ElemsOfTuples DEF Lawful, Switches

LEMMA GoesOnPlainly ==
  ASSUME NEW s, NEW h, NEW l, Continues(s, h, l, <<>>), chan[Peer(s)] # <<>>,
         l \notin Keyful \cup {"certificateVerify"}
  PROVE  Plain(s)
<1>1. Lawful(s, l, h, <<>>)
  BY NothingWritten
<1> QED  BY <1>1 DEF Plain, Continues

LEMMA MastersStay == UNCHANGED masters => MastersKept
BY DEF MastersKept

LEMMA SendClientHelloKeys == IInv /\ KeysInv /\ SendClientHello => KeysInv'
<1> SUFFICES ASSUME IInv, KeysInv, SendClientHello  PROVE KeysInv'
  OBVIOUS
<1> DEFINE c == config.client
           usable == c.cache /\ cache # None /\ cache.suite \in Elems(Advertised(c))
                     /\ cache.vers \in c.min..c.max
           session == IF usable THEN cache ELSE None
           hello == [type |-> "clientHello", vers |-> c.max, suites |-> Advertised(c),
                     curves |-> c.curves, protos |-> c.protos, tickets |-> c.cache,
                     sigs |-> IF c.max = TLS12 THEN supportedSignatureAlgorithms ELSE <<>>,
                     ticket |-> IF usable THEN cache.ticket ELSE None,
                     sessionId |-> IF usable THEN conn ELSE None]
           h == [NoState EXCEPT !.hello = hello, !.session = session]
<1>1. Continues("client", h, "serverHello", <<hello>>) /\ pc["client"] = "start"
  BY DEF SendClientHello
<1>6. hello.type = "clientHello"
  OBVIOUS
<1> HIDE DEF h, hello
<1>2. "serverHello" \notin Keyful
  BY DEF Keyful, ClientEnding
<1>3. Lawful("client", "serverHello", h, <<hello>>)
  BY <1>1, <1>6, ElemsOfTuples DEF Lawful
<1>4. Plain("client")
  BY <1>1, <1>2, <1>3 DEF Plain, Continues
<1>5. MastersKept
  BY MastersStay DEF SendClientHello
<1> QED  BY <1>4, <1>5, KeysPlain DEF Sides

\* The client before its flight, and the server before it knows the master secret.
LEMMA EarlyKeys ==
  IInv /\ KeysInv /\ (ReadServerCertificate \/ ReadCertificateStatus \/ ReadServerKeyExchange
                      \/ ReadCertificateRequest) => KeysInv'
BY ReadsSomething, FailsQuietly, KeysPlain, MastersStay, GoesOnPlainly DEF ReadServerCertificate,
   ReadCertificateStatus, ReadServerKeyExchange, ReadCertificateRequest, Peer, Sides, Keyful, ClientEnding

LEMMA ReadClientCertificateKeys == IInv /\ KeysInv /\ ReadClientCertificate => KeysInv'
BY ReadsSomething, FailsQuietly, GoesOnPlainly, MastersStay, KeysPlain DEF ReadClientCertificate, Peer, Sides,
   Keyful, ClientEnding

LEMMA RefuseRecordKeys == ASSUME IInv, KeysInv, NEW s \in Sides, RefuseRecord(s)  PROVE KeysInv'
BY MastersStay, FailsQuietly, KeysPlain DEF RefuseRecord

\* The handlers that prepare keys, or change to them.
LEMMA SameKeys == ASSUME NEW k, NEW h, NEW g, SameSecrets(h, g)  PROVE Key(k, h) = Key(k, g)
BY DEF Key, SameSecrets

LEMMA KeyedNow == ASSUME KeysInv, NEW s \in Sides  PROVE Keyed(s, pc[s], hs[s], in[s], out[s])
BY DEF KeysInv, KeyedInv

\* A step that reads no ChangeCipherSpec, and writes nothing.
LEMMA KeysGoOn ==
  ASSUME IInv, KeysInv, NEW s \in Sides, NEW h, NEW l, NEW est \in BOOLEAN, NEW e,
         Moves(s, h, l, <<>>, est, e), l # "certificateVerify", chan[Peer(s)] # <<>>,
         Message(s).type # "ccs", MastersKept,
         Keyed(s, l, h, InAfter(s, h, FALSE, est), OutAfter(s, h, FALSE, est))
  PROVE  KeysInv'
BY NothingWritten, KeysStep

LEMMA KeysSwitch ==
  ASSUME IInv, KeysInv, NEW s \in Sides, NEW h, NEW l, NEW e,
         Moves(s, h, l, <<>>, FALSE, e), l # "certificateVerify", chan[Peer(s)] # <<>>,
         pc[s] # "start", Message(s).type = "ccs", MastersKept,
         Keyed(s, l, h, InAfter(s, h, TRUE, FALSE), OutAfter(s, h, FALSE, FALSE))
  PROVE  KeysInv'
BY NothingWritten, KeysStep

\* A step that writes a ChangeCipherSpec.
LEMMA KeysChange ==
  ASSUME IInv, KeysInv, NEW s \in Sides, NEW h, NEW l, NEW msgs, NEW est \in BOOLEAN, NEW e,
         Moves(s, h, l, msgs, est, e), l # "certificateVerify", chan[Peer(s)] # <<>>,
         Message(s).type # "ccs", MastersKept, IsSequence(msgs), s = "client" => Harmless(msgs),
         CCS \in Elems(msgs),
         Keyed(s, l, h, InAfter(s, h, FALSE, est), OutAfter(s, h, TRUE, est))
  PROVE  KeysInv'
<1>1. PICK rd, wr : rd = FALSE /\ wr = TRUE
  OBVIOUS
<1>2. Lawful(s, l, h, msgs)
  BY DEF Lawful, Harmless
<1>3. Switches(s, msgs, rd, wr)
  BY <1>1 DEF Switches, CCS
<1>4. Keyed(s, l, h, InAfter(s, h, rd, est), OutAfter(s, h, wr, est))
  BY <1>1
<1> QED  BY <1>2, <1>3, <1>4, KeysStep

LEMMA ReadServerHelloKeys == IInv /\ KeysInv /\ ReadServerHello => KeysInv'
<1> SUFFICES ASSUME IInv, KeysInv, ReadServerHello  PROVE KeysInv'
  OBVIOUS
<1> DEFINE c == config.client
           h == hs["client"]
           m == Message("client")
           vers == MutualVersion(c, m.vers)
           suiteOk == m.suite \in Elems(h.hello.suites)
           resume == h.session # None /\ m.sessionId = h.hello.sessionId
           versOk == vers # None /\ vers \in TLS10..TLS12
           h1 == [h EXCEPT !.vers = IF versOk THEN vers ELSE None]
           h1s == [h1 EXCEPT !.suite = m.suite, !.serverHello = m, !.proto = TakesProto(m),
                             !.resume = resume]
           h2 == NewHash(h1s)
           h2b == [h2 EXCEPT !.buffer = @ /\ KeepsBuffer(c, resume)]
           h3 == Hashed(h2b, <<h.hello, m>>)
           h4 == [h3 EXCEPT !.master = h.session.master, !.peer = h.session.peer]
           why == FirstOf(<<
             <<~versOk, "protocol_version">>,
             <<~suiteOk, "handshake_failure">>,
             <<h.hello.protos = <<>> /\ m.proto # None, "handshake_failure">>,
             <<resume /\ h.session.vers # vers, "handshake_failure">>,
             <<resume /\ h.session.suite # m.suite, "handshake_failure">>,
             <<versOk /\ NilMD5(vers, m.suite), "nil MD5">> >>)
<1>1. /\ chan["server"] # <<>> /\ pc["client"] = "serverHello" /\ m.type = "serverHello"
      /\ Peer("client") = "server" /\ "client" \in Sides
  BY ReadsSomething, PointsOf DEF ReadServerHello, Peer, Sides
<1>2. \/ Fails("client", h1, <<>>, why)
      \/ resume /\ Establishes("client", h4, AfterDone(h4), <<>>)
      \/ Continues("client", h3, "serverCertificate", <<>>)
  BY DEF ReadServerHello
<1>3. DOMAIN h = Fields
  BY DEF IInv, Shapes, Sides
<1>4. MastersKept
  BY MastersStay DEF ReadServerHello
<1> HIDE DEF why
<1>5. CASE Fails("client", h1, <<>>, why)
  <2> HIDE DEF h1
  <2> QED  BY <1>1, <1>4, <1>5, FailsQuietly, KeysPlain
<1>6. CASE Continues("client", h3, "serverCertificate", <<>>)
  <2> HIDE DEF h3
  <2>1. "serverCertificate" \notin Keyful \cup {"certificateVerify"}
    BY DEF Keyful, ClientEnding
  <2> QED  BY <1>1, <1>4, <1>6, <2>1, GoesOnPlainly, KeysPlain
<1>7. CASE resume /\ Establishes("client", h4, AfterDone(h4), <<>>)
  <2>1. DOMAIN h1 = Fields
    <3> HIDE DEF h, versOk, vers
    <3> QED  BY <1>3 DEF Fields
  <2> HIDE DEF h1
  <2>2. DOMAIN h1s = Fields /\ h1s.resume = resume
    <3> HIDE DEF resume, m
    <3> QED  BY <2>1 DEF Fields
  <2> HIDE DEF h1s
  <2>3. DOMAIN h2 = Fields /\ h2.resume = resume
    <3> HIDE DEF resume
    <3> QED  BY <2>2 DEF Fields, NewHash
  <2> HIDE DEF h2
  <2>4. DOMAIN h2b = Fields /\ h2b.resume = resume
    <3> HIDE DEF resume
    <3> QED  BY <2>3 DEF Fields
  <2> HIDE DEF h2b
  <2>5. DOMAIN h3 = Fields /\ h3.resume = resume
    <3> HIDE DEF resume, h, m
    <3> QED  BY <2>4 DEF Fields, Hashed
  <2> HIDE DEF h3
  <2>6. h4.resume = resume
    <3> HIDE DEF resume, h
    <3> QED  BY <2>5 DEF Fields
  <2>7. PICK l : l = AfterDone(h4)
    OBVIOUS
  <2>8. l \in {"newSessionTicket", "serverCCS"}
    BY <2>7 DEF AfterDone
  <2> HIDE DEF h4
  <2>9. Moves("client", h4, l, <<>>, TRUE, NoError)
    BY <1>7, <2>7 DEF Establishes
  <2>10. h4.resume
    BY <1>7, <2>6
  <2>11. Keyed("client", l, h4, InAfter("client", h4, FALSE, TRUE), OutAfter("client", h4, FALSE, TRUE))
    BY <2>8, <2>10 DEF Keyed, InAfter, OutAfter, ClientEnding
  <2>12. l # "certificateVerify" /\ m.type # "ccs"
    BY <1>1, <2>8
  <2> QED  BY <1>1, <1>4, <2>9, <2>11, <2>12, KeysGoOn
<1> QED  BY <1>2, <1>5, <1>6, <1>7

LEMMA ReadNewSessionTicketKeys == IInv /\ KeysInv /\ ReadNewSessionTicket => KeysInv'
<1> SUFFICES ASSUME IInv, KeysInv, ReadNewSessionTicket  PROVE KeysInv'
  OBVIOUS
<1>1. /\ chan["server"] # <<>> /\ pc["client"] = "newSessionTicket"
      /\ Message("client").type = "newSessionTicket" /\ Peer("client") = "server" /\ "client" \in Sides
  BY ReadsSomething, PointsOf DEF ReadNewSessionTicket, Peer, Sides
<1>2. PICK m : m = Message("client")
  OBVIOUS
<1>3. PICK h : h = hs["client"]
  OBVIOUS
<1>4. DOMAIN h = Fields
  BY <1>3 DEF IInv, Shapes, Sides
<1>5. PICK n : n = [ticket |-> m.ticket, vers |-> h.vers, suite |-> h.suite,
                    master |-> h.master, peer |-> h.peer]
  OBVIOUS
<1>6. PICK g : g = [h EXCEPT !.newSession = n]
  OBVIOUS
<1>7. PICK h1 : h1 = Hashed(g, <<m>>)
  OBVIOUS
<1>8. Moves("client", h1, "serverCCS", <<>>, FALSE, NoError)
  BY <1>2, <1>3, <1>5, <1>6, <1>7 DEF ReadNewSessionTicket, Continues
<1>9. DOMAIN g = Fields /\ SameSecrets(h, g) /\ g.resume = h.resume
  BY <1>4, <1>6 DEF Fields, SameSecrets
<1>10. SameSecrets(h, h1) /\ h1.resume = h.resume
  BY <1>7, <1>9 DEF Fields, Hashed, SameSecrets
<1>11. \A k : Key(k, h1) = Key(k, h)
  BY <1>10, SameKeys
<1>12. Keyed("client", "newSessionTicket", h, in["client"], out["client"])
  BY <1>1, <1>3, KeyedNow
<1>13. Keyed("client", "serverCCS", h1, InAfter("client", h1, FALSE, FALSE), OutAfter("client", h1, FALSE, FALSE))
  BY <1>10, <1>11, <1>12 DEF Keyed, InAfter, OutAfter, ClientEnding
<1>14. MastersKept
  BY MastersStay DEF ReadNewSessionTicket
<1> QED  BY <1>1, <1>8, <1>13, <1>14, KeysGoOn

LEMMA ReadServerCCSKeys == IInv /\ KeysInv /\ ReadServerCCS => KeysInv'
BY ReadsSomething, PointsOf, KeyedNow, MastersStay, KeysSwitch DEF ReadServerCCS, Peer, Sides, IInv, SessionInv,
   ClientGood, Continues, Keyed, InAfter, OutAfter, ClientEnding

LEMMA ReadClientCCSKeys == IInv /\ KeysInv /\ ReadClientCCS => KeysInv'
<1> SUFFICES ASSUME IInv, KeysInv, ReadClientCCS  PROVE KeysInv'
  OBVIOUS
<1>1. /\ chan["client"] # <<>> /\ pc["server"] \in {"clientCCS", "serverCCS"}
      /\ Message("server").type = "ccs" /\ Peer("server") = "client" /\ "server" \in Sides
  BY ReadsSomething, PointsOf DEF ReadClientCCS, Peer, Sides
<1>2. pc["server"] = "clientCCS"
  BY <1>1 DEF IInv, SessionInv, ServerGood
<1>3. PICK h : h = hs["server"]
  OBVIOUS
<1>4. Moves("server", h, "clientFinished", <<>>, FALSE, NoError)
  BY <1>3 DEF ReadClientCCS, Continues
<1>5. Keyed("server", "clientCCS", h, in["server"], out["server"])
  BY <1>1, <1>2, <1>3, KeyedNow
<1>6. Keyed("server", "clientFinished", h, InAfter("server", h, TRUE, FALSE), OutAfter("server", h, FALSE, FALSE))
  BY <1>5 DEF Keyed, InAfter, OutAfter, ClientEnding
<1>7. MastersKept
  BY MastersStay DEF ReadClientCCS
<1> QED  BY <1>1, <1>2, <1>4, <1>6, <1>7, KeysSwitch

LEMMA EndsConcat ==
  ASSUME NEW p, NEW q, IsSequence(p), IsSequence(q), NEW x \in Elems(q)  PROVE x \in Elems(p \o q)
<1>1. PICK i \in 1..Len(q) : x = q[i]
  BY LenProperties DEF IsSequence, Elems
<1>2. /\ Len(p) \in Nat /\ Len(q) \in Nat /\ Len(p \o q) = Len(p) + Len(q)
      /\ (p \o q)[Len(p) + i] = q[i] /\ IsSequence(p \o q)
  BY ConcatAt
<1>3. DOMAIN (p \o q) = 1..Len(p \o q)
  BY <1>2, LenProperties DEF IsSequence
<1>4. Len(p) + i \in 1..Len(p \o q)
  BY <1>2
<1> QED  BY <1>1, <1>2, <1>3, <1>4 DEF Elems

\* The Finished of the client.
LEMMA FinishedFlight ==
  ASSUME NEW fin, fin.type = "finished"
  PROVE  IsSequence(<<CCS, fin>>) /\ Harmless(<<CCS, fin>>) /\ CCS \in Elems(<<CCS, fin>>)
BY ElemsOfTuples DEF Harmless, CCS

LEMMA ReadServerFinishedKeys == IInv /\ KeysInv /\ ReadServerFinished => KeysInv'
<1> SUFFICES ASSUME IInv, KeysInv, ReadServerFinished  PROVE KeysInv'
  OBVIOUS
<1>1. /\ chan["server"] # <<>> /\ pc["client"] \in {"clientFinished", "serverFinished"}
      /\ Message("client").type = "finished" /\ Peer("client") = "server" /\ "client" \in Sides
  BY ReadsSomething, PointsOf DEF ReadServerFinished, Peer, Sides
<1>2. pc["client"] = "serverFinished"
  BY <1>1 DEF IInv, SessionInv, ClientGood
<1>3. PICK m : m = Message("client")
  OBVIOUS
<1>4. PICK h : h = hs["client"]
  OBVIOUS
<1>5. DOMAIN h = Fields
  BY <1>4 DEF IInv, Shapes, Sides
<1>6. PICK h1 : h1 = Hashed(h, <<m>>)
  OBVIOUS
<1>7. PICK fin : fin = Finished("client", h1)
  OBVIOUS
<1>8. PICK h2 : h2 = Hashed(h1, <<fin>>)
  OBVIOUS
<1>9. \/ \E why : Fails("client", h, <<>>, why)
      \/ h.resume /\ Continues("client", h2, "complete", <<CCS, fin>>)
      \/ ~h.resume /\ Continues("client", h1, "complete", <<>>)
  BY <1>3, <1>4, <1>6, <1>7, <1>8 DEF ReadServerFinished
<1>10. MastersKept
  BY MastersStay DEF ReadServerFinished
<1>11. DOMAIN h1 = Fields /\ SameSecrets(h, h1) /\ h1.resume = h.resume
  BY <1>5, <1>6 DEF Hashed, Fields, SameSecrets
<1>12. SameSecrets(h, h2) /\ h2.resume = h.resume
  BY <1>8, <1>11 DEF Hashed, Fields, SameSecrets
<1>13. \A k : Key(k, h1) = Key(k, h) /\ Key(k, h2) = Key(k, h)
  BY <1>11, <1>12, SameKeys
<1>14. Keyed("client", "serverFinished", h, in["client"], out["client"])
  BY <1>1, <1>2, <1>4, KeyedNow
<1>15. CASE \E why : Fails("client", h, <<>>, why)
  BY <1>1, <1>10, <1>15, FailsQuietly, KeysPlain
<1>16. CASE ~h.resume /\ Continues("client", h1, "complete", <<>>)
  BY <1>13, <1>14, <1>16, <1>1, <1>10, KeysGoOn DEF Keyed, InAfter, OutAfter, ClientEnding, Continues
<1>17. CASE h.resume /\ Continues("client", h2, "complete", <<CCS, fin>>)
  BY <1>13, <1>14, <1>17, <1>7, FinishedFlight, <1>1, <1>10, KeysChange DEF Keyed, InAfter, OutAfter,
     ClientEnding, Finished, Continues
<1> QED  BY <1>9, <1>15, <1>16, <1>17

LEMMA ReadServerHelloDoneKeys == IInv /\ NegotiationInv /\ KeysInv /\ ReadServerHelloDone => KeysInv'
<1> SUFFICES ASSUME IInv, NegotiationInv, KeysInv, ReadServerHelloDone  PROVE KeysInv'
  OBVIOUS
<1> DEFINE h == hs["client"]
           c == config.client
           own == [type |-> "certificate", cert |-> h.own]
           cert == IF h.certReq = None THEN <<>> ELSE <<own>>
           ckx == [type |-> "clientKeyExchange", pre |-> conn]
           told == <<Message("client")>> \o cert \o <<ckx>>
           h1 == Hashed(h, told)
           noShare == SigType[h.suite] # None /\ h.skx = None
           alg == selectClientCertSignatureAlgorithm(h.vers, h.certReq.sigs, h.own.alg)
           verify == IF h.own = None THEN <<>>
                     ELSE <<[type |-> "certificateVerify", alg |-> alg,
                             signature |-> <<h.own, Digest(h1, alg)>>]>>
           h1m == [h1 EXCEPT !.master = MasterSecret(ckx.pre)]
           h1v == Hashed(h1m, verify)
           h2 == Discarded(h1v)
           fin == Finished("client", h2)
           why == FirstOf(<<
             <<noShare, "internal_error">>,
             <<SigType[h.suite] = None /\ h.peer.alg # "RSA", "key type assertion">>,
             <<h.suite = "sm2" /\ c.randNil /\ h.skx # "X25519", "nil Rand">>,
             <<h.own # None /\ alg = None, "internal_error">>,
             <<h.own # None /\ BufferGone(h1), "discarded buffer">> >>)
           partial == IF noShare THEN cert ELSE Append(cert, ckx)
           flight == cert \o <<ckx>> \o verify \o <<CCS, fin>>
           h3 == Hashed(h2, <<fin>>)
<1>1. /\ chan["server"] # <<>> /\ Message("client").type = "serverHelloDone"
      /\ pc["client"] \in {"serverKeyExchange", "certificateRequest", "serverHelloDone"}
      /\ Peer("client") = "server" /\ "client" \in Sides
  BY ReadsSomething, PointsOf DEF ReadServerHelloDone, Peer, Sides
<1>2. \/ Fails("client", h1, partial, why)
      \/ Establishes("client", h3, AfterDone(h), flight)
  BY DEF ReadServerHelloDone
<1>3. DOMAIN h = Fields /\ ~h.resume
  BY <1>1 DEF IInv, Shapes, Sides, SessionInv, ClientGood
<1>4. ckx.type = "clientKeyExchange" /\ CCS.type = "ccs" /\ own.type = "certificate" /\ ckx.pre \in DOMAIN Configs
  BY DEF CCS, NegotiationInv
<1> HIDE DEF own
<1>5. IsSequence(cert) /\ \A m \in Elems(cert) : m.type = "certificate"
  <2>1. cert \in {<<>>, <<own>>}
    OBVIOUS
  <2> HIDE DEF cert
  <2> QED  BY <1>4, <2>1, ElemsOfTuples
<1>6. IsSequence(verify) /\ \A m \in Elems(verify) : m.type = "certificateVerify"
  <2>1. PICK m : m = [type |-> "certificateVerify", alg |-> alg,
                      signature |-> <<h.own, Digest(h1, alg)>>]
    OBVIOUS
  <2>2. verify \in {<<>>, <<m>>} /\ m.type = "certificateVerify"
    BY <2>1
  <2> HIDE DEF verify
  <2> QED  BY <2>2, ElemsOfTuples
<1>7. fin.type = "finished"
  BY DEF Finished
<1> HIDE DEF cert, ckx, verify, fin
<1>8. IsSequence(partial) /\ Harmless(partial)
  BY <1>4, <1>5, ElemsOfAppend DEF Harmless
<1>9. IsSequence(flight) /\ Harmless(flight) /\ CCS \in Elems(flight)
  BY <1>5, ElemsOfTuples, ElemsOfConcat, <1>6, EndsConcat, <1>4, <1>7 DEF Harmless
<1>10. MastersKept
  BY MastersStay DEF ReadServerHelloDone
<1> HIDE DEF partial, flight, why, told
<1>11. DOMAIN h1 = Fields /\ h1.resume = h.resume
  <2> HIDE DEF h
  <2> QED  BY <1>3 DEF Hashed, Fields
<1> HIDE DEF h1
<1>12. CASE Fails("client", h1, partial, why)
  <2>1. Plain("client")
    BY <1>1, <1>8, <1>12, FailsPlainly
  <2> QED  BY <1>1, <1>10, <2>1, KeysPlain
<1>13. CASE Establishes("client", h3, AfterDone(h), flight)
  <2>1. DOMAIN h1m = Fields /\ h1m.resume = h.resume
    <3> HIDE DEF h
    <3> QED  BY <1>11 DEF Fields
  <2> HIDE DEF h1m, h
  <2>2. DOMAIN h1v = Fields /\ h1v.resume = h.resume
    BY <2>1 DEF Fields, Hashed
  <2> HIDE DEF h1v
  <2>3. DOMAIN h2 = Fields /\ h2.resume = h.resume
    BY <2>2 DEF Fields, Discarded
  <2> HIDE DEF h2
  <2>4. h3.resume = h.resume
    BY <2>3 DEF Fields, Hashed
  <2> HIDE DEF h3
  <2>5. PICK l : l = AfterDone(h)
    OBVIOUS
  <2>6. l \in {"newSessionTicket", "serverCCS"}
    BY <2>5 DEF AfterDone
  <2>7. Moves("client", h3, l, flight, TRUE, NoError)
    BY <1>13, <2>5 DEF Establishes
  <2>8. Keyed("client", l, h3, InAfter("client", h3, FALSE, TRUE), OutAfter("client", h3, TRUE, TRUE))
    BY <1>3, <2>4, <2>6 DEF Keyed, InAfter, OutAfter, ClientEnding
  <2>9. l # "certificateVerify"
    BY <2>6
  <2> QED  BY <1>1, <1>9, <1>10, <2>7, <2>8, <2>9, KeysChange
<1> QED  BY <1>2, <1>12, <1>13

\* The server's Finished, and its ticket.
Ending(h, g, msgs) == /\ DOMAIN g = Fields /\ SameSecrets(h, g) /\ g.resume = h.resume
                      /\ IsSequence(msgs) /\ CCS \in Elems(msgs)

LEMMA ServerEndKeys ==
  ASSUME NEW h, DOMAIN h = Fields  PROVE Ending(h, ServerEnd(h).hs, ServerEnd(h).msgs)
<1>1. PICK x : x = [type |-> "newSessionTicket", ticket |-> Ticket(h, h.peer)]
  OBVIOUS
<1>2. PICK t : t = NewSessionTicket(h)
  OBVIOUS
<1>3. t \in {<<>>, <<x>>}
  BY <1>1, <1>2 DEF NewSessionTicket
<1>4. IsSequence(t)
  BY <1>3, ElemsOfTuples
<1>5. PICK h1 : h1 = Hashed(h, t)
  OBVIOUS
<1>6. DOMAIN h1 = Fields /\ SameSecrets(h, h1) /\ h1.resume = h.resume
  BY <1>5 DEF Hashed, Fields, SameSecrets
<1>7. PICK fin : fin = Finished("server", h1)
  OBVIOUS
<1>8. PICK h2 : h2 = Hashed(h1, <<fin>>)
  OBVIOUS
<1>9. DOMAIN h2 = Fields /\ SameSecrets(h, h2) /\ h2.resume = h.resume
  BY <1>6, <1>8 DEF Hashed, Fields, SameSecrets
<1>10. ServerEnd(h).msgs = t \o <<CCS, fin>> /\ ServerEnd(h).hs = h2
  BY <1>2, <1>5, <1>7, <1>8 DEF ServerEnd
<1>11. IsSequence(t \o <<CCS, fin>>) /\ CCS \in Elems(t \o <<CCS, fin>>)
  BY <1>4, ElemsOfTuples, ElemsOfConcat, EndsConcat
<1> QED  BY <1>9, <1>10, <1>11 DEF Ending

LEMMA ReadClientKeyExchangeKeys == IInv /\ NegotiationInv /\ KeysInv /\ ReadClientKeyExchange => KeysInv'
<1> SUFFICES ASSUME IInv, NegotiationInv, KeysInv, ReadClientKeyExchange  PROVE KeysInv'
  OBVIOUS
<1>1. /\ chan["client"] # <<>> /\ pc["server"] = "clientKeyExchange"
      /\ Message("server").type = "clientKeyExchange" /\ Peer("server") = "client" /\ "server" \in Sides
  BY ReadsSomething, PointsOf DEF ReadClientKeyExchange, Peer, Sides
<1>2. PICK h : h = hs["server"]
  OBVIOUS
<1>3. PICK m : m = Message("server")
  OBVIOUS
<1>4. PICK g : g = [h EXCEPT !.master = MasterSecret(m.pre)]
  OBVIOUS
<1>5. PICK h1 : h1 = Hashed(g, <<m>>)
  OBVIOUS
<1>6. PICK h2 : h2 = Discarded(h1)
  OBVIOUS
<1>7. DOMAIN h = Fields /\ ~h.resume
  BY <1>1, <1>2 DEF IInv, Shapes, Sides, SessionInv, ServerGood
<1>8. DOMAIN g = Fields /\ g.resume = h.resume /\ g.master = MasterSecret(m.pre)
  BY <1>4, <1>7 DEF Fields
<1>9. DOMAIN h1 = Fields /\ h1.resume = h.resume /\ h1.master = MasterSecret(m.pre)
  BY <1>5, <1>8 DEF Hashed, Fields
<1>10. h2.resume = h.resume
  BY <1>6, <1>9 DEF Discarded, Fields
<1>11. h1.master \in Masters
  BY <1>1, <1>3, ArrivedMessage, <1>9 DEF KeysInv, MasterInv, NegotiationInv, MasterSecret, Masters
<1>12. CASE Establishes("server", h2, "clientCCS", <<>>) /\ masters' = masters \cup {Master(h1)}
  <2>1. MastersKept
    BY <1>11, <1>12 DEF MastersKept, Master
  <2>2. Keyed("server", "clientCCS", h2, InAfter("server", h2, FALSE, TRUE), OutAfter("server", h2, FALSE, TRUE))
    BY <1>7, <1>10 DEF Keyed, InAfter, OutAfter, ClientEnding
  <2> QED  BY <1>1, <1>12, <2>1, <2>2, KeysGoOn DEF Establishes
<1>13. CASE Continues("server", h1, "certificateVerify", <<>>) /\ UNCHANGED masters
  BY <1>1, <1>11, ElemsOfTuples, <1>13, KeysPlain, MastersStay DEF Lawful, Keyful, ClientEnding, Plain,
     Continues
<1> QED  BY <1>2, <1>3, <1>4, <1>5, <1>6, <1>12, <1>13 DEF ReadClientKeyExchange

LEMMA ReadCertificateVerifyKeys == IInv /\ KeysInv /\ ReadCertificateVerify => KeysInv'
<1> SUFFICES ASSUME IInv, KeysInv, ReadCertificateVerify  PROVE KeysInv'
  OBVIOUS
<1>1. /\ chan["client"] # <<>> /\ pc["server"] = "certificateVerify"
      /\ Message("server").type = "certificateVerify" /\ Peer("server") = "client" /\ "server" \in Sides
  BY ReadsSomething, PointsOf DEF ReadCertificateVerify, Peer, Sides
<1>2. PICK h : h = hs["server"]
  OBVIOUS
<1>3. PICK m : m = Message("server")
  OBVIOUS
<1>4. PICK g : g = Hashed(h, <<m>>)
  OBVIOUS
<1>5. PICK h1 : h1 = Discarded(g)
  OBVIOUS
<1>6. DOMAIN h = Fields /\ ~h.resume
  BY <1>1, <1>2 DEF IInv, Shapes, Sides, SessionInv, ServerGood
<1>7. DOMAIN g = Fields /\ g.resume = h.resume
  BY <1>4, <1>6 DEF Hashed, Fields
<1>8. h1.resume = h.resume
  BY <1>5, <1>7 DEF Discarded, Fields
<1>9. \/ UNCHANGED masters /\ \E why : Fails("server", h, <<>>, why)
      \/ Establishes("server", h1, "clientCCS", <<>>) /\ masters' = masters \cup {Master(h)}
  BY <1>2, <1>3, <1>4, <1>5 DEF ReadCertificateVerify
<1>10. CASE UNCHANGED masters /\ \E why : Fails("server", h, <<>>, why)
  BY <1>1, <1>10, FailsQuietly, KeysPlain, MastersStay
<1>11. CASE Establishes("server", h1, "clientCCS", <<>>) /\ masters' = masters \cup {Master(h)}
  <2>1. h.master \in Masters
    BY <1>1, <1>2 DEF KeysInv, MasterInv
  <2>2. MastersKept
    BY <1>11, <2>1 DEF MastersKept, Master
  <2>3. Keyed("server", "clientCCS", h1, InAfter("server", h1, FALSE, TRUE), OutAfter("server", h1, FALSE, TRUE))
    BY <1>6, <1>8 DEF Keyed, InAfter, OutAfter, ClientEnding
  <2> QED  BY <1>1, <1>11, <2>2, <2>3, KeysGoOn DEF Establishes
<1> QED  BY <1>9, <1>10, <1>11

LEMMA ReadClientFinishedKeys == IInv /\ KeysInv /\ ReadClientFinished => KeysInv'
<1> SUFFICES ASSUME IInv, KeysInv, ReadClientFinished  PROVE KeysInv'
  OBVIOUS
<1>1. /\ chan["client"] # <<>> /\ pc["server"] \in {"clientFinished", "serverFinished"}
      /\ Message("server").type = "finished" /\ Peer("server") = "client" /\ "server" \in Sides
  BY ReadsSomething, PointsOf DEF ReadClientFinished, Peer, Sides
<1>2. pc["server"] = "clientFinished"
  BY <1>1 DEF IInv, SessionInv, ServerGood
<1>3. PICK m : m = Message("server")
  OBVIOUS
<1>4. PICK h : h = hs["server"]
  OBVIOUS
<1>5. DOMAIN h = Fields
  BY <1>4 DEF IInv, Shapes, Sides
<1>6. PICK h1 : h1 = Hashed(h, <<m>>)
  OBVIOUS
<1>7. PICK h2, msgs : h2 = ServerEnd(h1).hs /\ msgs = ServerEnd(h1).msgs
  OBVIOUS
<1>8. \/ \E why : Fails("server", h, <<>>, why)
      \/ h.resume /\ Continues("server", h1, "complete", <<>>)
      \/ ~h.resume /\ Continues("server", h2, "complete", msgs)
  BY <1>3, <1>4, <1>6, <1>7 DEF ReadClientFinished
<1>9. MastersKept
  BY MastersStay DEF ReadClientFinished
<1>10. DOMAIN h1 = Fields /\ SameSecrets(h, h1) /\ h1.resume = h.resume
  BY <1>5, <1>6 DEF Hashed, Fields, SameSecrets
<1>11. Ending(h1, h2, msgs)
  BY <1>7, <1>10, ServerEndKeys
<1>12. \A k : Key(k, h1) = Key(k, h) /\ Key(k, h2) = Key(k, h1)
  BY <1>10, <1>11, SameKeys DEF Ending
<1>13. Keyed("server", "clientFinished", h, in["server"], out["server"])
  BY <1>1, <1>2, <1>4, KeyedNow
<1>14. CASE \E why : Fails("server", h, <<>>, why)
  BY <1>1, <1>9, <1>14, FailsQuietly, KeysPlain
<1>15. CASE h.resume /\ Continues("server", h1, "complete", <<>>)
  BY <1>12, <1>13, <1>15, <1>1, <1>9, KeysGoOn DEF Keyed, InAfter, OutAfter, ClientEnding, Continues
<1>16. CASE ~h.resume /\ Continues("server", h2, "complete", msgs)
  BY <1>12, <1>13, <1>16, <1>11, <1>1, <1>9, KeysChange DEF Keyed, InAfter, OutAfter, ClientEnding, Ending,
     Continues
<1> QED  BY <1>8, <1>14, <1>15, <1>16

LEMMA ResumesKeys ==
  ASSUME IInv, KeysInv, chan["client"] # <<>>, Message("server").type # "ccs", MastersKept,
         NEW h, DOMAIN h = Fields, NEW hello, NEW m, Resumes(h, hello, m)
  PROVE  KeysInv'
<1> DEFINE t == m.ticket
           full == [hello EXCEPT !.suite = t.suite, !.sessionId = m.sessionId,
                                 !.tickets = t.key # Head(ticketKeys)]
           g == [h EXCEPT !.suite = t.suite, !.serverHello = full, !.resume = TRUE]
           g1 == NewHash(g)
           g2 == Discarded(g1)
           h1 == Hashed(g2, <<m, full>>)
           h2 == [h1 EXCEPT !.peer = ResumedCert(t), !.master = t.master]
           end == ServerEnd(h2)
           flight == <<full>> \o end.msgs
<1>1. \/ Establishes("server", end.hs, "clientCCS", flight)
      \/ Fails("server", h1, <<full>>, "bad_certificate")
  BY DEF Resumes
<1>2. "server" \in Sides /\ Peer("server") = "client" /\ "server" # "client"
  BY DEF Sides, Peer
<1> HIDE DEF full
<1>3. DOMAIN g = Fields /\ g.resume = TRUE
  <2> HIDE DEF t
  <2> QED  BY DEF Fields
<1> HIDE DEF g
<1>4. DOMAIN g1 = Fields /\ g1.resume = TRUE
  BY <1>3 DEF NewHash, Fields
<1> HIDE DEF g1
<1>5. DOMAIN g2 = Fields /\ g2.resume = TRUE
  BY <1>4 DEF Discarded, Fields
<1> HIDE DEF g2
<1>6. DOMAIN h1 = Fields /\ h1.resume = TRUE
  BY <1>5 DEF Hashed, Fields
<1> HIDE DEF h1
<1>7. DOMAIN h2 = Fields /\ h2.resume = TRUE
  BY <1>6 DEF Fields
<1> HIDE DEF h2
<1>8. CASE Fails("server", h1, <<full>>, "bad_certificate")
  BY <1>8, ElemsOfTuples, <1>2, FailsPlainly, KeysPlain
<1>9. CASE Establishes("server", end.hs, "clientCCS", flight)
  <2>1. PICK h3, q : h3 = end.hs /\ q = end.msgs
    OBVIOUS
  <2>2. Ending(h2, h3, q)
    BY <1>7, <2>1, ServerEndKeys
  <2>3. PICK msgs : msgs = <<full>> \o q
    OBVIOUS
  <2>4. Moves("server", h3, "clientCCS", msgs, TRUE, NoError)
    BY <1>9, <2>1, <2>3 DEF Establishes
  <2>5. IsSequence(msgs) /\ CCS \in Elems(msgs)
    BY <2>2, <2>3, ElemsOfTuples, ElemsOfConcat, EndsConcat DEF Ending
  <2>6. h3.resume
    BY <1>7, <2>2 DEF Ending
  <2>7. Keyed("server", "clientCCS", h3, InAfter("server", h3, FALSE, TRUE), OutAfter("server", h3, TRUE, TRUE))
    BY <2>6 DEF Keyed, InAfter, OutAfter, ClientEnding
  <2> QED  BY <1>2, <2>4, <2>5, <2>7, KeysChange
<1> QED  BY <1>1, <1>8, <1>9

LEMMA OffersKeys ==
  ASSUME IInv, KeysInv, chan["client"] # <<>>, MastersKept,
         NEW h, NEW m, NEW hello,
         DOMAIN hello = {"type", "vers", "suite", "proto", "tickets", "staple", "sessionId"},
         hello.type = "serverHello", NEW suite, NEW curve, Offers(h, hello, m, suite, curve)
  PROVE  KeysInv'
<1> DEFINE sc == config.server
           full == [hello EXCEPT !.suite = suite, !.tickets = m.tickets /\ sc.tickets,
                                 !.staple = sc.staple]
           a == SKXAlgorithm(suite, h.vers, m.sigs, sc.cert.alg)
           unsigned == SigType[suite] # None /\ (a = None \/ curve = None)
           skx == IF SigType[suite] = None \/ unsigned THEN <<>>
                  ELSE <<[type |-> "serverKeyExchange", curve |-> curve, alg |-> a,
                          signature |-> <<sc.cert, SKXDigest(a, curve)>>]>>
           flight == ServerFlight(sc, full, skx)
           g == [h EXCEPT !.suite = suite, !.serverHello = full]
           h1 == NewHash(g)
           h1b == [h1 EXCEPT !.buffer = @ /\ sc.auth # 0]
           h2 == Hashed(h1b, <<m>> \o flight)
           why == FirstOf(<< <<NilMD5(h.vers, suite), "nil MD5">>,
                             <<unsigned, "handshake_failure">> >>)
           some == SubSeq(flight, 1, IF full.staple THEN 3 ELSE 2)
           l == IF sc.auth = 0 THEN "clientKeyExchange" ELSE "clientCertificate"
<1>1. \/ Fails("server", h1, some, why)
      \/ Continues("server", h2, l, flight)
  BY DEF Offers
<1>2. full.type = "serverHello"
  OBVIOUS
<1>3. IsSequence(skx) /\ \A x \in Elems(skx) : x.type = "serverKeyExchange"
  <2>1. PICK x : x = [type |-> "serverKeyExchange", curve |-> curve, alg |-> a,
                      signature |-> <<sc.cert, SKXDigest(a, curve)>>]
    OBVIOUS
  <2>2. x.type = "serverKeyExchange" /\ (skx = <<>> \/ skx = <<x>>)
    BY <2>1
  <2> HIDE DEF skx
  <2> QED  BY <2>2, ElemsOfTuples
<1> HIDE DEF skx, why
<1>4. /\ IsSequence(flight) /\ Len(flight) >= IF full.staple THEN 3 ELSE 2
  <2> HIDE DEF full
  <2> QED  BY <1>2, <1>3, ServerFlightGood
<1> HIDE DEF full, flight, h1, h2
<1>5. "server" \in Sides /\ Peer("server") = "client" /\ "server" # "client"
  BY DEF Sides, Peer
<1>6. CASE Fails("server", h1, some, why)
  <2>1. IsSequence(some)
    BY <1>4, ElemsOfPrefix
  <2> HIDE DEF some
  <2>2. Plain("server")
    BY <1>5, <1>6, <2>1, FailsPlainly
  <2> QED  BY <1>5, <2>2, KeysPlain
<1>7. CASE Continues("server", h2, l, flight)
  <2>1. l \notin Keyful /\ l # "certificateVerify"
    BY DEF Keyful, ClientEnding
  <2> HIDE DEF l
  <2>2. Lawful("server", l, h2, flight)
    BY <1>4, <1>5, <2>1 DEF Lawful
  <2>3. Plain("server")
    BY <1>7, <2>1, <2>2 DEF Plain, Continues
  <2> QED  BY <1>5, <2>3, KeysPlain
<1> QED  BY <1>1, <1>6, <1>7

LEMMA ReadClientHelloKeys == IInv /\ KeysInv /\ ReadClientHello => KeysInv'
<1> SUFFICES ASSUME IInv, KeysInv, ReadClientHello  PROVE KeysInv'
  OBVIOUS
<1> DEFINE sc == config.server
           m == Message("server")
           vers == MutualVersion(sc, m.vers)
           alg == IF sc.cert = None THEN None ELSE sc.cert.alg
           curve == ChooseCurve(sc, m.curves)
           proto == MutualProtocol(m.protos, sc.protos)
           resume == Resumable(sc, m, vers, alg, curve)
           suite == ChooseSuite(sc, m.suites, alg, curve # None, vers)
           h == [NoState EXCEPT !.hello = m, !.vers = vers, !.proto = proto]
           hello == [type |-> "serverHello", vers |-> vers, suite |-> None, proto |-> proto,
                     tickets |-> FALSE, staple |-> FALSE, sessionId |-> None]
           why == FirstOf(<<
             <<vers = None, "protocol_version">>,
             <<sc.cert = None, "internal_error">>,
             <<~resume /\ suite = None, "handshake_failure">> >>)
<1>1. /\ chan["client"] # <<>> /\ m.type = "clientHello"
      /\ Peer("server") = "client" /\ "server" \in Sides
  BY ReadsSomething, PointsOf DEF ReadClientHello, Peer, Sides
<1>2. \/ Fails("server", h, <<>>, why)
      \/ Resumes(h, hello, m)
      \/ Offers(h, hello, m, suite, curve)
  BY DEF ReadClientHello
<1>3. MastersKept
  BY MastersStay DEF ReadClientHello
<1> HIDE DEF vers, curve, suite, proto, why
<1>4. DOMAIN h = Fields
  <2> HIDE DEF m
  <2> QED  BY DEF NoState, Fields
<1>5. DOMAIN hello = {"type", "vers", "suite", "proto", "tickets", "staple", "sessionId"}
      /\ hello.type = "serverHello"
  OBVIOUS
<1> HIDE DEF h, hello
<1>6. CASE Fails("server", h, <<>>, why)
  BY <1>1, <1>3, <1>6, FailsQuietly, KeysPlain
<1>7. CASE Resumes(h, hello, m)
  <2>1. Message("server").type # "ccs"
    BY <1>1
  <2> HIDE DEF m
  <2> QED  BY <1>1, <1>3, <1>4, <1>7, <2>1, ResumesKeys
<1>8. CASE Offers(h, hello, m, suite, curve)
  <2> HIDE DEF m
  <2> QED  BY <1>1, <1>3, <1>5, <1>8, OffersKeys
<1> QED  BY <1>2, <1>6, <1>7, <1>8

LEMMA ReadAlertKeys == ASSUME IInv, KeysInv, NEW s \in Sides, ReadAlert(s)  PROVE KeysInv'
<1>1. chan[Peer(s)] # <<>> /\ Message(s).type = "alert" /\ MastersKept
  BY MastersStay DEF ReadAlert
<1>2. \/ Continues(s, hs[s], pc[s], <<>>)
      \/ \E e : Moves(s, hs[s], "failed", <<>>, FALSE, e)
  BY DEF ReadAlert
<1>3. PICK h : h = hs[s]
  OBVIOUS
<1>4. CASE \E e : Moves(s, hs[s], "failed", <<>>, FALSE, e)
  <2>1. "failed" \notin Keyful /\ Lawful(s, "failed", h, <<>>)
    BY <1>1, NothingWritten DEF Keyful, ClientEnding
  <2>2. Plain(s)
    BY <1>3, <1>4, <2>1 DEF Plain
  <2> QED  BY <1>1, <2>2, KeysPlain
<1>5. CASE Continues(s, hs[s], pc[s], <<>>)
  <2>1. PICK l, msgs, rd, wr, est : l = pc[s] /\ msgs = <<>> /\ rd = FALSE /\ wr = FALSE /\ est = FALSE
    OBVIOUS
  <2>2. Moves(s, h, l, msgs, est, NoError)
    BY <1>3, <1>5, <2>1 DEF Continues
  <2>3. Lawful(s, l, h, msgs)
    BY <1>1, <1>3, <2>1, ElemsOfTuples DEF Lawful, KeysInv, MasterInv
  <2>4. Switches(s, msgs, rd, wr)
    BY <1>1, <2>1, ElemsOfTuples DEF Switches
  <2>5. Keyed(s, l, h, in[s], out[s])
    BY <1>3, <2>1, KeyedNow
  <2>6. Keyed(s, l, h, InAfter(s, h, rd, est), OutAfter(s, h, wr, est))
    BY <2>1, <2>5 DEF Keyed, InAfter, OutAfter
  <2> QED  BY <1>1, <2>1, <2>2, <2>3, <2>4, <2>6, KeysStep
<1> QED  BY <1>2, <1>4, <1>5

\* A wait that the network ends, and steps that leave both sides as they are.
LEMMA KeysIdle ==
  ASSUME IInv, KeysInv, UNCHANGED <<conn, hs, in, out, chan, masters>>,
         \A s \in Sides : pc'[s] = pc[s] \/ pc'[s] = "failed"
  PROVE  KeysInv'
BY KeyedNow DEF Keyful, ClientEnding, Sides, Keyed, Key, Peer, KeysInv, KeyedInv, MasterInv

Beginning ==
  /\ pc = [client |-> "start", server |-> "clientHello"] /\ chan = [s \in Sides |-> <<>>]
  /\ in = [s \in Sides |-> [key |-> None, next |-> None, seq |-> 0]]
  /\ \A m \in masters : m.master \in Masters

LEMMA BeginKeys == Beginning => KeysInv
<1> SUFFICES ASSUME Beginning  PROVE KeysInv
  OBVIOUS
<1> USE DEF Beginning
<1>1. \A s \in Sides : pc[s] \notin Keyful
  BY DEF Keyful, ClientEnding, Sides
<1>2. \A s \in Sides : Keyed(s, pc[s], hs[s], in[s], out[s])
  BY <1>1 DEF Keyed, Keyful, ClientEnding
<1>3. \A s \in Sides : Elems(chan[s]) = {}
  BY ElemsOfTuples
<1>4. KeyedInv
  BY <1>2, <1>3 DEF KeyedInv
<1>5. MasterInv
  BY <1>3 DEF MasterInv, Msgs, Sides
<1> QED  BY <1>4, <1>5 DEF KeysInv

LEMMA InitKeys == Init => KeysInv
BY BeginKeys DEF Init, Beginning

LEMMA ReconnectKeys == KeysInv /\ Reconnect => KeysInv'
<1> SUFFICES ASSUME KeysInv, Reconnect  PROVE KeysInv'
  OBVIOUS
<1>1. UNCHANGED masters /\ \A m \in masters : m.master \in Masters
  BY DEF Reconnect, KeysInv, MasterInv
<1>2. Beginning'
  BY <1>1 DEF Reconnect, Begin, Beginning
<1>3. (Beginning => KeysInv)'
  BY BeginKeys, PTL
<1> QED  BY <1>2, <1>3

LEMMA NextKeys == IInv /\ NegotiationInv /\ KeysInv /\ [Next]_vars => KeysInv'
<1> SUFFICES ASSUME IInv, NegotiationInv, KeysInv, [Next]_vars  PROVE KeysInv'
  OBVIOUS
<1>1. CASE Client
  BY <1>1, SendClientHelloKeys, ReadServerHelloKeys, EarlyKeys, ReadServerHelloDoneKeys,
     ReadNewSessionTicketKeys, ReadServerCCSKeys, ReadServerFinishedKeys
  DEF Client
<1>2. CASE Server
  BY <1>2, ReadClientHelloKeys, ReadClientCertificateKeys, ReadClientKeyExchangeKeys,
     ReadCertificateVerifyKeys, ReadClientCCSKeys, ReadClientFinishedKeys
  DEF Server
<1>3. CASE \E s \in Sides : RefuseRecord(s)
  BY <1>3, RefuseRecordKeys
<1>4. CASE \E s \in Sides : ReadAlert(s)
  BY <1>4, ReadAlertKeys
<1>5. CASE \E s \in Sides : ReadEOF(s) \/ NetFails(s)
  BY <1>5, KeysIdle DEF ReadEOF, NetFails, Breaks, IInv, Shapes
<1>6. CASE RotateTicketKeys \/ Done \/ UNCHANGED vars
  BY <1>6, KeysIdle DEF RotateTicketKeys, Done, vars
<1>7. CASE Reconnect
  BY <1>7, ReconnectKeys
<1> QED  BY <1>1, <1>2, <1>3, <1>4, <1>5, <1>6, <1>7 DEF Next, Reads

\* What both ends agree on, in all.
LEMMA AgreedAtEnd ==
  ASSUME AgreeInv, NEW c, c = hs["client"], NEW v, v = hs["server"],
         NEW lc, lc = pc["client"], NEW lv, lv = pc["server"], lc = "complete" \/ lv = "complete"
  PROVE  /\ SameSecrets(c, v) /\ c.proto = v.proto /\ c.resume = v.resume
         /\ ~c.resume => c.peer = config.server.cert /\ v.peer = c.own
         /\ Prefix(c.transcript, v.transcript) \/ Prefix(v.transcript, c.transcript)
         /\ lc = "complete" /\ ~c.resume => lv = "complete"
         /\ lv = "complete" /\ c.resume => lc = "complete"
BY BeginsPrefix DEF AgreeInv, AgreementInv, EndInv, HelloInv, DistanceInv, ServerSpent

\* A key of a handshake that is complete is one.
LEMMA KeysExist ==
  ASSUME IInv, NegotiationInv, KeysInv, pc["server"] = "complete", NEW k \in Sides
  PROVE  Key(k, hs["server"]) # None
<1>1. PICK h : h = hs["server"]
  OBVIOUS
<1>2. h.master \in Masters
  BY <1>1 DEF IInv, SessionInv, ServerGood, ServerDerived, KeysInv, MasterInv
<1>3. Picked(h.vers, h.suite)
  BY <1>1 DEF NegotiationInv, ServerAgreed
<1>4. h.vers \in TLS10..TLS12
  BY <1>3, VersionBounds DEF Picked
<1>5. h.suite \in Suites
  BY <1>3, ConfigTypes, LenProperties, ElementOfSeq DEF Picked, Elems
<1>6. Key(k, h) \in Keys
  BY <1>2, <1>4, <1>5 DEF Key, Keys, NegotiationInv
<1> QED  BY <1>1, <1>6, NoneAssumption DEF NoneAssumption

\* As soon as one side is complete, both have the same version, suite, master secret and
\* protocol, resume or do not, and know each other by the certificates that were shown; neither
\* has completed without the other's Finished, one transcript continues the other, and what either
\* encrypts the other decrypts.
THEOREM BothEndsAgree == Spec => []Agreement
<1>1. IInv /\ NegotiationInv /\ AgreeInv /\ KeysInv => Agreement
  BY AgreedAtEnd, KeyedNow, SameKeys, KeysExist DEF Agreement, Sides, Peer, Keyed, SameSecrets
<1>2. Spec => [](IInv /\ NegotiationInv /\ AgreeInv /\ KeysInv)
  BY InitIInv, NextIInv, InitAgreed, NextAgreed, InitAgrees, NextAgrees, InitKeys, NextKeys, PTL DEF Spec
<1> QED  BY <1>1, <1>2, PTL
==============================================================================
