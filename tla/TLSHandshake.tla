---------------------------- MODULE TLSHandshake ----------------------------
(***************************************************************************)
(* The handshake of a client and a server of package tls, over a series of *)
(* connections that share the client's session cache and the server's      *)
(* ticket keys (tls/handshake_client.go, tls/handshake_server.go,          *)
(* tls/ticket.go, the record layer of tls/conn.go).                        *)
(*                                                                         *)
(* pc[s] names the message side s waits for; an action is the code from    *)
(* the arrival of that message to the next blocking read.  What is written *)
(* in between is one flight: the code buffers it and flushes before it     *)
(* reads, and Handshake flushes what an error leaves behind.  Each message *)
(* is one record.  Secrets are symbolic: a master secret is the premaster  *)
(* and randoms it comes from, a MAC or signature what it is computed on.   *)
(*                                                                         *)
(* A client config is a record of min, max, suites, curves, protos (its    *)
(* preferences), cache (it uses the session cache), certs, roots and       *)
(* randNil (Config.Rand is nil); a server config of min, max, suites,      *)
(* prefer, curves, protos, cert, staple, tickets, auth (ClientAuth, 0..4)  *)
(* and cas.  The server Configs have their ticket keys in common.          *)
(***************************************************************************)
EXTENDS TLSNegotiation

CONSTANTS
  Configs,      \* Configs[i]: the pairs [client, server] connection i may be made with
  MaxRotations, \* bound: calls of SetSessionTicketKeys
  NetFailures   \* the connections in which reads may fail

ASSUME HandshakeAssumption ==
  /\ Len(Configs) \in Nat \ {0} /\ DOMAIN Configs = 1..Len(Configs)
  /\ \A i \in DOMAIN Configs : \A p \in Configs[i] : \A c \in {p.client, p.server} :
       c.min \in Nat /\ c.max \in TLS10..TLS12 /\ c.suites \in Seq(Suites)
  /\ MaxRotations \in Nat /\ NetFailures \subseteq DOMAIN Configs

VARIABLES
  conn, config,          \* which connection, and its configs
  pc, hs, err,           \* of each side: control point, handshake state, outcome
  in, out,               \* halfConns: key, next (the prepared key), seq
  chan,                  \* records sent by each side and not read
  cache,                 \* the session the client's cache holds for this server
  ticketKeys,            \* the server's sessionTicketKeys
  masters,               \* ghost: every full handshake, by its master secret
  installed, reused      \* ghosts: keys that encrypted, and whether one came back

vars == <<conn, config, pc, hs, err, in, out, chan, cache, ticketKeys, masters, installed, reused>>

Sides   == {"client", "server"}
Peer(s) == IF s = "client" THEN "server" ELSE "client"

\* What the code keeps of a handshake, in both handshakeStates and in Conn.
NoState ==
  [vers |-> None, suite |-> None, hello |-> None, serverHello |-> None, session |-> None,
   resume |-> FALSE, transcript |-> <<>>, buffer |-> FALSE, master |-> None, peer |-> None,
   proto |-> None, skx |-> None, certReq |-> None, own |-> None, newSession |-> None]

NoError == [by |-> "none", why |-> None]

Begin(i) ==
  /\ conn' = i /\ config' \in Configs[i]
  /\ pc' = [client |-> "start", server |-> "clientHello"]
  /\ hs' = [s \in Sides |-> NoState] /\ err' = [s \in Sides |-> NoError]
  /\ in' = [s \in Sides |-> [key |-> None, next |-> None, seq |-> 0]] /\ out' = in'
  /\ chan' = [s \in Sides |-> <<>>]

Init ==
  /\ conn = 1 /\ config \in Configs[1]
  /\ pc = [client |-> "start", server |-> "clientHello"]
  /\ hs = [s \in Sides |-> NoState] /\ err = [s \in Sides |-> NoError]
  /\ in = [s \in Sides |-> [key |-> None, next |-> None, seq |-> 0]] /\ out = in
  /\ chan = [s \in Sides |-> <<>>]
  /\ cache = None /\ ticketKeys = <<1>>
  /\ masters = {} /\ installed = {} /\ reused = FALSE

-----------------------------------------------------------------------------
(* The record layer.                                                       *)

Expected ==
  [clientHello |-> {"clientHello"}, clientCertificate |-> {"certificate"},
   clientKeyExchange |-> {"clientKeyExchange"}, certificateVerify |-> {"certificateVerify"},
   clientCCS |-> {"ccs"}, clientFinished |-> {"finished"},
   serverHello |-> {"serverHello"}, serverCertificate |-> {"certificate"},
   certificateStatus |-> {"certificateStatus"},
   serverKeyExchange |-> {"serverKeyExchange", "certificateRequest", "serverHelloDone"},
   certificateRequest |-> {"certificateRequest", "serverHelloDone"},
   serverHelloDone |-> {"serverHelloDone"}, newSessionTicket |-> {"newSessionTicket"},
   serverCCS |-> {"ccs"}, serverFinished |-> {"finished"}]

Waits(s) == pc[s] \in DOMAIN Expected
Ended(s) == pc[s] \in {"complete", "failed"}

Typ(m) == IF m.type \in {"alert", "ccs"} THEN m.type ELSE "handshake"

\* writeRecord for each of msgs; what follows a ChangeCipherSpec has the next key.
\* The version is TLS 1.0 until one is agreed.
Sealed(half, vers, msgs) ==
  LET before(i) == \A j \in 1..(i - 1) : msgs[j].type # "ccs"
      ccs == CHOOSE i \in DOMAIN msgs : msgs[i].type = "ccs"
  IN [i \in DOMAIN msgs |->
       [typ |-> Typ(msgs[i]), msg |-> msgs[i], vers |-> IF vers = None THEN TLS10 ELSE vers,
        key |-> IF before(i) THEN half.key ELSE half.next,
        seq |-> IF before(i) THEN half.seq + i - 1 ELSE i - 1 - ccs]]

\* changeCipherSpec.
Switched(half) == [key |-> half.next, next |-> None, seq |-> 0]

\* The half connection after msgs were written.
Written(half, msgs) ==
  LET ccs == {i \in DOMAIN msgs : msgs[i].type = "ccs"} IN
  IF ccs = {} THEN [half EXCEPT !.seq = @ + Len(msgs)]
  ELSE [Switched(half) EXCEPT !.seq = Len(msgs) - CHOOSE i \in ccs : TRUE]

\* The half connection after record r was read.
Taken(half, r) == IF r.typ = "ccs" THEN Switched(half) ELSE [half EXCEPT !.seq = @ + 1]

\* The first of a list of tests that fails, by the alert that answers it.
FirstOf(checks) ==
  LET I == {i \in DOMAIN checks : checks[i][1]} IN
  IF I = {} THEN None ELSE checks[CHOOSE i \in I : \A j \in I : i <= j][2]

\* The refusals of readRecord and readHandshake.
RecordError(s, r) ==
  LET want == IF pc[s] \in {"clientCCS", "serverCCS"} THEN "ccs" ELSE "handshake"
      h == hs[s]
  IN FirstOf(<<
       <<h.vers # None /\ r.vers # h.vers, "protocol_version">>,
       <<h.vers = None /\ r.typ \notin {"alert", want}, "unexpected_message">>,
       <<in[s].key # None /\ (r.key # in[s].key \/ r.seq # in[s].seq), "bad_record_mac">>,
       <<in[s].key = None /\ r.key # None, "unexpected_message">>,
       <<r.typ = "handshake" /\ want = "ccs", "no_renegotiation">>,
       <<r.typ = "ccs" /\ want # "ccs", "unexpected_message">>,
       <<r.typ = "ccs" /\ in[s].next = None, "internal_error">>,
       <<r.typ = "handshake" /\ r.msg.type \notin Expected[pc[s]], "unexpected_message">> >>)

\* The keys of one direction, from the master secret and the randoms of this
\* connection: keysFromMasterSecret.  The mutant leaves the randoms out.
Key_WithoutRandoms(s, h) == <<s, h.master, h.vers, h.suite>>
Key(s, h)                == <<s, h.master, h.vers, h.suite, conn>>

\* The message of this type, if it is next to be read by s.
Arrived(s, type) ==
  /\ Waits(s) /\ type \in Expected[pc[s]] /\ chan[Peer(s)] # <<>>
  /\ Head(chan[Peer(s)]).msg.type = type /\ RecordError(s, Head(chan[Peer(s)])) = None

Message(s) == Head(chan[Peer(s)]).msg

-----------------------------------------------------------------------------
(* How a handler ends.                                                     *)

Alert(a) == [type |-> "alert", why |-> a,
             level |-> IF a = "no_renegotiation" THEN "warning" ELSE "error"]

\* Failures that send no alert: panics, and an error return without one.
Panics == {"nil Rand", "nil MD5", "discarded buffer", "key type assertion"}
Silent == Panics \cup {"unsupported hash"}

\* The alerts of these handlers and of the record layer; None is no reason to fail.
Alerts == {"protocol_version", "unexpected_message", "bad_record_mac", "no_renegotiation",
           "internal_error", "handshake_failure", "bad_certificate"}

\* The types of the signatures of a key exchange.
SignatureTypes == {"RSA", "ECDSA", "SM2"}

\* The requests for a certificate, the master secrets, the keys.
Requests == [type : {"certificateRequest"}, sigs : {<<>>, supportedSignatureAlgorithms},
             authorities : {p.server.cas : p \in UNION {Configs[i] : i \in DOMAIN Configs}}]
Masters  == (DOMAIN Configs) \X (DOMAIN Configs)
Keys     == Sides \X Masters \X (TLS10..TLS12) \X Suites \X (DOMAIN Configs)

ASSUME NoneAssumption ==
  /\ None \notin Alerts \cup Silent \cup SignatureTypes
  /\ None \notin DOMAIN Configs /\ None \notin Requests /\ None \notin Keys

\* s consumes the record it has read, if any, prepares the keys of h if it calls
\* establishKeys, writes msgs and goes on to l.
Moves(s, h, l, msgs, establishes, e) ==
  LET reads == pc[s] # "start"
      i == IF reads THEN Taken(in[s], Head(chan[Peer(s)])) ELSE in[s]
      o == IF establishes THEN [out[s] EXCEPT !.next = Key(s, h)] ELSE out[s]
      ccs == \E j \in DOMAIN msgs : msgs[j].type = "ccs"
  IN
  /\ hs' = [hs EXCEPT ![s] = h] /\ pc' = [pc EXCEPT ![s] = l] /\ err' = [err EXCEPT ![s] = e]
  /\ in' = [in EXCEPT ![s] = IF establishes THEN [i EXCEPT !.next = Key(Peer(s), h)] ELSE i]
  /\ out' = [out EXCEPT ![s] = Written(o, msgs)]
  /\ chan' = [chan EXCEPT ![s] = @ \o Sealed(o, h.vers, msgs),
                          ![Peer(s)] = IF reads THEN Tail(@) ELSE @]
  /\ installed' = IF ccs THEN installed \cup {o.next} ELSE installed
  /\ reused' = (reused \/ (ccs /\ o.next \in installed))
  /\ UNCHANGED <<conn, config, ticketKeys>>

Continues(s, h, l, msgs)   == Moves(s, h, l, msgs, FALSE, NoError)
Establishes(s, h, l, msgs) == Moves(s, h, l, msgs, TRUE, NoError)

\* The error returns: an alert follows what is buffered, and the application closes
\* the connection.  A panic leaves the buffer unwritten.
Fails(s, h, msgs, why) ==
  Moves(s, h, "failed",
        IF why \in Panics THEN <<>> ELSE IF why \in Silent THEN msgs ELSE Append(msgs, Alert(why)),
        FALSE, [by |-> IF why \in Panics THEN "panic" ELSE "local", why |-> why])

-----------------------------------------------------------------------------
(* The transcript: finishedHash.                                           *)

Hashed(h, msgs) == [h EXCEPT !.transcript = @ \o msgs]
Discarded(h)    == [h EXCEPT !.buffer = FALSE]

\* newFinishedHash.  Its MD5 hashes are nil with an SM2 suite, and Write uses them
\* before TLS 1.2.
NewHash(h) == [h EXCEPT !.transcript = <<>>, !.buffer = h.vers \in {SSL30, TLS12}]
NilMD5(vers, suite) == vers < TLS12 /\ "SM2" \in Flags[suite]

VerifyData(s, h) == <<s, h.vers, h.suite, h.master, h.transcript>>

Finished(s, h) == [type |-> "finished", verify |-> VerifyData(s, h)]
CCS == [type |-> "ccs"]

\* hashForClientCertificate: the digest, and the panic it may end in.
Digest(h, alg) == <<h.vers, alg.hash, h.transcript>>
BufferGone(h)  == h.vers \in {SSL30, TLS12} /\ ~h.buffer

\* masterFromPreMasterSecret: the premaster secret is named by the connection it is
\* drawn in, as are the randoms.
MasterSecret(pre) == <<pre, conn>>

-----------------------------------------------------------------------------
(* The client: clientHandshake.                                            *)

SendClientHello ==
  LET c == config.client
      usable == c.cache /\ cache # None /\ cache.suite \in Elems(Advertised(c))
                /\ cache.vers \in c.min..c.max
      session == IF usable THEN cache ELSE None
      hello == [type |-> "clientHello", vers |-> c.max, suites |-> Advertised(c),
                curves |-> c.curves, protos |-> c.protos, tickets |-> c.cache,
                sigs |-> IF c.max = TLS12 THEN supportedSignatureAlgorithms ELSE <<>>,
                ticket |-> IF usable THEN cache.ticket ELSE None,
                sessionId |-> IF usable THEN conn ELSE None]
  IN
  /\ pc["client"] = "start"
  /\ Continues("client", [NoState EXCEPT !.hello = hello, !.session = session],
               "serverHello", <<hello>>)
  /\ UNCHANGED <<cache, masters>>

\* Where the end of the server's part begins.
AfterDone(h) == IF h.serverHello.tickets THEN "newSessionTicket" ELSE "serverCCS"

\* The client keeps the handshake buffer if it may have to sign.
KeepsBuffer(c, resume)       == ~resume /\ c.certs # <<>>

\* The protocol the client takes from the ServerHello.  The mutant forgets to.
TakesProto_Never(m) == None
TakesProto(m)       == m.proto

\* processServerHello included.
ReadServerHello ==
  LET c == config.client  h == hs["client"]  m == Message("client")
      vers == MutualVersion(c, m.vers)
      suiteOk == m.suite \in Elems(h.hello.suites)
      resume == h.session # None /\ m.sessionId = h.hello.sessionId
      versOk == vers # None /\ vers \in TLS10..TLS12
      h1 == [h EXCEPT !.vers = IF versOk THEN vers ELSE None]
      h2 == NewHash([h1 EXCEPT !.suite = m.suite, !.serverHello = m, !.proto = TakesProto(m),
                               !.resume = resume])
      h3 == Hashed([h2 EXCEPT !.buffer = @ /\ KeepsBuffer(c, resume)], <<h.hello, m>>)
      why == FirstOf(<<
        <<~versOk, "protocol_version">>,
        <<~suiteOk, "handshake_failure">>,
        <<h.hello.protos = <<>> /\ m.proto # None, "handshake_failure">>,
        <<resume /\ h.session.vers # vers, "handshake_failure">>,
        <<resume /\ h.session.suite # m.suite, "handshake_failure">>,
        <<versOk /\ NilMD5(vers, m.suite), "nil MD5">> >>)
  IN
  /\ Arrived("client", "serverHello")
  /\ \/ why # None /\ Fails("client", h1, <<>>, why)
     \/ /\ why = None /\ resume
        /\ LET h4 == [h3 EXCEPT !.master = h.session.master, !.peer = h.session.peer] IN
           Establishes("client", h4, AfterDone(h4), <<>>)
     \/ why = None /\ ~resume /\ Continues("client", h3, "serverCertificate", <<>>)
  /\ UNCHANGED <<cache, masters>>

\* doFullHandshake up to the next message that must come.
ReadServerCertificate ==
  LET c == config.client  h == hs["client"]  m == Message("client")
      h1 == Hashed([h EXCEPT !.peer = m.cert], <<m>>)
  IN
  /\ Arrived("client", "certificate") /\ pc["client"] = "serverCertificate"
  /\ \/ ~Verifies(m.cert, c.roots) /\ Fails("client", h, <<>>, "bad_certificate")
     \/ /\ Verifies(m.cert, c.roots)
        /\ Continues("client", h1,
             IF h.serverHello.staple THEN "certificateStatus" ELSE "serverKeyExchange", <<>>)
  /\ UNCHANGED <<cache, masters>>

ReadCertificateStatus ==
  /\ Arrived("client", "certificateStatus")
  /\ Continues("client", Hashed(hs["client"], <<Message("client")>>), "serverKeyExchange", <<>>)
  /\ UNCHANGED <<cache, masters>>

\* What the server signs: the randoms and its key share.
SKXDigest(alg, curve) == <<alg.hash, conn, curve>>

\* processServerKeyExchange: any failure of it is answered in the same way.
SKXValid(h, m) ==
  /\ SigType[h.suite] # None
  /\ m.alg.sig = SigType[h.suite] /\ (h.vers = TLS12 => IsSupported(m.alg))
  /\ (SigType[h.suite] = "RSA") = (h.peer.alg = "RSA")
  /\ m.signature = <<h.peer, SKXDigest(m.alg, m.curve)>>

ReadServerKeyExchange ==
  LET h == hs["client"]  m == Message("client")
      why == FirstOf(<< <<~SKXValid(h, m), "unexpected_message">> >>)
  IN
  /\ Arrived("client", "serverKeyExchange")
  /\ IF why # None THEN Fails("client", h, <<>>, why)
     ELSE Continues("client", Hashed([h EXCEPT !.skx = m.curve], <<m>>), "certificateRequest", <<>>)
  /\ UNCHANGED <<cache, masters>>

ReadCertificateRequest ==
  LET h == hs["client"]  m == Message("client") IN
  /\ Arrived("client", "certificateRequest")
  /\ Continues("client",
       Hashed([h EXCEPT !.certReq = m,
                        !.own = ClientCertificate(config.client.certs, m.authorities)], <<m>>),
       "serverHelloDone", <<>>)
  /\ UNCHANGED <<cache, masters>>

\* The rest of doFullHandshake, establishKeys and sendFinished.  A certificate is sent
\* whenever one was asked for, an empty one if need be; a signature only with a real one.
ReadServerHelloDone ==
  LET h == hs["client"]  c == config.client
      cert == IF h.certReq = None THEN <<>> ELSE <<[type |-> "certificate", cert |-> h.own]>>
      ckx == [type |-> "clientKeyExchange", pre |-> conn]
      h1 == Hashed(h, <<Message("client")>> \o cert \o <<ckx>>)
      noShare == SigType[h.suite] # None /\ h.skx = None
      alg == selectClientCertSignatureAlgorithm(h.vers, h.certReq.sigs, h.own.alg)
      verify == IF h.own = None THEN <<>>
                ELSE <<[type |-> "certificateVerify", alg |-> alg,
                        signature |-> <<h.own, Digest(h1, alg)>>]>>
      h2 == Discarded(Hashed([h1 EXCEPT !.master = MasterSecret(ckx.pre)], verify))
      fin == Finished("client", h2)
      why == FirstOf(<<
        <<noShare, "internal_error">>,
        <<SigType[h.suite] = None /\ h.peer.alg # "RSA", "key type assertion">>,
        <<h.suite = "sm2" /\ c.randNil /\ h.skx # "X25519", "nil Rand">>,
        <<h.own # None /\ alg = None, "internal_error">>,
        <<h.own # None /\ BufferGone(h1), "discarded buffer">> >>)
  IN
  /\ Arrived("client", "serverHelloDone")
  /\ \/ why # None /\ Fails("client", h1, IF noShare THEN cert ELSE Append(cert, ckx), why)
     \/ /\ why = None
        /\ Establishes("client", Hashed(h2, <<fin>>), AfterDone(h),
                       cert \o <<ckx>> \o verify \o <<CCS, fin>>)
  /\ UNCHANGED <<cache, masters>>

\* readSessionTicket.
ReadNewSessionTicket ==
  LET h == hs["client"]  m == Message("client") IN
  /\ Arrived("client", "newSessionTicket")
  /\ Continues("client",
       Hashed([h EXCEPT !.newSession = [ticket |-> m.ticket, vers |-> h.vers, suite |-> h.suite,
                                        master |-> h.master, peer |-> h.peer]], <<m>>),
       "serverCCS", <<>>)
  /\ UNCHANGED <<cache, masters>>

ReadServerCCS ==
  /\ Arrived("client", "ccs")
  /\ Continues("client", hs["client"], "serverFinished", <<>>)
  /\ UNCHANGED <<cache, masters>>

\* The session that the cache holds once a handshake has succeeded.
Remembered(c, h) == IF c.cache /\ h.newSession # None THEN h.newSession ELSE cache

\* readFinished, and in a resumption sendFinished; then the handshake is complete.
ReadServerFinished ==
  LET h == hs["client"]  m == Message("client")
      h1 == Hashed(h, <<m>>)
      fin == Finished("client", h1)
      why == FirstOf(<< <<m.verify # VerifyData("server", h), "handshake_failure">> >>)
  IN
  /\ Arrived("client", "finished")
  /\ IF why # None THEN Fails("client", h, <<>>, why) /\ UNCHANGED cache
     ELSE /\ IF h.resume THEN Continues("client", Hashed(h1, <<fin>>), "complete", <<CCS, fin>>)
             ELSE Continues("client", h1, "complete", <<>>)
          /\ cache' = Remembered(config.client, h)
  /\ UNCHANGED masters

-----------------------------------------------------------------------------
(* The server: serverHandshake.                                            *)

\* decryptTicket, then the tests of checkForResumption.  The mutant forgets ClientAuth.
Resumable_AnyAuth(sc, m, vers, alg, curve) ==
  LET t == m.ticket IN
  /\ sc.tickets /\ t # None /\ t.key \in Elems(ticketKeys)
  /\ t.vers = vers /\ t.suite \in Elems(m.suites) \cap Elems(sc.suites)
  /\ Acceptable(t.suite, alg, curve # None, t.vers)
Resumable(sc, m, vers, alg, curve) ==
  LET t == m.ticket IN
  /\ sc.tickets /\ t # None /\ t.key \in Elems(ticketKeys)
  /\ t.vers = vers /\ t.suite \in Elems(m.suites) \cap Elems(sc.suites)
  /\ Acceptable(t.suite, alg, curve # None, t.vers)
  /\ sc.auth \in {2, 4} => t.cert # None
  /\ sc.auth = 0 => t.cert = None

\* sendSessionTicket: the session under the first of the ticket keys.
Ticket(h, cert) ==
  [key |-> Head(ticketKeys), vers |-> h.vers, suite |-> h.suite, master |-> h.master, cert |-> cert]
NewSessionTicket(h) ==
  IF h.serverHello.tickets THEN <<[type |-> "newSessionTicket", ticket |-> Ticket(h, h.peer)]>>
  ELSE <<>>

\* The server's Finished, with its ticket.
ServerEnd(h) ==
  LET t == NewSessionTicket(h)  h1 == Hashed(h, t)  fin == Finished("server", h1)
  IN [hs |-> Hashed(h1, <<fin>>), msgs |-> t \o <<CCS, fin>>]

\* processCertsFromClient: does this chain pass?
ClientCertOk(sc, cert) == sc.auth >= 3 /\ cert # None => Verifies(cert, sc.cas)

\* The certificate a resumed connection presents: processCertsFromClient on the
\* session's.  In the mutant the server does not look at it.
ResumedCert_Forgotten(t) == None
ResumedCert(t)           == t.cert

\* The messages of doFullHandshake up to its flush.
ServerFlight_NoDone(sc, hello, skx) ==
     <<hello, [type |-> "certificate", cert |-> sc.cert]>>
  \o (IF hello.staple THEN <<[type |-> "certificateStatus"]>> ELSE <<>>)
  \o skx
  \o (IF sc.auth = 0 THEN <<>>
      ELSE <<[type |-> "certificateRequest", authorities |-> sc.cas,
              sigs |-> IF hello.vers = TLS12 THEN supportedSignatureAlgorithms ELSE <<>>]>>)
ServerFlight(sc, hello, skx) ==
     <<hello, [type |-> "certificate", cert |-> sc.cert]>>
  \o (IF hello.staple THEN <<[type |-> "certificateStatus"]>> ELSE <<>>)
  \o skx
  \o (IF sc.auth = 0 THEN <<>>
      ELSE <<[type |-> "certificateRequest", authorities |-> sc.cas,
              sigs |-> IF hello.vers = TLS12 THEN supportedSignatureAlgorithms ELSE <<>>]>>)
  \o <<[type |-> "serverHelloDone"]>>

\* doResumeHandshake and what serverHandshake adds before it reads again.
Resumes(h, hello, m) ==
  LET t == m.ticket
      full == [hello EXCEPT !.suite = t.suite, !.sessionId = m.sessionId,
                            !.tickets = t.key # Head(ticketKeys)]
      h1 == Hashed(Discarded(NewHash([h EXCEPT !.suite = t.suite, !.serverHello = full,
                                               !.resume = TRUE])), <<m, full>>)
      h2 == [h1 EXCEPT !.peer = ResumedCert(t), !.master = t.master]
      end == ServerEnd(h2)
  IN IF ClientCertOk(config.server, t.cert)
     THEN Establishes("server", end.hs, "clientCCS", <<full>> \o end.msgs)
     ELSE Fails("server", h1, <<full>>, "bad_certificate")

\* doFullHandshake up to its flush.
Offers(h, hello, m, suite, curve) ==
  LET sc == config.server
      full == [hello EXCEPT !.suite = suite, !.tickets = m.tickets /\ sc.tickets,
                            !.staple = sc.staple]
      a == SKXAlgorithm(suite, h.vers, m.sigs, sc.cert.alg)
      unsigned == SigType[suite] # None /\ (a = None \/ curve = None)
      skx == IF SigType[suite] = None \/ unsigned THEN <<>>
             ELSE <<[type |-> "serverKeyExchange", curve |-> curve, alg |-> a,
                     signature |-> <<sc.cert, SKXDigest(a, curve)>>]>>
      flight == ServerFlight(sc, full, skx)
      h1 == NewHash([h EXCEPT !.suite = suite, !.serverHello = full])
      h2 == Hashed([h1 EXCEPT !.buffer = @ /\ sc.auth # 0], <<m>> \o flight)
      why == FirstOf(<< <<NilMD5(h.vers, suite), "nil MD5">>, <<unsigned, "handshake_failure">> >>)
  IN
  \/ why # None /\ Fails("server", h1, SubSeq(flight, 1, IF full.staple THEN 3 ELSE 2), why)
  \/ why = None /\ Continues("server", h2,
       IF sc.auth = 0 THEN "clientKeyExchange" ELSE "clientCertificate", flight)

\* readClientHello, and what follows it.
ReadClientHello ==
  LET sc == config.server  m == Message("server")
      vers == MutualVersion(sc, m.vers)
      alg == IF sc.cert = None THEN None ELSE sc.cert.alg
      curve == ChooseCurve(sc, m.curves)
      proto == MutualProtocol(m.protos, sc.protos)
      resume == Resumable(sc, m, vers, alg, curve)
      suite == ChooseSuite(sc, m.suites, alg, curve # None, vers)
      h == [NoState EXCEPT !.hello = m, !.vers = vers, !.proto = proto]
      hello == [type |-> "serverHello", vers |-> vers, suite |-> None, proto |-> proto,
                tickets |-> FALSE, staple |-> FALSE, sessionId |-> None]
      why == FirstOf(<<
        <<vers = None, "protocol_version">>,
        <<sc.cert = None, "internal_error">>,
        <<~resume /\ suite = None, "handshake_failure">> >>)
  IN
  /\ Arrived("server", "clientHello")
  /\ \/ why # None /\ Fails("server", h, <<>>, why)
     \/ why = None /\ resume /\ Resumes(h, hello, m)
     \/ why = None /\ ~resume /\ Offers(h, hello, m, suite, curve)
  /\ UNCHANGED <<cache, masters>>

ReadClientCertificate ==
  LET sc == config.server  h == hs["server"]  m == Message("server")
      h1 == Hashed([h EXCEPT !.peer = m.cert], <<m>>)
      why == FirstOf(<<
        <<m.cert = None /\ sc.auth \in {2, 4}, "bad_certificate">>,
        <<~ClientCertOk(sc, m.cert), "bad_certificate">> >>)
  IN
  /\ Arrived("server", "certificate") /\ pc["server"] = "clientCertificate"
  /\ \/ why # None /\ Fails("server", h, <<>>, why)
     \/ why = None /\ Continues("server", h1, "clientKeyExchange", <<>>)
  /\ UNCHANGED <<cache, masters>>

\* What a full handshake has established.
Master(h) == [master |-> h.master, vers |-> h.vers, suite |-> h.suite,
              serverCert |-> config.server.cert, clientCert |-> h.peer]

ReadClientKeyExchange ==
  LET h == hs["server"]  m == Message("server")
      h1 == Hashed([h EXCEPT !.master = MasterSecret(m.pre)], <<m>>)
  IN
  /\ Arrived("server", "clientKeyExchange")
  /\ \/ /\ h.peer = None /\ Establishes("server", Discarded(h1), "clientCCS", <<>>)
        /\ masters' = masters \cup {Master(h1)}
     \/ /\ h.peer # None /\ Continues("server", h1, "certificateVerify", <<>>)
        /\ UNCHANGED masters
  /\ UNCHANGED cache

\* Before TLS 1.2 the algorithm is implied by the key.
ReadCertificateVerify ==
  LET h == hs["server"]  m == Message("server")
      alg == IF h.vers = TLS12 THEN m.alg ELSE [hash |-> None, sig |-> h.peer.alg]
      why == FirstOf(<<
        <<h.vers = TLS12 /\ ~IsSupported(alg), "unsupported hash">>,
        <<(alg.sig = "RSA") # (h.peer.alg = "RSA"), "bad_certificate">>,
        <<BufferGone(h), "discarded buffer">>,
        <<m.signature # <<h.peer, Digest(h, alg)>>, "bad_certificate">> >>)
  IN
  /\ Arrived("server", "certificateVerify")
  /\ IF why # None THEN Fails("server", h, <<>>, why) /\ UNCHANGED masters
     ELSE /\ Establishes("server", Discarded(Hashed(h, <<m>>)), "clientCCS", <<>>)
          /\ masters' = masters \cup {Master(h)}
  /\ UNCHANGED cache

ReadClientCCS ==
  /\ Arrived("server", "ccs")
  /\ Continues("server", hs["server"], "clientFinished", <<>>)
  /\ UNCHANGED <<cache, masters>>

ReadClientFinished ==
  LET h == hs["server"]  m == Message("server")
      end == ServerEnd(Hashed(h, <<m>>))
      why == FirstOf(<< <<m.verify # VerifyData("client", h), "handshake_failure">> >>)
  IN
  /\ Arrived("server", "finished")
  /\ IF why # None THEN Fails("server", h, <<>>, why)
     ELSE IF h.resume THEN Continues("server", Hashed(h, <<m>>), "complete", <<>>)
     ELSE Continues("server", end.hs, "complete", end.msgs)
  /\ UNCHANGED <<cache, masters>>

-----------------------------------------------------------------------------
(* Failures, connections, time.                                            *)

\* A record that readRecord or readHandshake refuses.
RefuseRecord(s) ==
  /\ Waits(s) /\ chan[Peer(s)] # <<>>
  /\ RecordError(s, Head(chan[Peer(s)])) # None
  /\ Fails(s, hs[s], <<>>, RecordError(s, Head(chan[Peer(s)])))
  /\ UNCHANGED <<cache, masters>>

\* An alert: a fatal one is the error of the handshake, a warning is dropped.
ReadAlert(s) ==
  LET a == Message(s) IN
  /\ Waits(s) /\ chan[Peer(s)] # <<>> /\ a.type = "alert"
  /\ RecordError(s, Head(chan[Peer(s)])) = None
  /\ IF a.level = "warning" THEN Continues(s, hs[s], pc[s], <<>>)
     ELSE Moves(s, hs[s], "failed", <<>>, FALSE, [by |-> "remote", why |-> a.why])
  /\ UNCHANGED <<cache, masters>>

Breaks(s) ==
  /\ pc' = [pc EXCEPT ![s] = "failed"] /\ err' = [err EXCEPT ![s] = [by |-> "net", why |-> None]]
  /\ UNCHANGED <<conn, config, hs, in, out, chan, cache, ticketKeys, masters, installed, reused>>

\* The end of a connection that the other side has closed.
ReadEOF(s) == Waits(s) /\ pc[Peer(s)] = "failed" /\ chan[Peer(s)] = <<>> /\ Breaks(s)

\* A deadline or the network ends the wait, with data in flight or not.
NetFails(s) == conn \in NetFailures /\ Waits(s) /\ Breaks(s)

\* SetSessionTicketKeys, to rotate: a new key first, and the one in use after it.
RotateTicketKeys ==
  /\ Head(ticketKeys) <= MaxRotations
  /\ ticketKeys' = <<Head(ticketKeys) + 1, Head(ticketKeys)>>
  /\ UNCHANGED <<conn, config, pc, hs, err, in, out, chan, cache, masters, installed, reused>>

\* The next connection, once both sides are done with this one.
Reconnect ==
  /\ \A s \in Sides : Ended(s)
  /\ conn < Len(Configs) /\ Begin(conn + 1)
  /\ UNCHANGED <<cache, ticketKeys, masters, installed, reused>>

Done == conn = Len(Configs) /\ (\A s \in Sides : Ended(s)) /\ UNCHANGED vars

Client ==
  \/ SendClientHello \/ ReadServerHello \/ ReadServerCertificate \/ ReadCertificateStatus
  \/ ReadServerKeyExchange \/ ReadCertificateRequest \/ ReadServerHelloDone
  \/ ReadNewSessionTicket \/ ReadServerCCS \/ ReadServerFinished

Server ==
  \/ ReadClientHello \/ ReadClientCertificate \/ ReadClientKeyExchange
  \/ ReadCertificateVerify \/ ReadClientCCS \/ ReadClientFinished

Reads == Client \/ Server \/ \E s \in Sides : RefuseRecord(s) \/ ReadAlert(s) \/ ReadEOF(s)

Next == Reads \/ RotateTicketKeys \/ Reconnect \/ Done \/ \E s \in Sides : NetFails(s)

Spec == Init /\ [][Next]_vars

\* A side whose record has arrived, or whose peer is gone, reads on: weak fairness of
\* the reads of each side, with the state predicate that says when they are enabled
\* (evaluating ENABLED is slow).  Where reads cannot fail, a side that cannot move
\* although CanRead is a deadlock in the end, which TLC reports.
CanRead(s) ==
  \/ pc[s] = "start"
  \/ Waits(s) /\ (chan[Peer(s)] # <<>> \/ pc[Peer(s)] = "failed")
Advances(s) == pc'[s] # pc[s] \/ chan'[Peer(s)] # chan[Peer(s)]

FairSpec == Spec /\ \A s \in Sides : []<>~CanRead(s) \/ []<><<Advances(s)>>_<<pc, chan>>

-----------------------------------------------------------------------------
(* Properties.                                                             *)

Prefix(s, t) == Len(s) <= Len(t) /\ SubSeq(t, 1, Len(s)) = s

\* As soon as one side is complete, both agree on the version, the suite, the master
\* secret, the protocol, whether they resumed and who they are; neither is complete
\* without the other's Finished, one transcript continues the other, and what one
\* encrypts the other can decrypt.
Agreement ==
  LET c == hs["client"]  v == hs["server"] IN
  (\E s \in Sides : pc[s] = "complete") =>
    /\ \A f \in {"vers", "suite", "master", "proto", "resume"} : c[f] = v[f]
    /\ ~c.resume => c.peer = config.server.cert /\ v.peer = c.own
    /\ Prefix(c.transcript, v.transcript) \/ Prefix(v.transcript, c.transcript)
    /\ pc["client"] = "complete" /\ ~c.resume => pc["server"] = "complete"
    /\ pc["server"] = "complete" /\ c.resume => pc["client"] = "complete"
    /\ (\A s \in Sides : pc[s] = "complete") =>
         \A s \in Sides : in[s].key = out[Peer(s)].key /\ in[s].key # None

\* The version is the highest that both have; the suite is one that both have
\* configured, for this version and, in a full handshake, for the server's key; the
\* protocol is the server's favourite among the client's.
NegotiatedBest ==
  LET cc == config.client  sc == config.server IN
  \A s \in Sides : pc[s] = "complete" =>
    LET h == hs[s] IN
    /\ h.vers = IF cc.max < sc.max THEN cc.max ELSE sc.max
    /\ h.vers \in (cc.min..cc.max) \cap (sc.min..sc.max)
    /\ h.suite \in Elems(cc.suites) \cap Elems(sc.suites)
    /\ "TLS12" \in Flags[h.suite] => h.vers = TLS12
    /\ (SigType[h.suite] = None \/ SigType[h.suite] = sc.cert.alg)
    /\ h.proto = First(sc.protos, Elems(cc.protos))

\* A resumed connection has the version, suite and identities of a full handshake
\* that derived its master secret and verified the certificates, however many times
\* the session was resumed and its ticket renewed.
ResumedLikeOriginal ==
  \A s \in Sides : pc[s] = "complete" /\ hs[s].resume =>
    \E m \in masters :
      /\ m.master = hs[s].master /\ m.vers = hs[s].vers /\ m.suite = hs[s].suite
      /\ hs[s].peer = IF s = "client" THEN m.serverCert ELSE m.clientCert

\* The server's ClientAuth is obeyed by full and resumed handshakes alike, although
\* the session may come from a connection under another Config.
ClientAuthEnforced ==
  LET sc == config.server  peer == hs["server"].peer IN
  pc["server"] = "complete" =>
    /\ sc.auth = 0 => peer = None
    /\ sc.auth \in {2, 4} => peer # None
    /\ sc.auth \in {3, 4} /\ peer # None => Verifies(peer, sc.cas)

\* No key encrypts on two connections, nor twice on one: sequence numbers, which are
\* the nonces of GCM, begin again at 0 with each.
KeysNeverReused == ~reused

\* Whether these configs can succeed, said without the course of the handshake.
Compatible ==
  LET cc == config.client  sc == config.server
      vers == IF cc.max < sc.max THEN cc.max ELSE sc.max
      curve == \E x \in Elems(cc.curves) : x \in Elems(sc.curves)
      suite == ChooseSuite(sc, Advertised(cc), sc.cert.alg, curve, vers)
      own == ClientCertificate(cc.certs, sc.cas)
  IN
  /\ vers >= cc.min /\ vers >= sc.min
  /\ sc.cert # None /\ Verifies(sc.cert, cc.roots)
  /\ suite # None /\ ~(vers = TLS12 /\ SigType[suite] = "RSA")
  /\ SigType[suite] = "SM2" => sc.cert.alg # "RSA"
  /\ sc.auth \in {2, 4} => own # None
  /\ sc.auth # 0 /\ own # None =>
       ~(vers = TLS12 /\ own.alg = "RSA") /\ (sc.auth >= 3 => Verifies(own, sc.cas))

\* Two ends of this package never lose step: every failure that the network is not to
\* blame for comes from the configs, or from a session whose client certificate the
\* server no longer accepts, and never is a message out of place, a record that does
\* not decrypt or a Finished that does not match.  The only panic is that of a client without
\* Rand: "a handshake hash for a client-certificate was requested after discarding the
\* handshake buffer" (prf.go) and the others are never reached.
StaleClientCert ==
  /\ hs["server"].resume /\ config.server.auth >= 3
  /\ ~Verifies(hs["server"].hello.ticket.cert, config.server.cas)
FailuresExplained ==
  \A s \in Sides :
    /\ err[s].by \in {"local", "remote"} =>
         /\ ~Compatible \/ StaleClientCert
         /\ err[s].why \in {"protocol_version", "internal_error", "handshake_failure", "bad_certificate"}
    /\ err[s].by = "panic" => s = "client" /\ err[s].why = "nil Rand" /\ config.client.randNil

\* A handshake ends with both ends agreeing, or fails for a reason that the configurations explain.
AgreedOrExplained == Agreement /\ FailuresExplained

\* If no read fails, each handshake ends, well or not, on both sides.
HandshakesEnd == \A s \in Sides : ~Ended(s) ~> Ended(s)
=============================================================================
