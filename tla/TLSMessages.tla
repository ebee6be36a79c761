---------------------------- MODULE TLSMessages ----------------------------
(***************************************************************************)
(* The encoding of the TLS handshake messages (tls/handshake_messages.go)  *)
(* and of the session state inside a ticket (tls/ticket.go), byte for      *)
(* byte.  A byte is a number below 256, a string is the sequence of its    *)
(* bytes, a message is a record of the Go struct's fields; nil and empty   *)
(* slices are one, as bytes.Equal has it.                                  *)
(*                                                                         *)
(* A peer sends one message; on the way it may lose its last bytes or gain *)
(* some, its header's length following suit, as a peer that builds it      *)
(* wrongly would send it: readHandshake hands unmarshal exactly the bytes  *)
(* the header announces.                                                   *)
(***************************************************************************)
EXTENDS Octets

CONSTANTS Messages,        \* what this program's clients and servers send
          Foreign          \* an extension this program does not know
ASSUME ForeignAssumption == Foreign \in Seq(0..255)

VARIABLES sent,            \* the message, or None
          wire,            \* its bytes
          harm,            \* what happened to them: "none", "cut", "grown"
          got              \* what unmarshal answered, or None

msgVars == <<sent, wire, harm, got>>
None == [typ |-> -1]

-----------------------------------------------------------------------------
Refused == [ok |-> FALSE]
Read(m) == [ok |-> TRUE, msg |-> m]

\* d as a list of vectors, each with w bytes of length after head bytes of
\* its own, which must use up d.
RECURSIVE Items(_, _, _)
Items(d, head, w) ==
  IF d = <<>> THEN Read(<<>>)
  ELSE IF Len(d) < head \/ ~HasVec(From(d, head + 1), w) THEN Refused
  ELSE LET e == From(d, head + 1)
           rest == Items(After(e, w), head, w)
       IN IF rest.ok
          THEN Read(<<[id |-> Num(SubSeq(d, 1, head)), body |-> VecOf(e, w)]>> \o rest.msg)
          ELSE Refused
Bodies(items) == [i \in DOMAIN items.msg |-> items.msg[i].body]
NoneEmpty(items) == items.ok /\ \A i \in DOMAIN items.msg : items.msg[i].body # <<>>

-----------------------------------------------------------------------------
(* Extensions.                                                              *)

extServerName == 0
extStatusRequest == 5
extSupportedCurves == 10
extSupportedPoints == 11
extSignatureAlgorithms == 13
extALPN == 16
extSCT == 18
extSessionTicket == 35
extNextProtoNeg == 13172
extRenegotiationInfo == 65281
scsvRenegotiation == 255
statusTypeOCSP == 1

Ext(present, id, body) == IF present THEN Bytes(id, 2) \o Vec(body, 2) ELSE <<>>
ExtBlock(exts) == IF exts = <<>> THEN <<>> ELSE Vec(exts, 2)

\* clientHelloMsg.marshal writes the extensions the hello asks for, in this
\* order.
ClientExts(m) ==
  Ext(m.nextProtoNeg, extNextProtoNeg, <<>>)
  \o Ext(m.serverName # <<>>, extServerName, Vec(<<0>> \o Vec(m.serverName, 2), 2))
  \o Ext(m.ocspStapling, extStatusRequest, <<statusTypeOCSP, 0, 0, 0, 0>>)
  \o Ext(m.supportedCurves # <<>>, extSupportedCurves, Vec(U16s(m.supportedCurves), 2))
  \o Ext(m.supportedPoints # <<>>, extSupportedPoints, Vec(m.supportedPoints, 1))
  \o Ext(m.ticketSupported, extSessionTicket, m.sessionTicket)
  \o Ext(m.signatureAndHashes # <<>>, extSignatureAlgorithms,
         Vec(U16s(m.signatureAndHashes), 2))
  \o Ext(m.secureRenegotiationSupported, extRenegotiationInfo, Vec(m.secureRenegotiation, 1))
  \o Ext(m.alpnProtocols # <<>>, extALPN, Vec(Vecs(m.alpnProtocols, 1), 2))
  \o Ext(m.scts, extSCT, <<>>)

\* The host name is the first entry of type 0; entries after it are not read.
RECURSIVE ReadServerName(_, _)
ReadServerName(m, d) ==
  IF d = <<>> THEN Read(m)
  ELSE IF ~HasVec(From(d, 2), 2) THEN Refused
  ELSE IF d[1] = 0 THEN Read([m EXCEPT !.serverName = VecOf(From(d, 2), 2)])
  ELSE ReadServerName(m, After(From(d, 2), 2))

\* One extension e of a ClientHello, m holding what was read before it.
ReadClientExt(m, e) ==
  LET d == e.body
      protos == Items(VecOf(d, 2), 0, 1)
      When(ok, r) == IF ok THEN Read(r) ELSE Refused
  IN CASE e.id = extServerName ->
            IF IsVec(d, 2) THEN ReadServerName(m, VecOf(d, 2)) ELSE Refused
       [] e.id = extNextProtoNeg -> When(d = <<>>, [m EXCEPT !.nextProtoNeg = TRUE])
       [] e.id = extStatusRequest ->
            Read([m EXCEPT !.ocspStapling = d # <<>> /\ d[1] = statusTypeOCSP])
       [] e.id = extSupportedCurves ->
            When(IsVec(d, 2) /\ Len(d) % 2 = 0,
                 [m EXCEPT !.supportedCurves = U16sOf(VecOf(d, 2))])
       [] e.id = extSupportedPoints ->
            When(IsVec(d, 1), [m EXCEPT !.supportedPoints = VecOf(d, 1)])
       [] e.id = extSessionTicket ->
            Read([m EXCEPT !.ticketSupported = TRUE, !.sessionTicket = d])
       [] e.id = extSignatureAlgorithms ->
            When(IsVec(d, 2) /\ Len(d) % 2 = 0,
                 [m EXCEPT !.signatureAndHashes = U16sOf(VecOf(d, 2))])
       [] e.id = extRenegotiationInfo ->
            When(IsVec(d, 1), [m EXCEPT !.secureRenegotiation = VecOf(d, 1),
                                        !.secureRenegotiationSupported = TRUE])
       [] e.id = extALPN ->
            When(IsVec(d, 2) /\ NoneEmpty(protos),
                 [m EXCEPT !.alpnProtocols = @ \o Bodies(protos)])
       [] e.id = extSCT -> When(d = <<>>, [m EXCEPT !.scts = TRUE])
       [] OTHER -> Read(m)

ServerExts(m) ==
  LET clipped == Vecs([i \in DOMAIN m.nextProtos |->
                         SubSeq(m.nextProtos[i], 1, Min({255, Len(m.nextProtos[i])}))], 1)
      announced == Len(FlattenSeq(m.nextProtos)) + Len(m.nextProtos)
  IN Ext(m.nextProtoNeg, extNextProtoNeg,
         clipped \o [i \in 1..(announced - Len(clipped)) |-> 0])
     \o Ext(m.ocspStapling, extStatusRequest, <<>>)
     \o Ext(m.ticketSupported, extSessionTicket, <<>>)
     \o Ext(m.secureRenegotiationSupported, extRenegotiationInfo,
            Vec(m.secureRenegotiation, 1))
     \o Ext(m.alpnProtocol # <<>>, extALPN, Vec(Vec(m.alpnProtocol, 1), 2))
     \o Ext(m.scts # <<>>, extSCT, Vec(Vecs(m.scts, 2), 2))

\* One extension e of a ServerHello.
ReadServerExt(m, e) ==
  LET d == e.body
      protos == Items(d, 0, 1)
      scts == Items(VecOf(d, 2), 0, 2)
      When(ok, r) == IF ok THEN Read(r) ELSE Refused
  IN CASE e.id = extNextProtoNeg ->
            When(NoneEmpty(protos), [m EXCEPT !.nextProtoNeg = TRUE,
                                              !.nextProtos = @ \o Bodies(protos)])
       [] e.id = extStatusRequest -> When(d = <<>>, [m EXCEPT !.ocspStapling = TRUE])
       [] e.id = extSessionTicket -> When(d = <<>>, [m EXCEPT !.ticketSupported = TRUE])
       [] e.id = extRenegotiationInfo ->
            When(IsVec(d, 1), [m EXCEPT !.secureRenegotiation = VecOf(d, 1),
                                        !.secureRenegotiationSupported = TRUE])
       [] e.id = extALPN ->
            When(Len(d) > 3 /\ IsVec(d, 2) /\ IsVec(VecOf(d, 2), 1),
                 [m EXCEPT !.alpnProtocol = From(d, 4)])
       [] e.id = extSCT ->
            When(IsVec(d, 2) /\ Len(d) > 2 /\ NoneEmpty(scts),
                 [m EXCEPT !.scts = Bodies(scts)])
       [] OTHER -> Read(m)

-----------------------------------------------------------------------------
(* Messages: for each, the body marshal writes after the type and the      *)
(* three bytes of length, and what unmarshal makes of all the bytes.        *)

typeHelloRequest == 0
typeClientHello == 1
typeServerHello == 2
typeNewSessionTicket == 4
typeCertificate == 11
typeServerKeyExchange == 12
typeCertificateRequest == 13
typeServerHelloDone == 14
typeCertificateVerify == 15
typeClientKeyExchange == 16
typeFinished == 20
typeCertificateStatus == 22
typeNextProtocol == 67
sessionState == 256        \* not a message: what a ticket encrypts

\* The optional extensions d at the end of hello m, each read by ReadExt.
WithExtensions(d, m) ==
  LET exts == Items(VecOf(d, 2), 2, 2)
      ReadExt(r, e) == IF m.typ = typeClientHello THEN ReadClientExt(r, e) ELSE ReadServerExt(r, e)
  IN IF d = <<>> THEN Read(m)
     ELSE IF ~IsVec(d, 2) \/ ~exts.ok THEN Refused
     ELSE FoldLeft(LAMBDA r, e : IF r.ok THEN ReadExt(r.msg, e) ELSE r, Read(m), exts.msg)

Pairs(s) == FlattenSeq(s)
PairsOf(d) == [i \in 1..(Len(d) \div 2) |-> <<d[2 * i - 1], d[2 * i]>>]

MarshalClientHello(m, more) ==
  Bytes(m.vers, 2) \o m.random \o Vec(m.sessionId, 1) \o Vec(U16s(m.cipherSuites), 2)
  \o Vec(m.compressionMethods, 1) \o ExtBlock(ClientExts(m) \o more)
MarshalServerHello(m, more) ==
  Bytes(m.vers, 2) \o m.random \o Vec(m.sessionId, 1) \o Bytes(m.cipherSuite, 2)
  \o <<m.compressionMethod>> \o ExtBlock(ServerExts(m) \o more)
MarshalCertificate(m) == Vec(Vecs(m.certificates, 3), 3)
MarshalCertificateStatus(m) ==
  <<m.statusType>> \o (IF m.statusType = statusTypeOCSP THEN Vec(m.response, 3) ELSE <<>>)
MarshalNextProto(m) ==
  LET l == Min({255, Len(m.proto)})
      padding == 32 - ((l + 2) % 32)
  IN Vec(SubSeq(m.proto, 1, l), 1) \o Vec([i \in 1..padding |-> 0], 1)
MarshalCertificateRequest(m) ==
  Vec(m.certificateTypes, 1)
  \o (IF m.hasSignatureAndHash THEN Vec(Pairs(m.signatureAndHashes), 2) ELSE <<>>)
  \o Vec(Vecs(m.certificateAuthorities, 2), 2)
\* Mutant: the algorithms are written whatever was agreed.
MarshalCertificateVerify_AlwaysHash(m) == m.signatureAndHash \o Vec(m.signature, 2)
MarshalCertificateVerify(m) ==
  (IF m.hasSignatureAndHash THEN m.signatureAndHash ELSE <<>>) \o Vec(m.signature, 2)
MarshalNewSessionTicket(m) == <<0, 0, 0, 0>> \o Vec(m.ticket, 2)
MarshalSessionState(m) ==
  Bytes(m.vers, 2) \o Bytes(m.cipherSuite, 2) \o Vec(m.masterSecret, 2)
  \o Bytes(Len(m.certificates), 2) \o Vecs(m.certificates, 4)

\* The bytes of m; a hello also carries the extensions "more" of a peer that
\* is not this program.
Marshal(m, more) ==
  LET t == m.typ
      body == CASE t = typeClientHello -> MarshalClientHello(m, more)
                [] t = typeServerHello -> MarshalServerHello(m, more)
                [] t = typeCertificate -> MarshalCertificate(m)
                [] t = typeServerKeyExchange -> m.key
                [] t = typeCertificateStatus -> MarshalCertificateStatus(m)
                [] t \in {typeServerHelloDone, typeHelloRequest} -> <<>>
                [] t = typeClientKeyExchange -> m.ciphertext
                [] t = typeFinished -> m.verifyData
                [] t = typeNextProtocol -> MarshalNextProto(m)
                [] t = typeCertificateRequest -> MarshalCertificateRequest(m)
                [] t = typeCertificateVerify -> MarshalCertificateVerify(m)
                [] t = typeNewSessionTicket -> MarshalNewSessionTicket(m)
                [] t = sessionState -> MarshalSessionState(m)
  IN IF t = sessionState THEN body ELSE <<t>> \o Vec(body, 3)

UnmarshalClientHello(d) ==
  LET r == From(d, 39)
      s == After(r, 1)
      t == After(s, 2)
      suites == U16sOf(VecOf(s, 2))
  IN IF Len(d) < 42 \/ d[39] > 32 \/ ~HasVec(r, 1) \/ ~HasVec(s, 2)
        \/ Len(VecOf(s, 2)) % 2 = 1 \/ ~HasVec(t, 1)
     THEN Refused
     ELSE WithExtensions(After(t, 1),
            [typ |-> typeClientHello, vers |-> Num(SubSeq(d, 5, 6)),
             random |-> SubSeq(d, 7, 38), sessionId |-> VecOf(r, 1),
             cipherSuites |-> suites, compressionMethods |-> VecOf(t, 1),
             nextProtoNeg |-> FALSE, serverName |-> <<>>, ocspStapling |-> FALSE,
             scts |-> FALSE, supportedCurves |-> <<>>, supportedPoints |-> <<>>,
             ticketSupported |-> FALSE, sessionTicket |-> <<>>,
             signatureAndHashes |-> <<>>, secureRenegotiation |-> <<>>,
             secureRenegotiationSupported |-> scsvRenegotiation \in ToSet(suites),
             alpnProtocols |-> <<>>])

UnmarshalServerHello(d) ==
  LET r == From(d, 39)
      s == After(r, 1)
  IN IF Len(d) < 42 \/ d[39] > 32 \/ ~HasVec(r, 1) \/ Len(s) < 3 THEN Refused
     ELSE WithExtensions(From(s, 4),
            [typ |-> typeServerHello, vers |-> Num(SubSeq(d, 5, 6)),
             random |-> SubSeq(d, 7, 38), sessionId |-> VecOf(r, 1),
             cipherSuite |-> Num(SubSeq(s, 1, 2)), compressionMethod |-> s[3],
             nextProtoNeg |-> FALSE, nextProtos |-> <<>>, ocspStapling |-> FALSE,
             scts |-> <<>>, ticketSupported |-> FALSE, secureRenegotiation |-> <<>>,
             secureRenegotiationSupported |-> FALSE, alpnProtocol |-> <<>>])

\* A certificate is looked for only where four bytes are left, so the last
\* one cannot be empty.
UnmarshalCertificate(d) ==
  LET certs == Items(VecOf(From(d, 5), 3), 0, 3)
  IN IF Len(d) < 7 \/ ~IsVec(From(d, 5), 3) \/ ~certs.ok THEN Refused
     ELSE IF certs.msg # <<>> /\ Last(certs.msg).body = <<>> THEN Refused
     ELSE Read([typ |-> typeCertificate, certificates |-> Bodies(certs)])

UnmarshalServerKeyExchange(d) ==
  IF Len(d) < 4 THEN Refused ELSE Read([typ |-> typeServerKeyExchange, key |-> From(d, 5)])

UnmarshalCertificateStatus(d) ==
  IF Len(d) < 5 THEN Refused
  ELSE IF d[5] # statusTypeOCSP
       THEN Read([typ |-> typeCertificateStatus, statusType |-> d[5], response |-> <<>>])
  ELSE IF Len(d) < 8 \/ ~IsVec(From(d, 6), 3) THEN Refused
  ELSE Read([typ |-> typeCertificateStatus, statusType |-> d[5], response |-> From(d, 9)])

UnmarshalEmpty(d) == IF Len(d) = 4 THEN Read([typ |-> d[1]]) ELSE Refused

UnmarshalClientKeyExchange(d) ==
  IF Len(d) < 4 \/ ~IsVec(From(d, 2), 3) THEN Refused
  ELSE Read([typ |-> typeClientKeyExchange, ciphertext |-> From(d, 5)])

UnmarshalFinished(d) ==
  IF Len(d) < 4 THEN Refused ELSE Read([typ |-> typeFinished, verifyData |-> From(d, 5)])

UnmarshalNextProto(d) ==
  LET p == From(d, 5)
  IN IF Len(d) < 5 \/ ~HasVec(p, 1) \/ ~IsVec(After(p, 1), 1) THEN Refused
     ELSE Read([typ |-> typeNextProtocol, proto |-> VecOf(p, 1)])

\* hasHash: the receiver has agreed on TLS 1.2.
UnmarshalCertificateRequest(d, hasHash) ==
  LET types == From(d, 5)
      hashes == After(types, 1)
      cas == IF hasHash THEN After(hashes, 2) ELSE hashes
      names == Items(VecOf(cas, 2), 0, 2)
  IN IF Len(d) < 5 \/ ~IsVec(From(d, 2), 3) \/ d[5] = 0 \/ ~HasVec(types, 1)
        \/ (hasHash /\ (~HasVec(hashes, 2) \/ Len(VecOf(hashes, 2)) % 2 # 0))
        \/ ~IsVec(cas, 2) \/ ~names.ok
     THEN Refused
     ELSE Read([typ |-> typeCertificateRequest, hasSignatureAndHash |-> hasHash,
                certificateTypes |-> VecOf(types, 1),
                signatureAndHashes |-> IF hasHash THEN PairsOf(VecOf(hashes, 2)) ELSE <<>>,
                certificateAuthorities |-> Bodies(names)])

UnmarshalCertificateVerify(d, hasHash) ==
  LET sig == From(d, IF hasHash THEN 7 ELSE 5)
  IN IF Len(d) < 6 \/ ~IsVec(From(d, 2), 3) \/ ~IsVec(sig, 2) THEN Refused
     ELSE Read([typ |-> typeCertificateVerify, hasSignatureAndHash |-> hasHash,
                signatureAndHash |-> IF hasHash THEN SubSeq(d, 5, 6) ELSE <<0, 0>>,
                signature |-> VecOf(sig, 2)])

UnmarshalNewSessionTicket(d) ==
  IF Len(d) < 10 \/ ~IsVec(From(d, 2), 3) \/ ~IsVec(From(d, 9), 2) THEN Refused
  ELSE Read([typ |-> typeNewSessionTicket, ticket |-> From(d, 11)])

UnmarshalSessionState(d) ==
  LET r == After(From(d, 5), 2)
      certs == Items(From(r, 3), 0, 4)
  IN IF Len(d) < 8 \/ ~HasVec(From(d, 5), 2) \/ Len(r) < 2 \/ ~certs.ok THEN Refused
     ELSE IF Len(certs.msg) # Num(SubSeq(r, 1, 2)) THEN Refused
     ELSE Read([typ |-> sessionState, vers |-> Num(SubSeq(d, 1, 2)),
                cipherSuite |-> Num(SubSeq(d, 3, 4)), masterSecret |-> VecOf(From(d, 5), 2),
                certificates |-> Bodies(certs)])

\* readHandshake's choice of message; typ tells a ticket's state from a
\* message, hasHash what c.vers tells the reader.
Unmarshal(d, typ, hasHash) ==
  IF typ = sessionState THEN UnmarshalSessionState(d)
  ELSE CASE d[1] = typeClientHello -> UnmarshalClientHello(d)
         [] d[1] = typeServerHello -> UnmarshalServerHello(d)
         [] d[1] = typeCertificate -> UnmarshalCertificate(d)
         [] d[1] = typeServerKeyExchange -> UnmarshalServerKeyExchange(d)
         [] d[1] = typeCertificateStatus -> UnmarshalCertificateStatus(d)
         [] d[1] \in {typeServerHelloDone, typeHelloRequest} -> UnmarshalEmpty(d)
         [] d[1] = typeClientKeyExchange -> UnmarshalClientKeyExchange(d)
         [] d[1] = typeFinished -> UnmarshalFinished(d)
         [] d[1] = typeNextProtocol -> UnmarshalNextProto(d)
         [] d[1] = typeCertificateRequest -> UnmarshalCertificateRequest(d, hasHash)
         [] d[1] = typeCertificateVerify -> UnmarshalCertificateVerify(d, hasHash)
         [] d[1] = typeNewSessionTicket -> UnmarshalNewSessionTicket(d)

-----------------------------------------------------------------------------
(* One message on its way.                                                  *)

MsgInit == sent = None /\ wire = <<>> /\ harm = "none" /\ got = None

IsHello(m) == m.typ \in {typeClientHello, typeServerHello}
HasHash(m) == IF m.typ \in {typeCertificateRequest, typeCertificateVerify}
              THEN m.hasSignatureAndHash ELSE TRUE

\* more: a hello of another implementation has an extension of its own.
SendMessage ==
  \E m \in Messages, more \in {<<>>, Foreign} :
    /\ sent = None
    /\ more = <<>> \/ IsHello(m)
    /\ sent' = m
    /\ wire' = Marshal(m, more)
    /\ UNCHANGED <<harm, got>>

\* The bytes b in place of wire, under a header that fits them.
Rewrite(b) ==
  IF sent.typ = sessionState THEN b
  ELSE <<b[1]>> \o Bytes(Len(b) - 4, 3) \o From(b, 5)

\* The peer leaves out the message's last bytes.
CutMessage ==
  /\ sent # None /\ harm = "none" /\ got = None
  /\ \E n \in (IF sent.typ = sessionState THEN 0 ELSE 4)..(Len(wire) - 1) :
       wire' = Rewrite(SubSeq(wire, 1, n))
  /\ harm' = "cut"
  /\ UNCHANGED <<sent, got>>

\* The peer adds bytes after the message.
GrowMessage ==
  /\ sent # None /\ harm = "none" /\ got = None
  /\ \E more \in {<<0>>, <<1>>, <<0, 0, 0, 0>>} : wire' = Rewrite(wire \o more)
  /\ harm' = "grown"
  /\ UNCHANGED <<sent, got>>

ReceiveMessage ==
  /\ sent # None /\ got = None
  /\ got' = Unmarshal(wire, sent.typ, HasHash(sent))
  /\ UNCHANGED <<sent, wire, harm>>

-----------------------------------------------------------------------------
(* Properties.                                                              *)

\* What is read of an unharmed message: all that was sent (the equal methods),
\* an unknown extension being skipped.
ReadAsSent == got.ok /\ got.msg = sent

\* Bodies without structure of their own: any length is taken, and it is for
\* the key agreement and the comparison of verify_data to refuse them.
Opaque == {typeServerKeyExchange, typeClientKeyExchange, typeFinished}

\* A hello that ends where its optional extensions would begin.
EndsAtExtensions ==
  /\ IsHello(sent)
  /\ Len(wire) = 39 + Len(sent.sessionId)
                  + (IF sent.typ = typeServerHello THEN 3
                     ELSE 3 + 2 * Len(sent.cipherSuites) + Len(sent.compressionMethods))

\* MessagesAgree: a peer reads every message of this program exactly as it was
\* meant, whatever it leaves out or repeats and with extensions it does not
\* know, and it refuses a message whose end is missing or that goes on after
\* its end, unless nothing in it says where it should end
\* (handshake_messages.go, ticket.go: marshal against unmarshal).
MessagesAgree ==
  got # None =>
    CASE harm = "none" -> ReadAsSent
      [] harm = "cut" -> got.ok => sent.typ \in Opaque \/ EndsAtExtensions
      [] harm = "grown" -> got.ok => sent.typ \in Opaque

=============================================================================
