------------------------------- MODULE MC_Wire -------------------------------
(***************************************************************************)
(* What one end writes against what the other end reads, for each pair of  *)
(* writer and reader of the program: TLS handshake messages, HTTP/2 frames *)
(* and header blocks, HTTP/1 messages, the cookies of a server and those   *)
(* its client gives back, a redirect and the requests it makes, the        *)
(* certificates a peer sends and the chains found through them.  One       *)
(* behaviour follows one of them; the six have nothing to do with each     *)
(* other, but that Client.do keeps its cookies in the jar.                 *)
(***************************************************************************)
EXTENDS TLSMessages, HTTP2Requests, HTTP1Messages, HTTPClient, CertVerify, TLC

VARIABLE part              \* which of the components is at work

-----------------------------------------------------------------------------
(* TLS handshake messages.                                                  *)

Str(n) == [i \in 1..n |-> i % 7]
Hello == [typ |-> typeClientHello, vers |-> 771, random |-> Str(32), sessionId |-> <<>>,
          cipherSuites |-> <<57363, 47>>, compressionMethods |-> <<0>>,
          nextProtoNeg |-> FALSE, serverName |-> <<>>, ocspStapling |-> TRUE,
          scts |-> TRUE, supportedCurves |-> <<23, 24>>, supportedPoints |-> <<0>>,
          ticketSupported |-> FALSE, sessionTicket |-> <<>>,
          signatureAndHashes |-> <<1025, 1027>>, secureRenegotiation |-> <<>>,
          secureRenegotiationSupported |-> TRUE, alpnProtocols |-> <<>>]
ClientHellos ==
  {[Hello EXCEPT !.serverName = name, !.alpnProtocols = protos, !.nextProtoNeg = protos # <<>>,
                 !.ticketSupported = ticket # "off",
                 !.sessionTicket = IF ticket = "some" THEN Str(3) ELSE <<>>,
                 !.sessionId = IF ticket = "some" THEN Str(16) ELSE <<>>,
                 !.signatureAndHashes = IF new THEN @ ELSE <<>>,
                 !.secureRenegotiation = IF ticket = "off" THEN Str(12) ELSE <<>>] :
     name \in {<<>>, Str(2)}, protos \in {<<>>, <<Str(2), Str(1)>>},
     ticket \in {"off", "none", "some"}, new \in BOOLEAN}
  \cup {[Hello EXCEPT !.serverName = Str(256), !.alpnProtocols = <<Str(255)>>]}
ServerHellos ==
  {[typ |-> typeServerHello, vers |-> 769, random |-> Str(32), sessionId |-> id,
    cipherSuite |-> 57363, compressionMethod |-> 0, nextProtoNeg |-> npn,
    nextProtos |-> IF npn THEN <<Str(2), Str(1)>> ELSE <<>>,
    ocspStapling |-> ocsp, scts |-> IF ocsp THEN <<Str(3), Str(2)>> ELSE <<>>,
    ticketSupported |-> id = <<>>, secureRenegotiation |-> IF ocsp THEN Str(24) ELSE <<>>,
    secureRenegotiationSupported |-> ocsp,
    alpnProtocol |-> IF npn THEN <<>> ELSE p] :
     id \in {<<>>, Str(16)}, npn \in BOOLEAN, ocsp \in BOOLEAN, p \in {<<>>, Str(2)}}
Others ==
  {[typ |-> typeCertificate, certificates |-> c] : c \in {<<>>, <<Str(5)>>, <<Str(300), Str(2)>>}}
  \cup {[typ |-> typeServerKeyExchange, key |-> Str(6)], [typ |-> typeServerHelloDone],
        [typ |-> typeHelloRequest], [typ |-> typeClientKeyExchange, ciphertext |-> Str(6)],
        [typ |-> typeFinished, verifyData |-> Str(12)],
        [typ |-> typeCertificateStatus, statusType |-> 1, response |-> Str(4)],
        [typ |-> typeNewSessionTicket, ticket |-> Str(4)]}
  \cup {[typ |-> typeNextProtocol, proto |-> Str(n)] : n \in {0, 3, 29, 30, 255}}
  \cup {[typ |-> typeCertificateRequest, hasSignatureAndHash |-> h, certificateTypes |-> <<1, 64>>,
         signatureAndHashes |-> IF h THEN << <<4, 1>>, <<4, 3>> >> ELSE <<>>,
         certificateAuthorities |-> c] : h \in BOOLEAN, c \in {<<>>, <<Str(3), <<>>, Str(1)>>}}
  \cup {[typ |-> typeCertificateVerify, hasSignatureAndHash |-> h,
         signatureAndHash |-> IF h THEN <<4, 3>> ELSE <<0, 0>>, signature |-> Str(5)] : h \in BOOLEAN}
  \cup {[typ |-> sessionState, vers |-> 771, cipherSuite |-> 47, masterSecret |-> Str(48),
         certificates |-> c] : c \in {<<>>, <<Str(3), Str(2)>>}}
MCMessages == ClientHellos \cup ServerHellos \cup Others
MCForeign == <<23, 23, 0, 1, 9>>

-----------------------------------------------------------------------------
(* HTTP/2 frames and header blocks.                                         *)

F(n, v) == [name |-> n, value |-> v]
MCTable == <<F(":authority", "h"), F(":method", "GET"), F(":method", "POST"), F(":method", "HEAD"),
  F(":method", "CONNECT"), F(":path", "/"), F(":path", "/%zz"), F(":scheme", "https"), F(":status", "200"),
  F(":status", "404"), F(":odd", "x"), F("content-length", "0"), F("content-length", "5"),
  F("user-agent", "Go-http-client/2.0"), F("user-agent", "me"), F("accept-encoding", "gzip"),
  F("accept-encoding", "br"), F("cookie", "a"), F("cookie", "b"), F("te", "gzip"), F("te", "trailers"),
  F("expect", "100-continue"), F("trailer", "x-t"), F("connection", "close"), F("x", "1"), F("x", "bad\n"),
  F("X Y", "1"), F("content-type", "text"), F("date", "now"), F("host", "h"), F("content-encoding", "gzip"), F(":status", "100")>>
MCPseudoNames == {":authority", ":method", ":path", ":scheme", ":status", ":odd"}
MCInvalidNames == {"X Y"}
MCInvalidValues == {"bad\n"}
MCBadPaths == {"/%zz", ""}
MCInformational == {"100"}
W1 == Word(1)
Bad1 == SetHigh(Word(1))
Prio(d, x, w) == [dep |-> d, exclusive |-> x, weight |-> w]
MCCalls ==
  {[call |-> "Data", sid |-> W1, end |-> e, data |-> d, padded |-> p # <<>> \/ e, pad |-> p] :
     e \in BOOLEAN, d \in {<<>>, <<7, 9>>}, p \in {<<>>, <<0, 0>>}}
  \cup {[call |-> "Settings", sid |-> Zero, settings |-> s] :
         s \in {<<>>, <<[id |-> 4, val |-> Word(9)], [id |-> 3, val |-> SetHigh(W1)]>>}}
  \cup {[call |-> "SettingsAck", sid |-> Zero],
        [call |-> "Ping", sid |-> Zero, ack |-> TRUE, data |-> Zeros(8)],
        [call |-> "GoAway", sid |-> Zero, last |-> Bad1, code |-> Word(2), debug |-> <<5>>],
        [call |-> "RawFrame", sid |-> W1, typ |-> 20, flags |-> {4}, data |-> <<1>>],
        [call |-> "RSTStream", sid |-> W1, code |-> SetHigh(Word(3))],
        [call |-> "Data", sid |-> Bad1, end |-> TRUE, data |-> <<>>, padded |-> FALSE, pad |-> <<>>],
        [call |-> "Data", sid |-> W1, end |-> TRUE, data |-> <<>>, padded |-> TRUE, pad |-> <<1>>]}
  \cup {[call |-> "WindowUpdate", sid |-> s, incr |-> i] : s \in {Zero, W1}, i \in {Zero, Word(3), Bad1}}
  \cup {[call |-> "Priority", sid |-> W1, prio |-> Prio(d, x, 7)] : d \in {Zero, Word(3), Bad1}, x \in BOOLEAN}
  \cup {[call |-> "Headers", sid |-> W1, end |-> TRUE, endHeaders |-> TRUE, block |-> BlockOf(<<2, 6, 8>>),
         padLength |-> n, prio |-> p] :
         n \in {0, 2}, p \in {NoPriority, Prio(Word(3), FALSE, 0), Prio(Zero, TRUE, 0), Prio(Bad1, FALSE, 1)}}
  \cup {[call |-> "PushPromise", sid |-> W1, promise |-> Word(2), endHeaders |-> TRUE, block |-> BlockOf(<<2>>),
         padLength |-> n] : n \in {0, 1}}
Raw(t, fl, s, p) == [typ |-> t, flags |-> fl, sid |-> s, p |-> p]
MCForeign2 ==
  {Raw(t, {}, Zero, p) : t \in {DATA, RST_STREAM, SETTINGS, PING, WINDOW_UPDATE, GOAWAY, PRIORITY},
      p \in {<<2, 0>>, Zero}}
  \cup {Raw(t, {1, 8}, Bad1, Zero) : t \in {DATA, RST_STREAM, SETTINGS, PING, WINDOW_UPDATE, PRIORITY}}
  \cup {Raw(t, {}, W1, Zeros(8)) : t \in {PING, GOAWAY}}
  \cup {Raw(DATA, {8}, W1, p) : p \in {<<>>, <<2, 0>>, <<1, 0>>}}
  \cup {Raw(WINDOW_UPDATE, {}, W1, <<128, 0, 0, n>>) : n \in {0, 1}}
  \cup {Raw(SETTINGS, {}, Zero, <<0, 4, 128, 0, 0, 0>>), Raw(DATA, {}, W1, Zeros(41))}
  \cup {Raw(HEADERS, {4}, W1, p) :
         p \in {<<1, 50>>, BlockOf(<<2, 6, 8>>), BlockOf(<<25, 2>>), BlockOf(<<2, 9>>),
                BlockOf(<<2, 2>>), BlockOf(<<26>>), BlockOf(<<11>>), BlockOf(<<27>>), <<4, 4>>, <<4>>,
                BlockOf(<<2, 25, 25, 25, 25, 25, 25, 25, 25, 25, 25>>)}}
  \cup {Raw(HEADERS, fl, W1, p) : fl \in {{}, {4, 8}, {4, 32}}, p \in {<<>>, <<4>>, BlockOf(<<2, 6, 8>>)}}
  \cup {Raw(HEADERS, {4}, Zero, BlockOf(<<2>>))}
  \cup {Raw(CONTINUATION, {4}, s, p) : s \in {W1, Word(3)}, p \in {<<5>>, BlockOf(<<25>>)}}
  \cup {Raw(CONTINUATION, {}, Zero, <<>>)}
  \cup {Raw(PUSH_PROMISE, fl, W1, p) : fl \in {{}, {8}}, p \in {<<>>, <<9, 0, 0, 0, 2>>}}
Ask(m, p, h, b, l, t) == [method |-> m, host |-> "h", path |-> p, scheme |-> "https", header |-> h, body |-> b,
                          length |-> l, trailer |-> t, maxFrame |-> {3, 100}]
MCRequests ==
  {Ask(m, "/", h, b, l, t) : m \in {"", "GET", "POST", "HEAD", "CONNECT"},
     h \in {"x" :> <<"1">> @@ "cookie" :> <<"a", "b">> @@ "connection" :> <<"close">>,
            "te" :> <<"gzip">> @@ "user-agent" :> <<"me">>,
            "expect" :> <<"100-continue">> @@ "user-agent" :> <<"">> @@ "accept-encoding" :> <<"br">>},
     b \in {FALSE}, l \in {0}, t \in {"", "x-t"}}
  \cup {Ask("POST", "/", "te" :> <<"trailers">> @@ "host" :> <<"h">>, TRUE, l, t) : l \in {-1, 0, 5}, t \in {"", "x-t"}}
  \cup {Ask("GET", "/%zz", <<>>, FALSE, 0, ""), Ask("GET", "/", "X Y" :> <<"1">>, FALSE, 0, ""),
        Ask("GET", "/", "x" :> <<"bad\n">>, FALSE, 0, ""), Ask("GET", "/", "connection" :> <<"up">>, FALSE, 0, "")}
MCResponses ==
  {[status |-> s, header |-> h, keys |-> SetToSeq(DOMAIN h), contentType |-> c, contentLength |-> l, date |-> "now",
    end |-> e, head |-> hd, gzip |-> g] :
     s \in {"200", "404"}, h \in {<<>>, "x" :> <<"1", "bad\n", "1">>, "content-encoding" :> <<"gzip">> @@ "trailer" :> <<"x-t">>},
     c \in {"", "text"}, l \in {"", "5"}, e \in BOOLEAN, hd \in BOOLEAN, g \in BOOLEAN}
  \cup {[status |-> s, header |-> "x" :> <<"1">>, keys |-> <<"x">>, contentType |-> "", contentLength |-> "", date |-> "",
         end |-> s = "", head |-> FALSE, gzip |-> FALSE] : s \in {"", "100"}}

-----------------------------------------------------------------------------
(* HTTP/1 messages.                                                         *)

MCNewlineValues == {"a\nb"}
MCCleaned == "a\nb" :> "a b"
A == Octet(1)
Datas == {<<>>, <<A>>, <<A, Crlf, Size(0)>>}
NoHeader == [k \in {} |-> <<>>]
H1 == "X" :> <<<<"1">>, <<"a\nb">>>> @@ "Connection" :> <<<<"x", "close">>>>
H2 == "User-Agent" :> <<<<"">>>> @@ "Pragma" :> <<<<"no-cache">>>> @@ "Content-Length" :> <<<<"9">>>>
T1 == "X-T" :> <<<<"v">>>>
TBad == "Trailer" :> <<<<"v">>>>
Request(me, h, b, d, f, sl, l, te, c, tr) ==
  [kind |-> "request", method |-> me, uri |-> "/", host |-> "h", header |-> h, body |-> b, data |-> d,
   fails |-> f, slow |-> sl, length |-> l, te |-> te, close |-> c, trailer |-> tr]
Response(st, mi, me, h, b, d, f, l, te, c, tr, un) ==
  [kind |-> "response", status |-> st, minor |-> mi, method |-> me, header |-> h, body |-> b, data |-> d,
   fails |-> f, length |-> l, te |-> te, close |-> c, trailer |-> tr, uncompressed |-> un]
MCFirstMessages ==
  {Request(me, NoHeader, "reader", d, f, sl, l, te, FALSE, tr) :
     me \in {"GET", "POST", "CONNECT"}, d \in Datas, f \in BOOLEAN, sl \in BOOLEAN, l \in {0, 1, 3},
     te \in {<<>>, <<"chunked">>, <<"identity">>}, tr \in {NoTrailer, T1}}
  \cup {Request(me, h, b, <<>>, FALSE, FALSE, l, te, c, tr) :
     me \in {"GET", "POST", "HEAD"}, h \in {NoHeader, H1, H2}, b \in {"nil", "NoBody"}, l \in {0, 1},
     te \in {<<>>, <<"chunked">>}, c \in BOOLEAN, tr \in {NoTrailer, T1, TBad}}
  \cup {Response(st, mi, me, h, b, d, f, l, te, c, tr, un) :
     st \in {200, 304}, mi \in {0, 1}, me \in {"GET", "HEAD", "POST"}, h \in {NoHeader, H1},
     b \in {"nil", "reader"}, d \in Datas, f \in BOOLEAN, l \in {-1, 0, 1}, te \in {<<>>, <<"chunked">>},
     c \in {FALSE}, tr \in {T1}, un \in {FALSE}}
MCNextMessages == {Request("POST", NoHeader, "reader", <<A>>, FALSE, FALSE, 1, <<>>, TRUE, NoTrailer),
           Response(200, 1, "GET", NoHeader, "reader", <<A>>, FALSE, 1, <<>>, TRUE, NoTrailer, FALSE)}
RH == Start([method |-> "POST", uri |-> "/", minor |-> 1])
CL(n) == Line("Content-Length", Number(n))
TE(v) == Line("Transfer-Encoding", v)
Tails == {<<Crlf>>, <<Crlf, A>>, <<Crlf, Size(1), A, Crlf, Size(0), Crlf>>, <<Crlf, Size(1), A, A>>,
          <<Crlf, Size(0), Line("X", <<"1">>), Line("Y", <<"1">>), Line("Z", <<"1">>), Crlf>>}
MCForeignHeads ==
  {[isResponse |-> FALSE, method |-> "POST", tokens |-> <<RH>> \o ls \o t] :
     t \in Tails, ls \in {<<CL(1), CL(1)>>, <<CL(1), CL(3)>>, <<CL(1), TE(<<"chunked">>)>>,
       <<TE(<<"chunked", "chunked">>), CL(1)>>, <<TE(<<"gzip">>)>>, <<TE(<<"identity">>), CL(1)>>,
       <<TE(<<"chunked", "identity">>)>>, <<TE(<<"chunked">>), Line("Trailer", <<"Trailer">>)>>,
       <<Line("Content-Length", <<"x">>)>>, <<Line("Trailer", <<"X">>)>>}}
  \cup {[isResponse |-> TRUE, method |-> "HEAD", tokens |-> <<Start([status |-> 200, minor |-> mi])>> \o ls \o t] :
     mi \in {0, 1}, t \in Tails, ls \in {<<CL(1), TE(<<"chunked">>)>>, <<Line("Content-Length", <<"x">>)>>, <<>>}}

-----------------------------------------------------------------------------
(* Cookies and redirects.                                                   *)

Site(s, h, p) == [scheme |-> s, host |-> h, path |-> p, user |-> FALSE]
Foo == <<"foo", "com">>
Home == Site("https", Foo, <<"a", "b">>)
MCSites ==
  {Home, Site("http", <<"www">> \o Foo, <<"a", "">>), Site("http", <<"foo", "co", "uk">>, <<>>),
   Site("https", <<"bar", "co", "uk">>, <<"">>), Site("http", <<"1", "1">>, <<"a">>),
   Site("ftp", Foo, <<"">>), Site("https", <<"com">>, <<"">>)}
MCPublicSuffixes == {<<"co", "uk">>}
MCIPs == {<<"1", "1">>}
C(n, v, d, p, a, e, s) ==
  [name |-> n, value |-> v, domain |-> d, path |-> p, maxAge |-> a, expires |-> e, secure |-> s]
MCSetCookieLines ==
  {C("n", 1, <<>>, <<>>, 0, 0, FALSE), C("n", 2, Foo, <<"">>, 0, 0, FALSE),
   C("n", 3, <<"">> \o Foo, <<"">>, 1, 0, FALSE), C("n", 4, <<>>, <<"a">>, 0, 2, TRUE),
   C("n", 5, Foo, <<"">>, -1, 0, FALSE), C("m", 6, <<"co", "uk">>, <<"a", "">>, 0, 0, FALSE),
   C("m", 7, <<"com">>, <<"">>, 0, 0, FALSE), C("m", 8, <<"foo", "com", "">>, <<>>, 0, 0, FALSE),
   C("n", 9, <<"", "">>, <<>>, 0, 1, FALSE)}
Ask1(m, u, b, g, a, c, r, x) ==
  [method |-> m, url |-> u, hasBody |-> b, getBody |-> g, auth |-> a, cookies |-> c, requestURI |-> r,
   custom |-> x, referer |-> NoURL]
Own == <<[name |-> "n", value |-> 0], [name |-> "m", value |-> 0]>>
MCCallerRequests ==
  {Ask1("POST", Home, TRUE, g, TRUE, Own, FALSE, TRUE) : g \in {"nil", "ok", "fails"}}
  \cup {Ask1("HEAD", [Home EXCEPT !.user = TRUE], FALSE, "nil", FALSE, <<>>, FALSE, FALSE),
        Ask1("POST", NoURL, TRUE, "ok", FALSE, <<>>, FALSE, FALSE),
        Ask1("PUT", Home, TRUE, "ok", FALSE, <<>>, TRUE, FALSE)}
To(u) == [kind |-> "absolute", u |-> u]
Rel == [kind |-> "relative", path |-> <<"b">>]
Reply(st, l, c) == [status |-> st, location |-> l, cookies |-> c]
N == <<C("n", 1, <<>>, <<"">>, 0, 0, FALSE)>>
MCReplies ==
  {Reply(200, NoLocation, <<>>), Reply(302, NoLocation, <<>>), Reply(307, NoLocation, N),
   Reply(303, [kind |-> "bad"], <<>>), Reply(302, Rel, N), Reply(308, Rel, <<>>),
   Reply(301, To(Site("http", <<"www">> \o Foo, <<"">>)), <<>>),
   Reply(307, To([Home EXCEPT !.user = TRUE]), N)}

-----------------------------------------------------------------------------
(* Certificates.  A and B are cross-signed, and each may have issued the    *)
(* other; R, S and T are roots.                                             *)

Name(kind, local, l) == [kind |-> kind, local |-> local, labels |-> l]
Limits(kind, local, l, bits) == [kind |-> kind, local |-> local, labels |-> l, bits |-> bits]
Cert(s, i, basic) ==
  [subject |-> s, issuer |-> i, key |-> s, signer |-> i, ids |-> basic # "none1", basic |-> basic,
   signs |-> TRUE, pathLen |-> -1, from |-> 1, to |-> 2, critical |-> FALSE, eku |-> {},
   permitted |-> {}, excluded |-> {}, names |-> <<>>, cn |-> <<>>]
WWW == <<"www", "foo", "com">>
FooLeaf == [Cert("L", "A", "leaf") EXCEPT !.names = <<Name("dns", "", WWW)>>]
MCRootCerts ==
  {Cert("R", "R", "ca"), Cert("S", "S", "none1"),
   [Cert("T", "T", "ca") EXCEPT !.permitted = {Limits("dns", "", <<>>, {}), Limits("email", "", <<"foo", "com">>, {})}]}
MCOtherCerts ==
  {Cert("A", "R", "ca"), Cert("A", "B", "ca"), Cert("B", "R", "ca"), Cert("B", "A", "ca"),
   [Cert("B", "S", "ca") EXCEPT !.ids = FALSE], Cert("A", "S", "none1"),
   [Cert("A", "B", "ca") EXCEPT !.pathLen = 0, !.eku = {"client"}],
   [Cert("B", "R", "ca") EXCEPT !.pathLen = 0, !.excluded = {Limits("dns", "", <<"", "com">>, {})}],
   [Cert("B", "T", "ca") EXCEPT !.to = 1, !.excluded = {Limits("uri", "", <<"", "bar", "com">>, {})},
      !.permitted = {Limits("dns", "", <<"", "foo", "com">>, {}), Limits("ip", "", <<1, 0>>, {1}),
                     Limits("email", "a", <<"foo", "com">>, {})}],
   [Cert("X", "R", "ca") EXCEPT !.key = "A"]}
MCLeaves ==
  {FooLeaf, Cert("S", "S", "none1"), [Cert("L", "A", "none3") EXCEPT !.cn = Append(WWW, "")],
   [Cert("L", "B", "leaf") EXCEPT !.eku = {"sgc"}, !.names =
      <<Name("dns", "", <<"*", "foo", "com">>), Name("ip", "", <<1, 1>>), Name("email", "a", <<"foo", "com">>),
        Name("uri", "", <<"foo", "com">>)>>],
   [Cert("L", "B", "leaf") EXCEPT !.eku = {"any"}, !.names =
      <<Name("other", "", <<>>), Name("uri", "", <<"bar", "com">>), Name("email", "a", <<"foo", "com">>)>>],
   [Cert("L", "B", "leaf") EXCEPT !.names = <<Name("uri", "", <<"x", "bar", "com">>), Name("email", "b", <<"foo", "com">>)>>],
   [Cert("L", "B", "leaf") EXCEPT !.cn = <<"b,d">>, !.names = <<Name("uri", "", <<>>), Name("dns", "", <<"", "com">>)>>]}
MCBadLabels == {"b,d"}
Host(l) == [ip |-> FALSE, labels |-> l]
MCOptions ==
  {[host |-> Host(WWW), usages |-> {}, now |-> 1, limit |-> 0, ignoreCN |-> FALSE],
   [host |-> [ip |-> TRUE, labels |-> <<1, 1>>], usages |-> {"any"}, now |-> 1, limit |-> 0, ignoreCN |-> FALSE],
   [host |-> Host(<<"www", "bar", "com">>), usages |-> {"server"}, now |-> 1, limit |-> 0, ignoreCN |-> FALSE],
   [host |-> Host(<<>>), usages |-> {}, now |-> 1, limit |-> 0, ignoreCN |-> FALSE],
   [host |-> Host(<<>>), usages |-> {"client"}, now |-> 1, limit |-> 3, ignoreCN |-> FALSE],
   [host |-> Host(Append(WWW, "")), usages |-> {"client", "server"}, now |-> 2, limit |-> 0, ignoreCN |-> TRUE]}

-----------------------------------------------------------------------------

Init == /\ MsgInit /\ RequestsInit /\ HTTP1Init /\ JarInit /\ ClientInit /\ CertInit
        /\ part \in {"tls", "http2", "http1", "jar", "client", "certs"}
        /\ psList \/ part = "jar"

TLSNext == /\ part = "tls"
           /\ SendMessage \/ CutMessage \/ GrowMessage \/ ReceiveMessage
           /\ UNCHANGED <<framerVars, asked, http1Vars, jarVars, clientVars, certVars, part>>
HTTP2Next == /\ part = "http2"
             /\ SendRequest \/ SendResponse \/ SendFrame \/ SendForeign \/ ReceiveFrame
             /\ UNCHANGED <<msgVars, http1Vars, jarVars, clientVars, certVars, part>>
HTTP1Next == /\ part = "http1"
             /\ SayFirst \/ SayNext \/ SayForeign \/ Break \/ ReadHead \/ ReadBody
             /\ UNCHANGED <<msgVars, framerVars, asked, jarVars, clientVars, certVars, part>>
JarNext == /\ part = "jar"
           /\ Receive \/ AskJar \/ Tick
           /\ UNCHANGED <<msgVars, framerVars, asked, http1Vars, clientVars, certVars, part>>
ClientNext == /\ part = "client"
              /\ \/ Do \/ Send \/ RoundTripFails \/ RoundTripReturns \/ Follow \/ Timer
                 \/ DeadlinePasses \/ CallerCancels \/ BodyRead \/ BodyClose
              /\ UNCHANGED <<msgVars, framerVars, asked, http1Vars, certVars, part>>
CertNext == /\ part = "certs"
            /\ AddRoot \/ AddIntermediate \/ Verify
            /\ UNCHANGED <<msgVars, framerVars, asked, http1Vars, jarVars, clientVars, part>>
Next == TLSNext \/ HTTP2Next \/ HTTP1Next \/ JarNext \/ ClientNext \/ CertNext
Spec == Init /\ [][Next]_<<msgVars, framerVars, asked, http1Vars, jarVars, clientVars, certVars, part>>
=============================================================================
