-------------------------- MODULE MC_TLSHandshake --------------------------
(* Instances of TLSHandshake for TLC: kinds of clients and servers, and who meets whom. *)
EXTENDS TLSHandshake

Cert(alg, issuer) == [alg |-> alg, issuer |-> issuer]

Client0 ==
  [min |-> TLS10, max |-> TLS12, suites |-> <<"ecdhe_ecdsa_12", "ecdhe_ecdsa", "sm2", "rsa">>,
   curves |-> <<"X25519", "P256", "SM2P256">>, protos |-> <<"h2", "http/1.1">>, cache |-> TRUE,
   certs |-> <<Cert("SM2", "ca1")>>, roots |-> {"ca1"}, randNil |-> FALSE]

OldClient    == [Client0 EXCEPT !.max = TLS11, !.protos = <<>>,
                                !.certs = <<Cert("ECDSA", "ca2"), Cert("RSA", "ca1")>>]
BareClient   == [Client0 EXCEPT !.min = TLS12, !.certs = <<>>, !.curves = <<"P256">>]
RSAClient    == [Client0 EXCEPT !.certs = <<Cert("RSA", "ca1")>>, !.cache = FALSE,
                                !.suites = <<"rsa_12", "sm2", "ecdhe_ecdsa_12">>]
StrictClient == [Client0 EXCEPT !.roots = {"ca2"}]
MixedClient  == [Client0 EXCEPT !.suites = <<"ecdhe_sm2", "ecdhe_rsa_12", "rsa_12">>,
                                !.certs = <<Cert("ECDSA", "ca2")>>]
NilRand      == [Client0 EXCEPT !.randNil = TRUE]

Server0 ==
  [min |-> TLS10, max |-> TLS12, suites |-> <<"sm2", "ecdhe_ecdsa_12", "ecdhe_ecdsa">>,
   prefer |-> FALSE, curves |-> <<"P256", "X25519", "SM2P256">>, protos |-> <<"http/1.1">>,
   cert |-> Cert("ECDSA", "ca1"), staple |-> TRUE, tickets |-> TRUE, auth |-> 0, cas |-> {}]

SM2Server    == [Server0 EXCEPT !.cert = Cert("SM2", "ca1"), !.prefer = TRUE, !.auth = 4,
                                !.cas = {"ca1"}, !.staple = FALSE, !.min = TLS12]
AskingServer == [Server0 EXCEPT !.auth = 1, !.staple = FALSE]
RSAServer    == [Server0 EXCEPT !.cert = Cert("RSA", "ca1"), !.auth = 1, !.staple = FALSE,
                                !.suites = <<"rsa_12", "rsa", "ecdhe_rsa_12", "ecdhe_sm2">>,
                                !.prefer = TRUE]
ClientsOrder == [RSAServer EXCEPT !.prefer = FALSE]
OldServer    == [Server0 EXCEPT !.max = TLS11, !.auth = 3, !.cas = {"ca2"}, !.staple = FALSE]
AnyServer    == [Server0 EXCEPT !.auth = 2, !.tickets = FALSE]
StrictServer == [Server0 EXCEPT !.auth = 3, !.cas = {"ca2"}]
EmptyServer  == [Server0 EXCEPT !.cert = None]

Pair(c, s) == [client |-> c, server |-> s]
Pairs(C, S) == {Pair(c, s) : c \in C, s \in S}

AllClients == {Client0, OldClient, BareClient, RSAClient, StrictClient, MixedClient}
AllServers == {Server0, SM2Server, AskingServer, RSAServer, ClientsOrder, OldServer, AnyServer,
               StrictServer, EmptyServer}

\* Any first connection; a second one that may resume it, under other configs perhaps;
\* a third, which may use a renewed ticket.
Series ==
  <<Pairs(AllClients, AllServers),
    Pairs({Client0, OldClient, BareClient, MixedClient},
          {Server0, SM2Server, AskingServer, RSAServer, OldServer, AnyServer, StrictServer}),
    {Pair(Client0, AskingServer), Pair(Client0, SM2Server), Pair(NilRand, SM2Server)}>>
=============================================================================
