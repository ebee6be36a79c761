--------------------------- MODULE TLSNegotiation ---------------------------
(***************************************************************************)
(* What the two ends of a handshake choose from what they are configured   *)
(* with and what the other offers: version, cipher suite, curve, signature *)
(* algorithm, application protocol, client certificate (tls/common.go,     *)
(* tls/cipher_suites.go, tls/handshake_*.go, tls/key_agreement.go,         *)
(* tls/prf.go).  All of it is without state; a preference is a sequence.   *)
(*                                                                         *)
(* Suites that differ only in cipher and hash are one here: what counts is *)
(* the key agreement and the flags.  A certificate is a record of the      *)
(* algorithm of its key and of its issuer.                                 *)
(***************************************************************************)
EXTENDS Integers, Sequences, FiniteSets

CONSTANT None    \* no value: nil, an empty slice, not found

Elems(s) == {s[i] : i \in DOMAIN s}

\* The first element of s that is in S.
First(s, S) ==
  LET I == {i \in DOMAIN s : s[i] \in S} IN
  IF I = {} THEN None ELSE s[CHOOSE i \in I : \A j \in I : i <= j]

\* The elements of s that are in S, in the order of s.
Kept(s, S) ==
  LET I == {i \in DOMAIN s : s[i] \in S}
      nth(k) == CHOOSE i \in I : Cardinality({j \in I : j <= i}) = k
  IN [k \in 1..Cardinality(I) |-> s[nth(k)]]

-----------------------------------------------------------------------------
(* Versions.                                                               *)

SSL30 == 0  TLS10 == 1  TLS11 == 2  TLS12 == 3
Versions == SSL30..TLS12

\* The mutant forgets the maximum.
MutualVersion_Unclamped(config, vers) == IF vers < config.min THEN None ELSE vers
MutualVersion(config, vers) ==
  IF vers < config.min THEN None ELSE IF vers > config.max THEN config.max ELSE vers

-----------------------------------------------------------------------------
(* Cipher suites.                                                          *)

Flags ==
  [ecdhe_rsa_12   |-> {"ECDHE", "TLS12"},          ecdhe_rsa   |-> {"ECDHE"},
   ecdhe_ecdsa_12 |-> {"ECDHE", "ECDSA", "TLS12"}, ecdhe_ecdsa |-> {"ECDHE", "ECDSA"},
   rsa_12         |-> {"TLS12"},                   rsa         |-> {},
   ecdhe_sm2      |-> {"ECDHE", "SM2", "TLS12"},   sm2         |-> {"SM2E", "SM2", "TLS12"}]

Suites == DOMAIN Flags

\* The signature of the ServerKeyExchange; plain RSA has no such message.
SigType ==
  [ecdhe_rsa_12 |-> "RSA", ecdhe_rsa |-> "RSA", ecdhe_ecdsa_12 |-> "ECDSA",
   ecdhe_ecdsa |-> "ECDSA", rsa_12 |-> None, rsa |-> None, ecdhe_sm2 |-> "SM2", sm2 |-> "SM2"]

\* The suites a client offers: those for TLS 1.2 only if it attempts it.
Advertised(config) ==
  Kept(config.suites, {s \in Suites : config.max = TLS12 \/ "TLS12" \notin Flags[s]})

\* The tests of setCipherSuite, for a key of algorithm alg; elliptic says that the
\* peers have a curve in common.
Acceptable(suite, alg, elliptic, vers) ==
  LET f == Flags[suite] IN
  /\ "TLS12" \in f => vers = TLS12
  /\ \/ "ECDHE" \in f /\ elliptic /\ alg = IF "ECDSA" \in f THEN "ECDSA" ELSE "RSA"
     \/ "ECDHE" \notin f /\ "SM2E" \in f /\ elliptic /\ ("SM2" \in f => alg = "SM2")
     \/ f \cap {"ECDHE", "SM2E"} = {} /\ alg = "RSA"

\* The loop over the preference list of readClientHello.
ChooseSuite(config, offered, alg, elliptic, vers) ==
  LET mine == config.suites
      good == {s \in Elems(mine) \cap Elems(offered) : Acceptable(s, alg, elliptic, vers)}
  IN First(IF config.prefer THEN mine ELSE offered, good)

-----------------------------------------------------------------------------
(* Curves, signature algorithms, protocols, client certificates.           *)

ChooseCurve(config, offered) == First(config.curves, Elems(offered))

supportedSignatureAlgorithms ==
  <<[hash |-> "SHA256", sig |-> "ECDSA"], [hash |-> "SM3", sig |-> "SM2"]>>

IsSupported(alg) == alg \in Elems(supportedSignatureAlgorithms)

\* A pair of the other end's list that this end supports, for a signature type.
CommonAlgorithm(list, sigType) ==
  First(list, {a \in Elems(supportedSignatureAlgorithms) : a.sig = sigType})

\* How the ServerKeyExchange is signed, if it can be: generateServerKeyExchange with
\* pickTLS12HashForSignature, hashForServerKeyExchange and the test of the key's type.
SKXAlgorithm(suite, vers, clientList, alg) ==
  LET t == SigType[suite]
      a == IF vers = TLS12 THEN CommonAlgorithm(clientList, t)
           ELSE [hash |-> CASE t = "ECDSA" -> "SHA1" [] t = "SM2" -> "SM3" [] OTHER -> "MD5SHA1",
                 sig  |-> t]
  IN IF (t = "RSA") = (alg = "RSA") THEN a ELSE None

selectClientCertSignatureAlgorithm(vers, serverList, sigType) ==
  IF vers < TLS12 THEN [hash |-> None, sig |-> sigType] ELSE CommonAlgorithm(serverList, sigType)

\* ALPN: the protocol of the server's list that the client offers.
MutualProtocol(offered, preferred) == First(preferred, Elems(offered))

\* getCertificate of a client; this server asks for keys of any type.
ClientCertificate(certs, authorities) ==
  First(certs, {c \in Elems(certs) : authorities = {} \/ c.issuer \in authorities})

\* A verification of a chain against a pool of authorities.
Verifies(cert, pool) == cert.issuer \in pool
=============================================================================
