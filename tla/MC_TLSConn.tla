---------------------------- MODULE MC_TLSConn ----------------------------
(* Instances of TLSConn for TLC.                                           *)
EXTENDS TLSConn, TLC

CONSTANTS g1, g2, g3

TwoGoroutines   == {g1, g2}
ThreeGoroutines == {g1, g2, g3}

Symmetry == Permutations(G)

\* Enough of the peer to complete and to repeat handshakes; and what ends a first handshake in every way.
HandshakeKinds == {"hs", "hreq"}
ErrorKinds     == {"hs", "app", "close", "bad"}

ReadWriteClose == {"Read", "Write", "Close"}
WriteClosers   == {"Read", "Write", "CloseWrite"}
===========================================================================
