SPECIFICATION DrainSpec
CONSTANTS
  g1 = g1
  g2 = g2
  g3 = g3
  None = None
  G <- TwoGoroutines
  IsClient = TRUE
  Renegotiation = "freely"
  Ops <- ReadWriteClose
  PeerKinds <- HandshakeKinds
  Deadlines = FALSE
  MaxCalls = 3
  MaxPeer = 3
  Window = 1
PROPERTIES CallsEnd
