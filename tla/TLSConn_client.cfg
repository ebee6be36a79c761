SPECIFICATION Spec
CONSTANTS
  g1 = g1
  g2 = g2
  g3 = g3
  None = None
  G <- TwoGoroutines
  IsClient = TRUE
  Renegotiation = "once"
  Ops <- WriteClosers
  PeerKinds <- HandshakeKinds
  Deadlines = FALSE
  MaxCalls = 3
  MaxPeer = 7
  Window = 1
SYMMETRY Symmetry
INVARIANTS WireFaithful
PROPERTIES HandshakeErrSticky
