SPECIFICATION Spec
CONSTANTS
  g1 = g1
  g2 = g2
  g3 = g3
  None = None
  G <- ThreeGoroutines
  IsClient = FALSE
  Renegotiation = "never"
  Ops <- ReadWriteClose
  PeerKinds <- ErrorKinds
  Deadlines = TRUE
  MaxCalls = 3
  MaxPeer = 3
  Window = 1
SYMMETRY Symmetry
INVARIANTS NoPanic CommitterGetsIn CloseInterlock
