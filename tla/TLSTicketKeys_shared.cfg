SPECIFICATION Spec
CONSTANTS
  g1 = g1
  g2 = g2
  g3 = g3
  Orig = Orig
  Returned = Returned
  Copy = Copy
  None = None
  G <- ThreeGoroutines
  Disabled <- NoConfigs
  Preset <- NoConfigs
  MaxCalls = 5
SYMMETRY Symmetry
INVARIANTS TicketsLive KeysShared
