SPECIFICATION Spec
CONSTANTS
  Settings <- MCSettings
  Shapes <- MCShapes
  Headers <- MCHeaders
  Calls <- MCCalls
  BufSize = 1
  MaxDiscard = 1
INVARIANTS
  
  ReplyComplete
  CancelledByLoss
PROPERTIES
  
  ConnectionsEnd
