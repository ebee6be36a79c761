SPECIFICATION Spec
CONSTANTS
  Messages <- MCMessages
  Foreign <- MCForeign
  Calls <- MCCalls
  Foreign2 <- MCForeign2
  Table <- MCTable
  PseudoNames <- MCPseudoNames
  InvalidNames <- MCInvalidNames
  InvalidValues <- MCInvalidValues
  BadPaths <- MCBadPaths
  Informational <- MCInformational
  Requests <- MCRequests
  Responses <- MCResponses
  MaxRead = 40
  MaxHeaderList = 9
  PeerMaxHeaderList = 10
  MaxFrames = 2
  FirstMessages <- MCFirstMessages
  NextMessages <- MCNextMessages
  ForeignHeads <- MCForeignHeads
  NewlineValues <- MCNewlineValues
  Cleaned <- MCCleaned
  TrailerRoom = 3
  PublicSuffixes <- MCPublicSuffixes
  IPs <- MCIPs
  Sites <- MCSites
  SetCookieLines <- MCSetCookieLines
  MaxSets = 2
  MaxTime = 2
  CallerRequests <- MCCallerRequests
  Replies <- MCReplies
  RedirectLimit = 3
  RootCerts <- MCRootCerts
  OtherCerts <- MCOtherCerts
  Leaves <- MCLeaves
  Options <- MCOptions
  BadLabels <- MCBadLabels
  MaxRoots = 2
  MaxOthers = 3
INVARIANTS MessagesAgree RequestsArrive FramingAgrees  ChainsBuilt
\* A peer may stop sending, and a reader that refuses a message stops.
CHECK_DEADLOCK FALSE
