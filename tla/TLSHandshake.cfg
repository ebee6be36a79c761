SPECIFICATION FairSpec
CONSTANTS
  None = None
  Configs <- Series
  MaxRotations = 1
  NetFailures = {2}
INVARIANTS  NegotiatedBest ResumedLikeOriginal ClientAuthEnforced KeysNeverReused
PROPERTIES HandshakesEnd
