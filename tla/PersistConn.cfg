SPECIFICATION FairSpec
CONSTANTS
  r1 = r1
  r2 = r2
  None = None
  First = r1
  MaxCancels = 1
  Reqs = {r1, r2}
INVARIANTS RequestsApart SafeRetry
PROPERTIES EverythingEnds
