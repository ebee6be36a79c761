SPECIFICATION Spec
CONSTANTS
  r1 = r1
  r2 = r2
  Reqs = {r1, r2}
  Conns = {1, 2}
  StreamIds = {1, 3}
  DefaultWin = 2
  DefaultMax = 3
  StreamFlow = 3
  MinRefresh = 1
  ConnFlow = 2
  MaxRetry = 1
  Cases <- MCCases
INVARIANTS RetrySafe WireOrder WindowsAgree
 
\* A server may fall silent, and when every request has ended nothing is left to do.
CHECK_DEADLOCK FALSE
