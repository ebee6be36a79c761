SPECIFICATION Spec
CONSTANTS
  ClientIds = {1, 3}
  PushIds = {2}
  MaxWin = 7
  DefaultWin = 1
  ConnWin = 3
  StreamWin = 2
  MaxFrame = 1
  AdvMax = 1
  MaxQueued = 3
  ChanCap = 1
  BufSize = 2
  Cases <- MCCases
INVARIANTS WindowsAgree  
PROPERTIES GoAwayEnds
