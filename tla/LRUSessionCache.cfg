SPECIFICATION CacheSpec
CONSTANTS
  k1 = k1
  k2 = k2
  k3 = k3
  k4 = k4
  k5 = k5
  s1 = s1
  s2 = s2
  Nil = Nil
  Keys <- FiveKeys
  States <- TwoStates
  Capacity = 3
INVARIANT Linked
PROPERTY ImplementsLRU
