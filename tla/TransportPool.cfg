SPECIFICATION Spec
CONSTANTS
  r1 = r1
  r2 = r2
  r3 = r3
  c1 = c1
  c2 = c2
  c3 = c3
  ka = ka
  kb = kb
  None = None
  Reqs = {r1, r2, r3}
  Conns = {c1, c2}
  Keys = {ka, kb}
  Configs <- Settings
  MaxTries = 2
INVARIANTS  NeverStranded OneHolder
SYMMETRY Symmetry
