SPECIFICATION Spec
CONSTANTS
  t1 = t1  t2 = t2
  b1 = b1
  p1 = p1  p2 = p2
  u1 = u1  u2 = u2
  w1 = w1  w2 = w2
  NoUser = NoUser
  NoProperty = NoProperty
  Tabs = {t1, t2}
  Browsers = {b1}
  BrowserOf <- MCBrowserOf
  Properties = {p1}
  Listed = {p1}
  Rent <- MCRent
  Users = {u1, u2}
  Workers = {w1, w2}
  MaxLoads = 2
  MaxClicks = 1
CHECK_DEADLOCK FALSE
SYMMETRY TabSymmetry
INVARIANTS
  TypeOK
  SessionStableWhileHeld
PROPERTIES
  LedgerGrowsForSessionUser
