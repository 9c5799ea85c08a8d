\* Two sources, the first without the resource at first; they change, and
\* lose the resource, twice.
SPECIFICATION MCSpec
CONSTANTS
  None = None
  x = x
  y = y
  dflt = dflt
  ka = ka
  kb = kb
  kc = kc
  Default = dflt
  NumSources = 2
  Contents = {x, y, dflt}
  Users = {u1, u2}
  Askers = {u1, u2}
  Entries = {ka, kb, kc}
  Wants <- MCWants
  Tolerant = {ka, kb}
  AtOnce = {ka}
  Nobody = None
  Objects = {o1, o2}
  Tasks = {t1, t2, t3}
  MaxChanges = 2
  MayRemove = TRUE
  Known = FALSE
  First <- MCFirst
  Fallbacks <- MCFallbacks
SYMMETRY UserSymmetry
\* When everybody has left, and no source changes any more, nothing happens.
CHECK_DEADLOCK FALSE
INVARIANTS EntryHasItsTask OneValue RememberedAreWoken DefaultsGiveWay CirclesCross
