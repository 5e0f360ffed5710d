SPECIFICATION Spec
CONSTANTS
  Items = {k1, k2, junk}
  Requests = {k1, k2}
  Sources = {kind, chan}
  Syncing = {kind}
  Starters = {s1, s2}
  Workers = {w1, w2}
  NoOne = NoOne
  NoItem = NoItem
SYMMETRY Interchangeable
INVARIANT MutexReleased
CHECK_DEADLOCK FALSE
