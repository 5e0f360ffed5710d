SPECIFICATION FairSpec
CONSTANTS
  Items = {k1, k2, junk}
  Requests = {k1, k2}
  Sources = {kind}
  Syncing = {kind}
  Starters = {s1}
  Workers = {w1, w2}
  NoOne = NoOne
  NoItem = NoItem

PROPERTIES StopsAfterCancel ImplementsFairLoop
CHECK_DEADLOCK FALSE
