SPECIFICATION SumSpec
CONSTANTS
  c1 = c1
  c2 = c2
  c3 = c3
  c4 = c4
  o1 = o1
  o2 = o2
  None = None
  Clients = {c1, c2, c3, c4}
  Keys = {k1, k2}
  Configs <- MCConfigs
  Owners = {o1, o2}
  RefLists <- MCRefLists
  Watchings <- MCWatches
  mapsTo <- MCMapsTo
  MaxWrites = 3
  MaxNotes = 2
  Items <- MCRequests
  Nothing = Nothing
  MaxRuns = 6
  Calls <- cCalls
  MaxCalls = 2
CHECK_DEADLOCK FALSE
INVARIANTS
  NoLostUpdate
  SoleController
  OwnersCurrent
  FilteredCurrent
  ReadsRight
  RequestsAsAsked
PROPERTIES
  FinalizersRun
