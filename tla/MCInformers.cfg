SPECIFICATION FairSpec
CONSTANTS
  pods = pods
  structured = structured
  metadata = metadata
  Keys = {pods}
  Maps <- MCMaps
  mapOf <- MCMapOf
  Readers = {reader}
  Kinds = {kind}
  Waiters = {manager}
  wants <- MCWants
INVARIANTS SharedInformer SyncedWhenSaid
PROPERTIES CallsEnd
CHECK_DEADLOCK FALSE
