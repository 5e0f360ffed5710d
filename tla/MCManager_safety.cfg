SPECIFICATION Spec
CONSTANTS
  Webhooks = {}
  Others = {other}
  Leaders = {ctrl}
  Caches = {main, extra}
  Cluster = main
  Configs <- AnyConfig
INVARIANTS CachesStartedOnce LeadersAfterElection GracefulStopWaits ElectorEndsFirst
PROPERTIES CachesBeforeOthers
CHECK_DEADLOCK FALSE
