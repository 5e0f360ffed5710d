SPECIFICATION FairSpec
CONSTANTS
  Webhooks = {hook}
  Others = {}
  Leaders = {ctrl}
  Caches = {main}
  Cluster = main
  Configs <- PatientConfig
PROPERTIES StopCompletes AddedIsStarted LostLeaseSkipsGrace
CHECK_DEADLOCK FALSE
