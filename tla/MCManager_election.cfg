SPECIFICATION FairSpec
CONSTANTS
  Webhooks = {}
  Others = {}
  Leaders = {}
  Caches = {main}
  Cluster = main
  Configs <- InvalidElection
PROPERTIES StopCompletes
CHECK_DEADLOCK FALSE
