SPECIFICATION Spec
CONSTANTS
  Webhooks = {hook}
  Others = {}
  Leaders = {}
  Caches = {main}
  Cluster = main
  Configs <- NoElection
PROPERTIES WebhooksFirst
CHECK_DEADLOCK FALSE
