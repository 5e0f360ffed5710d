SPECIFICATION SumSpec
CONSTANTS
  c1 = c1
  c2 = c2
  Starters = {c1, c2}
  DestBufferSize = 1
  MaxEvents = 3
  accepts <- MCAccepts
  Askers = {"h", "x", "y", "w", "v"}
  Op <- MCOp
  Inside = {"v"}
  Scenarios <- MCScenarios
  Hooks = {"h1", "h2", "h3"}
  Path <- MCPath
  Requests = 2
  BadHooks = {"h1"}
  Emitters = {"e1", "e2"}
  EventsEach = 2
  StopWithProvider = {TRUE, FALSE}
INVARIANTS
  InOrder
  ServersRight
  EmitsWhileUp
PROPERTIES
  EventsHandled
  NewCertServed
  ServicesEnd
CHECK_DEADLOCK FALSE
