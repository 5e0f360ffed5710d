SPECIFICATION SumSpec
CONSTANTS
  Callers = {c1, c2}
  PortNumbers = {8, 9}
  ReserveTime = 1
  Retries = 2
  MaxTime = 4
  Invocations = {1, 2}
  Exprs <- tExprs
  Flags <- tFlags
  Platforms = {"linux", "*"}
  Remote <- tRemote
  Hashed <- tHashed
  Stores <- tStores
  Files = {"a", "b"}
  MaxRuns = 2
  MaxKills = 1
  Threads = {"p1", "p2"}
  Kinds = {"k1", "k2"}
  Ambiguous = {"k2"}
  MaxCalls = 2
  LimitSize = 1
  MaxRefills = 1
  MaxInstalls = 1
  MaxFailures = 1
  Users = {"u1", "u2"}
  Tags = {"a", "b"}
  MaxLoggers = 4
  Setters = {"s1", "timer"}
CHECK_DEADLOCK FALSE
INVARIANTS
  NotGivenTwice
  FilesRight
  VersionsRight
  ReviewsRight
  PromisesKept
  
  EnvironmentKept
  LookupsRight
