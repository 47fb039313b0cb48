CONSTANTS
  r1 = r1
  r2 = r2
  Replicas = {r1, r2}
  Kinds = {"exec", "spec"}
  Retrying = TRUE
  Stops = {"stop"}
  LeaseTTL = 3
  Heartbeat = 1
  MaxRuns = 2
  MaxStarts = 1
  MaxCrashes = 1
SPECIFICATION AgentSpec
CHECK_DEADLOCK FALSE
ACTION_CONSTRAINT MCStarts
INVARIANTS AgentTypeOK WatchedLeaseLive
PROPERTIES LeaseKept LoserStops FirstStopServed UntrackedLetGo EndedUntracked
