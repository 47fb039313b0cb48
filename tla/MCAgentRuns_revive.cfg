CONSTANTS
  r1 = r1
  Replicas = {r1}
  Kinds = {"exec"}
  Retrying = TRUE
  Stops = {"stop"}
  LeaseTTL = 3
  Heartbeat = 1
  MaxRuns = 2
  MaxStarts = 1
  MaxCrashes = 0
SPECIFICATION AgentSpec
CHECK_DEADLOCK FALSE
PROPERTIES StopMeansStopped
