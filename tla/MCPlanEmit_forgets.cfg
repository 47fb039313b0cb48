CONSTANTS
  r1 = r1
  Replicas = {r1}
  N = 2
  Ops = {"live", "dry"}
  HardTier = FALSE
  SignOffs = {"signed"}
  Blocks = {FALSE}
  Faults = {"fail"}
  MaxFaults = 0
  MaxBegun = 3
  Idle = Idle
SPECIFICATION FairEmitSpec
CHECK_DEADLOCK FALSE
INVARIANTS RetryReuses
