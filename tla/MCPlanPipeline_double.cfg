CONSTANTS
  s1 = s1
  c1 = c1
  c2 = c2
  Sessions = {s1}
  Calls = {c1, c2}
  Edits = {}
  Verdicts <- MCPass
  HardTier = TRUE
  Ops = {"process"}
  MaxVersion = 3
  NoReview = NoReview
  Idle = Idle
  Cap = 1
  LeaseTTL = 2
  HeartbeatEvery = 1
  SweepAge = 0
  MaxCrashes = 0
  NoTxn = NoTxn
SPECIFICATION MCAdmissionSpec
INVARIANTS OnePipelinePerJob
