CONSTANTS
  s1 = s1
  s2 = s2
  c1 = c1
  c2 = c2
  e1 = e1
  Sessions = {s1, s2}
  Calls = {c1, c2}
  Edits = {e1}
  Verdicts <- MCPass
  HardTier = TRUE
  Ops <- AllOps
  MaxVersion = 3
  NoReview = NoReview
  Idle = Idle
  Cap = 1
  LeaseTTL = 2
  HeartbeatEvery = 1
  SweepAge = 1
  MaxCrashes = 1
  NoTxn = NoTxn
SPECIFICATION PipelineSpec
ACTION_CONSTRAINT MCHalf
INVARIANTS PipelineTypeOK SlotsWithinCap HealthyNeverReclaimed
PROPERTIES AtomicSpec OrphanPassSparesLive
SYMMETRY MCSymmetry
