CONSTANTS
  r1 = r1
  r2 = r2
  Replicas = {r1, r2}
  N = 2
  Ops = {"live", "dry", "contract", "touch"}
  HardTier = TRUE
  SignOffs = {"none", "open", "signed"}
  Blocks = {TRUE, FALSE}
  Faults = {"kill", "fail", "lost", "outlive"}
  MaxFaults = 1
  MaxBegun = 3
  Idle = Idle
SPECIFICATION FairEmitSpec
CHECK_DEADLOCK FALSE
INVARIANTS EmitTypeOK OneEmitter DuplicatesAreSlips AnnouncedComplete
PROPERTIES EmitEnds EpicNumberKept
