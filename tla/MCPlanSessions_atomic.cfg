CONSTANTS
  s1 = s1
  c1 = c1
  c2 = c2
  e1 = e1
  e2 = e2
  Sessions = {s1}
  Calls = {c1, c2}
  Edits = {e1, e2}
  Verdicts <- MCVerdicts
  HardTier = TRUE
  Ops <- AllOps
  MaxVersion = 5
  NoReview = NoReview
  Idle = Idle
SPECIFICATION SessionsSpec
INVARIANTS SessionsTypeOK CopyIsCurrent ApprovalAttestsText
PROPERTIES DeletedStaysDeleted AtomicSpec
CHECK_DEADLOCK FALSE
