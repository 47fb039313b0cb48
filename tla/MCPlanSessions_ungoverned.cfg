CONSTANTS
  s1 = s1
  c1 = c1
  e1 = e1
  Sessions = {s1}
  Calls = {c1}
  Edits = {e1}
  Verdicts <- MCVerdicts
  HardTier = TRUE
  Ops = {"ingest", "process", "approve", "update", "emit"}
  MaxVersion = 7
  NoReview = NoReview
  Idle = Idle
SPECIFICATION SessionsSpec
INVARIANTS EmittedIsGoverned
CHECK_DEADLOCK FALSE
