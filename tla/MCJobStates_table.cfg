CONSTANTS
  j1 = j1
  j2 = j2
  c1 = c1
  c2 = c2
  Jobs = {j1, j2}
  Clients = {c1, c2}
  SavedStatuses <- MCSaved
  LegacyJobs = {j1}
  Cap = 1
  LeaseTTL = 1
  SweepAge = 0
  NoTxn = NoTxn
SPECIFICATION JobSpec
SYMMETRY MCSymmetry
INVARIANTS JobTypeOK CapRespected SlotsReclaimable FailureCarriesReason
