CONSTANTS
  w1 = w1
  w2 = w2
  w3 = w3
  e1 = e1
  u1 = u1
  Requests = {w1, w2, w3}
  Erasers = {e1}
  Users = {u1}
  NoUser = NoUser
  Nobody = Nobody
  MaxFaults = 1
SPECIFICATION FairAuditSpec
CHECK_DEADLOCK FALSE
INVARIANTS AuditTypeOK LogVerifies OnlyFaultsLoseEvents
PROPERTIES ErasureIsComplete AuditEnds
