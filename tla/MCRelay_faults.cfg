SPECIFICATION FairRelaySpec
CONSTANTS
  p1 = p1
  p2 = p2
  Pods <- MCPods
  Senders <- MCSenders
  QueueMax = 2
  Attempts = 3
  MaxSent = 3
  MaxFaults = 2
INVARIANTS RelayTypeOK OnlyPoisonGivenUp
PROPERTIES LossyChannel BacklogMoves ListensAgain
CHECK_DEADLOCK FALSE
