CONSTANTS
  r1 = r1  r2 = r2  j1 = j1  j2 = j2  p1 = p1  p2 = p2
  Request <- TheRequests
  Together = 2
  Join <- TheJoins
  Peer <- ThePeers
  Member <- ThePeers
  MaxTargets = 2
  MaxBlocks = 1
  Null = Null
  MaxFaults = 2
SPECIFICATION ApartSpec
CHECK_DEADLOCK FALSE
INVARIANTS SetupTypeOK SuccessMeansJoined
PROPERTIES EveryRequestAnswered EveryJoinEnds
