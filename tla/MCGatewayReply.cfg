SPECIFICATION Spec
CONSTANTS
  hub = hub
  usr = usr
  other = other
  m = m
  peer1 = peer1
  peer2 = peer2
  r1 = r1
  r2 = r2
  r3 = r3
  Key <- MCKey
  EcdsaKey <- MCKey
  Message = {m}
  NoKey = NoKey
  StartAmount = 7
  Half = 16
  NotANumber = NotANumber
  NotADate = NotADate
  Malformed = Malformed
  ShortSignature = ShortSignature
  Absent = Absent
  Amount <- AmountsAsked
  Date <- DatesAsked
  MaxTime = 0
  Null = Null
  Request <- TwoRequests
  Call <- Contending
  Peer <- OnePeer
  FirstPeer = peer1
INVARIANTS SuccessMeansCommitted
CHECK_DEADLOCK FALSE
