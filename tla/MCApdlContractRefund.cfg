SPECIFICATION Spec
CONSTANTS
  hub = hub
  usr = usr
  junk = junk
  m1 = m1
  m2 = m2
  Key <- MCKey
  EcdsaKey <- MCEcdsaKey
  Message <- MCMessage
  NoKey = NoKey
  StartAmount = 7
  Half = 16
  NotANumber = NotANumber
  NotADate = NotADate
  Malformed = Malformed
  ShortSignature = ShortSignature
  Absent = Absent
  Amount <- MCAmount
  Date <- MCDate
  MaxTime = 3
INVARIANTS ExpiredRequestIsRefundable
