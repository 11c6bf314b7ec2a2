SPECIFICATION ApartSpec
CHECK_DEADLOCK FALSE
CONSTANTS
  hub = hub
  usr = usr
  junk = junk
  m1 = m1
  m2 = m2
  Key <- MCKey
  EcdsaKey <- MCEcdsaKey
  Message <- MCMessage
  NoKey = NoKey
  StartAmount = 7
  Half = 16
  NotANumber = NotANumber
  NotADate = NotADate
  Malformed = Malformed
  ShortSignature = ShortSignature
  Absent = Absent
  Amount <- MCAmount
  Date <- MCDate
  MaxTime = 3
  other = other
  User <- TwoUsers
  Earlier <- OneUser
  Admin = admin
  OrgAdmin = peeradmin
  Kinds <- AllKinds
  None = None
  Text = Text
  MaxRequests = 3
  MaxFaults = 1
INVARIANTS
  TypeOK
  DepositAccounting
  ContextTypeOK
  NotInTheNameOfAnother
PROPERTIES
  OnlyPartiesPay
  PenaltyLowersBalance
  EveryCallerAnswered
