CONSTANTS
  usr = usr
  m = m
  d1 = d1
  d2 = d2
  p1 = p1
  Key <- MCKey
  EcdsaKey <- MCKey
  Message <- MCMessage
  NoKey = NoKey
  StartAmount = 3
  Half = 4
  NotANumber = NotANumber
  NotADate = NotADate
  Malformed = Malformed
  ShortSignature = ShortSignature
  Absent = Absent
  Amount <- SomeAmounts
  Date <- OneDate
  MaxTime = 2
  Download <- TwoDownloads
  Penalize <- OnePenalize
  MaxStarts = 2
  Null = Null
  e1 = e1
  e2 = e2
  Entity <- TheEntities
  Picks <- EntitiesAndPlaceholder
  Placeholder = Placeholder
  MaxClicks = 3
  Together = 2
  MaxHeight = 3
  MaxFailures = 1
SPECIFICATION ApartSpec
CHECK_DEADLOCK FALSE
INVARIANTS
  ClientsTypeOK
  TransferNeedsRequest
  OneServedPerStart
  SubmittedAsShown
  RefreshListsAll
PROPERTY EveryDownloadAnswered
