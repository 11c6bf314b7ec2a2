SPECIFICATION MCSpec
CONSTANTS
  s1 = s1
  s2 = s2
  Q = 11
  Group <- MCGroup
  Scalar <- MCGroup
  Mul <- MCMul
  Inv <- MCInv
  Pow <- MCPow
  One = 0
  Rows = 4
  PartSize = 2
  SecretKey <- SomeKeys
  Null = Null
  Garbage = Garbage
  Torn = Torn
  Session <- TwoSessions
  Generator = {1}
  Draw <- SomeVectors
  DrawOne = {0, 2}
  Points <- SomePoints
  Backlog = 1
INVARIANTS TypeOK ChosenCiphertextsOpen OtherVersionSealed ChoiceBlinded
PROPERTIES ImplementsDelivery ServiceEnds
