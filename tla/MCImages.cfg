CONSTANTS
  Order = 13
  Parts = 4
  Side = 2
  Group <- MCGroup
  Scalar <- MCGroup
  Mul <- MCMul
  Inv <- MCInv
  Pow <- MCPow
  One = 0
  public_g = 1
  Image <- SomeImages
  Draw <- SomeVectors
  DrawOne = {0, 1, 5}
  Noise = Noise
  Null = Null
  Byte <- SomeBytes
  InitialCapacity = 2
  Doublings = 2
  MaxCount = 3
  MaxPosition = 9
  NoBuffer = NoBuffer
SPECIFICATION ApartSpec
CHECK_DEADLOCK FALSE
INVARIANTS
  TypeOK
  VerificationMeansKey
  OtherVersionSealed
  WatermarkSpellsKey
  ImageSpellsKey
  StreamTypeOK
  NullByteAtEnd
  Published
PROPERTY ImplementsMemFile
