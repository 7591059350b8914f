SPECIFICATION Spec
CONSTANTS
  Keys <- SomeKeys
  PartSets <- SomeParts
  Primes = {23, 29, 31}
  Exponents = {1, 3, 7}
  KeySizes = {4, 7, 10}
  Paddings <- SomePaddings
  Inputs = {5, 34, 35}
  ExclusiveOr <- BitXor
  Randoms = {2, 7}
  Salts <- SomeSalts
  Messages <- SomeMessages
  Digests <- SomeDigests
  BitsPerByte = 2
  HashLen = 2
  Hash <- Mix
  Trailer = 2
  MinKeyBits = 6
  MinBlock = 4
  MaxLen = 7
  CloseBits = 2
  MaxPrivate = 2
  MaxImports = 2
INVARIANTS
  GenKeyRight
  AcceptedKeyWorks
  BlindingConsistent
  PrivateSound
  PaddingRoundTrip
  PaddingExact
PROPERTIES
  CompleteRight
