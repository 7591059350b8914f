SPECIFICATION FairSpec
CONSTANTS
  Callers <- TwoCallers
  Uses <- FindAndRead
  pkcs11configMAX_NUM_OBJECTS = 3
  PKCS11_OPTIGA_WAIT_COUNTER_MAX = 2
  KeyAlgorithm = "EC"
  MAX_ORPHANS = 1
INVARIANTS
  ListedOnce
  HandleNamesObject
PROPERTIES
  EveryCallReturns
  ImplementsTokenService
