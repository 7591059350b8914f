SPECIFICATION Spec
CONSTANTS
  Callers <- OneCaller
  Uses <- TlsAlone
  pkcs11configMAX_NUM_OBJECTS = 3
  PKCS11_OPTIGA_WAIT_COUNTER_MAX = 2
  KeyAlgorithm = "EC"
  MAX_ORPHANS = 1
INVARIANT
  OnlyPrivateKeySigns
