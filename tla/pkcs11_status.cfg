SPECIFICATION Spec
CONSTANTS
  Callers <- TwoCallers
  Uses <- SignAndRandom
  pkcs11configMAX_NUM_OBJECTS = 3
  PKCS11_OPTIGA_WAIT_COUNTER_MAX = 1
  KeyAlgorithm = "EC"
  MAX_ORPHANS = 2
  Sign = 4
  Lengths = {2, 3}
  Strings <- SomeStrings
  Befores <- SomeBefores
  Algorithms <- SomeAlgorithms
  Afters <- SomeAfters
  Leftovers <- SomeLeftovers
INVARIANTS
  AnswersRead
  MutexHeldExactly
  SuccessIsGenuine
PROPERTY
  DisturbedOnlyBy
