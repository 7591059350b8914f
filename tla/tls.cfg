SPECIFICATION Spec
CONSTANTS
  Contexts = {"mqtt"}
  Params <- SomeParams
  Length = 3
  MaxFragment = 2
  MaxUses = 1
  MaxLoads = 2
INVARIANTS
  ReleasedOnce
  LeaksKnown
  HandshakeOnRightCertificates
  StreamIntact
