SPECIFICATION FairSpec
CONSTANTS
  Clients <- TwoClients
  Boot = "OPTIGA"
  Uses <- SomeUses
  Curves <- SomeCurves
  Moduli <- SomeModuli
  Certificates <- SomeCertificates
  Instances = 2
INVARIANTS
  InstancesReturned
  SuccessMeansExecuted
  KeyHeadersAreDer
  PemComplete
  GeneratedKeyRead
PROPERTIES
  ChipProgress
