SPECIFICATION FairSpec
CONSTANTS
  Contexts = {"optiga_0", "optiga_1"}
  None = "none"
  Users = {"optiga_cmd", "ifx_i2c"}
  Timers = {1, 2}
  QueueLength = 1
  Tasks = {"mqtt", "optiga", "timer"}
  Stores = {"shared_secret", "manage_context", "hibernate_context", "unknown"}
  Contents <- SomeContents
  SecretMax = 64
  APP_CONTEXT_SIZE = 16
  Layouts <- SomeLayouts
INVARIANTS
  BusHeldByOne
  CalledAsRegistered
  LockExclusive
  DatastoreRoundTrip
PROPERTIES
  ImplementsBusService
  PalProgress
