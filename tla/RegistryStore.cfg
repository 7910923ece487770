CONSTANTS
  h1 = h1
  h2 = h2
  NoOne = NoOne
  Handlers <- MCHandlers
  Apps = {"shop", "Bad"}
  Services = {"web", "api"}
  ValidNames = {"shop", "web", "api"}
  Requested <- MCRequested
SPECIFICATION FairSpec
INVARIANTS
  MemoryIsDisk
  NeverTorn
  NoAppWithoutServices
PROPERTIES
  ImplementsRegistry
  EveryRequestAnswered
