SPECIFICATION FairSpec
CONSTANT Catalogue <- MCCatalogue
INVARIANTS
  NoGoroutineLeft
  FallbacksServe
  Completed
  ErrorsKept
PROPERTY KeepsContract
