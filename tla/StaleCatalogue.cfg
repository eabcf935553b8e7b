SPECIFICATION Spec
CONSTANTS
  p1 = p1
  p2 = p2
  j1 = j1
  j2 = j2
  jp = jp
  r1 = r1
  r2 = r2
  r3 = r3
  Plugins = {p1}
  Versions = {1, 2}
  Bundles = {j1, j2, jp}
  Premium = {jp}
  Noted = {}
  Requests = {r1, r2}
  Calls <- StaleCalls
  Shelf <- OneShelved
  Sweeping = FALSE
  FaultKinds = {}
  MaxFaults = 0
  MaxAttempts = 2
  MaxInFlight = 2
  NoBundle = NoBundle
  NoPlugin = NoPlugin
CHECK_DEADLOCK FALSE
INVARIANT CatalogueIsCurrent
