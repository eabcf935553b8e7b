SPECIFICATION Spec
CONSTANTS
  p1 = p1
  p2 = p2
  j1 = j1
  j2 = j2
  jp = jp
  r1 = r1
  r2 = r2
  r3 = r3
  Plugins = {p1, p2}
  Versions = {1, 2}
  Bundles = {j1, j2, jp}
  Premium = {jp}
  Noted = {jp}
  Requests = {r1, r2, r3}
  Calls <- SerialCalls
  Shelf <- OneShelved
  Sweeping = TRUE
  FaultKinds = {"lost", "late", "missed"}
  MaxFaults = 2
  MaxAttempts = 2
  MaxInFlight = 1
  NoBundle = NoBundle
  NoPlugin = NoPlugin
SYMMETRY Slots
INVARIANTS
  CatalogueIsCurrent
PROPERTIES
  IndexWritesAreExact
