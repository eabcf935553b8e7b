SPECIFICATION RecordedSpec
CONSTANTS
  p1 = p1
  p2 = p2
  j1 = j1
  j2 = j2
  jp = jp
  r1 = r1
  r2 = r2
  r3 = r3
  Plugins = {p1}
  Versions = {1, 2}
  Bundles = {j1, j2, jp}
  Premium = {jp}
  Noted = {jp}
  Requests = {r1, r2, r3}
  Calls <- ConcurrentCalls
  Shelf <- OneShelved
  Sweeping = FALSE
  FaultKinds = {"lost", "late", "refused", "dropped"}
  MaxFaults = 1
  MaxAttempts = 2
  MaxInFlight = 3
  NoBundle = NoBundle
  NoPlugin = NoPlugin
SYMMETRY Slots
CHECK_DEADLOCK FALSE
INVARIANTS
  TypeOK
  LatestFollowsLists
  AnsweredIsDurable
  ListedIsComplete
  IndexNamesListed
PROPERTIES
  HistoryGrows
  PluginStatesAreAtomic
  PublishedIsImmutable
