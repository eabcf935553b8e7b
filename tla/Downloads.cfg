SPECIFICATION DownloadsSpec
CONSTANTS
  p1 = p1
  j1 = j1
  j2 = j2
  jp = jp
  r1 = r1
  r2 = r2
  k1 = k1
  k2 = k2
  c1 = c1
  x1 = x1
  Plugins = {p1}
  Versions = {1, 2}
  Bundles = {j1, j2, jp}
  Premium = {jp}
  Noted = {}
  Requests = {r1, r2}
  Calls <- OperatorCalls
  Shelf <- PremiumShelved
  Sweeping = FALSE
  FaultKinds = {"lost", "unread"}
  MaxFaults = 2
  MaxAttempts = 1
  MaxInFlight = 1
  NoBundle = NoBundle
  NoPlugin = NoPlugin
  Customers = {c1}
  Keys = {k1, k2}
  Instants = {0, 1, 2}
  NoEntitlement = NoEntitlement
  NoDocument = NoDocument
  Readers = {x1}
  Asks <- Reads
  Tokens <- Bearers
  NoToken = NoToken
  FirstKey = k1
  FirstUntil = 0
  LicenceCalls <- LicenceChanges
  TTL = 0
  MaxNow = 1
SYMMETRY Slots
CHECK_DEADLOCK FALSE
INVARIANTS
  ShutVersionsStayShut
  PremiumIsServedOnLicence
  FailedReadsMetARemoval
  HandedOutExists
  DigestIsTheJars
