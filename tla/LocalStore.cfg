SPECIFICATION FairSpec
CONSTANTS
  c1 = c1
  c2 = c2
  j1 = j1
  j2 = j2
  jar = jar
  t1 = t1
  t2 = t2
  t3 = t3
  Customers = {c1, c2}
  Keys = {t1, t2, t3}
  Instants = {0}
  NoEntitlement = NoEntitlement
  NoDocument = NoDocument
  Threads = {t1, t2, t3}
  Updates <- LicenceCalls
  Mixes <- Traffic
  Artifacts = {jar}
  Jars = {j1, j2}
  Works <- ArtifactCalls
  MaxAttempts = 2
  MaxCrashes = 1
  FaultKinds = {"failed", "ignored"}
  MaxFaults = 1
  Absent = Absent
  NoGen = NoGen
  Torn = Torn
CHECK_DEADLOCK FALSE
INVARIANTS
  TypeOK
  PutIsKept
  AbsentIsWritable
  BrokenByInterruptedWrite
PROPERTIES
  UpdatesAreAtomic
  RevokedKeysStayRevoked
  CallsReturn
