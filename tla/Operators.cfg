SPECIFICATION Spec
CONSTANTS
  a = a
  b = b
  q1 = q1
  q2 = q2
  s1 = s1
  s2 = s2
  o1 = o1
  Replicas = {a, b}
  Slots = {q1, q2}
  Sessions = {s1, s2}
  States = {o1}
  Mixes <- Traffic
  TeamRequired = TRUE
  LockAfter = 2
  LockFor = 2
  StateLife = 1
  SessionLife = 2
  Grace = 0
  MaxNow = 2
  MaxFaults = 1
  MaxRestarts = 1
  Nothing = Nothing
CHECK_DEADLOCK FALSE
SYMMETRY Alike
INVARIANTS
  TypeOK
  StatesPassOnce
  GuessesAreSpaced
PROPERTIES
  LogoutIsFinal
  LiveSessionsPass
  PassesAreEarned
  LockoutIsNotExtended
