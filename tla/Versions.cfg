SPECIFICATION Spec
CONSTANTS
  Candidates <- Published
  MaxListed = 3
  IntWidth = 2
INVARIANTS
  OrderIsSemVer
  OrderIsTotal
  LatestIsHighest
