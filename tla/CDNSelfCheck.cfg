SPECIFICATION FairSpec
CONSTANTS
  InitialBackoff = 1
  MaxBackoff = 4
  Deadline = 20
  ProbeTime = 2
  Reachable = {"replica", "older", "rekeyed", "elsewhere", "overloaded",
               "unreachable"}
  MisconfiguredAfter = 3
INVARIANTS
  TypeOK
  StatusFollowsAnswers
PROPERTIES
  UpdatesAreNotMisconfigurations
  StartupEnds
  StatusConverges
