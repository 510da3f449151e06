SPECIFICATION FairSpec
CONSTANTS
  Target = {list, pool}
  kMaxWatchStreamFailures = 1
  MaxListens = 2
  MaxVersion = 2
  MaxFaults = 1
  MaxRestarts = 1
INVARIANTS
  OutstandingIsExact
  TokenIsHonest
  TimersHold
PROPERTIES
  VersionsMoveForward
  WatchConverges
CHECK_DEADLOCK FALSE
