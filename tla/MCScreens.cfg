SPECIFICATION FairSpec
CONSTANTS
  status <- OpenFullOpen
  MaxListens = 4
  MaxRecords = 1
INVARIANTS
  OnlyTopListens
  VisibleRecordsAreNewest
PROPERTIES
  HiddenScreensAreStill
  ListenerCatchesUp
CHECK_DEADLOCK FALSE
