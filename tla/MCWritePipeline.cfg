SPECIFICATION FairSpec
CONSTANTS
  User = {u1, u2}
  MaxWrites = 3
  kMaxPendingWrites = 2
  MaxFaults = 2
  MaxRestarts = 2
INVARIANTS
  PipelineIsQueuePrefix
  ResponseIsForFront
  
  CallbackIsForItsWrite
  QuietMeansNewest
  TimersHold
PROPERTIES
  QueueDrains
  ImplementsWriteQueue
CHECK_DEADLOCK FALSE
