SPECIFICATION FairSpec
CONSTANTS
  tablet = tablet
  timer = timer
  leave = leave
  Device <- OneDevice
  Flusher <- TwoFlushers
  MaxTicks = 2
  MaxFlushes = 2
  MaxFaults = 1
INVARIANTS
  BucketInv
  RetryIsBankedOnce
PROPERTIES
  UnsyncedIsFlushed
CHECK_DEADLOCK FALSE
