SPECIFICATION Spec
CONSTANTS
  skeleton = skeleton
  echo = echo
  good = good
  other = other
  thin = thin
  broken = broken
  worse = worse
  NoDoc = NoDoc
  Doc <- Documents
  Skeleton = skeleton
  Echoes = {echo}
  Blocking <- Broken
  Flagged = {}
  Thin = {thin}
  MaxRepairs = 3
  MaxPasses = 2
  Batches = 3
  MaxRetries = 1
INVARIANTS
  TypeOK
  KeptIsCleared
  PassedIsEarned
  SkeletonIsNoBook
  CleanIsKept
  SpendIsBounded
CHECK_DEADLOCK FALSE
