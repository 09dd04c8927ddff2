SPECIFICATION FairSpec
CONSTANTS
  book = book
  blue = blue
  green = green
  Job <- OneJob
  Worker <- TwoWorkers
  Nobody = Nobody
  NoJob = NoJob
  MaxFaults = 3
INVARIANTS
  DeliveryInv
  PassedHasScreenedStory
PROPERTIES
  OutcomesStand
  DeliveredJobsFinish
CHECK_DEADLOCK FALSE
