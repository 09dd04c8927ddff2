SPECIFICATION Spec
CONSTANTS
  ann = ann
  bob = bob
  x = x
  y = y
  Adult <- Parents
  Nobody = Nobody
  Call <- TwoCalls
  TestEvidence = TRUE
  OpenWindow = 1
  Hour = 0
  HourlyCap = 1
  MaxAttempts = 2
  MaxProfiles = 1
  MaxTime = 2
INVARIANTS
  ConsentInv
  MailIsLimited
  AnswersAreKept
  StartsGoThrough
PROPERTIES
  RecordsStand
  ProfilesNeedAParent
SYMMETRY ConsentSymmetry
CHECK_DEADLOCK FALSE
