SPECIFICATION Spec
CONSTANTS
  tablet = tablet
  phone = phone
  Device <- One
  NoDevice = NoDevice
  MaxChoices = 3
  MaxSaves = 5
  MaxTimeouts = 2
  MaxErrors = 1
  MaxDrops = 1
  MaxKills = 0
INVARIANTS
  SyncInv
PROPERTIES
  ProgressIsKept
CHECK_DEADLOCK FALSE
