SPECIFICATION FairSpec
CONSTANTS
  tablet = tablet
  phone = phone
  Device <- One
  NoDevice = NoDevice
  MaxChoices = 2
  MaxSaves = 3
  MaxTimeouts = 1
  MaxErrors = 1
  MaxDrops = 1
  MaxKills = 1
INVARIANTS
  SavesLandInOrder
PROPERTIES
  QueuedWritesAreSettled
  QueueDrains
CHECK_DEADLOCK FALSE
