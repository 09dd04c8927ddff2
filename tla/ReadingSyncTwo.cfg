SPECIFICATION Spec
CONSTANTS
  tablet = tablet
  phone = phone
  Device <- Both
  NoDevice = NoDevice
  MaxChoices = 2
  MaxSaves = 4
  MaxTimeouts = 0
  MaxErrors = 0
  MaxDrops = 1
  MaxKills = 0
PROPERTIES
  ProgressIsKept
SYMMETRY DeviceSymmetry
CHECK_DEADLOCK FALSE
