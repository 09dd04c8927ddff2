SPECIFICATION ReadingSpec
CONSTANTS
  MaxSafeInt = 100
  ConfigCap = 16
  MaxEntryStates = 4
  Canonical <- SmallMight
  Library <- SmallLibrary
  MaxPath = 4
  MaxBookmarks = 1
INVARIANTS
  ReadingInv
  ReaderCanFinish
  ContinuationIsWinnable
  SavesAreAccepted
  EnginesAgree
CHECK_DEADLOCK FALSE
