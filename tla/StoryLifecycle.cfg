SPECIFICATION Spec
CONSTANTS
  cave = cave
  river = river
  ada = ada
  bob = bob
  Node <- TwoNodes
  Admin <- TwoAdmins
  NoOne = NoOne
  NoReport = NoReport
  Nothing = Nothing
  MaxRevision = 2
SYMMETRY Symmetric
INVARIANTS
  TypeOK
  PublishedAsApproved
  ReportSpeaksOfText
PROPERTIES
  ShelfIsKept
CHECK_DEADLOCK FALSE
