SPECIFICATION Spec
CONSTANTS
  cave = cave
  river = river
  ada = ada
  bob = bob
  Node <- TwoNodes
  Admin <- OneAdmin
  NoOne = NoOne
  NoReport = NoReport
  Nothing = Nothing
  MaxRevision = 1
SYMMETRY Symmetric
PROPERTIES
  CleanApprovalIsReviewed
CHECK_DEADLOCK FALSE
