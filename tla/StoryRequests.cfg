SPECIFICATION MCSpec
CONSTANTS
  ada = ada
  a = a
  b = b
  c = c
  x = x
  y = y
  Nobody = Nobody
  Request <- ThreeRequests
  Child <- Alone
  Delegated <- Alone
  Caller <- TwoCallers
  Quotas = {1, 2}
  Envelope = 1
  MaxPending = 1
  MaxMonth = 2
  MaxJobs = 2
INVARIANTS
  RequestInv
  LimitsHold
PROPERTIES
  DecisionsStand
SYMMETRY RequestSymmetry
CHECK_DEADLOCK FALSE
