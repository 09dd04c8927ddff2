SPECIFICATION MCSpec
CONSTANTS
  Profiles = {"ada", "ben"}
  Books = {"x", "y"}
  Opened = {"x"}
  Slots = {1, 2}
  Scopes <- MCScopes
INVARIANTS
  TypeOK
PROPERTIES
  WithdrawalCompletes
  StaleCopyLeaves
