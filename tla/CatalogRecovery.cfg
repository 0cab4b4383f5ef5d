SPECIFICATION CatalogSpec
CONSTANTS
  Accounts = {p1}
  MaxVersions = 1
CHECK_DEADLOCK FALSE
INVARIANT RecoveryHidesNoModels
