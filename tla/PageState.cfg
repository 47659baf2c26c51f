SPECIFICATION PageSpec
CONSTANTS
  Books = {YES, NO}
  Wallets = {w1}
  None = None
  MaxLoans = 1
  SyncLimit = 1
  MaxChanges = 2
  MaxRequests = 2
INVARIANTS
  PageShowsSelection
PROPERTIES
  EverythingShown
CHECK_DEADLOCK FALSE
