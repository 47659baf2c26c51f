SPECIFICATION PlatformSpec
CONSTANTS
  Users = {u1}
  LoanContract = LoanContract
  NoAddress = NoAddress
  Deployer = deployer
  OwnerCandidates = {}
  FeeRecipients = {platform}
  FeeChoices = {0}
  LoanRequests <- OneRequest
  FundAmounts = {1}
  PayAmounts = {1}
  SplitAmounts = {}
  MarketAmounts = {1}
  MaxLoans = 2
  MaxPositions = 2
  MaxCredited = 1
  MaxTime = 5
  MaxCustody = 1
  MaxPending = 0
  ScanLimit = 2
  Skews <- ClockSkews
  RefusingLoans <- NewerRefuses
  MaxFaults = 1
INVARIANTS
  SelectionMatchesContract
PROPERTIES
  LoansServed
CHECK_DEADLOCK FALSE
