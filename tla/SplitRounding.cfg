SPECIFICATION Spec
CONSTANTS
  Users = {u1}
  LoanContract = LoanContract
  NoAddress = NoAddress
  Deployer = deployer
  OwnerCandidates = {}
  FeeRecipients = {platform}
  FeeChoices = {5000}
  LoanRequests <- HalfRequests
  FundAmounts = {3}
  PayAmounts = {3}
  SplitAmounts = {1, 2}
  MarketAmounts = {}
  MaxLoans = 1
  MaxPositions = 4
  MaxCredited = 6
  MaxTime = 4
  MaxCustody = 0
  MaxPending = 0
PROPERTY SplitKeepsClaimable
CHECK_DEADLOCK FALSE
