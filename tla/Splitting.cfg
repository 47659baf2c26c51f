SPECIFICATION Spec
CONSTANTS
  Users = {u1}
  LoanContract = LoanContract
  NoAddress = NoAddress
  Deployer = deployer
  OwnerCandidates = {multisig}
  FeeRecipients = {platform}
  FeeChoices = {0, 5000}
  LoanRequests <- HalfRequests
  FundAmounts = {3}
  PayAmounts = {3, 9}
  SplitAmounts = {2}
  MarketAmounts = {}
  MaxLoans = 1
  MaxPositions = 4
  MaxCredited = 9
  MaxTime = 4
  MaxCustody = 0
  MaxPending = 0
SYMMETRY UserSymmetry
INVARIANTS
  PayoutsBounded
CHECK_DEADLOCK FALSE
