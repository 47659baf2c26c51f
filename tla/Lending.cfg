SPECIFICATION Spec
CONSTANTS
  Users = {u1, u2}
  LoanContract = LoanContract
  NoAddress = NoAddress
  Deployer = deployer
  OwnerCandidates = {}
  FeeRecipients = {platform, treasury}
  FeeChoices = {5000}
  LoanRequests <- SmallRequests
  FundAmounts = {1, 2}
  PayAmounts = {1, 2}
  SplitAmounts = {1}
  MarketAmounts = {1}
  MaxLoans = 1
  MaxPositions = 3
  MaxCredited = 4
  MaxTime = 5
  MaxCustody = 1
  MaxPending = 0
SYMMETRY UserSymmetry
INVARIANTS
  TypeOK
  UsdcAccounted
  FundingLedger
  LoanMarketAgree
  SettledByDeadline
  CollateralBehindLenders
PROPERTIES
  EntitlementsNeverShrink
CHECK_DEADLOCK FALSE
