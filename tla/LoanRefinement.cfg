SPECIFICATION FairSpec
CONSTANTS
  Users = {u1}
  LoanContract = LoanContract
  NoAddress = NoAddress
  Deployer = deployer
  OwnerCandidates = {}
  FeeRecipients = {platform}
  FeeChoices = {5000}
  LoanRequests <- UnitRequests
  FundAmounts = {2}
  PayAmounts = {1}
  SplitAmounts = {}
  MarketAmounts = {1}
  MaxLoans = 2
  MaxPositions = 2
  MaxCredited = 2
  MaxTime = 4
  MaxCustody = 2
  MaxPending = 0
INVARIANTS
  MarketsCovered
PROPERTIES
  ImplementsLifecycle
  EveryLoanEnds
  CollateralReachesLenders
CHECK_DEADLOCK FALSE
