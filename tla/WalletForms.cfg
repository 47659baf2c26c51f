SPECIFICATION FormsSpec
CONSTANTS
  Users = {me, other}
  LoanContract = LoanContract
  NoAddress = NoAddress
  Deployer = deployer
  OwnerCandidates = {}
  FeeRecipients = {platform}
  FeeChoices = {0}
  LoanRequests <- OneRequest
  FundAmounts = {1}
  PayAmounts = {1}
  SplitAmounts = {}
  MarketAmounts = {1}
  MaxLoans = 1
  MaxPositions = 1
  MaxCredited = 2
  MaxTime = 4
  MaxCustody = 2
  MaxPending = 1
  Wallet = me
  FormAmounts = {1, 2}
  InitAllowances = {2}
  MaxSends = 1
INVARIANTS
  EnabledButtonsSucceed
  NothingWithheld
CHECK_DEADLOCK FALSE
