SPECIFICATION Spec
CONSTANTS
  Markets = {m1}
  Users = {u1, u2}
  LoanContract = LoanContract
  NoAddress = NoAddress
  Amounts = {1, 2}
  Collaterals = {0, 1, 2}
  MaxCustody = 4
  MaxPending = 2
SYMMETRY AccountSymmetry
INVARIANTS
  TypeOK
  CustodyCoversClaims
  PairsBacked
  MintedWithinDeposit
  CollateralWithinRequirement
PROPERTY ResolutionFinal
CHECK_DEADLOCK FALSE
