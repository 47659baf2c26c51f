SPECIFICATION Spec
CONSTANTS
  PriceScale = 4
  Tickets = {"ask1", "ask2", "ask3", "bid", "odd", "large", "closed", "loanless"}
  Signed <- MCSigned
  Makers = {"seller", "buyer"}
  Books = {"book", "paused", "alone"}
  LoanBooks = {"book", "paused"}
  Config <- MCConfig
  InitMarkets <- MCInitMarkets
  MarketChanges <- MCMarketChanges
  InitWallet <- MCWallet
  Submitters = {p1, p2}
  SweepLimit = 2
  PageLimit = 2
  Scanned <- MCScanned
  KeyRank <- MCRank
  TimeInForce <- MCTimeInForce
  Cancellable = {"ask2"}
  Withdrawals <- MCWithdrawals
  MaxNow = 1
  MaxSequence = 3
SYMMETRY SubmitterSymmetry
INVARIANTS
  TypeOK
  LedgerBalances
  TicketAgreesWithAdmission
PROPERTIES
  AdmissionSerialized
  MatchesHonourBook
  ReconciliationKeepsPriority
CHECK_DEADLOCK FALSE
