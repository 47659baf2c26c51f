SPECIFICATION FairSpec
CONSTANTS
  PriceScale = 4
  Tickets <- MCTickets
  Signed <- MCSigned
  Makers = {"alice", "bob"}
  Books = {"book"}
  Config <- MCConfig
  InitWallet <- MCWallet
  Operators = {"executor"}
  Executor = "executor"
  Scenarios <- MCScenarios
  MaxAttempts = 2
  BatchLimit = 2
  SweepLimit = 2
  MaxBlocksPerRun = 1
  ConfirmationDepth = 0
  Cancellable = {"maker"}
  Withdrawals <- MCWithdrawals
CHECK_DEADLOCK FALSE
INVARIANTS
  TypeOK
  ConfirmedIsProcessed
  NoEventSkipped
  AttemptsBounded
  MakersPaidTheirPrice
  AmountsFollowTrades
  ReservationsCoverTrades
PROPERTIES
  ConfirmedStays
  TradesEnd
