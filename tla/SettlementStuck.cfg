SPECIFICATION FairSpec
CONSTANTS
  PriceScale = 4
  Tickets <- MCTickets
  Signed <- UnevenSigned
  Makers = {"alice", "bob"}
  Books = {"book"}
  Config <- MCConfig
  InitWallet <- MCWallet
  Operators = {"executor"}
  Executor = "executor"
  Scenarios <- QuietScenarios
  MaxAttempts = 2
  BatchLimit = 2
  SweepLimit = 2
  MaxBlocksPerRun = 1
  ConfirmationDepth = 0
  Cancellable = {"maker"}
  Withdrawals <- MCWithdrawals
CHECK_DEADLOCK FALSE
PROPERTIES
  EveryEventApplied
