---------------------------- MODULE LendingKeeper ---------------------------
(***************************************************************************)
(* The platform's keeper (backend/src/lending/keeper.ts): a process that   *)
(* scans the newest loans of the lending contract and makes the calls open *)
(* to anyone: activate, cancel, settle, default, redeem.  It works on what *)
(* it reads, in several calls, from the contracts, and on its own clock;   *)
(* between two of its steps anyone else may call the contracts.            *)
(*                                                                         *)
(* A batch ends early when something throws: a read that fails after its   *)
(* retries, a call whose gas estimate reverts, or a receipt that does not  *)
(* come in time, and then the transaction is still in flight.  A receipt   *)
(* that says "reverted" does not throw.                                    *)
(***************************************************************************)
EXTENDS LoanPositionToken

CONSTANTS
  ScanLimit,          \* input.scanLimit
  Skews,              \* what the keeper's clock may differ from block.timestamp
  RefusingLoans,      \* loans of a borrower contract that refuses ERC-1155 tokens
  MaxFaults           \* bound: reads that fail and receipts that do not come in time

ASSUME KeeperAssumption ==
  /\ ScanLimit \in Nat \ {0} /\ MaxFaults \in Nat
  /\ Skews \subseteq Int /\ RefusingLoans \subseteq Loans

VARIABLES
  step,          \* where the batch is: idle, loan, collateral, balance, write, wait
  loanId, checkedLoans, nowSeconds,
  view,          \* what getLoanView returned
  action,        \* what the keeper is about to call
  inFlight,      \* calls broadcast and not mined
  faults

batchVars == <<step, loanId, checkedLoans, nowSeconds, view, action>>
keeperVars == <<batchVars, inFlight, faults>>
allVars == <<vars, keeperVars>>

Actions == {"ACTIVATE", "SETTLE_REPAID", "CANCEL_EXPIRED", "MARK_DEFAULTED",
            "REDEEM_DEFAULT_COLLATERAL"}
NoAction == "none"

KeeperInit ==
  /\ Init
  /\ step = "idle" /\ loanId = 0 /\ checkedLoans = 0 /\ nowSeconds = 0
  /\ view = UnsetLoan /\ action = NoAction /\ inFlight = {}
  /\ faults = 0

-----------------------------------------------------------------------------
(* What the keeper decides from a loan it read. *)

NoBalance(l) == balanceOf[Market!NoTokenId(l)][LoanContract]

CancelsAtDeadline(loan, clock) ==     \* slip: >= for >
  loan.state \in {"Funding", "Funded"} /\ clock >= loan.activationDeadline
ShouldCancel(loan, clock) ==
  loan.state \in {"Funding", "Funded"} /\ clock > loan.activationDeadline

ShouldActivate(loan, deposited, clock) ==
  /\ loan.state = "Funded"
  /\ loan.loanWithdrawFreezeDeadline <= clock /\ clock <= loan.activationDeadline
  /\ loan.fundedAmount >= loan.principal
  /\ deposited >= BorrowerCollateralAmount(loan.principal, loan.collateralBps)

PaidInTime(loan) ==
  loan.repaymentSatisfiedAt # 0 /\ loan.repaymentSatisfiedAt <= loan.repaymentDeadline

ShouldSettle(loan) ==
  loan.state = "Active" /\ loan.creditedAmount >= loan.repaymentAmount /\ PaidInTime(loan)

ShouldDefault(loan, clock) ==
  loan.state = "Active" /\ clock > loan.repaymentDeadline /\ ~PaidInTime(loan)

(* At most one of the tests of selectLendingKeeperAction holds of a loan; the  *)
(* redemption is left to a further read, of the NO tokens held.                *)
SelectLendingKeeperAction(loan, deposited, clock) ==
  CASE ShouldActivate(loan, deposited, clock) -> "ACTIVATE"
    [] ShouldCancel(loan, clock) -> "CANCEL_EXPIRED"
    [] ShouldSettle(loan) -> "SETTLE_REPAID"
    [] ShouldDefault(loan, clock) -> "MARK_DEFAULTED"
    [] OTHER -> NoAction

(* writeLoanLifecycleAction: the contract call made for an action. *)
Call(l, a) ==
  \/ a = "ACTIVATE" /\ l \notin RefusingLoans /\ Activate(l)
  \/ a = "SETTLE_REPAID" /\ SettleRepaid(l)
  \/ a = "CANCEL_EXPIRED" /\ CancelExpiredLoan(l)
  \/ a = "MARK_DEFAULTED" /\ MarkDefaulted(l)
  \/ a = "REDEEM_DEFAULT_COLLATERAL" /\ RedeemDefaultCollateral(l)

-----------------------------------------------------------------------------
(* The batch. *)

NoBatch ==
  /\ step' = "idle" /\ loanId' = 0 /\ checkedLoans' = 0 /\ nowSeconds' = 0
  /\ view' = UnsetLoan /\ action' = NoAction

GoOn(next, checked) ==
  IF next > 0 /\ checked < ScanLimit
  THEN /\ step' = "loan" /\ loanId' = next /\ checkedLoans' = checked
       /\ view' = UnsetLoan /\ action' = NoAction /\ UNCHANGED nowSeconds
  ELSE NoBatch

StopAtIdleLoan == NoBatch     \* slip: a loan with nothing to do ends the batch
NextLoan == GoOn(loanId - 1, checkedLoans)

(* startLendingKeeperLoop starts no batch while one is running. *)
StartBatch ==
  /\ step = "idle" /\ nextLoanId > 1
  /\ \E skew \in Skews : nowSeconds' = now + skew
  /\ step' = "loan" /\ loanId' = nextLoanId - 1 /\ checkedLoans' = 0
  /\ UNCHANGED <<vars, view, action, inFlight, faults>>

GetLoanView ==
  /\ step = "loan"
  /\ step' = "collateral" /\ checkedLoans' = checkedLoans + 1
  /\ view' = loans[loanId]
  /\ UNCHANGED <<vars, loanId, nowSeconds, action, inFlight, faults>>

(* The collateral is read from the other contract, a call later. *)
GetCollateralAndSelect ==
  LET selected == SelectLendingKeeperAction(view, borrowerCollateralDeposited[loanId], nowSeconds)
  IN
  /\ step = "collateral"
  /\ \/ /\ selected # NoAction
        /\ step' = "write" /\ action' = selected /\ view' = UnsetLoan
        /\ UNCHANGED <<loanId, checkedLoans, nowSeconds>>
     \/ /\ selected = NoAction /\ view.state = "Defaulted" /\ outcomeTokenSet
        /\ step' = "balance" /\ view' = UnsetLoan
        /\ UNCHANGED <<loanId, checkedLoans, nowSeconds, action>>
     \/ /\ selected = NoAction /\ (view.state # "Defaulted" \/ ~outcomeTokenSet)
        /\ NextLoan
  /\ UNCHANGED <<vars, inFlight, faults>>

GetNoBalance ==
  /\ step = "balance"
  /\ \/ /\ NoBalance(loanId) > 0
        /\ step' = "write" /\ action' = "REDEEM_DEFAULT_COLLATERAL"
        /\ UNCHANGED <<loanId, checkedLoans, nowSeconds, view>>
     \/ NoBalance(loanId) = 0 /\ NextLoan
  /\ UNCHANGED <<vars, inFlight, faults>>

ReadFails ==
  /\ step \in {"loan", "collateral", "balance"} /\ faults < MaxFaults
  /\ faults' = faults + 1
  /\ NoBatch
  /\ UNCHANGED <<vars, inFlight>>

(* writeContract estimates the gas of the call first, and throws if it reverts. *)
WriteAction ==
  /\ step = "write"
  /\ \/ /\ ENABLED Call(loanId, action)
        /\ step' = "wait" /\ inFlight' = inFlight \cup {<<loanId, action>>}
        /\ UNCHANGED <<loanId, checkedLoans, nowSeconds, view, action>>
     \/ /\ ~ENABLED Call(loanId, action)
        /\ NoBatch /\ UNCHANGED inFlight
  /\ UNCHANGED <<vars, faults>>

ReceiptTimesOut ==
  /\ step = "wait" /\ <<loanId, action>> \in inFlight /\ faults < MaxFaults
  /\ faults' = faults + 1
  /\ NoBatch
  /\ UNCHANGED <<vars, inFlight>>

(* waitForTransactionReceipt returns once the transaction is mined, whether it *)
(* succeeded or reverted.                                                      *)
GetReceipt ==
  /\ step = "wait" /\ <<loanId, action>> \notin inFlight
  /\ NextLoan
  /\ UNCHANGED <<vars, inFlight, faults>>

KeeperNext ==
  \/ StartBatch \/ GetLoanView \/ GetCollateralAndSelect \/ GetNoBalance
  \/ ReadFails \/ WriteAction \/ ReceiptTimesOut \/ GetReceipt

-----------------------------------------------------------------------------
(* The chain. *)

Mine(l, a) ==
  /\ <<l, a>> \in inFlight
  /\ inFlight' = inFlight \ {<<l, a>>}
  /\ Call(l, a) \/ (~ENABLED Call(l, a) /\ UNCHANGED vars)
  /\ UNCHANGED <<batchVars, faults>>

OthersCall ==
  /\ \/ \E l \in Loans, a \in Actions : Call(l, a)
     \/ MarketUserStep \/ LoanNext
     \/ SetOutcomeToken(Deployer)
     \/ \E p \in PositionIds, u \in Users : ClaimFundingPrincipal(p, u)
  /\ UNCHANGED keeperVars

TimePasses == Tick /\ UNCHANGED keeperVars

PlatformNext ==
  KeeperNext \/ (\E l \in Loans, a \in Actions : Mine(l, a)) \/ OthersCall \/ TimePasses

(* The process runs, transactions are mined and time passes.  Nothing is asked *)
(* of the users, nor of anyone else who may make the keeper's calls.           *)
PlatformSpec ==
  /\ KeeperInit /\ [][PlatformNext]_allVars
  /\ WF_keeperVars(KeeperNext)
  /\ WF_inFlight(\E l \in Loans, a \in Actions : Mine(l, a))
  /\ WF_now(TimePasses)

-----------------------------------------------------------------------------
(* The keeper and the contract, written in two languages, have the same idea   *)
(* of when a loan is to be activated, cancelled, settled or defaulted: of what *)
(* is true now, at the time of the block, the keeper selects a call that the   *)
(* contract accepts, and selects one whenever the contract accepts one.  (Of   *)
(* a loan cancelled before it was created nothing can be selected: the scan    *)
(* ends at nextLoanId - 1.)                                                    *)
SelectionMatchesContract ==
  \A l \in 1 .. nextLoanId - 1 :
    LET selected == SelectLendingKeeperAction(loans[l], borrowerCollateralDeposited[l], now)
    IN  \A a \in Actions \ {"REDEEM_DEFAULT_COLLATERAL"} :
          (a = "ACTIVATE" => l \notin RefusingLoans) =>
            (selected = a <=> ENABLED Call(l, a))

(* Every loan within the scan limit comes to an end, and the NO tokens of a    *)
(* defaulted one are redeemed, with nobody but the keeper making the calls:    *)
(* in spite of views that are stale when used, a clock that differs from the   *)
(* chain's, reads that fail, receipts that do not come, transactions of others *)
(* that come first, and a newer loan that stops every batch for a while.       *)
LoansServed ==
  \A l \in Loans :
    /\ Created(l) ~> loans[l].state \in {"Cancelled", "Repaid", "Defaulted"}
    /\ loans[l].state = "Defaulted" /\ NoBalance(l) > 0 ~> NoBalance(l) = 0

=============================================================================
